----------------------------- MODULE Library_proofs -------------------------
(***************************************************************************)
(* The safety of the library's parts with books to keep (runAsync, the     *)
(* HTTP server, a child process, the cookie jar, the HTTP client, the      *)
(* configuration and the S3 upload), and of those that carry bytes (the    *)
(* servers' proxy threads, tcpPipe, a shared connection, the encrypted     *)
(* connection and the console).                                            *)
(*                                                                         *)
(* Each part has an inductive invariant: its types, the properties to      *)
(* prove, and what they rest on, said before it.  It is shown to hold at   *)
(* the beginning and to be kept by every step of the part, and so it holds *)
(* in every behaviour of the library, which takes steps of one part only.  *)
(***************************************************************************)
EXTENDS Library, SequenceTheorems, FiniteSetTheorems, TLAPS

-----------------------------------------------------------------------------
(* runAsync.  A concatenation has no repetition, or is in order, when its parts *)
(* are and go together; what moves from one part to the next keeps that.        *)

LEMMA AsLimits == {AsyncCalls, MaxChunks} \subseteq Nat
BY BoundsAreCounts

AsOrdered(s) ==
  \A i, j \in DOMAIN s : i < j /\ s[i][1] = s[j][1] => s[i][2] < s[j][2]
AsBefore(E, F) == \A x \in E, y \in F : x[1] = y[1] => x[2] < y[2]

LEMMA AsConcat ==
  ASSUME NEW S, NEW a \in Seq(S), NEW b \in Seq(S)
  PROVE  /\ a \o b \in Seq(S)
         /\ As!Elements(a \o b) = As!Elements(a) \cup As!Elements(b)
         /\ As!Injective(a \o b) <=>
              As!Injective(a) /\ As!Injective(b) /\ As!Elements(a) \cap As!Elements(b) = {}
         /\ AsOrdered(a \o b) <=>
              AsOrdered(a) /\ AsOrdered(b) /\ AsBefore(As!Elements(a), As!Elements(b))
<1> DEFINE ab == a \o b
           m == Len(a)
           n == Len(b)
<1>0. /\ m \in Nat /\ n \in Nat /\ DOMAIN a = 1 .. m /\ DOMAIN b = 1 .. n
      /\ ab \in Seq(S) /\ DOMAIN ab = 1 .. (m + n)
  BY ConcatProperties, LenProperties
<1>1. \A i \in 1 .. m : i \in DOMAIN ab /\ ab[i] = a[i]
  BY <1>0, ConcatProperties
<1>2. \A i \in 1 .. n : m + i \in DOMAIN ab /\ ab[m + i] = b[i]
  BY <1>0, ConcatProperties
<1>3. \A k \in DOMAIN ab : \/ k \in 1 .. m
                           \/ k - m \in 1 .. n /\ k = m + (k - m)
  BY <1>0
<1> HIDE DEF ab, m, n
<1>4. As!Elements(ab) = As!Elements(a) \cup As!Elements(b)
  <2>1. As!Elements(ab) \subseteq As!Elements(a) \cup As!Elements(b)
    BY <1>0, <1>1, <1>2, <1>3 DEF As!Elements
  <2>2. As!Elements(a) \subseteq As!Elements(ab)
    BY <1>0, <1>1 DEF As!Elements
  <2>3. As!Elements(b) \subseteq As!Elements(ab)
    BY <1>0, <1>2 DEF As!Elements
  <2> QED BY <2>1, <2>2, <2>3
<1>5. ASSUME As!Injective(ab) PROVE As!Injective(a) /\ As!Injective(b) /\ As!Elements(a) \cap As!Elements(b) = {}
  <2>1. As!Injective(a)
    BY <1>0, <1>1, <1>5 DEF As!Injective
  <2>2. As!Injective(b)
    BY <1>0, <1>2, <1>5 DEF As!Injective
  <2>3. ASSUME NEW i \in 1 .. m, NEW j \in 1 .. n PROVE a[i] # b[j]
    <3>1. i \in DOMAIN ab /\ m + j \in DOMAIN ab /\ i # m + j
      BY <1>0
    <3>2. ab[i] # ab[m + j]
      BY <1>5, <3>1, Zenon DEF As!Injective
    <3> QED BY <1>1, <1>2, <3>2
  <2> QED BY <1>0, <2>1, <2>2, <2>3 DEF As!Elements
<1>6. ASSUME As!Injective(a), As!Injective(b), As!Elements(a) \cap As!Elements(b) = {} PROVE As!Injective(ab)
  <2>1. \A i \in 1 .. m, j \in 1 .. n : a[i] # b[j]
    BY <1>0, <1>6 DEF As!Elements
  <2> SUFFICES ASSUME NEW i \in DOMAIN ab, NEW j \in DOMAIN ab, ab[i] = ab[j] PROVE i = j
    BY DEF As!Injective
  <2>2. CASE i \in 1 .. m /\ j \in 1 .. m
    BY <1>0, <1>1, <1>6, <2>2 DEF As!Injective
  <2>3. CASE i - m \in 1 .. n /\ j - m \in 1 .. n
    <3>1. ab[i] = b[i - m] /\ ab[j] = b[j - m]
      BY <1>2, <1>3, <2>3, <1>0
    <3>2. i - m = j - m
      BY <1>0, <1>6, <2>3, <3>1, Zenon DEF As!Injective
    <3> QED BY <1>0, <3>2
  <2>4. CASE i \in 1 .. m /\ j - m \in 1 .. n
    BY <1>0, <1>1, <1>2, <2>1, <2>4
  <2>5. CASE j \in 1 .. m /\ i - m \in 1 .. n
    BY <1>0, <1>1, <1>2, <2>1, <2>5
  <2> QED BY <1>3, <2>2, <2>3, <2>4, <2>5
<1>7. ASSUME AsOrdered(ab)
      PROVE  AsOrdered(a) /\ AsOrdered(b) /\ AsBefore(As!Elements(a), As!Elements(b))
  <2>1. AsOrdered(a)
    BY <1>0, <1>1, <1>7 DEF AsOrdered
  <2>2. AsOrdered(b)
    <3> SUFFICES ASSUME NEW i \in 1 .. n, NEW j \in 1 .. n, i < j, b[i][1] = b[j][1]
                 PROVE  b[i][2] < b[j][2]
      BY <1>0 DEF AsOrdered
    <3>1. m + i \in DOMAIN ab /\ m + j \in DOMAIN ab /\ m + i < m + j
      BY <1>0
    <3>2. ab[m + i] = b[i] /\ ab[m + j] = b[j]
      BY <1>2
    <3>3. ab[m + i][1] = ab[m + j][1] => ab[m + i][2] < ab[m + j][2]
      BY <1>7, <3>1, Zenon DEF AsOrdered
    <3> QED BY <3>2, <3>3
  <2>3. ASSUME NEW i \in 1 .. m, NEW j \in 1 .. n, a[i][1] = b[j][1]
        PROVE  a[i][2] < b[j][2]
    <3>1. i \in DOMAIN ab /\ m + j \in DOMAIN ab /\ i < m + j
      BY <1>0
    <3>2. ab[i] = a[i] /\ ab[m + j] = b[j]
      BY <1>1, <1>2
    <3>3. ab[i][1] = ab[m + j][1] => ab[i][2] < ab[m + j][2]
      BY <1>7, <3>1, Zenon DEF AsOrdered
    <3> QED BY <2>3, <3>2, <3>3
  <2> QED BY <1>0, <2>1, <2>2, <2>3 DEF As!Elements, AsBefore
<1>8. ASSUME AsOrdered(a), AsOrdered(b), AsBefore(As!Elements(a), As!Elements(b)) PROVE AsOrdered(ab)
  <2>1. \A i \in 1 .. m, j \in 1 .. n : a[i][1] = b[j][1] => a[i][2] < b[j][2]
    BY <1>0, <1>8 DEF As!Elements, AsBefore
  <2> SUFFICES ASSUME NEW i \in DOMAIN ab, NEW j \in DOMAIN ab, i < j, ab[i][1] = ab[j][1]
               PROVE  ab[i][2] < ab[j][2]
    BY DEF AsOrdered
  <2>2. CASE i \in 1 .. m /\ j \in 1 .. m
    BY <1>0, <1>1, <1>8, <2>2 DEF AsOrdered
  <2>3. CASE i - m \in 1 .. n /\ j - m \in 1 .. n
    <3>1. ab[i] = b[i - m] /\ ab[j] = b[j - m] /\ i - m < j - m
      BY <1>2, <1>3, <2>3, <1>0
    <3> QED BY <1>0, <1>8, <2>3, <3>1 DEF AsOrdered
  <2>4. CASE i \in 1 .. m /\ j - m \in 1 .. n
    <3>1. ab[i] = a[i] /\ ab[j] = b[j - m]
      BY <1>1, <1>2, <1>3, <2>4, <1>0
    <3> QED BY <2>1, <2>4, <3>1
  <2>5. ~(j \in 1 .. m /\ i - m \in 1 .. n)
    BY <1>0
  <2> QED BY <1>3, <2>2, <2>3, <2>4, <2>5
<1> QED BY <1>0, <1>4, <1>5, <1>6, <1>7, <1>8 DEF ab

AsJoin(S, a, b) ==
  /\ a \o b \in Seq(S)
  /\ As!Elements(a \o b) = As!Elements(a) \cup As!Elements(b)
  /\ As!Injective(a \o b) <=>
       As!Injective(a) /\ As!Injective(b) /\ As!Elements(a) \cap As!Elements(b) = {}
  /\ AsOrdered(a \o b) <=>
       AsOrdered(a) /\ AsOrdered(b) /\ AsBefore(As!Elements(a), As!Elements(b))

LEMMA AsJoins == ASSUME NEW S PROVE \A a, b \in Seq(S) : AsJoin(S, a, b)
BY AsConcat DEF AsJoin

LEMMA AsSmall ==
  /\ As!Elements(<<>>) = {} /\ As!Injective(<<>>) /\ AsOrdered(<<>>)
  /\ \A x : As!Elements(<<x>>) = {x} /\ As!Injective(<<x>>) /\ AsOrdered(<<x>>)
BY DEF As!Elements, As!Injective, AsOrdered

\* The first of a batch and the rest of it.
LEMMA AsHead ==
  ASSUME NEW S, NEW b \in Seq(S), b # <<>>
  PROVE  /\ Head(b) \in S /\ Tail(b) \in Seq(S) /\ (Len(b) = 1 => Tail(b) = <<>>)
         /\ As!Elements(b) = {Head(b)} \cup As!Elements(Tail(b))
         /\ As!Injective(b) => As!Injective(Tail(b)) /\ Head(b) \notin As!Elements(Tail(b))
         /\ AsOrdered(b) => AsOrdered(Tail(b)) /\ AsBefore({Head(b)}, As!Elements(Tail(b)))
<1> DEFINE h == Head(b)
           t == Tail(b)
<1>1. h \in S /\ t \in Seq(S) /\ <<h>> \in Seq(S) /\ Len(t) = Len(b) - 1
  BY HeadTailProperties
<1>2. b = <<h>> \o t
  BY HeadTailProperties, ConcatProperties
<1>3. Len(b) = 1 => t = <<>>
  <2> SUFFICES ASSUME Len(b) = 1 PROVE t = <<>>
    OBVIOUS
  <2> HIDE DEF t
  <2>1. t \in Seq(S) /\ Len(t) = 0
    BY <1>1
  <2> QED BY <2>1, EmptySeq
<1> HIDE DEF h, t
<1>4. /\ As!Elements(<<h>> \o t) = As!Elements(<<h>>) \cup As!Elements(t)
      /\ As!Injective(<<h>> \o t) => As!Injective(t) /\ As!Elements(<<h>>) \cap As!Elements(t) = {}
      /\ AsOrdered(<<h>> \o t) => AsOrdered(t) /\ AsBefore(As!Elements(<<h>>), As!Elements(t))
  <2> DEFINE first == <<h>>
  <2>1. first \in Seq(S) /\ t \in Seq(S)
    BY <1>1
  <2> HIDE DEF first
  <2>2. /\ As!Elements(first \o t) = As!Elements(first) \cup As!Elements(t)
        /\ As!Injective(first \o t) <=>
             As!Injective(first) /\ As!Injective(t) /\ As!Elements(first) \cap As!Elements(t) = {}
        /\ AsOrdered(first \o t) <=>
             AsOrdered(first) /\ AsOrdered(t) /\ AsBefore(As!Elements(first), As!Elements(t))
    <3>1. AsJoin(S, first, t)
      BY <2>1, AsJoins
    <3> QED BY <3>1, Zenon DEF AsJoin
  <2> QED BY <2>2, Zenon DEF first
<1>5. As!Elements(<<h>>) = {h}
  BY AsSmall, Zenon
<1>6. /\ As!Elements(b) = {h} \cup As!Elements(t)
      /\ As!Injective(b) => As!Injective(t) /\ h \notin As!Elements(t)
      /\ AsOrdered(b) => AsOrdered(t) /\ AsBefore({h}, As!Elements(t))
  BY <1>2, <1>4, <1>5, Zenon
<1> QED BY <1>1, <1>3, <1>6 DEF h, t

\* What each queue's invariant comes to for its parts.
AsApart ==
  /\ As!Injective(as_taken) /\ As!Injective(as_shown) /\ As!Injective(As!Held("results")) /\ As!Injective(as_queue)
  /\ As!Elements(as_taken) \cap As!Elements(as_shown) = {}
  /\ (As!Elements(as_taken) \cup As!Elements(as_shown)) \cap As!Elements(As!Held("results")) = {}
  /\ (As!Elements(as_taken) \cup As!Elements(as_shown) \cup As!Elements(As!Held("results")))
       \cap As!Elements(as_queue) = {}

AsInOrder ==
  /\ AsOrdered(as_streamed) /\ AsOrdered(As!Held("streams")) /\ AsOrdered(as_events)
  /\ AsBefore(As!Elements(as_streamed), As!Elements(As!Held("streams")))
  /\ AsBefore(As!Elements(as_streamed) \cup As!Elements(As!Held("streams")), As!Elements(as_events))

\* No event has a number that its session has not come to.
AsNumbered == \A e \in As!Elements(As!Events) \cup as_missed : e[2] <= as_pushed[e[1]]

AsIInv ==
  /\ As!TypeOK /\ As!ResultsOnce /\ As!StreamsInOrder /\ AsNumbered
  /\ as_frame = "closed" => as_batch = <<>>

LEMMA AsHeldType ==
  ASSUME As!TypeOK
  PROVE  As!Held("results") \in Seq(As!Ids) /\ As!Held("streams") \in Seq(As!EventIds)
BY DEF As!TypeOK, As!Held

LEMMA AsResultsParts ==
  ASSUME As!TypeOK
  PROVE  /\ As!Injective(As!Results) <=> AsApart
         /\ As!Elements(As!Results) =
              As!Elements(as_taken) \cup As!Elements(as_shown) \cup As!Elements(As!Held("results")) \cup As!Elements(as_queue)
<1>1. /\ as_taken \in Seq(As!Ids) /\ as_shown \in Seq(As!Ids) /\ as_queue \in Seq(As!Ids)
      /\ As!Held("results") \in Seq(As!Ids)
  BY AsHeldType DEF As!TypeOK
<1> DEFINE held == As!Held("results")
<1> HIDE DEF held
<1>2. /\ as_taken \o as_shown \in Seq(As!Ids)
      /\ As!Elements(as_taken \o as_shown) = As!Elements(as_taken) \cup As!Elements(as_shown)
      /\ As!Injective(as_taken \o as_shown) <=>
           As!Injective(as_taken) /\ As!Injective(as_shown) /\ As!Elements(as_taken) \cap As!Elements(as_shown) = {}
  <2>1. AsJoin(As!Ids, as_taken, as_shown)
    BY <1>1, AsJoins
  <2> QED BY <2>1, Zenon DEF AsJoin
<1> DEFINE a == as_taken \o as_shown
<1> HIDE DEF a
<1>3. /\ a \o held \in Seq(As!Ids)
      /\ As!Elements(a \o held) = As!Elements(a) \cup As!Elements(held)
      /\ As!Injective(a \o held) <=>
           As!Injective(a) /\ As!Injective(held) /\ As!Elements(a) \cap As!Elements(held) = {}
  <2>1. a \in Seq(As!Ids)
    BY <1>2, Zenon DEF a
  <2>2. held \in Seq(As!Ids)
    BY <1>1, Zenon DEF held
  <2>3. AsJoin(As!Ids, a, held)
    BY <2>1, <2>2, AsJoins
  <2> QED BY <2>3, Zenon DEF AsJoin
<1> DEFINE b == a \o held
<1> HIDE DEF b
<1>4. /\ As!Elements(b \o as_queue) = As!Elements(b) \cup As!Elements(as_queue)
      /\ As!Injective(b \o as_queue) <=>
           As!Injective(b) /\ As!Injective(as_queue) /\ As!Elements(b) \cap As!Elements(as_queue) = {}
  <2>1. b \in Seq(As!Ids)
    BY <1>3, Zenon DEF b
  <2>2. AsJoin(As!Ids, b, as_queue)
    BY <1>1, <2>1, AsJoins
  <2> QED BY <2>2, Zenon DEF AsJoin
<1>5. As!Results = b \o as_queue
  BY DEF As!Results, a, b, held
<1> QED BY <1>2, <1>3, <1>4, <1>5, Zenon DEF a, b, held, AsApart

LEMMA AsEventsParts ==
  ASSUME As!TypeOK
  PROVE  /\ AsOrdered(As!Events) <=> AsInOrder
         /\ As!Elements(As!Events) =
              As!Elements(as_streamed) \cup As!Elements(As!Held("streams")) \cup As!Elements(as_events)
         /\ As!Elements(As!Events) \subseteq As!EventIds
<1>1. /\ as_streamed \in Seq(As!EventIds) /\ as_events \in Seq(As!EventIds)
      /\ As!Held("streams") \in Seq(As!EventIds)
  BY AsHeldType DEF As!TypeOK
<1> DEFINE held == As!Held("streams")
<1> HIDE DEF held
<1>2. /\ as_streamed \o held \in Seq(As!EventIds)
      /\ As!Elements(as_streamed \o held) = As!Elements(as_streamed) \cup As!Elements(held)
      /\ AsOrdered(as_streamed \o held) <=>
           AsOrdered(as_streamed) /\ AsOrdered(held) /\ AsBefore(As!Elements(as_streamed), As!Elements(held))
  <2>1. held \in Seq(As!EventIds)
    BY <1>1, Zenon DEF held
  <2>2. AsJoin(As!EventIds, as_streamed, held)
    BY <1>1, <2>1, AsJoins
  <2> QED BY <2>2, Zenon DEF AsJoin
<1> DEFINE a == as_streamed \o held
<1> HIDE DEF a
<1>3. /\ a \o as_events \in Seq(As!EventIds)
      /\ As!Elements(a \o as_events) = As!Elements(a) \cup As!Elements(as_events)
      /\ AsOrdered(a \o as_events) <=>
           AsOrdered(a) /\ AsOrdered(as_events) /\ AsBefore(As!Elements(a), As!Elements(as_events))
  <2>1. a \in Seq(As!EventIds)
    BY <1>2, Zenon DEF a
  <2>2. AsJoin(As!EventIds, a, as_events)
    BY <1>1, <2>1, AsJoins
  <2> QED BY <2>2, Zenon DEF AsJoin
<1>4. As!Events = a \o as_events
  BY DEF As!Events, a, held
<1>5. As!Elements(As!Events) \subseteq As!EventIds
  BY <1>3, <1>4 DEF As!Elements
<1> QED BY <1>2, <1>3, <1>4, <1>5, Zenon DEF a, held, AsInOrder

\* The batch after its first was shown, or failed to be.
LEMMA AsOnward ==
  ASSUME As!TypeOK, as_frame = "closed" => as_batch = <<>>, as_batch # <<>>, as_batch' = Tail(as_batch), As!Onward
  PROVE  /\ as_frame \in {"results", "streams"} /\ as_frame' \in {"results", "streams"}
         /\ as_batch' \in Seq(IF as_frame' = "results" THEN As!Ids ELSE As!EventIds)
         /\ as_frame = "results" => /\ As!Held("results")' = Tail(as_batch) /\ As!Held("results") = as_batch
                                 /\ As!Held("streams")' = <<>> /\ As!Held("streams") = <<>>
                                 /\ as_batch \in Seq(As!Ids)
         /\ as_frame = "streams" => /\ As!Held("streams")' = Tail(as_batch) /\ As!Held("streams") = as_batch
                                 /\ As!Held("results")' = <<>> /\ As!Held("results") = <<>>
                                 /\ as_batch \in Seq(As!EventIds)
<1> DEFINE T == IF as_frame = "results" THEN As!Ids ELSE As!EventIds
<1>1. as_frame \in {"results", "streams"} /\ as_batch \in Seq(T)
  BY DEF As!TypeOK
<1>2. Tail(as_batch) \in Seq(T) /\ (Len(as_batch) = 1 => Tail(as_batch) = <<>>)
  BY <1>1, AsHead
<1>3. as_frame' = (IF Len(as_batch) = 1 THEN (IF as_frame = "results" THEN "streams" ELSE "results") ELSE as_frame)
  BY DEF As!Onward, As!Other
<1>4. <<>> \in Seq(As!Ids) /\ <<>> \in Seq(As!EventIds)
  OBVIOUS
<1> QED BY <1>1, <1>2, <1>3, <1>4 DEF As!Held

LEMMA AsType == ASSUME AsIInv, As!Next PROVE As!TypeOK' /\ (as_frame = "closed" => as_batch = <<>>)'
<1> USE DEF AsIInv, As!TypeOK
<1>1. CASE As!runAsync
  <2>1. as_next_id \in As!Ids /\ as_next_id' \in 1 .. AsyncCalls + 1
    BY <1>1, AsLimits DEF As!runAsync, As!Ids
  <2> QED BY <1>1, <2>1 DEF As!runAsync
<1>2. ASSUME NEW n \in As!Ids, As!Finish(n) \/ As!Panic(n)
      PROVE  As!TypeOK' /\ (as_frame = "closed" => as_batch = <<>>)'
  <2>1. Append(as_queue, n) \in Seq(As!Ids)
    BY AppendProperties
  <2>2. as_queue' \in Seq(As!Ids) /\ as_running' \subseteq As!Ids /\ as_lost' \subseteq As!Ids
    BY <1>2, <2>1 DEF As!Finish, As!Panic
  <2>3. UNCHANGED <<as_next_id, as_taken, as_pushed, as_events, as_frame, as_batch, as_shown, as_streamed, as_missed>>
    BY <1>2 DEF As!Finish, As!Panic
  <2> QED BY <2>2, <2>3
<1>3. ASSUME NEW s \in Sessions, As!PushEvent(s)
      PROVE  As!TypeOK' /\ (as_frame = "closed" => as_batch = <<>>)'
  <2>1. as_pushed' \in [Sessions -> 0 .. MaxChunks + 1] /\ <<s, as_pushed[s] + 1>> \in As!EventIds
    <3>1. as_pushed \in [Sessions -> 0 .. MaxChunks + 1] /\ as_pushed[s] < MaxChunks + 1
      BY <1>3 DEF As!PushEvent
    <3>2. as_pushed[s] + 1 \in 1 .. MaxChunks + 1
      BY <3>1, AsLimits
    <3>3. as_pushed' = [as_pushed EXCEPT ![s] = as_pushed[s] + 1]
      BY <1>3 DEF As!PushEvent
    <3>4. as_pushed[s] + 1 \in 0 .. MaxChunks + 1
      BY <3>2, AsLimits
    <3>5. as_pushed' \in [Sessions -> 0 .. MaxChunks + 1]
      BY <3>1, <3>3, <3>4, Zenon
    <3>6. <<s, as_pushed[s] + 1>> \in As!EventIds
      BY <3>2, Zenon DEF As!EventIds
    <3> QED BY <3>5, <3>6
  <2>2. as_events' \in Seq(As!EventIds)
    BY <1>3, <2>1, AppendProperties DEF As!PushEvent
  <2> QED BY <1>3, <2>1, <2>2 DEF As!PushEvent
<1>4. CASE As!runAsyncResults
  BY <1>4, ConcatProperties, EmptySeq DEF As!runAsyncResults, As!Rest
<1>5. CASE As!DrainResults
  BY <1>5, EmptySeq DEF As!DrainResults, As!Rest
<1>6. CASE As!DrainStreams
  BY <1>6, EmptySeq DEF As!DrainStreams, As!Rest
<1>7. ASSUME As!Show \/ As!ShowFails PROVE As!TypeOK' /\ (as_frame = "closed" => as_batch = <<>>)'
  <2>1. as_batch # <<>> /\ as_batch' = Tail(as_batch) /\ As!Onward
    BY <1>7 DEF As!Show, As!ShowFails
  <2>2. /\ as_frame \in {"results", "streams"} /\ as_frame' \in {"results", "streams"}
        /\ as_batch' \in Seq(IF as_frame' = "results" THEN As!Ids ELSE As!EventIds)
        /\ as_frame = "results" => as_batch \in Seq(As!Ids)
        /\ as_frame = "streams" => as_batch \in Seq(As!EventIds)
    BY <2>1, AsOnward
  <2>3. as_frame = "results" => Head(as_batch) \in As!Ids
    BY <2>1, <2>2, AsHead
  <2>4. as_frame = "streams" => Head(as_batch) \in As!EventIds
    BY <2>1, <2>2, AsHead
  <2>5. /\ as_shown' \in Seq(As!Ids) /\ as_streamed' \in Seq(As!EventIds)
        /\ as_lost' \subseteq As!Ids /\ as_missed' \subseteq As!EventIds
    <3>1. CASE as_frame = "results"
      <4>1. Append(as_shown, Head(as_batch)) \in Seq(As!Ids)
        BY <3>1, <2>3, AppendProperties
      <4> QED BY <1>7, <3>1, <2>3, <4>1 DEF As!Show, As!ShowFails
    <3>2. CASE as_frame = "streams"
      <4>1. Append(as_streamed, Head(as_batch)) \in Seq(As!EventIds)
        BY <3>2, <2>4, AppendProperties
      <4> QED BY <1>7, <3>2, <2>4, <4>1 DEF As!Show, As!ShowFails
    <3> QED BY <2>2, <3>1, <3>2
  <2>6. UNCHANGED <<as_next_id, as_running, as_queue, as_taken, as_pushed, as_events>>
    BY <1>7 DEF As!Show, As!ShowFails
  <2> QED BY <2>2, <2>5, <2>6
<1>8. CASE As!CloseWindow
  BY <1>8, EmptySeq DEF As!CloseWindow
<1> QED BY <1>1, <1>2, <1>3, <1>4, <1>5, <1>6, <1>7, <1>8 DEF As!Next

AsAll == As!Elements(as_taken) \cup As!Elements(as_shown) \cup As!Elements(As!Held("results")) \cup As!Elements(as_queue)

AsOnceByParts ==
  /\ AsApart
  /\ as_running \cap (AsAll \cup as_lost) = {}
  /\ as_lost \cap AsAll = {}
  /\ 1 .. as_next_id - 1 = as_running \cup AsAll \cup as_lost

LEMMA AsOnce == ASSUME As!TypeOK PROVE As!ResultsOnce <=> AsOnceByParts
BY AsResultsParts, Zenon DEF As!ResultsOnce, AsOnceByParts, AsAll

\* What is put behind a sequence comes to its elements.
LEMMA AsAppended ==
  ASSUME NEW S, NEW q \in Seq(S), NEW x \in S
  PROVE  /\ As!Elements(Append(q, x)) = As!Elements(q) \cup {x}
         /\ As!Injective(q) /\ x \notin As!Elements(q) => As!Injective(Append(q, x))
         /\ AsOrdered(q) /\ AsBefore(As!Elements(q), {x}) => AsOrdered(Append(q, x))
<1> DEFINE last == <<x>>
<1>1. last \in Seq(S) /\ Append(q, x) = q \o last
  BY AppendIsConcat
<1>2. As!Elements(last) = {x} /\ As!Injective(last) /\ AsOrdered(last)
  BY AsSmall
<1> HIDE DEF last
<1>3. /\ As!Elements(q \o last) = As!Elements(q) \cup As!Elements(last)
      /\ As!Injective(q \o last) <=>
           As!Injective(q) /\ As!Injective(last) /\ As!Elements(q) \cap As!Elements(last) = {}
      /\ AsOrdered(q \o last) <=>
           AsOrdered(q) /\ AsOrdered(last) /\ AsBefore(As!Elements(q), As!Elements(last))
  <2>1. AsJoin(S, q, last)
    BY <1>1, AsJoins
  <2> QED BY <2>1, Zenon DEF AsJoin
<1> QED BY <1>1, <1>2, <1>3

AsPut(q, x) ==
  /\ As!Elements(Append(q, x)) = As!Elements(q) \cup {x}
  /\ As!Injective(q) /\ x \notin As!Elements(q) => As!Injective(Append(q, x))
  /\ AsOrdered(q) /\ AsBefore(As!Elements(q), {x}) => AsOrdered(Append(q, x))

LEMMA AsPuts == ASSUME NEW S PROVE \A q \in Seq(S), x \in S : AsPut(q, x)
BY AsAppended DEF AsPut

LEMMA AsOnceStep == ASSUME AsIInv, As!Next PROVE As!ResultsOnce'
<1>0. As!TypeOK /\ As!TypeOK' /\ AsOnceByParts /\ (as_frame = "closed" => as_batch = <<>>)
  BY AsType, AsOnce DEF AsIInv
<1> SUFFICES AsOnceByParts'
  <2>1. As!ResultsOnce' <=> AsOnceByParts'
    BY <1>0, AsOnce, PTL
  <2> QED BY <2>1
<1>t. /\ as_taken \in Seq(As!Ids) /\ as_shown \in Seq(As!Ids) /\ as_queue \in Seq(As!Ids) /\ as_next_id \in Nat
      /\ as_running \subseteq As!Ids
  BY <1>0, AsLimits DEF As!TypeOK
<1> USE DEF AsOnceByParts, AsApart, AsAll
<1>1. CASE As!runAsync
  <2>1. As!Held("results")' = As!Held("results")
    BY <1>1 DEF As!runAsync, As!Held
  <2>2. as_next_id' - 1 = as_next_id /\ as_next_id \notin 1 .. as_next_id - 1
        /\ 1 .. as_next_id = (1 .. as_next_id - 1) \cup {as_next_id}
    BY <1>1, <1>0, AsLimits DEF As!runAsync, As!TypeOK
  <2> HIDE DEF AsApart
  <2>3. AsApart'
    BY <1>0, <1>1, <2>1 DEF As!runAsync, AsApart
  <2>4. UNCHANGED AsAll
    BY <1>1, <2>1 DEF As!runAsync
  <2> QED BY <1>0, <1>1, <2>2, <2>3, <2>4 DEF As!runAsync
<1>2. ASSUME NEW n \in As!Ids, As!Finish(n) PROVE AsOnceByParts'
  <2>1. As!Held("results")' = As!Held("results")
    BY <1>2 DEF As!Finish, As!Held
  <2>2. n \notin AsAll /\ n \notin as_lost
    BY <1>0, <1>2 DEF As!Finish
  <2>3. As!Elements(as_queue') = As!Elements(as_queue) \cup {n} /\ As!Injective(as_queue')
    <3>1. as_queue' = Append(as_queue, n) /\ as_queue \in Seq(As!Ids) /\ n \notin As!Elements(as_queue) /\ As!Injective(as_queue)
      BY <1>0, <1>t, <1>2, <2>2 DEF As!Finish
    <3> HIDE DEF AsOnceByParts, AsApart, AsAll
    <3>2. AsPut(as_queue, n)
      BY <3>1, AsPuts
    <3> QED BY <3>1, <3>2, Zenon DEF AsPut
  <2>4. as_running' = as_running \ {n} /\ n \in as_running /\ UNCHANGED <<as_next_id, as_taken, as_shown, as_lost>>
    BY <1>2 DEF As!Finish
  <2> QED BY <1>0, <2>1, <2>2, <2>3, <2>4
<1>3. ASSUME NEW n \in As!Ids, As!Panic(n) PROVE AsOnceByParts'
  <2>1. As!Held("results")' = As!Held("results")
    BY <1>3 DEF As!Panic, As!Held
  <2> QED BY <1>0, <1>3, <2>1 DEF As!Panic
<1>4. ASSUME UNCHANGED <<as_next_id, as_running, as_queue, as_taken, as_shown, as_lost>>,
             As!Held("results")' = As!Held("results")
      PROVE  AsOnceByParts'
  BY <1>0, <1>4
<1>5. ASSUME NEW s \in Sessions, As!PushEvent(s) PROVE AsOnceByParts'
  BY <1>4, <1>5 DEF As!PushEvent, As!Held
<1>6. CASE As!runAsyncResults
  <2>1. As!Held("results")' = As!Held("results")
    BY <1>6 DEF As!runAsyncResults, As!Held
  <2>2. /\ As!Elements(as_taken') = As!Elements(as_taken) \cup As!Elements(as_queue)
        /\ As!Injective(as_taken')
    <3>1. AsJoin(As!Ids, as_taken, as_queue)
      BY <1>t, AsJoins
    <3>2. as_taken' = as_taken \o as_queue
      BY <1>6 DEF As!runAsyncResults
    <3>3. As!Injective(as_taken) /\ As!Injective(as_queue) /\ As!Elements(as_taken) \cap As!Elements(as_queue) = {}
      BY <1>0
    <3> QED BY <3>1, <3>2, <3>3, Zenon DEF AsJoin
  <2>3. As!Elements(as_queue') = {} /\ As!Injective(as_queue')
    BY <1>6, AsSmall DEF As!runAsyncResults, As!Rest
  <2>4. UNCHANGED <<as_next_id, as_running, as_shown, as_lost>>
    BY <1>6 DEF As!runAsyncResults
  <2> QED BY <1>0, <2>1, <2>2, <2>3, <2>4
<1>7. CASE As!DrainResults
  <2>1. As!Held("results") = <<>> /\ As!Held("results")' = as_queue
    BY <1>7 DEF As!DrainResults, As!Held
  <2>2. As!Elements(as_queue') = {} /\ As!Injective(as_queue') /\ As!Elements(As!Held("results")) = {}
    BY <1>7, <2>1, AsSmall DEF As!DrainResults, As!Rest
  <2>3. UNCHANGED <<as_next_id, as_running, as_taken, as_shown, as_lost>>
    BY <1>7 DEF As!DrainResults
  <2> QED BY <1>0, <2>1, <2>2, <2>3
<1>8. CASE As!DrainStreams
  <2>1. As!Held("results") = <<>> /\ As!Held("results")' = <<>>
    BY <1>8 DEF As!DrainStreams, As!Held
  <2> QED BY <1>4, <1>8, <2>1 DEF As!DrainStreams
<1>9. CASE As!CloseWindow
  <2>1. As!Held("results") = <<>> /\ As!Held("results")' = <<>>
    BY <1>9 DEF As!CloseWindow, As!Held
  <2> QED BY <1>4, <1>9, <2>1 DEF As!CloseWindow
<1>10. CASE As!Show \/ As!ShowFails
  <2>1. as_batch # <<>> /\ as_batch' = Tail(as_batch) /\ As!Onward
        /\ UNCHANGED <<as_next_id, as_running, as_queue, as_taken>>
    BY <1>10 DEF As!Show, As!ShowFails
  <2>2. /\ as_frame \in {"results", "streams"}
        /\ as_frame = "results" => /\ As!Held("results")' = Tail(as_batch) /\ As!Held("results") = as_batch
                                /\ as_batch \in Seq(As!Ids)
        /\ as_frame = "streams" => As!Held("results")' = <<>> /\ As!Held("results") = <<>>
    BY <1>0, <2>1, AsOnward
  <2>3. CASE as_frame = "streams"
    BY <1>4, <1>10, <2>1, <2>2, <2>3 DEF As!Show, As!ShowFails
  <2>4. CASE as_frame = "results"
    <3>1. /\ Head(as_batch) \in As!Ids /\ As!Elements(as_batch) = {Head(as_batch)} \cup As!Elements(Tail(as_batch))
          /\ As!Injective(Tail(as_batch)) /\ Head(as_batch) \notin As!Elements(Tail(as_batch))
      <4>1. as_batch \in Seq(As!Ids) /\ as_batch # <<>> /\ As!Injective(as_batch)
        BY <1>0, <2>1, <2>2, <2>4
      <4> HIDE DEF AsOnceByParts, AsApart, AsAll
      <4> QED BY <4>1, AsHead
    <3>2. Head(as_batch) \notin As!Elements(as_shown) /\ Head(as_batch) \notin As!Elements(as_taken)
          /\ Head(as_batch) \notin As!Elements(as_queue)
      BY <1>0, <2>2, <2>4, <3>1
    <3>3. CASE As!Show
      <4>1. /\ As!Elements(as_shown') = As!Elements(as_shown) \cup {Head(as_batch)} /\ As!Injective(as_shown')
            /\ as_lost' = as_lost
        <5>1. as_shown' = Append(as_shown, Head(as_batch)) /\ as_lost' = as_lost
          BY <2>4, <3>3 DEF As!Show
        <5>2. As!Injective(as_shown) /\ as_shown \in Seq(As!Ids)
          BY <1>0, <1>t
        <5> HIDE DEF AsOnceByParts, AsApart, AsAll
        <5> DEFINE h == Head(as_batch)
        <5>3. h \in As!Ids /\ h \notin As!Elements(as_shown)
          BY <3>1, <3>2
        <5>4. as_shown' = Append(as_shown, h)
          BY <5>1
        <5> HIDE DEF h
        <5>5. As!Elements(Append(as_shown, h)) = As!Elements(as_shown) \cup {h} /\ As!Injective(Append(as_shown, h))
          <6>1. AsPut(as_shown, h)
            BY <5>2, <5>3, AsPuts
          <6> QED BY <5>2, <5>3, <6>1, Zenon DEF AsPut
        <5>6. As!Elements(as_shown') = As!Elements(as_shown) \cup {h} /\ As!Injective(as_shown')
          BY <5>4, <5>5
        <5> QED BY <5>1, <5>6 DEF h
      <4>2. AsApart'
        <5>1. /\ as_taken' = as_taken /\ as_queue' = as_queue /\ As!Held("results")' = Tail(as_batch)
              /\ As!Held("results") = as_batch
          BY <2>1, <2>2, <2>4
        <5>2. /\ As!Injective(as_taken') /\ As!Injective(as_shown') /\ As!Injective(As!Held("results")')
              /\ As!Injective(as_queue')
          BY <1>0, <3>1, <4>1, <5>1
        <5>3. /\ As!Elements(as_taken') \cap As!Elements(as_shown') = {}
              /\ (As!Elements(as_taken') \cup As!Elements(as_shown')) \cap As!Elements(As!Held("results")') = {}
          <6> DEFINE T == As!Elements(as_taken)
                     S == As!Elements(as_shown)
                     B == As!Elements(Tail(as_batch))
                     h == Head(as_batch)
          <6>1. T \cap S = {} /\ (T \cup S) \cap ({h} \cup B) = {}
            BY <1>0, <3>1, <5>1
          <6>2. h \notin S /\ h \notin T /\ h \notin B
            BY <3>1, <3>2
          <6>3. /\ As!Elements(as_taken') = T /\ As!Elements(as_shown') = S \cup {h}
                /\ As!Elements(As!Held("results")') = B
            BY <4>1, <5>1
          <6> HIDE DEF T, S, B, h
          <6> QED BY <6>1, <6>2, <6>3
        <5>4. (As!Elements(as_taken') \cup As!Elements(as_shown') \cup As!Elements(As!Held("results")'))
                \cap As!Elements(as_queue') = {}
          BY <1>0, <3>1, <3>2, <4>1, <5>1
        <5> QED BY <5>2, <5>3, <5>4
      <4>3. AsAll' = AsAll
        BY <1>0, <2>1, <2>2, <2>4, <3>1, <4>1
      <4> HIDE DEF AsApart, AsAll
      <4> QED BY <1>0, <2>1, <4>1, <4>2, <4>3
    <3>4. CASE As!ShowFails
      <4>1. as_shown' = as_shown /\ as_lost' = as_lost \cup {Head(as_batch)}
        BY <2>4, <3>4 DEF As!ShowFails
      <4>2. AsApart'
        BY <1>0, <2>1, <2>2, <2>4, <3>1, <3>2, <4>1
      <4>3. AsAll' = AsAll \ {Head(as_batch)} /\ Head(as_batch) \in AsAll
        <5> DEFINE h == Head(as_batch)
                   T == As!Elements(as_taken) \cup As!Elements(as_shown)
                   B == As!Elements(Tail(as_batch))
                   Q == As!Elements(as_queue)
        <5>1. h \notin T /\ h \notin B /\ h \notin Q
          BY <3>1, <3>2
        <5>2. AsAll = T \cup ({h} \cup B) \cup Q
          BY <2>2, <2>4, <3>1, Zenon DEF AsAll
        <5>3. AsAll' = T \cup B \cup Q
          BY <2>1, <2>2, <2>4, <4>1 DEF AsAll
        <5> HIDE DEF h, T, B, Q
        <5>4. AsAll' = AsAll \ {h} /\ h \in AsAll
          BY <5>1, <5>2, <5>3
        <5> QED BY <5>4 DEF h
      <4> HIDE DEF AsApart, AsAll
      <4> QED BY <1>0, <2>1, <4>1, <4>2, <4>3
    <3> QED BY <1>10, <3>3, <3>4
  <2> QED BY <2>2, <2>3, <2>4
<1> QED BY <1>1, <1>2, <1>3, <1>5, <1>6, <1>7, <1>8, <1>9, <1>10 DEF As!Next

\* The events' order, and that each is either on its way or missed, by parts.
AsStreams == As!Elements(as_streamed) \cup As!Elements(As!Held("streams")) \cup As!Elements(as_events)

AsOrderByParts ==
  /\ AsInOrder
  /\ \A s \in Sessions : \A n \in 1 .. as_pushed[s] : (<<s, n>> \in AsStreams) # (<<s, n>> \in as_missed)
  /\ \A e \in AsStreams \cup as_missed : e[2] <= as_pushed[e[1]]

LEMMA AsOrder == ASSUME As!TypeOK PROVE (As!StreamsInOrder /\ AsNumbered) <=> AsOrderByParts
<1>1. /\ AsOrdered(As!Events) <=> AsInOrder
      /\ As!Elements(As!Events) = AsStreams
  BY AsEventsParts DEF AsStreams
<1>2. As!StreamsInOrder <=>
        /\ AsOrdered(As!Events)
        /\ \A s \in Sessions : \A n \in 1 .. as_pushed[s] :
             (<<s, n>> \in As!Elements(As!Events)) # (<<s, n>> \in as_missed)
  BY Zenon DEF As!StreamsInOrder, AsOrdered
<1> QED BY <1>1, <1>2, Zenon DEF AsOrderByParts, AsNumbered

LEMMA AsOrderStep == ASSUME AsIInv, As!Next PROVE (As!StreamsInOrder /\ AsNumbered)'
<1>0. As!TypeOK /\ As!TypeOK' /\ AsOrderByParts /\ (as_frame = "closed" => as_batch = <<>>)
  BY AsType, AsOrder DEF AsIInv
<1> SUFFICES AsOrderByParts'
  <2>1. (As!StreamsInOrder /\ AsNumbered)' <=> AsOrderByParts'
    BY <1>0, AsOrder, PTL
  <2> QED BY <2>1
<1>t. /\ as_streamed \in Seq(As!EventIds) /\ as_events \in Seq(As!EventIds) /\ as_pushed \in [Sessions -> Nat]
      /\ As!Held("streams") \in Seq(As!EventIds)
  <2>1. as_pushed \in [Sessions -> Nat]
    BY <1>0, AsLimits DEF As!TypeOK
  <2> QED BY <1>0, <2>1, AsHeldType DEF As!TypeOK
<1>e. AsStreams \subseteq As!EventIds
  BY <1>0, AsEventsParts DEF AsStreams
<1>1. ASSUME UNCHANGED <<as_streamed, as_pushed, as_events, as_missed>>, As!Held("streams")' = As!Held("streams")
      PROVE  AsOrderByParts'
  <2>1. UNCHANGED AsStreams
    BY <1>1 DEF AsStreams
  <2>2. AsInOrder'
    BY <1>0, <1>1 DEF AsOrderByParts, AsInOrder
  <2> QED BY <1>0, <1>1, <2>1, <2>2 DEF AsOrderByParts
<1>2. CASE As!runAsync \/ As!runAsyncResults \/ \E n \in As!Ids : As!Finish(n) \/ As!Panic(n)
  BY <1>1, <1>2 DEF As!runAsync, As!runAsyncResults, As!Finish, As!Panic, As!Held
<1>3. CASE As!DrainResults
  <2>1. As!Held("streams") = <<>> /\ As!Held("streams")' = <<>>
    BY <1>3 DEF As!DrainResults, As!Held
  <2> QED BY <1>1, <1>3, <2>1 DEF As!DrainResults
<1>4. CASE As!CloseWindow
  <2>1. As!Held("streams") = <<>> /\ As!Held("streams")' = <<>>
    BY <1>4 DEF As!CloseWindow, As!Held
  <2> QED BY <1>1, <1>4, <2>1 DEF As!CloseWindow
<1>5. ASSUME NEW s \in Sessions, As!PushEvent(s) PROVE AsOrderByParts'
  <2> DEFINE e == <<s, as_pushed[s] + 1>>
  <2>1. /\ e \in As!EventIds /\ e[1] = s /\ e[2] = as_pushed[s] + 1 /\ as_events' = Append(as_events, e)
        /\ UNCHANGED <<as_streamed, as_missed>> /\ As!Held("streams")' = As!Held("streams")
        /\ as_pushed' = [as_pushed EXCEPT ![s] = @ + 1] /\ as_pushed[s] \in Nat
    BY <1>5, <1>0, <1>t, AsLimits DEF As!PushEvent, As!EventIds, As!Held, As!TypeOK
  <2> HIDE DEF e
  <2>2. \A x \in AsStreams \cup as_missed : x \in As!EventIds /\ x[2] \in Nat /\ x[2] <= as_pushed[x[1]]
    <3>1. as_missed \subseteq As!EventIds
      BY <1>0 DEF As!TypeOK
    <3>2. \A x \in As!EventIds : x[2] \in Nat
      BY AsLimits DEF As!EventIds
    <3> QED BY <1>0, <1>e, <3>1, <3>2 DEF AsOrderByParts
  <2>3. AsBefore(AsStreams, {e}) /\ e \notin AsStreams /\ e \notin as_missed
    BY <2>1, <2>2 DEF AsBefore
  <2>4. /\ As!Elements(as_events') = As!Elements(as_events) \cup {e} /\ AsOrdered(as_events')
    <3>1. AsOrdered(as_events) /\ AsBefore(As!Elements(as_events), {e})
      BY <1>0, <2>3 DEF AsOrderByParts, AsInOrder, AsBefore, AsStreams
    <3>2. AsPut(as_events, e)
      BY <1>t, <2>1, AsPuts
    <3>3. as_events' = Append(as_events, e)
      BY <2>1
    <3> QED BY <3>1, <3>2, <3>3, Zenon DEF AsPut
  <2>5. AsInOrder'
    BY <1>0, <2>1, <2>3, <2>4 DEF AsOrderByParts, AsInOrder, AsBefore, AsStreams
  <2>6. AsStreams' = AsStreams \cup {e}
    BY <2>1, <2>4 DEF AsStreams
  <2>7. \A r \in Sessions : \A n \in 1 .. as_pushed'[r] :
          (<<r, n>> \in AsStreams') # (<<r, n>> \in as_missed')
    <3> SUFFICES ASSUME NEW r \in Sessions, NEW n \in 1 .. as_pushed'[r]
                 PROVE  (<<r, n>> \in AsStreams') # (<<r, n>> \in as_missed')
      OBVIOUS
    <3>1. CASE r = s /\ n = as_pushed[s] + 1
      <4>1. <<r, n>> = e
        BY <3>1 DEF e
      <4> QED BY <4>1, <2>1, <2>3, <2>6
    <3>2. CASE ~(r = s /\ n = as_pushed[s] + 1)
      <4>1. n \in 1 .. as_pushed[r] /\ <<r, n>> # e
        BY <3>2, <2>1, <1>t DEF e
      <4> QED BY <4>1, <1>0, <2>1, <2>6 DEF AsOrderByParts
    <3> QED BY <3>1, <3>2
  <2>8. \A x \in AsStreams' \cup as_missed' : x[2] <= as_pushed'[x[1]]
    <3> SUFFICES ASSUME NEW x \in AsStreams' \cup as_missed' PROVE x[2] <= as_pushed'[x[1]]
      OBVIOUS
    <3>1. x = e \/ x \in AsStreams \cup as_missed
      BY <2>1, <2>6
    <3>2. as_pushed'[s] = as_pushed[s] + 1 /\ \A r \in Sessions \ {s} : as_pushed'[r] = as_pushed[r]
      BY <1>t, <2>1
    <3>3. x = e => x[2] <= as_pushed'[x[1]]
      BY <2>1, <3>2
    <3>4. x # e => x[1] \in Sessions /\ x[2] \in Nat /\ x[2] <= as_pushed[x[1]]
      BY <3>1, <2>2 DEF As!EventIds
    <3>5. ASSUME x # e PROVE x[2] <= as_pushed'[x[1]]
      BY <3>2, <3>4, <3>5, <1>t
    <3> QED BY <3>3, <3>5
  <2> QED BY <2>5, <2>7, <2>8 DEF AsOrderByParts
<1>6. CASE As!DrainStreams
  <2>1. As!Held("streams") = <<>> /\ As!Held("streams")' = as_events /\ as_events' = <<>>
        /\ UNCHANGED <<as_streamed, as_pushed, as_missed>>
    BY <1>6 DEF As!DrainStreams, As!Held, As!Rest
  <2>2. As!Elements(<<>>) = {} /\ AsOrdered(<<>>)
    BY AsSmall
  <2>3. AsStreams' = AsStreams
    BY <2>1, <2>2 DEF AsStreams
  <2>4. AsInOrder'
    BY <1>0, <2>1, <2>2 DEF AsOrderByParts, AsInOrder, AsBefore
  <2> QED BY <1>0, <2>1, <2>3, <2>4 DEF AsOrderByParts
<1>7. CASE As!Show \/ As!ShowFails
  <2> DEFINE h == Head(as_batch)
             t == Tail(as_batch)
  <2>1. as_batch # <<>> /\ as_batch' = t /\ As!Onward /\ UNCHANGED <<as_pushed, as_events>>
    BY <1>7 DEF As!Show, As!ShowFails
  <2>2. /\ as_frame \in {"results", "streams"}
        /\ as_frame = "results" => As!Held("streams")' = <<>> /\ As!Held("streams") = <<>>
        /\ as_frame = "streams" => /\ As!Held("streams")' = t /\ As!Held("streams") = as_batch
                                /\ as_batch \in Seq(As!EventIds)
    BY <1>0, <2>1, AsOnward
  <2>3. CASE as_frame = "results"
    BY <1>1, <1>7, <2>1, <2>2, <2>3 DEF As!Show, As!ShowFails
  <2>4. CASE as_frame = "streams"
    <3>1. AsOrdered(as_batch)
      BY <1>0, <2>2, <2>4 DEF AsOrderByParts, AsInOrder
    <3>2. /\ h \in As!EventIds /\ As!Elements(as_batch) = {h} \cup As!Elements(t)
          /\ AsOrdered(t) /\ AsBefore({h}, As!Elements(t))
      BY <2>1, <2>2, <2>4, <3>1, AsHead
    <3>3. h \notin As!Elements(t) /\ h \notin As!Elements(as_events)
      <4>1. h \in As!EventIds /\ h[1] = h[1] /\ h[2] \in Nat
        BY <3>2, AsLimits DEF As!EventIds
      <4>2. h \in As!Elements(As!Held("streams"))
        BY <2>2, <2>4, <3>2
      <4> HIDE DEF h, t
      <4>3. h \notin As!Elements(t)
        BY <3>2, <4>1 DEF AsBefore
      <4>4. h \notin As!Elements(as_events)
        BY <1>0, <4>1, <4>2 DEF AsOrderByParts, AsInOrder, AsBefore
      <4> QED BY <4>3, <4>4
    <3>3b. h \notin As!Elements(as_streamed)
      <4>1. h \in As!EventIds /\ h[2] \in Nat
        BY <3>2, AsLimits DEF As!EventIds
      <4>2. h \in As!Elements(As!Held("streams"))
        BY <2>2, <2>4, <3>2
      <4> HIDE DEF h, t
      <4> QED BY <1>0, <4>1, <4>2 DEF AsOrderByParts, AsInOrder, AsBefore
    <3>i. /\ AsOrdered(as_streamed) /\ AsOrdered(as_events)
          /\ AsBefore(As!Elements(as_streamed), As!Elements(as_batch))
          /\ AsBefore(As!Elements(as_streamed) \cup As!Elements(as_batch), As!Elements(as_events))
      BY <1>0, <2>2, <2>4 DEF AsOrderByParts, AsInOrder
    <3>s. AsStreams = As!Elements(as_streamed) \cup As!Elements(as_batch) \cup As!Elements(as_events)
      BY <2>2, <2>4 DEF AsStreams
    <3>4. CASE As!Show
      <4>1. as_streamed' = Append(as_streamed, h) /\ as_missed' = as_missed
        BY <2>4, <3>4 DEF As!Show
      <4> HIDE DEF h, t
      <4>2. AsBefore(As!Elements(as_streamed), {h})
        BY <3>2, <3>i DEF AsBefore
      <4>3. /\ As!Elements(Append(as_streamed, h)) = As!Elements(as_streamed) \cup {h}
            /\ AsOrdered(Append(as_streamed, h))
        <5>1. AsPut(as_streamed, h)
          BY <1>t, <3>2, <3>i, AsPuts
        <5>2. AsOrdered(as_streamed)
          BY <3>2, <3>i
        <5> QED BY <4>2, <5>1, <5>2, Zenon DEF AsPut
      <4>4. AsInOrder'
        BY <2>1, <2>2, <2>4, <3>2, <3>i, <4>1, <4>3 DEF AsInOrder, AsBefore
      <4>5. AsStreams' = AsStreams
        BY <2>1, <2>2, <2>4, <3>2, <3>s, <4>1, <4>3 DEF AsStreams
      <4> QED BY <1>0, <2>1, <4>1, <4>4, <4>5 DEF AsOrderByParts
    <3>5. CASE As!ShowFails
      <4>1. as_streamed' = as_streamed /\ as_missed' = as_missed \cup {h}
        BY <2>4, <3>5 DEF As!ShowFails
      <4> HIDE DEF h, t
      <4>4. AsInOrder'
        BY <2>1, <2>2, <2>4, <3>2, <3>i, <4>1 DEF AsInOrder, AsBefore
      <4>5. AsStreams' = AsStreams \ {h} /\ h \in AsStreams
        BY <2>1, <2>2, <2>4, <3>2, <3>3, <3>3b, <3>s, <4>1 DEF AsStreams
      <4>6. \A s \in Sessions : \A n \in 1 .. as_pushed'[s] :
              (<<s, n>> \in AsStreams') # (<<s, n>> \in as_missed')
        <5> SUFFICES ASSUME NEW s \in Sessions, NEW n \in 1 .. as_pushed'[s]
                     PROVE  (<<s, n>> \in AsStreams') # (<<s, n>> \in as_missed')
          OBVIOUS
        <5> DEFINE e == <<s, n>>
        <5>1. (e \in AsStreams) # (e \in as_missed)
          BY <1>0, <2>1 DEF AsOrderByParts
        <5> HIDE DEF e
        <5>2. (e \in AsStreams') # (e \in as_missed')
          BY <4>1, <4>5, <5>1
        <5> QED BY <5>2 DEF e
      <4>7. \A e \in AsStreams' \cup as_missed' : e[2] <= as_pushed'[e[1]]
        BY <1>0, <2>1, <4>1, <4>5 DEF AsOrderByParts
      <4> QED BY <4>4, <4>6, <4>7 DEF AsOrderByParts
    <3> QED BY <1>7, <3>4, <3>5
  <2> QED BY <2>2, <2>3, <2>4
<1> QED BY <1>2, <1>3, <1>4, <1>5, <1>6, <1>7 DEF As!Next

LEMMA AsInit == As!Init => AsIInv
<1> SUFFICES ASSUME As!Init PROVE AsIInv
  OBVIOUS
<1>1. As!TypeOK
  <2>1. <<>> \in Seq(As!Ids) /\ <<>> \in Seq(As!EventIds)
    OBVIOUS
  <2>2. as_pushed \in [Sessions -> 0 .. MaxChunks + 1] /\ as_next_id \in 1 .. AsyncCalls + 1
    BY AsLimits DEF As!Init
  <2> QED BY <2>1, <2>2 DEF As!Init, As!TypeOK
<1>2. /\ as_queue = <<>> /\ as_taken = <<>> /\ as_shown = <<>> /\ as_streamed = <<>> /\ as_events = <<>>
      /\ As!Held("results") = <<>> /\ As!Held("streams") = <<>>
  BY DEF As!Init, As!Held
<1>3. As!Elements(<<>>) = {} /\ As!Injective(<<>>) /\ AsOrdered(<<>>)
  BY AsSmall
<1>4. As!ResultsOnce
  <2>1. AsOnceByParts
    BY <1>2, <1>3 DEF AsOnceByParts, AsApart, AsAll, As!Init
  <2> QED BY <1>1, <2>1, AsOnce
<1>5. As!StreamsInOrder /\ AsNumbered
  <2>1. AsStreams = {} /\ AsInOrder
    BY <1>2, <1>3 DEF AsStreams, AsInOrder, AsBefore
  <2>2. AsOrderByParts
    BY <2>1 DEF AsOrderByParts, As!Init
  <2> QED BY <1>1, <2>2, AsOrder
<1> QED BY <1>1, <1>4, <1>5 DEF AsIInv, As!Init

LEMMA AsStep == AsIInv /\ [As!Next]_(As!vars) => AsIInv'
<1> SUFFICES ASSUME AsIInv, [As!Next]_(As!vars) PROVE AsIInv'
  OBVIOUS
<1>1. CASE As!Next
  BY <1>1, AsType, AsOnceStep, AsOrderStep DEF AsIInv
<1>2. CASE UNCHANGED As!vars
  <2>1. UNCHANGED <<As!TypeOK, As!Results, As!Events>>
    BY <1>2 DEF As!vars, As!TypeOK, As!Results, As!Events, As!Held
  <2>2. UNCHANGED <<As!ResultsOnce, As!StreamsInOrder, AsNumbered>>
    BY <1>2, <2>1 DEF As!vars, As!ResultsOnce, As!StreamsInOrder, AsNumbered
  <2> QED BY <1>2, <2>1, <2>2 DEF As!vars, AsIInv
<1> QED BY <1>1, <1>2

\* In the library, the part's invariant holds whatever the behaviour is about: the
\* part begins in one of its initial states, and a step is one of its own or none.
LEMMA AsHolds == Spec => []AsIInv
<1>1. Init => AsIInv
  BY AsInit DEF Init
<1>2. AsIInv /\ [Next]_vars => AsIInv'
  <2>1. [Next]_vars => [As!Next]_(As!vars)
    BY Zenon DEF Next, vars, as, As!vars
  <2> QED BY <2>1, AsStep
<1> QED BY <1>1, <1>2, PTL DEF Spec

-----------------------------------------------------------------------------
(* HTTP server.  Requests of a connection are numbered as they come: what was  *)
(* killed is never a request to come.  A handler that is alone is the only     *)
(* busy one, and the context is the one it injected.                           *)

LEMMA HsLimits == MaxRequests \in Nat \ {0} /\ MaxStarts \in Nat
BY BoundsAreCounts

HsNumbered ==
  \A c \in Conns :
    /\ hs_pc[c] \in Hs!Handling \cup {"panicked"} => hs_left[c] < MaxRequests
    /\ \A n \in 1..MaxRequests : <<c, n>> \in hs_killed => n <= MaxRequests - hs_left[c]
    /\ hs_pc[c] = "injected" => Hs!Current(c) \notin hs_killed

HsAlone ==
  \A c \in hs_alone :
    hs_pc[c] \in Hs!Handling =>
      /\ hs_context = Hs!Current(c) /\ hs_paraMap = Hs!Current(c)
      /\ \A d \in Conns : d # c => hs_pc[d] \notin Hs!Handling

HsIInv == Hs!TypeOK /\ HsNumbered /\ Hs!RegistryIsExact /\ HsAlone /\ Hs!ContextWhenAlone

\* What the accept loops do leaves the handlers alone.
HsLoopStep ==
  \/ Hs!serverStart \/ Hs!serverStop
  \/ \E l \in Hs!Loops : Hs!RunLoop(l)

LEMMA HsInit == Hs!Init => HsIInv
<1> SUFFICES ASSUME Hs!Init PROVE HsIInv
  OBVIOUS
<1> USE HsLimits DEF Hs!Init
<1>1. Hs!TypeOK
  <2>1. hs_starts \in 0 .. MaxStarts /\ hs_left \in [Conns -> 0 .. MaxRequests]
    OBVIOUS
  <2> QED BY <2>1 DEF Hs!TypeOK
<1>2. HsNumbered /\ Hs!RegistryIsExact /\ HsAlone /\ Hs!ContextWhenAlone
  BY DEF HsNumbered, Hs!RegistryIsExact, HsAlone, Hs!ContextWhenAlone, Hs!Handling
<1> QED BY <1>1, <1>2 DEF HsIInv

LEMMA HsCurrent ==
  ASSUME Hs!TypeOK, NEW c \in Conns, hs_left[c] < MaxRequests
  PROVE  Hs!Current(c) \in Hs!Requests
BY HsLimits DEF Hs!TypeOK, Hs!Current, Hs!Requests

LEMMA HsLoops ==
  ASSUME HsIInv, HsLoopStep
  PROVE  HsIInv'
<1>1. UNCHANGED <<hs_pc, hs_left, hs_context, hs_paraMap, hs_active, hs_killed, hs_misled, hs_alone>>
  BY Zenon DEF HsLoopStep, Hs!RunLoop, Hs!serverStart, Hs!serverStop, Hs!SetFlags,
     Hs!NoCertificate, Hs!Bind,
     Hs!BindFails, Hs!StopLoop, Hs!EndLoop
<1>2. /\ hs_running' \in BOOLEAN /\ hs_stop' \in BOOLEAN
      /\ hs_starts' \in 0 .. MaxStarts
      /\ hs_loop' \in [Hs!Loops -> {"none", "checked", "binding", "accepting", "ended"}]
  <2> USE HsLimits DEF HsIInv, Hs!TypeOK
  <2>1. CASE Hs!serverStop
    BY <2>1 DEF Hs!serverStop
  <2>3. CASE Hs!serverStart
    <3>1. hs_starts' \in 0 .. MaxStarts
      BY <2>3 DEF Hs!serverStart
    <3> QED BY <2>3, <3>1 DEF Hs!serverStart
  <2>2. ASSUME NEW l \in Hs!Loops, Hs!RunLoop(l)
        PROVE  /\ hs_running' \in BOOLEAN /\ hs_stop' \in BOOLEAN
               /\ hs_starts' \in 0 .. MaxStarts
               /\ hs_loop' \in [Hs!Loops -> {"none", "checked", "binding", "accepting", "ended"}]
    BY <2>2 DEF Hs!RunLoop, Hs!SetFlags, Hs!NoCertificate, Hs!Bind, Hs!BindFails,
       Hs!StopLoop, Hs!EndLoop, Hs!Clear
  <2> QED BY <2>1, <2>2, <2>3 DEF HsLoopStep
<1> QED
  BY <1>1, <1>2 DEF HsIInv, Hs!TypeOK, HsNumbered, Hs!RegistryIsExact, HsAlone,
     Hs!ContextWhenAlone,
     Hs!Current

\* A connection outside its handler: accepted, closed, or served without one.
LEMMA HsOutside ==
  ASSUME HsIInv, NEW c \in Conns, UNCHANGED <<Hs!server, hs_context, hs_paraMap, hs_active, hs_killed, hs_misled, hs_alone>>,
         hs_pc[c] \in {"none", "reading"}, NEW to \in {"reading", "closed"},
         hs_pc' = [hs_pc EXCEPT ![c] = to],
         hs_left' \in {hs_left, [hs_left EXCEPT ![c] = @ - 1]}, hs_left' # hs_left => hs_left[c] > 0
  PROVE  HsIInv'
<1>1. Hs!TypeOK'
  BY HsLimits DEF HsIInv, Hs!TypeOK, Hs!server
<1>2. \A d \in Conns : d # c => hs_left'[d] = hs_left[d] /\ hs_pc'[d] = hs_pc[d]
  BY DEF HsIInv, Hs!TypeOK
<1>3. hs_left'[c] <= hs_left[c] /\ hs_left'[c] \in 0 .. MaxRequests /\ hs_pc'[c] = to
  BY HsLimits DEF HsIInv, Hs!TypeOK
<1>4. HsNumbered'
  <2> SUFFICES ASSUME NEW e \in Conns
               PROVE  /\ hs_pc'[e] \in Hs!Handling \cup {"panicked"} => hs_left'[e] < MaxRequests
                      /\ \A n \in 1..MaxRequests : <<e, n>> \in hs_killed => n <= MaxRequests - hs_left'[e]
                      /\ hs_pc'[e] = "injected" => Hs!Current(e)' \notin hs_killed
    BY DEF HsNumbered
  <2>1. /\ hs_pc[e] \in Hs!Handling \cup {"panicked"} => hs_left[e] < MaxRequests
        /\ \A n \in 1..MaxRequests : <<e, n>> \in hs_killed => n <= MaxRequests - hs_left[e]
        /\ hs_pc[e] = "injected" => Hs!Current(e) \notin hs_killed
    BY DEF HsIInv, HsNumbered
  <2>2. CASE e = c
    <3>1. hs_left[c] \in 0 .. MaxRequests
      BY DEF HsIInv, Hs!TypeOK
    <3> QED BY <1>3, <2>1, <2>2, <3>1, HsLimits DEF Hs!Handling
  <2>3. CASE e # c
    BY <1>2, <2>1, <2>3 DEF Hs!Current
  <2> QED BY <2>2, <2>3
<1>5. Hs!RegistryIsExact'
  BY <1>2, <1>3 DEF HsIInv, Hs!RegistryIsExact, Hs!Current
<1>6. HsAlone' /\ Hs!ContextWhenAlone'
  BY <1>2, <1>3 DEF HsIInv, Hs!TypeOK, HsAlone, Hs!Handling, Hs!Current, Hs!ContextWhenAlone
<1> QED BY <1>1, <1>4, <1>5, <1>6 DEF HsIInv

LEMMA HsKill ==
  ASSUME HsIInv, NEW c \in Conns, NEW r \in Hs!Requests, Hs!AdminKill(c, r)
  PROVE  HsIInv'
<1>1. PICK d \in Conns, n \in 1..MaxRequests : r = <<d, n>>
  BY DEF Hs!Requests
<1>2. /\ hs_pc[c] = "reading" /\ r \in hs_active /\ hs_pc' = hs_pc
      /\ hs_left' = [hs_left EXCEPT ![c] = hs_left[c] - 1] /\ hs_left[c] > 0
      /\ hs_active' = hs_active \ {r} /\ hs_killed' = hs_killed \cup {r}
      /\ UNCHANGED <<Hs!server, hs_context, hs_paraMap, hs_misled, hs_alone>>
  BY DEF Hs!AdminKill
<1>3. /\ hs_pc[d] \in {"registered", "panicked"} /\ Hs!Current(d) = <<d, n>> /\ d # c
  BY <1>1, <1>2 DEF HsIInv, Hs!RegistryIsExact
<1>4. Hs!TypeOK'
  BY <1>2, HsLimits DEF HsIInv, Hs!TypeOK, Hs!server
<1>5. /\ \A e \in Conns : e # c => hs_left'[e] = hs_left[e] /\ Hs!Current(e)' = Hs!Current(e)
      /\ hs_left'[c] = hs_left[c] - 1 /\ hs_left[c] \in 1 .. MaxRequests
  BY <1>2, HsLimits DEF HsIInv, Hs!TypeOK, Hs!Current
<1>6. n = MaxRequests - hs_left[d]
  BY <1>3 DEF Hs!Current
<1>7. HsNumbered'
  <2> SUFFICES ASSUME NEW e \in Conns
               PROVE  /\ hs_pc'[e] \in Hs!Handling \cup {"panicked"} => hs_left'[e] < MaxRequests
                      /\ \A m \in 1..MaxRequests : <<e, m>> \in hs_killed' => m <= MaxRequests - hs_left'[e]
                      /\ hs_pc'[e] = "injected" => Hs!Current(e)' \notin hs_killed'
    BY DEF HsNumbered
  <2>1. /\ hs_pc[e] \in Hs!Handling \cup {"panicked"} => hs_left[e] < MaxRequests
        /\ \A m \in 1..MaxRequests : <<e, m>> \in hs_killed => m <= MaxRequests - hs_left[e]
        /\ hs_pc[e] = "injected" => Hs!Current(e) \notin hs_killed
    BY DEF HsIInv, HsNumbered
  <2>2. hs_left[e] \in 0 .. MaxRequests
    BY DEF HsIInv, Hs!TypeOK
  <2>3. CASE e = c
    BY <1>1, <1>2, <1>3, <1>5, <2>1, <2>2, <2>3, HsLimits DEF Hs!Handling
  <2>4. CASE e # c
    <3>1. hs_pc[e] = "injected" => Hs!Current(e) # r
      BY <1>1, <1>3 DEF Hs!Current
    <3> QED BY <1>1, <1>2, <1>5, <1>6, <2>1, <2>2, <2>4, <3>1, HsLimits
  <2> QED BY <2>3, <2>4
<1>8. Hs!RegistryIsExact'
  BY <1>1, <1>2, <1>3, <1>5 DEF HsIInv, Hs!RegistryIsExact
<1>9. HsAlone' /\ Hs!ContextWhenAlone'
  BY <1>2, <1>5 DEF HsIInv, Hs!TypeOK, HsAlone, Hs!Handling, Hs!ContextWhenAlone
<1> QED BY <1>4, <1>7, <1>8, <1>9 DEF HsIInv

LEMMA HsInject ==
  ASSUME HsIInv, NEW c \in Conns, Hs!Inject(c)
  PROVE  HsIInv'
<1>1. /\ hs_pc[c] = "reading" /\ hs_left[c] \in 1 .. MaxRequests
      /\ hs_left' = [hs_left EXCEPT ![c] = hs_left[c] - 1]
      /\ hs_pc' = [hs_pc EXCEPT ![c] = "injected"]
      /\ hs_context' = Hs!Current(c)' /\ hs_paraMap' = Hs!Current(c)'
      /\ hs_misled' = hs_misled \ {c}
      /\ hs_alone' = IF Hs!Busy = {} THEN {c} ELSE {}
      /\ UNCHANGED <<hs_running, hs_stop, hs_starts, hs_loop, hs_active, hs_killed>>
  BY HsLimits DEF HsIInv, Hs!TypeOK, Hs!Inject, Hs!Inserted, Hs!server
<1>2. /\ \A e \in Conns : e # c => hs_pc'[e] = hs_pc[e] /\ hs_left'[e] = hs_left[e] /\ Hs!Current(e)' = Hs!Current(e)
      /\ hs_left'[c] = hs_left[c] - 1 /\ hs_pc'[c] = "injected"
      /\ Hs!Current(c)' = <<c, MaxRequests - hs_left[c] + 1>>
  BY <1>1, HsLimits DEF HsIInv, Hs!TypeOK, Hs!Current
<1>3. Hs!Current(c)' \in Hs!Requests
  BY <1>1, <1>2, HsLimits DEF Hs!Requests
<1>4. Hs!TypeOK'
  BY <1>1, <1>3, HsLimits DEF HsIInv, Hs!TypeOK, Hs!Handling
<1>5. HsNumbered'
  BY <1>1, <1>2, HsLimits DEF HsIInv, Hs!TypeOK, HsNumbered, Hs!Handling
<1>6. Hs!RegistryIsExact'
  BY <1>1, <1>2 DEF HsIInv, Hs!RegistryIsExact
<1>7. HsAlone'
  BY <1>1, <1>2 DEF HsAlone, Hs!Busy
<1>8. Hs!ContextWhenAlone'
  BY <1>1 DEF Hs!ContextWhenAlone
<1> QED BY <1>4, <1>5, <1>6, <1>7, <1>8 DEF HsIInv

\* A handler registers, looks at its context, is unregistered, panics or responds.
LEMMA HsHandler ==
  ASSUME HsIInv, NEW c \in Conns,
         Hs!Register(c) \/ Hs!Look(c) \/ Hs!HandlerPanics(c) \/ Hs!Respond(c)
         \/ (\E how \in {"returned", "threw"} : Hs!Unregister(c, how))
  PROVE  HsIInv'
<1>1. PICK to \in Hs!Handling \cup {"panicked", "reading", "closed"} :
        /\ hs_pc' = [hs_pc EXCEPT ![c] = to] /\ UNCHANGED <<Hs!server, hs_left, hs_killed, hs_alone, hs_paraMap>>
        /\ hs_pc[c] \in Hs!Handling
        /\ \/ /\ hs_pc[c] = "injected" /\ to = "registered"
              /\ hs_active' = hs_active \cup {Hs!Current(c)} /\ UNCHANGED <<hs_context, hs_misled>>
           \/ /\ hs_pc[c] = "registered" /\ to = "registered" /\ UNCHANGED <<hs_active, hs_context>>
              /\ hs_misled' = IF {hs_context, hs_paraMap} = {Hs!Current(c)} THEN hs_misled ELSE hs_misled \cup {c}
           \/ hs_pc[c] = "registered" /\ to = "panicked" /\ UNCHANGED <<hs_active, hs_context, hs_misled>>
           \/ /\ hs_pc[c] = "registered" /\ to = "unregistered"
              /\ hs_active' = hs_active \ {Hs!Current(c)} /\ UNCHANGED <<hs_context, hs_misled>>
           \/ /\ hs_pc[c] = "unregistered" /\ to \in {"reading", "closed"}
              /\ hs_context' = None /\ UNCHANGED <<hs_active, hs_misled>>
  <2>1. CASE Hs!Register(c)
    BY <2>1 DEF Hs!Register, Hs!Handling
  <2>2. CASE Hs!Look(c)
    <3>1. hs_pc' = [hs_pc EXCEPT ![c] = "registered"]
      BY <2>2 DEF Hs!Look, HsIInv, Hs!TypeOK
    <3> QED BY <2>2, <3>1 DEF Hs!Look, Hs!Handling
  <2>3. CASE Hs!HandlerPanics(c)
    BY <2>3 DEF Hs!HandlerPanics, Hs!Handling
  <2>4. CASE Hs!Respond(c)
    BY <2>4 DEF Hs!Respond, Hs!Handling
  <2>5. ASSUME NEW how \in {"returned", "threw"}, Hs!Unregister(c, how)
        PROVE  /\ hs_pc[c] = "registered" /\ hs_active' = hs_active \ {Hs!Current(c)}
               /\ hs_pc' = [hs_pc EXCEPT ![c] = "unregistered"]
               /\ UNCHANGED <<Hs!server, hs_left, hs_killed, hs_alone, hs_paraMap, hs_context, hs_misled>>
    BY <2>5 DEF Hs!Unregister, Hs!Unregistered
  <2>6. CASE \E how \in {"returned", "threw"} : Hs!Unregister(c, how)
    BY <2>5, <2>6 DEF Hs!Handling
  <2> QED BY <2>1, <2>2, <2>3, <2>4, <2>6
<1>2. /\ \A e \in Conns : e # c => hs_pc'[e] = hs_pc[e]
      /\ hs_pc'[c] = to /\ \A e \in Conns : hs_left'[e] = hs_left[e] /\ Hs!Current(e)' = Hs!Current(e)
  BY <1>1 DEF HsIInv, Hs!TypeOK, Hs!Current
<1>3. Hs!Current(c) \in Hs!Requests
  BY <1>1, HsCurrent DEF HsIInv, HsNumbered
<1>4. Hs!TypeOK'
  BY <1>1, <1>3 DEF HsIInv, Hs!TypeOK, Hs!Handling, Hs!server
<1>5. HsNumbered'
  BY <1>1, <1>2 DEF HsIInv, HsNumbered, Hs!Handling
<1>6. Hs!RegistryIsExact'
  <2> SUFFICES ASSUME NEW d \in Conns, NEW n \in 1 .. MaxRequests
               PROVE  <<d, n>> \in hs_active' <=>
                        /\ hs_pc'[d] \in {"registered", "panicked"} /\ Hs!Current(d) = <<d, n>>
                        /\ <<d, n>> \notin hs_killed
    BY <1>1, <1>2 DEF Hs!RegistryIsExact
  <2>1. <<d, n>> \in hs_active <=>
          /\ hs_pc[d] \in {"registered", "panicked"} /\ Hs!Current(d) = <<d, n>>
          /\ <<d, n>> \notin hs_killed
    BY DEF HsIInv, Hs!RegistryIsExact
  <2>2. hs_pc[c] = "injected" => Hs!Current(c) \notin hs_killed
    BY DEF HsIInv, HsNumbered
  <2>3. d # c => <<d, n>> # Hs!Current(c)
    BY DEF Hs!Current
  <2> QED BY <1>1, <1>2, <2>1, <2>2, <2>3
<1>7. HsAlone'
  BY <1>1, <1>2 DEF HsIInv, Hs!TypeOK, HsAlone, Hs!Handling
<1>8. Hs!ContextWhenAlone'
  BY <1>1 DEF HsIInv, HsAlone, Hs!ContextWhenAlone
<1> QED BY <1>4, <1>5, <1>6, <1>7, <1>8 DEF HsIInv

LEMMA HsStep == HsIInv /\ [Hs!Next]_(Hs!vars) => HsIInv'
<1> SUFFICES ASSUME HsIInv, Hs!Next \/ UNCHANGED Hs!vars PROVE HsIInv'
  OBVIOUS
<1>1. CASE Hs!serverStart \/ Hs!serverStop \/ (\E l \in Hs!Loops : Hs!RunLoop(l))
  BY <1>1, HsLoops DEF HsLoopStep
<1>2. ASSUME NEW l \in Hs!Loops, NEW c \in Conns, Hs!Accept(l, c) PROVE HsIInv'
  BY <1>2, HsOutside DEF Hs!Accept
<1>3. ASSUME NEW c \in Conns, Hs!Close(c) PROVE HsIInv'
  BY <1>3, HsOutside DEF Hs!Close
<1>4. ASSUME NEW c \in Conns, Hs!ServeOther(c) PROVE HsIInv'
  BY <1>4, HsOutside DEF Hs!ServeOther
<1>5. ASSUME NEW c \in Conns, Hs!Serve(c) PROVE HsIInv'
  BY <1>3, <1>4, <1>5, HsKill, HsInject, HsHandler, Zenon DEF Hs!Serve
<1>6. CASE UNCHANGED Hs!vars
  BY <1>6 DEF Hs!vars, Hs!server, HsIInv, Hs!TypeOK, HsNumbered, Hs!RegistryIsExact,
     HsAlone, Hs!ContextWhenAlone,
     Hs!Current
<1> QED BY <1>1, <1>2, <1>5, <1>6 DEF Hs!Next

LEMMA HsHolds == Spec => []HsIInv
<1>1. Init => HsIInv
  BY HsInit DEF Init
<1>2. HsIInv /\ [Next]_vars => HsIInv'
  <2>1. [Next]_vars => [Hs!Next]_(Hs!vars)
    BY Zenon DEF Next, vars, hs, Hs!server, Hs!vars
  <2> QED BY <2>1, HsStep
<1> QED BY <1>1, <1>2, PTL DEF Spec

-----------------------------------------------------------------------------
(* Process.  Who has the child's mutex is the only one between seeing the      *)
(* child end and storing the code.                                             *)

LEMMA PrLimits == {ProcessCalls} \subseteq Nat
BY BoundsAreCounts

LEMMA PrNone == None \notin Users \cup Pr!Codes
BY NoneIsNobody DEF Pr!Codes

PrInside ==
  \A u \in Users :
    /\ pr_pc[u] \in {"locked", "killing", "killed", "reaped", "stored"} => pr_lock = u
    /\ pr_pc[u] \in {"killed", "reaped", "stored"} => pr_child # None
    /\ pr_pc[u] = "killed" => pr_child = -1 \/ pr_overtaken
    /\ pr_pc[u] \in {"reaped", "stored"} => pr_seen[u] # None /\ Pr!IsExitCode(pr_seen[u])
    /\ pr_pc[u] # "idle" => pr_answer[u] = None

\* Only a procWait that found running cleared can come too early for the code.
PrWaits ==
  \A u \in Users : pr_pc[u] = "code" /\ pr_op[u] = "procWait" => ~pr_running \/ pr_exit_code # None

PrIInv == Pr!TypeOK /\ PrInside /\ PrWaits /\ Pr!OneExitCode

LEMMA PrInit == Pr!Init => PrIInv
<1> SUFFICES ASSUME Pr!Init PROVE PrIInv
  OBVIOUS
<1>1. Pr!TypeOK
  <2>1. /\ pr_pc \in [Users -> {"idle", "asked", "locked", "killing", "killed", "reaped",
                              "stored", "code"}]
        /\ pr_op \in [Users -> Pr!Ops] /\ pr_calls \in 0 .. ProcessCalls
    BY PrLimits DEF Pr!Init, Pr!Ops
  <2> QED BY <2>1, Zenon DEF Pr!Init, Pr!TypeOK
<1>2. PrInside /\ PrWaits /\ Pr!OneExitCode
  BY DEF Pr!Init, PrInside, PrWaits, Pr!OneExitCode
<1> QED BY <1>1, <1>2 DEF PrIInv

LEMMA PrType == ASSUME PrIInv, Pr!Next PROVE Pr!TypeOK'
<1> USE DEF PrIInv, Pr!TypeOK, Pr!Goes
<1>1. CASE Pr!Exit
  BY <1>1 DEF Pr!Exit
<1>2. ASSUME NEW u \in Users, NEW o \in Pr!Ops, Pr!Call(u, o) PROVE Pr!TypeOK'
  BY <1>2, PrLimits DEF Pr!Call
<1>3. ASSUME NEW u \in Users, Pr!Step(u) PROVE Pr!TypeOK'
  <2>1. CASE Pr!Lock(u) \/ Pr!Reap(u) \/ Pr!StillRuns(u)
    BY <2>1 DEF Pr!Lock, Pr!Reap, Pr!StillRuns
  <2>2. CASE Pr!FoundRunning(u) \/ Pr!Kill(u) \/ Pr!WaitKilled(u) \/ Pr!StoreRunning(u)
    BY <2>2 DEF Pr!FoundRunning, Pr!Kill, Pr!WaitKilled, Pr!StoreRunning, Pr!Codes
  <2>3. CASE Pr!StoreCode(u)
    BY <2>3 DEF Pr!StoreCode, Pr!Kept
  <2>4. CASE Pr!ReadCode(u)
    BY <2>4 DEF Pr!ReadCode, Pr!Codes
  <2> QED BY <1>3, <2>1, <2>2, <2>3, <2>4 DEF Pr!Step
<1> QED BY <1>1, <1>2, <1>3 DEF Pr!Next

LEMMA PrInv == ASSUME PrIInv, Pr!Next PROVE (PrInside /\ PrWaits /\ Pr!OneExitCode)'
<1> USE DEF PrIInv, Pr!TypeOK, Pr!Goes, PrInside, PrWaits, Pr!OneExitCode, Pr!IsExitCode
<1>1. CASE Pr!Exit
  BY <1>1, PrNone DEF Pr!Exit
<1>2. ASSUME NEW u \in Users, NEW o \in Pr!Ops, Pr!Call(u, o)
      PROVE  (PrInside /\ PrWaits /\ Pr!OneExitCode)'
  BY <1>2 DEF Pr!Call
<1>3. ASSUME NEW u \in Users, Pr!Lock(u) PROVE (PrInside /\ PrWaits /\ Pr!OneExitCode)'
  BY <1>3, PrNone DEF Pr!Lock
<1>4. ASSUME NEW u \in Users, Pr!Reap(u) PROVE (PrInside /\ PrWaits /\ Pr!OneExitCode)'
  BY <1>4 DEF Pr!Reap
<1>5. ASSUME NEW u \in Users, Pr!StillRuns(u) PROVE (PrInside /\ PrWaits /\ Pr!OneExitCode)'
  BY <1>5, PrNone DEF Pr!StillRuns
<1>6. ASSUME NEW u \in Users, Pr!Kill(u) PROVE (PrInside /\ PrWaits /\ Pr!OneExitCode)'
  BY <1>6, PrNone DEF Pr!Kill, Pr!Codes
<1>10. ASSUME NEW u \in Users, Pr!FoundRunning(u) PROVE (PrInside /\ PrWaits /\ Pr!OneExitCode)'
  BY <1>10, PrNone DEF Pr!FoundRunning
<1>11. ASSUME NEW u \in Users, Pr!WaitKilled(u) PROVE (PrInside /\ PrWaits /\ Pr!OneExitCode)'
  BY <1>11, PrNone DEF Pr!WaitKilled, Pr!Codes
<1>7. ASSUME NEW u \in Users, Pr!StoreRunning(u) PROVE (PrInside /\ PrWaits /\ Pr!OneExitCode)'
  BY <1>7 DEF Pr!StoreRunning
<1>8. ASSUME NEW u \in Users, Pr!StoreCode(u) PROVE (PrInside /\ PrWaits /\ Pr!OneExitCode)'
  BY <1>8 DEF Pr!StoreCode, Pr!Kept
<1>9. ASSUME NEW u \in Users, Pr!ReadCode(u) PROVE (PrInside /\ PrWaits /\ Pr!OneExitCode)'
  BY <1>9 DEF Pr!ReadCode
<1> QED BY <1>1, <1>2, <1>3, <1>4, <1>5, <1>6, <1>7, <1>8, <1>9, <1>10, <1>11 DEF Pr!Next, Pr!Step

LEMMA PrStep == PrIInv /\ [Pr!Next]_(Pr!vars) => PrIInv'
<1>1. ASSUME PrIInv, Pr!Next PROVE PrIInv'
  BY <1>1, PrType, PrInv DEF PrIInv
<1>2. ASSUME PrIInv, UNCHANGED Pr!vars PROVE PrIInv'
  BY <1>2 DEF PrIInv, Pr!vars, Pr!TypeOK, PrInside, PrWaits, Pr!OneExitCode, Pr!IsExitCode
<1> QED BY <1>1, <1>2

LEMMA PrHolds == Spec => []PrIInv
<1>1. Init => PrIInv
  BY PrInit DEF Init
<1>2. PrIInv /\ [Next]_vars => PrIInv'
  <2>1. [Next]_vars => [Pr!Next]_(Pr!vars)
    BY Zenon DEF Next, vars, pr, Pr!vars
  <2> QED BY <2>1, PrStep
<1> QED BY <1>1, <1>2, PTL DEF Spec

-----------------------------------------------------------------------------
(* Cookie jar.  The jar holds cookies that hosts may set for their domains; while *)
(* a request is between its purge and its sending, none in the jar had expired    *)
(* when the request began.  The history of the cookies last set is kept by key.   *)

LEMMA CjLimits == MaxTime \in Nat
BY BoundsAreCounts

CjOwned == \A k \in cj_jar : Cj!Within(k.by, k.domain) /\ (k.host_only => k.by = k.domain)

CjFresh == \A c \in Clients : cj_pc[c] = "purged" => \A k \in cj_jar : k.expires > cj_began[c]

CjAsked ==
  \A c \in Clients : /\ cj_pc[c] # "idle" => cj_request[c] \in Cj!Requests
                     /\ cj_began[c] <= cj_now
                     /\ cj_pc[c] # "sent" => cj_sent[c] = {}

CjKeyed == \A key \in Cj!CookieKeys : cj_latest[key] # None => Cj!Key(cj_latest[key]) = key

CjIInv ==
  /\ Cj!TypeOK /\ CjOwned /\ CjFresh /\ CjAsked /\ CjKeyed
  /\ Cj!CookiesStayHome /\ Cj!OneCookiePerKey

LEMMA CjInit == Cj!Init => CjIInv
<1> SUFFICES ASSUME Cj!Init PROVE CjIInv
  OBVIOUS
<1>1. Cj!TypeOK
  <2>1. cj_latest \in [Cj!CookieKeys -> Cj!Cookies \cup {None}] /\ cj_now \in 0 .. MaxTime
    BY CjLimits DEF Cj!Init
  <2> QED BY <2>1, CjLimits DEF Cj!Init, Cj!TypeOK
<1>2. CjOwned /\ CjFresh /\ CjAsked /\ Cj!CookiesStayHome
  BY CjLimits DEF Cj!Init, CjOwned, CjFresh, CjAsked, Cj!CookiesStayHome
<1>3. Cj!OneCookiePerKey /\ CjKeyed
  BY DEF Cj!Init, Cj!OneCookiePerKey, CjKeyed
<1> QED BY <1>1, <1>2, <1>3 DEF CjIInv

\* A jar that lost only what has expired is as good as before.
LEMMA CjLess ==
  ASSUME CjIInv, cj_jar' = cj_jar \/ cj_jar' = Cj!Unexpired(cj_jar),
         cj_now' \in Nat, cj_now <= cj_now', UNCHANGED cj_latest
  PROVE  CjOwned' /\ CjKeyed' /\ Cj!OneCookiePerKey'
<1>1. cj_jar' \subseteq cj_jar /\ cj_now \in Nat /\ MaxTime \in Nat /\ cj_now <= MaxTime
  BY CjLimits DEF CjIInv, Cj!TypeOK, Cj!Unexpired
<1>2. CjOwned'
  BY <1>1 DEF CjIInv, CjOwned, Cj!Within
<1>3. \A k \in cj_jar' : cj_latest'[Cj!Key(k)] = k
  BY <1>1, Zenon DEF CjIInv, Cj!OneCookiePerKey
<1>4. ASSUME NEW key \in Cj!CookieKeys, cj_latest'[key] # None
      PROVE  cj_latest'[key] \in cj_jar' \/ cj_latest'[key].expires <= cj_now'
  <2> DEFINE k == cj_latest[key]
  <2>1. k \in Cj!Cookies /\ (k \in cj_jar \/ k.expires <= cj_now)
    BY <1>4, Zenon DEF CjIInv, Cj!TypeOK, Cj!OneCookiePerKey
  <2>2. k.expires \in Nat
    BY <2>1, CjLimits DEF Cj!Cookies
  <2>3. CASE k.expires <= cj_now
    BY <1>1, <2>2, <2>3
  <2>4. CASE k \in cj_jar /\ ~(k.expires <= cj_now)
    <3>1. k.expires > cj_now
      BY <1>1, <2>2, <2>4
    <3> QED BY <2>4, <3>1, Zenon DEF Cj!Unexpired
  <2> QED BY <2>1, <2>3, <2>4
<1>5. CjKeyed'
  BY Zenon DEF CjIInv, CjKeyed, Cj!Key
<1> QED BY <1>2, <1>3, <1>4, <1>5, Zenon DEF Cj!OneCookiePerKey, Cj!Key

LEMMA CjTick == ASSUME CjIInv, Cj!Tick \/ Cj!Clear PROVE CjIInv'
<1>1. Cj!TypeOK'
  <2>1. CASE Cj!Tick
    BY <2>1, CjLimits DEF CjIInv, Cj!TypeOK, Cj!Tick
  <2>2. CASE Cj!Clear
    <3>1. cj_latest' \in [Cj!CookieKeys -> Cj!Cookies \cup {None}]
      BY <2>2 DEF Cj!Clear
    <3> QED BY <2>2, <3>1 DEF CjIInv, Cj!TypeOK, Cj!Clear
  <2> QED BY <2>1, <2>2
<1>2. cj_jar' \subseteq cj_jar /\ cj_now <= cj_now' /\ UNCHANGED <<cj_pc, cj_request, cj_sent, cj_began>>
  BY DEF CjIInv, Cj!TypeOK, Cj!Tick, Cj!Clear
<1>3. CjOwned' /\ CjKeyed' /\ Cj!OneCookiePerKey'
  <2>1. CASE Cj!Tick
    BY <1>1, <1>2, <2>1, CjLess DEF Cj!Tick, Cj!TypeOK
  <2>2. CASE Cj!Clear
    BY <2>2 DEF Cj!Clear, CjOwned, CjKeyed, Cj!OneCookiePerKey
  <2> QED BY <2>1, <2>2
<1>4. CjFresh' /\ CjAsked' /\ Cj!CookiesStayHome'
  BY <1>1, <1>2 DEF CjIInv, Cj!TypeOK, CjFresh, CjAsked, Cj!CookiesStayHome, Cj!Within
<1> QED BY <1>1, <1>3, <1>4 DEF CjIInv

LEMMA CjStart ==
  ASSUME CjIInv, NEW c \in Clients, NEW r \in Visits, Cj!Start(c, r)
  PROVE  CjIInv'
<1>0. /\ cj_pc[c] = "idle" /\ cj_request' = [cj_request EXCEPT ![c] = r] /\ cj_jar' = Cj!Unexpired(cj_jar)
      /\ cj_began' = [cj_began EXCEPT ![c] = cj_now] /\ cj_sent' = [cj_sent EXCEPT ![c] = {}]
      /\ cj_pc' = [cj_pc EXCEPT ![c] = "purged"] /\ UNCHANGED <<cj_now, cj_latest>>
      /\ r \in Cj!Requests
  BY ClientsAsk DEF Cj!Start
<1>1. cj_jar' \subseteq cj_jar /\ \A k \in cj_jar' : k.expires > cj_now
  BY <1>0, CjLimits DEF CjIInv, Cj!TypeOK, Cj!Unexpired, Cj!Never
<1>2. Cj!TypeOK'
  BY <1>0, <1>1 DEF CjIInv, Cj!TypeOK
<1>3. CjOwned' /\ CjKeyed' /\ Cj!OneCookiePerKey'
  BY <1>0, <1>2, CjLess DEF Cj!TypeOK
<1>4. CjFresh' /\ CjAsked'
  BY <1>0, <1>1 DEF CjIInv, Cj!TypeOK, CjFresh, CjAsked
<1>5. Cj!CookiesStayHome'
  BY <1>0, <1>1 DEF CjIInv, Cj!TypeOK, Cj!CookiesStayHome, Cj!Within
<1> QED BY <1>2, <1>3, <1>4, <1>5 DEF CjIInv

LEMMA CjAttach ==
  ASSUME CjIInv, NEW c \in Clients, Cj!Attach(c)
  PROVE  CjIInv'
<1>0. /\ cj_pc[c] = "purged" /\ cj_sent' = [cj_sent EXCEPT ![c] = Cj!Matching(cj_request[c])]
      /\ cj_pc' = [cj_pc EXCEPT ![c] = "sent"] /\ UNCHANGED <<cj_now, cj_jar, cj_request, cj_began, cj_latest>>
  BY DEF Cj!Attach
<1>1. Cj!Matching(cj_request[c]) \subseteq cj_jar
  BY DEF Cj!Matching
<1>2. Cj!TypeOK'
  BY <1>0, <1>1 DEF CjIInv, Cj!TypeOK
<1>3. CjOwned' /\ CjKeyed' /\ Cj!OneCookiePerKey'
  BY <1>0, <1>2, CjLess DEF Cj!TypeOK
<1>4. CjFresh' /\ CjAsked'
  BY <1>0 DEF CjIInv, Cj!TypeOK, CjFresh, CjAsked
<1>5. \A k \in Cj!Matching(cj_request[c]) :
        /\ Cj!Within(k.by, k.domain) /\ Cj!Within(cj_request[c].host, k.domain)
        /\ k.host_only => k.by = cj_request[c].host
        /\ k.path \in {"/", cj_request[c].path} /\ (k.secure => cj_request[c].https)
        /\ k.expires > cj_began[c]
  <2> SUFFICES ASSUME NEW k \in cj_jar, k \in Cj!Matching(cj_request[c])
               PROVE  /\ Cj!Within(k.by, k.domain) /\ Cj!Within(cj_request[c].host, k.domain)
                      /\ k.host_only => k.by = cj_request[c].host
                      /\ k.path \in {"/", cj_request[c].path} /\ (k.secure => cj_request[c].https)
                      /\ k.expires > cj_began[c]
    BY <1>1
  <2>1. (k.secure => cj_request[c].https) /\ Cj!DomainMatches(cj_request[c].host, k)
        /\ Cj!PathMatches(cj_request[c].path, k)
    BY Zenon DEF Cj!Matching
  <2>2. /\ Cj!Within(k.by, k.domain) /\ (k.host_only => k.by = k.domain)
        /\ k.expires > cj_began[c]
    BY <1>0 DEF CjIInv, CjOwned, CjFresh
  <2>3. Cj!Within(cj_request[c].host, k.domain) /\ (k.host_only => k.by = cj_request[c].host)
    BY <2>1, <2>2 DEF Cj!DomainMatches, Cj!Within
  <2>4. k.path \in {"/", cj_request[c].path}
    BY <2>1 DEF Cj!PathMatches
  <2> QED BY <2>1, <2>2, <2>3, <2>4
<1>6. Cj!CookiesStayHome'
  <2> SUFFICES ASSUME NEW d \in Clients, NEW k \in cj_sent'[d]
               PROVE  (/\ Cj!Within(k.by, k.domain) /\ Cj!Within(cj_request[d].host, k.domain)
                       /\ k.host_only => k.by = cj_request[d].host
                       /\ k.path \in {"/", cj_request[d].path} /\ (k.secure => cj_request[d].https)
                       /\ k.expires > cj_began[d])
    BY <1>0, Zenon DEF Cj!CookiesStayHome, Cj!Within
  <2>1. CASE d = c
    <3>1. cj_sent'[c] = Cj!Matching(cj_request[c])
      BY <1>0 DEF CjIInv, Cj!TypeOK
    <3> QED BY <1>5, <2>1, <3>1, Zenon
  <2>2. CASE d # c
    <3>1. cj_sent'[d] = cj_sent[d]
      BY <1>0, <2>2 DEF CjIInv, Cj!TypeOK
    <3> QED BY <3>1, Zenon DEF CjIInv, Cj!CookiesStayHome
  <2> QED BY <2>1, <2>2
<1> QED BY <1>2, <1>3, <1>4, <1>6 DEF CjIInv

\* A request that is over, or waits for its cookies to be stored, carries none.
LEMMA CjOver ==
  ASSUME CjIInv, NEW c \in Clients, UNCHANGED cj_now,
         \/ /\ cj_pc[c] = "sent" /\ cj_sent' = [cj_sent EXCEPT ![c] = {}] /\ cj_jar' = Cj!Unexpired(cj_jar)
            /\ cj_pc' = [cj_pc EXCEPT ![c] = "store"] /\ UNCHANGED <<cj_request, cj_began>>
         \/ cj_pc[c] = "sent" /\ Cj!Return(c) /\ UNCHANGED cj_jar
         \/ \E s \in Offers : Cj!Store(c, s)
  PROVE  /\ CjAsked' /\ Cj!CookiesStayHome'
         /\ \A d \in Clients : cj_pc'[d] = "purged" => cj_pc[d] = "purged" /\ cj_began'[d] = cj_began[d]
         /\ /\ cj_pc' \in [Clients -> {"idle", "purged", "sent", "store"}]
            /\ cj_request' \in [Clients -> Cj!Requests \cup {None}]
            /\ cj_sent' \in [Clients -> SUBSET Cj!Cookies]
            /\ cj_began' \in [Clients -> 0 .. MaxTime]
<1>1. /\ cj_sent' = [cj_sent EXCEPT ![c] = {}]
      /\ \/ cj_pc' = [cj_pc EXCEPT ![c] = "store"] /\ UNCHANGED <<cj_request, cj_began>> /\ cj_pc[c] = "sent"
         \/ /\ cj_pc' = [cj_pc EXCEPT ![c] = "idle"] /\ cj_request' = [cj_request EXCEPT ![c] = None]
            /\ cj_began' = [cj_began EXCEPT ![c] = 0]
  BY DEF Cj!Return, Cj!Store
<1>2. /\ cj_pc' \in [Clients -> {"idle", "purged", "sent", "store"}]
      /\ cj_request' \in [Clients -> Cj!Requests \cup {None}]
      /\ cj_sent' \in [Clients -> SUBSET Cj!Cookies]
      /\ cj_began' \in [Clients -> 0 .. MaxTime]
  BY <1>1, CjLimits DEF CjIInv, Cj!TypeOK
<1>3. \A d \in Clients : d # c => /\ cj_pc'[d] = cj_pc[d] /\ cj_request'[d] = cj_request[d]
                                  /\ cj_began'[d] = cj_began[d] /\ cj_sent'[d] = cj_sent[d]
  BY <1>1 DEF CjIInv, Cj!TypeOK
<1>4. /\ cj_sent'[c] = {} /\ cj_pc'[c] \in {"store", "idle"} /\ cj_began'[c] \in {cj_began[c], 0}
      /\ cj_pc'[c] = "store" => cj_request'[c] = cj_request[c] /\ cj_pc[c] = "sent"
  BY <1>1 DEF CjIInv, Cj!TypeOK
<1>5. CjAsked'
  BY <1>3, <1>4 DEF CjIInv, Cj!TypeOK, CjAsked
<1>6. Cj!CookiesStayHome'
  <2> SUFFICES ASSUME NEW d \in Clients, NEW k \in cj_sent'[d]
               PROVE  (/\ Cj!Within(k.by, k.domain) /\ Cj!Within(cj_request'[d].host, k.domain)
                       /\ k.host_only => k.by = cj_request'[d].host
                       /\ k.path \in {"/", cj_request'[d].path} /\ (k.secure => cj_request'[d].https)
                       /\ k.expires > cj_began'[d])
    BY Zenon DEF Cj!CookiesStayHome, Cj!Within
  <2>1. d # c
    BY <1>4
  <2>2. k \in cj_sent[d] /\ cj_request'[d] = cj_request[d] /\ cj_began'[d] = cj_began[d]
    BY <1>3, <2>1
  <2> QED BY <2>2, Zenon DEF CjIInv, Cj!CookiesStayHome
<1>7. \A d \in Clients : cj_pc'[d] = "purged" => cj_pc[d] = "purged" /\ cj_began'[d] = cj_began[d]
  BY <1>3, <1>4
<1> QED BY <1>2, <1>5, <1>6, <1>7

LEMMA CjAnswer ==
  ASSUME CjIInv, NEW c \in Clients, Cj!Answer(c) \/ Cj!Dismiss(c)
  PROVE  CjIInv'
<1>1. /\ cj_jar' \subseteq cj_jar /\ UNCHANGED <<cj_now, cj_latest>>
      /\ cj_jar' = cj_jar \/ cj_jar' = Cj!Unexpired(cj_jar)
  BY DEF Cj!Answer, Cj!Dismiss, Cj!Unexpired
<1>2. CjOwned' /\ CjKeyed' /\ Cj!OneCookiePerKey'
  BY <1>1, CjLess DEF CjIInv, Cj!TypeOK
<1>3. /\ CjAsked' /\ Cj!CookiesStayHome'
      /\ \A d \in Clients : cj_pc'[d] = "purged" => cj_pc[d] = "purged" /\ cj_began'[d] = cj_began[d]
      /\ /\ cj_pc' \in [Clients -> {"idle", "purged", "sent", "store"}]
         /\ cj_request' \in [Clients -> Cj!Requests \cup {None}]
         /\ cj_sent' \in [Clients -> SUBSET Cj!Cookies]
         /\ cj_began' \in [Clients -> 0 .. MaxTime]
  BY CjOver, Zenon DEF Cj!Answer, Cj!Dismiss
<1>4. Cj!TypeOK'
  BY <1>1, <1>3 DEF CjIInv, Cj!TypeOK, Cj!Answer, Cj!Dismiss
<1>5. CjFresh'
  BY <1>1, <1>3, Zenon DEF CjIInv, CjFresh
<1> QED BY <1>2, <1>3, <1>4, <1>5 DEF CjIInv

LEMMA CjStore ==
  ASSUME CjIInv, NEW c \in Clients, NEW s \in Offers, Cj!Store(c, s)
  PROVE  CjIInv'
<1> DEFINE k == Cj!Entry(c, s)
<1>0. s \in Cj!SetCookies
  BY ClientsAsk
<1>1. /\ CjAsked' /\ Cj!CookiesStayHome'
      /\ \A d \in Clients : cj_pc'[d] = "purged" => cj_pc[d] = "purged" /\ cj_began'[d] = cj_began[d]
      /\ /\ cj_pc' \in [Clients -> {"idle", "purged", "sent", "store"}]
         /\ cj_request' \in [Clients -> Cj!Requests \cup {None}]
         /\ cj_sent' \in [Clients -> SUBSET Cj!Cookies]
         /\ cj_began' \in [Clients -> 0 .. MaxTime]
  BY CjOver, Zenon DEF Cj!Store
<1>2. cj_request[c] \in Cj!Requests /\ UNCHANGED cj_now
  BY DEF Cj!Store, CjIInv, CjAsked
<1>3. k \in Cj!Cookies
  BY <1>0, <1>2 DEF Cj!Entry, Cj!Cookies, Cj!Requests, Cj!SetCookies
<1>4. Cj!Accepted(c, s) => Cj!Within(k.by, k.domain) /\ (k.host_only => k.by = k.domain)
  BY DEF Cj!Entry, Cj!Accepted, Cj!Within
<1>5. k.expires = s.expires /\ s.expires \in 0 .. MaxTime + 1
  BY <1>0 DEF Cj!Entry, Cj!SetCookies
<1>6. \/ UNCHANGED <<cj_jar, cj_latest>>
      \/ cj_jar' = Cj!Others(k) /\ cj_latest' = [cj_latest EXCEPT ![Cj!Key(k)] = None]
      \/ /\ Cj!Accepted(c, s) /\ k.expires > cj_now
         /\ cj_jar' = Cj!Others(k) \cup {k} /\ cj_latest' = [cj_latest EXCEPT ![Cj!Key(k)] = k]
  <2>1. cj_now \in Nat /\ MaxTime \in Nat
    BY CjLimits DEF CjIInv, Cj!TypeOK
  <2>2. CASE ~Cj!Accepted(c, s)
    BY <2>2 DEF Cj!Store
  <2>3. CASE Cj!Accepted(c, s) /\ s.expires <= cj_now
    BY <2>3 DEF Cj!Store
  <2>4. CASE Cj!Accepted(c, s) /\ ~(s.expires <= cj_now)
    <3>1. cj_jar' = Cj!Others(k) \cup {k} /\ cj_latest' = [cj_latest EXCEPT ![Cj!Key(k)] = k]
      BY <2>4 DEF Cj!Store
    <3>2. k.expires > cj_now
      BY <1>5, <2>1, <2>4
    <3> QED BY <2>4, <3>1, <3>2
  <2> QED BY <2>2, <2>3, <2>4
<1>t. /\ cj_latest \in [Cj!CookieKeys -> Cj!Cookies \cup {None}] /\ cj_jar \subseteq Cj!Cookies
      /\ Cj!Key(k) \in Cj!CookieKeys /\ \A l \in Cj!Cookies : Cj!Key(l) \in Cj!CookieKeys
  BY <1>3 DEF CjIInv, Cj!TypeOK, Cj!Cookies, Cj!Key, Cj!CookieKeys
<1>o. /\ Cj!Others(k) = {l \in cj_jar : Cj!Key(l) # Cj!Key(k)}
      /\ \A l \in cj_jar : cj_latest[Cj!Key(l)] = l
      /\ \A key \in Cj!CookieKeys :
           cj_latest[key] # None => /\ cj_latest[key] \in cj_jar \/ cj_latest[key].expires <= cj_now
                                    /\ Cj!Key(cj_latest[key]) = key
  BY DEF Cj!Others, Cj!SameKey, CjIInv, CjKeyed, Cj!OneCookiePerKey
<1> HIDE DEF k
<1>7. CASE UNCHANGED <<cj_jar, cj_latest>>
  <2>1. CjOwned' /\ CjKeyed' /\ Cj!OneCookiePerKey'
    BY <1>2, <1>7, CjLess DEF CjIInv, Cj!TypeOK
  <2>2. Cj!TypeOK'
    BY <1>1, <1>2, <1>7 DEF CjIInv, Cj!TypeOK
  <2>3. CjFresh'
    BY <1>1, <1>7, Zenon DEF CjIInv, CjFresh
  <2> QED BY <1>1, <2>1, <2>2, <2>3 DEF CjIInv
<1>9. CASE cj_jar' = Cj!Others(k) /\ cj_latest' = [cj_latest EXCEPT ![Cj!Key(k)] = None]
  <2>0. cj_jar' \subseteq cj_jar
    BY <1>9, <1>o
  <2>1. CjOwned'
    BY <2>0, Zenon DEF CjIInv, CjOwned, Cj!Within
  <2>2. \A l \in cj_jar' : cj_latest'[Cj!Key(l)] = l
    BY <1>9, <1>o, <1>t
  <2>3. ASSUME NEW key \in Cj!CookieKeys, cj_latest'[key] # None
        PROVE  cj_latest'[key] \in cj_jar' \/ cj_latest'[key].expires <= cj_now'
    <3>1. key # Cj!Key(k) /\ cj_latest'[key] = cj_latest[key]
      BY <1>9, <1>t, <2>3
    <3>2. ASSUME cj_latest[key] \in cj_jar PROVE cj_latest[key] \in cj_jar'
      BY <2>3, <3>1, <3>2, <1>9, <1>o
    <3> QED BY <1>2, <1>o, <2>3, <3>1, <3>2
  <2>4. Cj!OneCookiePerKey'
    BY <2>2, <2>3, Zenon DEF Cj!OneCookiePerKey, Cj!Key
  <2>7. CjKeyed'
    <3>1. \A key \in Cj!CookieKeys : cj_latest'[key] # None => Cj!Key(cj_latest'[key]) = key
      BY <1>9, <1>o, <1>t
    <3> QED BY <3>1, Zenon DEF CjKeyed, Cj!Key
  <2>5. Cj!TypeOK'
    BY <1>1, <1>2, <1>9, <1>t, <2>0 DEF CjIInv, Cj!TypeOK
  <2>6. CjFresh'
    BY <1>1, <2>0, Zenon DEF CjIInv, CjFresh
  <2> QED BY <1>1, <2>1, <2>4, <2>5, <2>6, <2>7 DEF CjIInv
<1>8. CASE /\ Cj!Accepted(c, s) /\ k.expires > cj_now
           /\ cj_jar' = Cj!Others(k) \cup {k} /\ cj_latest' = [cj_latest EXCEPT ![Cj!Key(k)] = k]
  <2>0. Cj!Others(k) \subseteq cj_jar
    BY <1>o
  <2>1. CjOwned'
    BY <1>4, <1>8, <2>0, Zenon DEF CjIInv, CjOwned, Cj!Within
  <2>5. \A l \in cj_jar' : cj_latest'[Cj!Key(l)] = l
    BY <1>8, <1>o, <1>t
  <2>6. ASSUME NEW key \in Cj!CookieKeys, cj_latest'[key] # None
        PROVE  cj_latest'[key] \in cj_jar' \/ cj_latest'[key].expires <= cj_now'
    <3>1. CASE key = Cj!Key(k)
      BY <1>8, <1>t, <3>1
    <3>2. CASE key # Cj!Key(k)
      <4>1. cj_latest'[key] = cj_latest[key]
        BY <1>8, <1>t, <3>2
      <4>2. ASSUME cj_latest[key] \in cj_jar PROVE cj_latest[key] \in cj_jar'
        BY <2>6, <3>2, <4>1, <4>2, <1>8, <1>o
      <4> QED BY <1>2, <1>o, <2>6, <4>1, <4>2
    <3> QED BY <3>1, <3>2
  <2>2. Cj!OneCookiePerKey'
    BY <2>5, <2>6, Zenon DEF Cj!OneCookiePerKey, Cj!Key
  <2>7. CjKeyed'
    <3>1. \A key \in Cj!CookieKeys : cj_latest'[key] # None => Cj!Key(cj_latest'[key]) = key
      BY <1>8, <1>o, <1>t
    <3> QED BY <3>1, Zenon DEF CjKeyed, Cj!Key
  <2>3. Cj!TypeOK'
    BY <1>1, <1>2, <1>3, <1>8, <1>t, <2>0 DEF CjIInv, Cj!TypeOK
  <2>4. CjFresh'
    <3>1. \A d \in Clients : k.expires > cj_began[d]
      BY <1>3, <1>8 DEF CjIInv, Cj!TypeOK, CjAsked, Cj!Cookies
    <3> QED BY <1>1, <1>8, <2>0, <3>1, Zenon DEF CjIInv, CjFresh
  <2> QED BY <1>1, <2>1, <2>2, <2>3, <2>4, <2>7 DEF CjIInv
<1> QED BY <1>6, <1>7, <1>8, <1>9

LEMMA CjStep == CjIInv /\ [Cj!Next]_(Cj!vars) => CjIInv'
<1>1. ASSUME CjIInv, NEW c \in Clients, Cj!Client(c) PROVE CjIInv'
  BY <1>1, CjStart, CjAttach, CjAnswer, CjStore, Zenon DEF Cj!Client
<1>2. ASSUME CjIInv, UNCHANGED Cj!vars PROVE CjIInv'
  BY <1>2 DEF Cj!vars, CjIInv, Cj!TypeOK, CjOwned, CjFresh, CjAsked, CjKeyed, Cj!CookiesStayHome,
     Cj!OneCookiePerKey,
     Cj!Within, Cj!Key
<1> QED BY <1>1, <1>2, CjTick, Zenon DEF Cj!Next

LEMMA CjHolds == Spec => []CjIInv
<1>1. Init => CjIInv
  BY CjInit DEF Init
<1>2. CjIInv /\ [Next]_vars => CjIInv'
  <2>1. [Next]_vars => [Cj!Next]_(Cj!vars)
    BY Zenon DEF Next, vars, cj, Cj!vars
  <2> QED BY <2>1, CjStep
<1> QED BY <1>1, <1>2, PTL DEF Spec

-----------------------------------------------------------------------------
(* HTTP client.  A result is there only between calls, the response being read *)
(* is the one the file was created for, and a reset that overlaps no request   *)
(* clears the counters one by one with none under way.                         *)

LEMMA HrLimits == {MaxRetries, ClientCalls, MaxResets} \subseteq Nat
BY BoundsAreCounts

LEMMA HrNone == None \notin {1, 2, 3}
BY NoneIsNobody

\* The instance counts as the library of proved facts does.
LEMMA HrCardinality == \A S : Hr!Cardinality(S) = Cardinality(S)
BY Zenon DEF Hr!Cardinality, Cardinality

HrReading ==
  \A c \in Clients :
    /\ hr_pc[c] = "reading" => /\ hr_response[c] \in Hr!Responses
                            /\ hr_file[c] \in [id : Nat \X Nat, whole : BOOLEAN]
                            /\ hr_file[c].id = hr_response[c].id
    /\ hr_pc[c] # "idle" => hr_result[c] = None
    /\ hr_pc[c] = "retry" => hr_attempt[c] < hr_retries[c]

HrClearing ==
  ~hr_mixed /\ hr_resetting # None =>
    /\ Hr!InFlight = {} /\ hr_total_requests = 0 /\ hr_retried = 0
    /\ hr_resetting \in {1, 2} => hr_success_count = 0
    /\ hr_resetting = 1 => hr_failure_count = 0

HrIInv ==
  /\ Hr!TypeOK /\ HrReading /\ HrClearing
  /\ Hr!RequestsAreCounted /\ Hr!SavedIsReturned /\ Hr!AttemptsAreBounded

LEMMA HrInit == Hr!Init => HrIInv
<1> SUFFICES ASSUME Hr!Init PROVE HrIInv
  OBVIOUS
<1> USE DEF Hr!Init
<1>1. Hr!TypeOK
  <2>1. /\ hr_retries \in [Clients -> 0..MaxRetries] /\ hr_attempt \in [Clients -> 0..MaxRetries]
        /\ hr_calls \in [Clients -> 0..ClientCalls] /\ hr_resets \in 0..MaxResets
    BY HrLimits
  <2>2. \A n \in {hr_total_requests, hr_success_count, hr_failure_count, hr_retry_attempts} : n \in Nat
    OBVIOUS
  <2>3. /\ hr_pc \in [Clients -> {"idle", "begin", "sent", "reading", "retry"}]
        /\ hr_response \in [Clients -> Hr!Responses \cup {None}]
        /\ hr_file \in [Clients -> [id : Nat \X Nat, whole : BOOLEAN] \cup {None}]
        /\ hr_result \in [Clients -> Hr!Responses \cup {None}]
    OBVIOUS
  <2> QED BY <2>1, <2>2, <2>3 DEF Hr!TypeOK
<1>2. Hr!InFlight = {}
  BY DEF Hr!InFlight
<1>3. Hr!RequestsAreCounted /\ HrClearing
  BY HrCardinality, <1>2, FS_EmptySet DEF Hr!RequestsAreCounted, HrClearing
<1>4. HrReading /\ Hr!SavedIsReturned /\ Hr!AttemptsAreBounded
  BY DEF HrReading, Hr!SavedIsReturned, Hr!AttemptsAreBounded
<1> QED BY <1>1, <1>3, <1>4 DEF HrIInv

\* What a client does to its own call: everything but the counters.
HrCalls ==
  /\ hr_pc \in [Clients -> {"idle", "begin", "sent", "reading", "retry"}]
  /\ hr_retries \in [Clients -> 0..MaxRetries]
  /\ hr_attempt \in [Clients -> 0..MaxRetries]
  /\ hr_calls \in [Clients -> 0..ClientCalls]
  /\ hr_response \in [Clients -> Hr!Responses \cup {None}]
  /\ hr_file \in [Clients -> [id : Nat \X Nat, whole : BOOLEAN] \cup {None}]
  /\ hr_result \in [Clients -> Hr!Responses \cup {None}]
  /\ HrReading /\ Hr!SavedIsReturned /\ Hr!AttemptsAreBounded

LEMMA HrWhole ==
  ASSUME NEW S, NEW f \in [id : S, whole : BOOLEAN]
  PROVE  [f EXCEPT !.whole = TRUE] = [id |-> f.id, whole |-> TRUE]
<1>1. [f EXCEPT !.whole = TRUE] \in [id : S, whole : BOOLEAN]
  OBVIOUS
<1>2. [f EXCEPT !.whole = TRUE].id = f.id /\ [f EXCEPT !.whole = TRUE].whole = TRUE
  OBVIOUS
<1>3. \A g \in [id : S, whole : BOOLEAN] : g = [id |-> g.id, whole |-> g.whole]
  OBVIOUS
<1> QED BY <1>1, <1>2, <1>3

LEMMA HrCallsKept == ASSUME HrCalls, Hr!Next \/ UNCHANGED Hr!vars PROVE HrCalls'
<1> USE DEF HrCalls, HrReading, Hr!SavedIsReturned, Hr!AttemptsAreBounded
<1>1. ASSUME NEW c \in Clients, Hr!Call(c) PROVE HrCalls'
  <2>0. Hr!Asked(c) \subseteq 0..MaxRetries
    BY HrLimits DEF Hr!Asked
  <2>1. PICK n \in 0..MaxRetries : hr_retries' = [hr_retries EXCEPT ![c] = n]
    <3>1. PICK n \in Hr!Asked(c) : hr_retries' = [hr_retries EXCEPT ![c] = n]
      BY <1>1, Zenon DEF Hr!Call
    <3> QED BY <2>0, <3>1, Zenon
  <2>2. hr_calls' \in [Clients -> 0..ClientCalls]
    BY <1>1, HrLimits DEF Hr!Call
  <2>3. hr_attempt' \in [Clients -> 0..MaxRetries]
    BY <1>1, HrLimits DEF Hr!Call
  <2> QED BY <1>1, <2>1, <2>2, <2>3, HrLimits DEF Hr!Call
<1>2. ASSUME NEW c \in Clients, Hr!Begin(c) PROVE HrCalls'
  BY <1>2 DEF Hr!Begin
<1>3. ASSUME NEW c \in Clients, Hr!Fail(c) PROVE HrCalls'
  BY <1>3 DEF Hr!Fail, Hr!AfterError
<1>4. ASSUME NEW c \in Clients, Hr!Answer(c) PROVE HrCalls'
  <2>1. PICK s \in Hr!Statuses :
          /\ hr_response' = [hr_response EXCEPT ![c] = [id |-> <<hr_calls[c], hr_attempt[c]>>, status |-> s]]
          /\ hr_file' = [hr_file EXCEPT ![c] = [id |-> <<hr_calls[c], hr_attempt[c]>>, whole |-> FALSE]]
    BY <1>4 DEF Hr!Answer, Hr!Created
  <2>2. [id |-> <<hr_calls[c], hr_attempt[c]>>, status |-> s] \in Hr!Responses
        /\ [id |-> <<hr_calls[c], hr_attempt[c]>>, whole |-> FALSE] \in [id : Nat \X Nat, whole : BOOLEAN]
    BY HrLimits DEF Hr!Responses
  <2>3. hr_response' \in [Clients -> Hr!Responses \cup {None}]
        /\ hr_file' \in [Clients -> [id : Nat \X Nat, whole : BOOLEAN] \cup {None}]
    BY <2>1, <2>2
  <2>4. /\ hr_pc' = [hr_pc EXCEPT ![c] = "reading"] /\ UNCHANGED <<hr_retries, hr_attempt, hr_calls, hr_result>>
        /\ hr_pc[c] = "sent"
    BY <1>4 DEF Hr!Answer
  <2>5. HrReading'
    BY <2>1, <2>2, <2>3, <2>4
  <2>6. Hr!SavedIsReturned' /\ Hr!AttemptsAreBounded'
    BY <2>1, <2>4
  <2> QED BY <2>3, <2>4, <2>5, <2>6
<1>5. ASSUME NEW c \in Clients, Hr!ReadFails(c) PROVE HrCalls'
  BY <1>5 DEF Hr!ReadFails, Hr!AfterError
<1>6. ASSUME NEW c \in Clients, Hr!Read(c) PROVE HrCalls'
  <2>1. hr_response[c] \in Hr!Responses /\ hr_file[c] \in [id : Nat \X Nat, whole : BOOLEAN]
        /\ hr_file[c].id = hr_response[c].id
    BY <1>6 DEF Hr!Read
  <2>2. [hr_file[c] EXCEPT !.whole = TRUE] = [id |-> hr_response[c].id, whole |-> TRUE]
    <3>1. [hr_file[c] EXCEPT !.whole = TRUE] = [id |-> hr_file[c].id, whole |-> TRUE]
      BY <2>1, HrWhole, Zenon
    <3> QED BY <2>1, <3>1, Zenon
  <2>3. hr_file' = [hr_file EXCEPT ![c] = [id |-> hr_response[c].id, whole |-> TRUE]]
    BY <1>6, <2>2 DEF Hr!Read
  <2>4. hr_file' \in [Clients -> [id : Nat \X Nat, whole : BOOLEAN] \cup {None}]
    BY <2>1, <2>3 DEF Hr!Responses
  <2>5. PICK again \in BOOLEAN :
          /\ again <=> hr_response[c].status = "retryable" /\ hr_attempt[c] < hr_retries[c]
          /\ hr_pc' = [hr_pc EXCEPT ![c] = IF again THEN "retry" ELSE "idle"]
          /\ hr_result' = [hr_result EXCEPT ![c] = IF again THEN None ELSE hr_response[c]]
          /\ hr_response' = [hr_response EXCEPT ![c] = None]
          /\ UNCHANGED <<hr_retries, hr_attempt, hr_calls>> /\ hr_pc[c] = "reading"
    BY <1>6 DEF Hr!Read
  <2>6. HrReading'
    BY <2>3, <2>5
  <2>7. Hr!SavedIsReturned'
    BY <2>1, <2>3, <2>5
  <2>8. Hr!AttemptsAreBounded'
    BY <2>1, <2>5
  <2> QED BY <2>1, <2>4, <2>5, <2>6, <2>7, <2>8
<1>7. ASSUME NEW c \in Clients, Hr!Retry(c) PROVE HrCalls'
  BY <1>7, HrLimits DEF Hr!Retry
<1>8. CASE Hr!Reset \/ Hr!ResetStep \/ UNCHANGED Hr!vars
  BY <1>8 DEF Hr!Reset, Hr!ResetStep, Hr!vars
<1> QED BY <1>1, <1>2, <1>3, <1>4, <1>5, <1>6, <1>7, <1>8 DEF Hr!Next

HrCounts ==
  /\ \A n \in {hr_total_requests, hr_success_count, hr_failure_count, hr_retry_attempts} : n \in Nat
  /\ hr_resetting \in {None, 1, 2, 3}
  /\ hr_resets \in 0..MaxResets
  /\ hr_retried \in Nat
  /\ hr_mixed \in BOOLEAN
  /\ HrClearing /\ Hr!RequestsAreCounted

LEMMA HrInFlight ==
  /\ IsFiniteSet(Hr!InFlight) /\ Cardinality(Hr!InFlight) \in Nat
  /\ \A c \in Hr!InFlight : Cardinality(Hr!InFlight \ {c}) = Cardinality(Hr!InFlight) - 1
                         /\ Cardinality(Hr!InFlight) # 0
  /\ \A c \in Clients \ Hr!InFlight : Cardinality(Hr!InFlight \cup {c}) = Cardinality(Hr!InFlight) + 1
<1>1. IsFiniteSet(Hr!InFlight)
  BY ClientsAreFinite, FS_Subset DEF Hr!InFlight
<1>2. Cardinality(Hr!InFlight) \in Nat
  BY <1>1, FS_CardinalityType
<1>3. \A c \in Hr!InFlight : Cardinality(Hr!InFlight \ {c}) = Cardinality(Hr!InFlight) - 1
  BY <1>1, FS_RemoveElement
<1>4. \A c \in Hr!InFlight : Cardinality(Hr!InFlight) # 0
  BY <1>1, FS_EmptySet
<1>5. \A c \in Clients \ Hr!InFlight : Cardinality(Hr!InFlight \cup {c}) = Cardinality(Hr!InFlight) + 1
  BY <1>1, FS_AddElement
<1> QED BY <1>1, <1>2, <1>3, <1>4, <1>5

LEMMA HrCountsKept ==
  ASSUME HrCalls, HrCounts, Hr!Next \/ UNCHANGED Hr!vars
  PROVE  HrCounts'
<1>0. /\ hr_total_requests \in Nat /\ hr_success_count \in Nat /\ hr_failure_count \in Nat
      /\ hr_retry_attempts \in Nat /\ hr_retried \in Nat /\ hr_mixed \in BOOLEAN
      /\ hr_resetting \in {None, 1, 2, 3} /\ hr_resets \in 0..MaxResets
      /\ hr_pc \in [Clients -> {"idle", "begin", "sent", "reading", "retry"}]
  BY DEF HrCalls, HrCounts
<1>1. ASSUME NEW c \in Clients, Hr!Call(c) PROVE HrCounts'
  <2>1. Hr!InFlight' = Hr!InFlight
    BY <1>0, <1>1 DEF Hr!Call, Hr!InFlight
  <2> QED BY HrCardinality, <1>1, <2>1 DEF Hr!Call, HrCounts, HrClearing, Hr!RequestsAreCounted, Hr!stats
<1>2. ASSUME NEW c \in Clients, Hr!Begin(c) PROVE HrCounts'
  <2>1. c \in Clients \ Hr!InFlight /\ Hr!InFlight' = Hr!InFlight \cup {c}
    BY <1>0, <1>2 DEF Hr!Begin, Hr!InFlight
  <2>2. hr_mixed' \in BOOLEAN /\ (~hr_mixed' => ~hr_mixed /\ hr_resetting = None)
    BY <1>2, Zenon DEF Hr!Begin
  <2>3. HrClearing'
    BY <1>2, <2>2 DEF Hr!Begin, HrClearing
  <2>4. ~hr_mixed' => /\ hr_total_requests = hr_success_count + hr_failure_count + Cardinality(Hr!InFlight)
                   /\ hr_retry_attempts = hr_retried
    BY HrCardinality, <2>2 DEF HrCounts, Hr!RequestsAreCounted
  <2>5. Hr!RequestsAreCounted'
    BY HrCardinality, <1>0, <1>2, <2>1, <2>4, HrInFlight DEF Hr!Begin, Hr!RequestsAreCounted
  <2> QED BY <1>0, <1>2, <2>2, <2>3, <2>5 DEF Hr!Begin, HrCounts
<1>3. ASSUME NEW c \in Clients, Hr!Fail(c) \/ Hr!ReadFails(c) PROVE HrCounts'
  <2>1. /\ c \in Hr!InFlight /\ Hr!InFlight' = Hr!InFlight \ {c}
        /\ hr_failure_count' = hr_failure_count + 1
        /\ UNCHANGED <<hr_total_requests, hr_success_count, hr_retry_attempts, hr_resetting, hr_resets, hr_retried, hr_mixed>>
    BY <1>0, <1>3 DEF Hr!Fail, Hr!ReadFails, Hr!AfterError, Hr!InFlight
  <2>2. hr_mixed \/ hr_resetting = None
    BY <2>1, Zenon DEF HrCounts, HrClearing
  <2>3. HrClearing'
    BY <2>1, <2>2, Zenon DEF HrClearing
  <2>4. Hr!RequestsAreCounted'
    BY HrCardinality, <1>0, <2>1, HrInFlight DEF HrCounts, Hr!RequestsAreCounted
  <2> QED BY <1>0, <2>1, <2>3, <2>4 DEF HrCounts
<1>4. ASSUME NEW c \in Clients, Hr!Answer(c) PROVE HrCounts'
  <2>1. Hr!InFlight' = Hr!InFlight
    BY <1>0, <1>4 DEF Hr!Answer, Hr!InFlight
  <2> QED BY HrCardinality, <1>4, <2>1 DEF Hr!Answer, HrCounts, HrClearing, Hr!RequestsAreCounted, Hr!stats
<1>5. ASSUME NEW c \in Clients, Hr!Read(c) PROVE HrCounts'
  <2>1. /\ c \in Hr!InFlight /\ Hr!InFlight' = Hr!InFlight \ {c}
        /\ hr_success_count' = hr_success_count + 1
        /\ UNCHANGED <<hr_total_requests, hr_failure_count, hr_retry_attempts, hr_resetting, hr_resets, hr_retried, hr_mixed>>
    BY <1>0, <1>5 DEF Hr!Read, Hr!Succeeded, Hr!InFlight
  <2>2. hr_mixed \/ hr_resetting = None
    BY <2>1, Zenon DEF HrCounts, HrClearing
  <2>3. HrClearing'
    BY <2>1, <2>2, Zenon DEF HrClearing
  <2>4. Hr!RequestsAreCounted'
    BY HrCardinality, <1>0, <2>1, HrInFlight DEF HrCounts, Hr!RequestsAreCounted
  <2> QED BY <1>0, <2>1, <2>3, <2>4 DEF HrCounts
<1>6. ASSUME NEW c \in Clients, Hr!Retry(c) PROVE HrCounts'
  <2>1. Hr!InFlight' = Hr!InFlight
    BY <1>0, <1>6 DEF Hr!Retry, Hr!InFlight
  <2>2. hr_mixed' \in BOOLEAN /\ (~hr_mixed' => ~hr_mixed /\ hr_resetting = None)
    BY <1>6, Zenon DEF Hr!Retry
  <2> QED BY HrCardinality, <1>0, <1>6, <2>1, <2>2 DEF Hr!Retry, HrCounts, HrClearing, Hr!RequestsAreCounted
<1>7. CASE Hr!Reset
  <2>1. hr_mixed' \in BOOLEAN /\ (~hr_mixed' => ~hr_mixed /\ Hr!InFlight = {})
    BY <1>7, Zenon DEF Hr!Reset
  <2>2. Hr!InFlight' = Hr!InFlight
    BY <1>7 DEF Hr!Reset, Hr!InFlight
  <2>3. HrClearing' /\ Hr!RequestsAreCounted'
    BY HrCardinality, <1>7, <2>1, <2>2, HrNone DEF Hr!Reset, HrClearing,
       Hr!RequestsAreCounted
  <2> QED BY <1>0, <1>7, <2>1, <2>3, HrLimits DEF Hr!Reset, HrCounts
<1>8. CASE Hr!ResetStep
  <2>1. Hr!InFlight' = Hr!InFlight
    BY <1>8 DEF Hr!ResetStep, Hr!InFlight
  <2>2. HrClearing'
    BY <1>0, <1>8, <2>1, HrNone DEF Hr!ResetStep, HrCounts, HrClearing
  <2>3. Hr!RequestsAreCounted'
    BY HrCardinality, <1>0, <1>8, <2>1, HrNone, FS_EmptySet DEF Hr!ResetStep, HrCounts,
       HrClearing, Hr!RequestsAreCounted
  <2> QED BY <1>0, <1>8, <2>2, <2>3 DEF Hr!ResetStep, HrCounts
<1>9. CASE UNCHANGED Hr!vars
  <2>1. Hr!InFlight' = Hr!InFlight
    BY <1>9 DEF Hr!vars, Hr!InFlight
  <2> QED BY HrCardinality, <1>9, <2>1 DEF Hr!vars, HrCounts, HrClearing, Hr!RequestsAreCounted, Hr!stats
<1> QED BY <1>1, <1>2, <1>3, <1>4, <1>5, <1>6, <1>7, <1>8, <1>9 DEF Hr!Next

LEMMA HrStep == HrIInv /\ [Hr!Next]_(Hr!vars) => HrIInv'
<1>1. HrIInv <=> HrCalls /\ HrCounts
  BY Zenon DEF HrIInv, Hr!TypeOK, HrCalls, HrCounts
<1>2. HrIInv' <=> HrCalls' /\ HrCounts'
  BY Zenon DEF HrIInv, Hr!TypeOK, HrCalls, HrCounts
<1> QED BY <1>1, <1>2, HrCallsKept, HrCountsKept

LEMMA HrHolds == Spec => []HrIInv
<1>1. Init => HrIInv
  BY HrInit DEF Init
<1>2. HrIInv /\ [Next]_vars => HrIInv'
  <2>1. [Next]_vars => [Hr!Next]_(Hr!vars)
    BY Zenon DEF Next, vars, hr, Hr!stats, Hr!vars
  <2> QED BY <2>1, HrStep
<1> QED BY <1>1, <1>2, PTL DEF Spec

-----------------------------------------------------------------------------
(* Configuration.  As long as nothing went wrong one process has the file: its *)
(* saver holds CONFIG's mutex, and what it is about to write is the settings   *)
(* answered for so far and its own change.                                     *)

LEMMA CfLimits == {MaxChanges, MaxStops} \subseteq Nat
BY BoundsAreCounts

LEMMA CfNone == None \notin Values \cup Threads
BY NoneIsNobody

LEMMA CfNoMap == None \notin Cf!Map
BY NoneIsNoMap DEF Cf!Map

CfLocked ==
  \A p \in Processes, t \in Threads :
    cf_pc[<<p, t>>] # "idle" => Cf!Alive(p) /\ cf_holder[p] = t /\ cf_key[<<p, t>>] \in Keys

CfAlone ==
  cf_calm => /\ cf_overlaid = {}
          /\ \A p, q \in Processes : Cf!Alive(p) /\ Cf!Alive(q) => p = q

CfSaving(c) == [cf_expected EXCEPT ![cf_key[c]] = cf_json[c][cf_key[c]]]

CfSaved ==
  cf_calm =>
    /\ (\A c \in Cf!Callers : cf_pc[c] # "opened") => cf_disk = cf_expected
    /\ \A p \in Processes :
         Cf!Alive(p) /\ (\A t \in Threads : cf_pc[<<p, t>>] = "idle") => cf_memory[p] = cf_expected
    /\ \A p \in Processes, t \in Threads :
         cf_pc[<<p, t>>] # "idle" => cf_json[<<p, t>>] = cf_memory[p] /\ cf_memory[p] = CfSaving(<<p, t>>)

CfIInv == Cf!TypeOK /\ CfLocked /\ CfAlone /\ CfSaved

LEMMA CfInit == Cf!Init => CfIInv
BY CfNoMap, CfLimits DEF Cf!Init, Cf!Torn, CfIInv, Cf!TypeOK, CfLocked, CfAlone, CfSaved,
   Cf!Alive, Cf!Callers, Cf!Empty, Cf!Map

LEMMA CfType == ASSUME Cf!TypeOK, CfLocked, Cf!Next PROVE Cf!TypeOK'
<1> USE DEF Cf!TypeOK
<1>1. ASSUME NEW p \in Processes, Cf!load_config(p) PROVE Cf!TypeOK'
  BY <1>1 DEF Cf!load_config, Cf!Empty, Cf!Map, Cf!Torn
<1>2. ASSUME NEW p \in Processes, NEW t \in Threads, NEW k \in Keys, NEW v \in Values \cup {None},
             Cf!Change(p, t, k, v)
      PROVE  Cf!TypeOK'
  <2>1. cf_memory[p] \in Cf!Map /\ cf_memory' = [cf_memory EXCEPT ![p] = [cf_memory[p] EXCEPT ![k] = v]]
    BY <1>2 DEF Cf!Change, Cf!Alive
  <2>2. [cf_memory[p] EXCEPT ![k] = v] \in Cf!Map
    BY <2>1 DEF Cf!Map
  <2>3. cf_memory' \in [Processes -> Cf!Map \cup {None}] /\ cf_memory'[p] \in Cf!Map
    BY <2>1, <2>2
  <2>4. cf_json' \in [Cf!Callers -> Cf!Map]
    BY <1>2, <2>3 DEF Cf!Change, Cf!Callers
  <2>5. /\ cf_key' \in [Cf!Callers -> Keys \cup {None}]
        /\ cf_pc' \in [Cf!Callers -> {"idle", "encoded", "opened"}]
        /\ cf_holder' \in [Processes -> Threads \cup {None}]
    BY <1>2 DEF Cf!Change, Cf!Callers, Cf!KeepsLock
  <2>6. cf_changes' \in 0..MaxChanges
    BY <1>2, CfLimits DEF Cf!Change
  <2> QED BY <1>2, <2>3, <2>4, <2>5, <2>6 DEF Cf!Change
<1>3. ASSUME NEW p \in Processes, NEW t \in Threads, Cf!Open(p, t) PROVE Cf!TypeOK'
  BY <1>3 DEF Cf!Open, Cf!Callers
<1>4. ASSUME NEW p \in Processes, NEW t \in Threads, Cf!Write(p, t) PROVE Cf!TypeOK'
  <2> DEFINE c == <<p, t>>
  <2>1. c \in Cf!Callers /\ cf_key[c] \in Keys /\ cf_json[c] \in Cf!Map
    BY <1>4 DEF Cf!Write, Cf!Callers, CfLocked
  <2>2. cf_json[c][cf_key[c]] \in Values \cup {None}
    BY <2>1 DEF Cf!Map
  <2>3. cf_expected' = [cf_expected EXCEPT ![cf_key[c]] = cf_json[c][cf_key[c]]]
    BY <1>4 DEF Cf!Write
  <2>4. cf_expected' \in Cf!Map
    BY <2>1, <2>2, <2>3 DEF Cf!Map
  <2>5. cf_disk' \in Cf!Map \cup {Cf!Torn}
    BY <1>4, <2>1 DEF Cf!Write
  <2> QED BY <1>4, <2>1, <2>4, <2>5 DEF Cf!Write, Cf!Returned, Cf!Callers
<1>5. ASSUME NEW p \in Processes, NEW t \in Threads, Cf!SaveFails(p, t) PROVE Cf!TypeOK'
  BY <1>5 DEF Cf!SaveFails, Cf!Returned, Cf!Callers
<1>6. ASSUME NEW p \in Processes, Cf!Stop(p) PROVE Cf!TypeOK'
  <2>1. cf_calm' \in BOOLEAN
    BY <1>6, Zenon DEF Cf!Stop
  <2> QED BY <1>6, <2>1, CfLimits DEF Cf!Stop
<1> QED BY <1>1, <1>2, <1>3, <1>4, <1>5, <1>6 DEF Cf!Next

LEMMA CfLock == ASSUME Cf!TypeOK, CfLocked, Cf!Next PROVE CfLocked'
<1> USE DEF Cf!TypeOK, CfLocked, Cf!Callers, Cf!Alive
<1>1. ASSUME NEW p \in Processes, Cf!load_config(p) PROVE CfLocked'
  BY <1>1, CfNoMap DEF Cf!load_config, Cf!Empty, Cf!Map, Cf!Torn
<1>2. ASSUME NEW p \in Processes, NEW t \in Threads, NEW k \in Keys, NEW v \in Values \cup {None},
             Cf!Change(p, t, k, v)
      PROVE  CfLocked'
  <2>1. cf_memory'[p] # None /\ \A q \in Processes \ {p} : cf_memory'[q] = cf_memory[q]
    <3>1. cf_memory[p] \in Cf!Map /\ cf_memory' = [cf_memory EXCEPT ![p] = [cf_memory[p] EXCEPT ![k] = v]]
      BY <1>2 DEF Cf!Change
    <3>2. [cf_memory[p] EXCEPT ![k] = v] \in Cf!Map
      BY <3>1 DEF Cf!Map
    <3> QED BY <3>1, <3>2, CfNoMap
  <2>2. /\ \A s \in Threads : s # t => cf_pc[<<p, s>>] = "idle"
        /\ cf_pc[<<p, t>>] = "idle"
    BY <1>2, CfNone DEF Cf!Change
  <2>3. /\ cf_pc' = [cf_pc EXCEPT ![<<p, t>>] = "encoded"]
        /\ cf_key' = [cf_key EXCEPT ![<<p, t>>] = k]
        /\ cf_holder' = [cf_holder EXCEPT ![p] = t]
    BY <1>2 DEF Cf!Change, Cf!KeepsLock
  <2> SUFFICES ASSUME NEW q \in Processes, NEW s \in Threads, cf_pc'[<<q, s>>] # "idle"
               PROVE  cf_memory'[q] # None /\ cf_holder'[q] = s /\ cf_key'[<<q, s>>] \in Keys
    OBVIOUS
  <2>4. CASE q = p
    BY <2>1, <2>2, <2>3, <2>4
  <2>5. CASE q # p
    BY <2>1, <2>3, <2>5
  <2> QED BY <2>4, <2>5
<1>3. ASSUME NEW p \in Processes, NEW t \in Threads, Cf!Open(p, t) PROVE CfLocked'
  BY <1>3 DEF Cf!Open
<1>4. ASSUME NEW p \in Processes, NEW t \in Threads, Cf!Returned(p, t), cf_pc[<<p, t>>] # "idle",
             UNCHANGED <<cf_memory, cf_key>>
      PROVE  CfLocked'
  BY <1>4 DEF Cf!Returned
<1>5. ASSUME NEW p \in Processes, NEW t \in Threads, Cf!Write(p, t) PROVE CfLocked'
  BY <1>4, <1>5 DEF Cf!Write
<1>6. ASSUME NEW p \in Processes, NEW t \in Threads, Cf!SaveFails(p, t) PROVE CfLocked'
  BY <1>4, <1>6 DEF Cf!SaveFails
<1>7. ASSUME NEW p \in Processes, Cf!Stop(p) PROVE CfLocked'
  BY <1>7 DEF Cf!Stop
<1> QED BY <1>1, <1>2, <1>3, <1>5, <1>6, <1>7 DEF Cf!Next

LEMMA CfAloneStep == ASSUME CfIInv, Cf!Next PROVE CfAlone'
<1> USE DEF CfIInv, Cf!TypeOK, CfAlone, Cf!Alive
<1>1. ASSUME NEW p \in Processes, Cf!load_config(p) PROVE CfAlone'
  BY <1>1 DEF Cf!load_config
<1>2. ASSUME NEW p \in Processes, NEW t \in Threads, NEW k \in Keys, NEW v \in Values \cup {None},
             Cf!Change(p, t, k, v)
      PROVE  CfAlone'
  <2>1. \A q \in Processes : cf_memory'[q] # None => cf_memory[q] # None
    BY <1>2 DEF Cf!Change
  <2> QED BY <1>2, <2>1 DEF Cf!Change
<1>3. ASSUME NEW p \in Processes, NEW t \in Threads, Cf!Open(p, t) PROVE CfAlone'
  BY <1>3 DEF Cf!Open
<1>4. ASSUME NEW p \in Processes, NEW t \in Threads, Cf!Write(p, t) PROVE CfAlone'
  <2>1. ASSUME cf_calm, NEW d \in Cf!Callers, cf_pc[d] = "opened" PROVE d = <<p, t>>
    <3>1. PICK q \in Processes, s \in Threads : d = <<q, s>>
      BY DEF Cf!Callers
    <3>2. q = p
      BY <1>4, <2>1, <3>1 DEF Cf!Write, CfLocked
    <3> QED BY <1>4, <2>1, <3>1, <3>2 DEF Cf!Write, CfLocked
  <2> QED BY <1>4, <2>1 DEF Cf!Write
<1>5. ASSUME NEW p \in Processes, NEW t \in Threads, Cf!SaveFails(p, t) PROVE CfAlone'
  BY <1>5 DEF Cf!SaveFails
<1>6. ASSUME NEW p \in Processes, Cf!Stop(p) PROVE CfAlone'
  BY <1>6 DEF Cf!Stop
<1> QED BY <1>1, <1>2, <1>3, <1>4, <1>5, <1>6 DEF Cf!Next

LEMMA CfSavedStep == ASSUME CfIInv, Cf!Next PROVE CfSaved'
<1> USE DEF CfIInv
<1> SUFFICES ASSUME cf_calm, cf_calm' PROVE CfSaved'
  <2>1. ASSUME NEW p \in Processes, Cf!load_config(p) \/ Cf!Stop(p), cf_calm' PROVE cf_calm
    BY <2>1, Zenon DEF Cf!load_config, Cf!Stop
  <2>2. ASSUME NEW p \in Processes, NEW t \in Threads, Cf!SaveFails(p, t) PROVE ~cf_calm'
    BY <2>2, Zenon DEF Cf!SaveFails
  <2>3. ASSUME NEW p \in Processes, NEW t \in Threads, Cf!Open(p, t) \/ Cf!Write(p, t)
        PROVE  cf_calm' = cf_calm
    BY <2>3, Zenon DEF Cf!Open, Cf!Write
  <2>4. ASSUME NEW p \in Processes, NEW t \in Threads, NEW k \in Keys,
               NEW v \in Values \cup {None}, Cf!Change(p, t, k, v)
        PROVE  cf_calm' = cf_calm
    BY <2>4, Zenon DEF Cf!Change
  <2>5. cf_calm' => cf_calm
    BY <2>1, <2>2, <2>3, <2>4, Zenon DEF Cf!Next
  <2> QED BY <2>5, Zenon DEF CfSaved
<1>1. ASSUME NEW p \in Processes, Cf!load_config(p) PROVE CfSaved'
  <2>1. \A q \in Processes : ~Cf!Alive(q)
    BY <1>1, Zenon DEF Cf!load_config
  <2>a. \A c \in Cf!Callers : cf_pc[c] = "idle"
    BY <2>1 DEF CfLocked, Cf!Callers
  <2>2. cf_disk = cf_expected
    BY <2>a DEF CfSaved
  <2> QED BY <1>1, <2>a, <2>2 DEF Cf!load_config, Cf!TypeOK, CfSaved, Cf!Alive, Cf!Callers, CfSaving
<1>2. ASSUME NEW p \in Processes, NEW t \in Threads, NEW k \in Keys, NEW v \in Values \cup {None},
             Cf!Change(p, t, k, v)
      PROVE  CfSaved'
  <2>1. \A q \in Processes, s \in Threads : cf_pc[<<q, s>>] = "idle"
    <3>1. Cf!Alive(p) /\ \A s \in Threads : cf_pc[<<p, s>>] = "idle"
      BY <1>2, CfNone DEF Cf!Change, CfLocked
    <3>2. \A q \in Processes : Cf!Alive(q) => q = p
      BY <3>1, Zenon DEF CfAlone
    <3> QED BY <3>1, <3>2, Zenon DEF CfLocked
  <2>2. cf_disk = cf_expected /\ cf_memory[p] = cf_expected
    BY <1>2, <2>1 DEF CfSaved, Cf!Change, Cf!Callers
  <2>3. /\ cf_memory'[p] = [cf_expected EXCEPT ![k] = v]
        /\ cf_json'[<<p, t>>] = cf_memory'[p] /\ cf_key'[<<p, t>>] = k
        /\ cf_pc' = [cf_pc EXCEPT ![<<p, t>>] = "encoded"]
        /\ UNCHANGED <<cf_disk, cf_expected>>
    BY <1>2, <2>2 DEF Cf!Change, Cf!TypeOK, Cf!Callers
  <2>4. cf_memory'[p] = [cf_expected' EXCEPT ![cf_key'[<<p, t>>]] = cf_json'[<<p, t>>][cf_key'[<<p, t>>]]]
    BY <2>3 DEF Cf!TypeOK, Cf!Map
  <2>5. \A q \in Processes : q # p => cf_memory'[q] = None
    BY <1>2 DEF Cf!Change, Cf!TypeOK, CfAlone, Cf!Alive
  <2>6. \A c \in Cf!Callers : c # <<p, t>> => cf_pc'[c] = "idle"
    BY <2>1, <2>3 DEF Cf!TypeOK, Cf!Callers
  <2> QED
    BY <2>2, <2>3, <2>4, <2>5, <2>6 DEF CfSaved, CfSaving, Cf!Callers, Cf!TypeOK, Cf!Alive
<1>3. ASSUME NEW p \in Processes, NEW t \in Threads, Cf!Open(p, t) PROVE CfSaved'
  BY <1>3 DEF Cf!Open, CfSaved, CfSaving, Cf!TypeOK, Cf!Callers, Cf!Alive
<1>4. ASSUME NEW p \in Processes, NEW t \in Threads, Cf!Write(p, t) PROVE CfSaved'
  <2>1. cf_disk' = cf_json[<<p, t>>] /\ cf_expected' = CfSaving(<<p, t>>)
    BY <1>4 DEF Cf!Write, CfAlone, CfSaving
  <2>2. cf_json[<<p, t>>] = cf_memory[p] /\ cf_memory[p] = CfSaving(<<p, t>>)
    BY <1>4 DEF Cf!Write, CfSaved
  <2>3. cf_pc' = [cf_pc EXCEPT ![<<p, t>>] = "idle"] /\ UNCHANGED cf_memory
    BY <1>4 DEF Cf!Write, Cf!Returned
  <2>4. ASSUME NEW q \in Processes, NEW s \in Threads PROVE cf_pc'[<<q, s>>] = "idle"
    <3>1. cf_pc[<<q, s>>] # "idle" => q = p /\ s = t
      BY <1>4 DEF Cf!Write, CfLocked, CfAlone
    <3> QED BY <2>3, <3>1 DEF Cf!TypeOK, Cf!Callers
  <2>5. \A q \in Processes : cf_memory[q] # None => q = p
    BY <1>4 DEF Cf!Write, CfLocked, CfAlone, Cf!Alive
  <2> QED BY <2>1, <2>2, <2>3, <2>4, <2>5 DEF CfSaved, Cf!Callers, Cf!Alive
<1>5. ASSUME NEW p \in Processes, NEW t \in Threads, Cf!SaveFails(p, t) PROVE CfSaved'
  BY <1>5 DEF Cf!SaveFails
<1>6. ASSUME NEW p \in Processes, Cf!Stop(p) PROVE CfSaved'
  <2>1. cf_pc' = cf_pc
    <3>1. \A c \in Cf!Callers : c[1] = p => cf_pc[c] = "idle"
      <4>1. \A t \in Threads : cf_pc[<<p, t>>] = "idle"
        BY <1>6, Zenon DEF Cf!Stop
      <4> QED BY <4>1 DEF Cf!Callers
    <3> QED BY <1>6, <3>1 DEF Cf!Stop, Cf!TypeOK
  <2>2. UNCHANGED <<cf_disk, cf_expected, cf_json, cf_key>> /\ \A q \in Processes : q # p => cf_memory'[q] = cf_memory[q]
    BY <1>6 DEF Cf!Stop, Cf!TypeOK
  <2>3. \A t \in Threads : cf_pc[<<p, t>>] = "idle"
    BY <1>6, Zenon DEF Cf!Stop
  <2>4. cf_memory'[p] = None
    BY <1>6 DEF Cf!Stop, Cf!TypeOK
  <2> QED BY <2>1, <2>2, <2>3, <2>4 DEF CfSaved, CfSaving, Cf!Alive
<1> QED BY <1>1, <1>2, <1>3, <1>4, <1>5, <1>6 DEF Cf!Next

LEMMA CfStep == CfIInv /\ [Cf!Next]_(Cf!vars) => CfIInv'
<1>1. ASSUME CfIInv, Cf!Next PROVE CfIInv'
  BY <1>1, CfType, CfLock, CfAloneStep, CfSavedStep DEF CfIInv
<1>2. ASSUME CfIInv, UNCHANGED Cf!vars PROVE CfIInv'
  BY <1>2 DEF CfIInv, Cf!vars, Cf!TypeOK, CfLocked, CfAlone, CfSaved, CfSaving, Cf!Alive
<1> QED BY <1>1, <1>2

LEMMA CfSafe == CfIInv => Cf!ConfigSurvives /\ Cf!TornOnlyInTrouble
<1> SUFFICES ASSUME CfIInv PROVE Cf!ConfigSurvives /\ Cf!TornOnlyInTrouble
  OBVIOUS
<1>1. Cf!ConfigSurvives
  BY DEF CfIInv, CfSaved, Cf!ConfigSurvives, Cf!Callers
<1>2. Cf!TornOnlyInTrouble
  BY CfNoMap DEF CfIInv, CfSaved, Cf!TypeOK, Cf!TornOnlyInTrouble, Cf!Torn
<1> QED BY <1>1, <1>2

LEMMA CfHolds == Spec => []CfIInv
<1>1. Init => CfIInv
  BY CfInit DEF Init
<1>2. CfIInv /\ [Next]_vars => CfIInv'
  <2>1. [Next]_vars => [Cf!Next]_(Cf!vars)
    BY Zenon DEF Next, vars, cf, Cf!vars
  <2> QED BY <2>1, CfStep
<1> QED BY <1>1, <1>2, PTL DEF Spec

-----------------------------------------------------------------------------
(* S3 upload.  The parts collected are the first ones in order, as many as     *)
(* part_no says; while nobody cut the file off they come to its end.           *)

LEMMA SuLimits == {MaxParts, UploadCalls} \subseteq Nat \ {0}
BY BoundsAreCounts

SuParts ==
  /\ su_parts = Su!Whole(Len(su_parts)) /\ su_object = Su!Whole(Len(su_object))
  /\ su_pc = "part" => su_part_no = Len(su_parts) + 1 /\ su_part_no <= su_total + 1
  /\ su_pc = "create" => su_part_no = 1 /\ su_parts = <<>>
  /\ ~su_shrunk /\ su_pc \in {"create", "part", "complete"} => su_size = su_total
  /\ ~su_shrunk /\ su_pc = "complete" => Len(su_parts) = su_total

SuResult ==
  /\ su_pc \in {"create", "part", "complete"} => su_result = "-"
  /\ su_pc = "abort" => su_result = "error"
  /\ su_result = "true" /\ ~su_shrunk => Len(su_object) = su_total

\* The upload a call works on is one the server knows, and there is one for each call at
\* most.
SuUpload ==
  /\ Len(su_uploads) <= su_calls /\ su_id <= Len(su_uploads)
  /\ su_pc = "create" => su_id = 0 /\ Len(su_uploads) < su_calls
  /\ su_pc \in {"part", "complete", "abort"} => su_id > 0

SuIInv == Su!TypeOK /\ SuParts /\ SuResult /\ SuUpload /\ Su!NothingLeftOpen

LEMMA SuWhole ==
  /\ Su!Whole(0) = <<>>
  /\ \A n \in Nat : Su!Whole(n) \in Seq(Nat) /\ Len(Su!Whole(n)) = n
  /\ \A n \in Nat : Append(Su!Whole(n), n + 1) = Su!Whole(n + 1)
BY DEF Su!Whole

LEMMA SuInit == Su!Init => SuIInv
<1> USE DEF Su!Init
<1>1. ASSUME Su!Init PROVE Su!TypeOK
  <2>1. su_size \in 1..MaxParts /\ su_total \in 0..MaxParts /\ su_part_no \in 0..(MaxParts + 1)
    BY <1>1, SuLimits
  <2>2. su_id \in 0..UploadCalls /\ su_calls \in 0 .. UploadCalls
    BY <1>1, SuLimits
  <2>3. su_parts \in Seq(1..MaxParts) /\ su_object \in Seq(1..MaxParts)
    BY <1>1
  <2>4. su_uploads \in Seq({"open", "completed", "aborted"})
    BY <1>1
  <2> QED BY <1>1, <2>1, <2>2, <2>3, <2>4 DEF Su!TypeOK
<1>2. Su!Init => SuParts /\ SuResult /\ SuUpload /\ Su!NothingLeftOpen
  BY SuWhole DEF SuParts, SuResult, SuUpload, Su!NothingLeftOpen
<1> QED BY <1>1, <1>2 DEF SuIInv

\* What an upload becomes, and its parts.
LEMMA SuSeqs ==
  ASSUME SuIInv, Su!Next
  PROVE  /\ su_uploads' \in Seq({"open", "completed", "aborted"})
         /\ su_parts' \in Seq(1..MaxParts) /\ su_object' \in Seq(1..MaxParts)
         /\ \/ Len(su_uploads') = Len(su_uploads)
            \/ su_pc = "create" /\ Len(su_uploads') = Len(su_uploads) + 1
<1> DEFINE States == {"open", "completed", "aborted"}
<1>0. /\ su_uploads \in Seq(States) /\ (su_pc \in {"part", "complete", "abort"} => su_id \in 1..Len(su_uploads))
      /\ su_parts \in Seq(1..MaxParts) /\ su_object \in Seq(1..MaxParts)
      /\ su_pc = "part" => su_part_no > 0
      /\ su_size \in 1..MaxParts /\ su_total \in 0..MaxParts /\ su_part_no \in Nat /\ MaxParts \in Nat
  BY SuLimits DEF SuIInv, Su!TypeOK, SuUpload, SuParts
<1>1. CASE Su!Call \/ Su!Shrink \/ Su!PartFails \/ Su!CompleteFails
  BY <1>0, <1>1, EmptySeq DEF Su!Call, Su!Shrink, Su!PartFails, Su!CompleteFails, Su!server
<1>2. CASE Su!Create
  <2>1. /\ Append(su_uploads, "open") \in Seq(States)
        /\ Len(Append(su_uploads, "open")) = Len(su_uploads) + 1
    BY <1>0, AppendProperties
  <2> QED BY <1>0, <1>2, <2>1 DEF Su!Create
<1>3. CASE Su!Part
  <2>1. su_part_no <= Su!Min2(su_total, su_size) /\ su_pc = "part" => Append(su_parts, su_part_no) \in Seq(1..MaxParts)
    <3> SUFFICES ASSUME su_part_no <= Su!Min2(su_total, su_size), su_pc = "part"
                 PROVE  su_part_no \in 1..MaxParts
      BY <1>0, AppendProperties
    <3> QED BY <1>0 DEF Su!Min2
  <2>2. ~(su_part_no > Su!Min2(su_total, su_size)) => su_part_no <= Su!Min2(su_total, su_size)
    BY <1>0 DEF Su!Min2
  <2> QED BY <1>0, <1>3, <2>1, <2>2 DEF Su!Part, Su!server
<1>4. CASE Su!Complete
  BY <1>0, <1>4, ExceptSeq DEF Su!Complete
<1>5. CASE Su!Abort
  <2>1. su_uploads[su_id] \in States
    BY <1>0, <1>5, ElementOfSeq DEF Su!Abort
  <2>2. (IF su_uploads[su_id] = "open" THEN "aborted" ELSE su_uploads[su_id]) \in States
    BY <2>1
  <2>3. [su_uploads EXCEPT ![su_id] = IF su_uploads[su_id] = "open" THEN "aborted" ELSE su_uploads[su_id]] \in Seq(States)
        /\ Len([su_uploads EXCEPT ![su_id] = IF su_uploads[su_id] = "open" THEN "aborted" ELSE su_uploads[su_id]]) = Len(su_uploads)
    BY <1>0, <1>5, <2>2, ExceptSeq DEF Su!Abort
  <2> QED BY <1>0, <1>5, <2>3 DEF Su!Abort
<1> QED BY <1>1, <1>2, <1>3, <1>4, <1>5 DEF Su!Next

LEMMA SuType == ASSUME SuIInv, Su!Next PROVE Su!TypeOK'
<1> DEFINE Rest == /\ su_pc \in {"idle", "create", "part", "complete", "abort"}
                   /\ su_size \in 1..MaxParts /\ su_total \in 0..MaxParts
                   /\ su_part_no \in 0..(MaxParts + 1)
                   /\ su_id \in 0..UploadCalls
                   /\ su_result \in {"-", "true", "error"}
                   /\ su_calls \in 0..UploadCalls
                   /\ su_shrunk \in BOOLEAN
                   /\ su_excused \subseteq 1..UploadCalls
<1>0. Rest /\ SuUpload /\ Len(su_uploads) \in Nat /\ (su_pc = "part" => su_part_no > 0)
      /\ MaxParts \in Nat /\ UploadCalls \in Nat
  BY SuLimits DEF SuIInv, Su!TypeOK, SuParts
<1>1. ASSUME Su!Call PROVE Rest'
  <2>1. /\ su_pc' = "create" /\ su_size' = su_size /\ su_total' = su_size /\ su_part_no' = 1 /\ su_id' = 0
        /\ su_result' = "-" /\ su_calls' = su_calls + 1 /\ su_shrunk' = FALSE /\ su_excused' = su_excused
        /\ su_calls < UploadCalls
    BY <1>1 DEF Su!Call
  <2>2. su_size' \in 1..MaxParts /\ su_total' \in 0..MaxParts
    BY <1>0, <2>1
  <2>3. su_part_no' \in 0..(MaxParts + 1)
    BY <1>0, <2>1
  <2>4. su_id' \in 0..UploadCalls /\ su_calls' \in 0..UploadCalls
    BY <1>0, <2>1
  <2>5. su_excused' \subseteq 1..UploadCalls
    BY <1>0, <2>1
  <2> QED BY <2>1, <2>2, <2>3, <2>4, <2>5
<1>2. ASSUME Su!Create PROVE Rest'
  <2>1. Len(su_uploads) + 1 \in 1..UploadCalls
    BY <1>0, <1>2 DEF Su!Create, SuUpload
  <2>2. /\ UNCHANGED <<su_size, su_total, su_part_no, su_calls, su_shrunk>>
        /\ su_pc' \in {"part", "idle"} /\ su_result' \in {su_result, "error"}
        /\ su_id' \in {su_id, Len(su_uploads) + 1} /\ su_excused' \subseteq su_excused \cup {Len(su_uploads) + 1}
    BY <1>2 DEF Su!Create, Su!Fails
  <2> QED BY <1>0, <2>1, <2>2
<1>6. ASSUME Su!Shrink PROVE Rest'
  BY <1>0, <1>6 DEF Su!Shrink, Su!server
<1>3. ASSUME Su!Part PROVE Rest'
  BY <1>0, <1>3, SuLimits DEF Su!Part, Su!Min2
<1>4. ASSUME Su!PartFails \/ Su!Complete PROVE Rest'
  BY <1>0, <1>4 DEF Su!PartFails, Su!GivesUp, Su!Complete
<1>5. ASSUME Su!CompleteFails \/ Su!Abort PROVE Rest'
  <2>1. su_id \in 1..UploadCalls
    BY <1>0, <1>5 DEF Su!CompleteFails, Su!Abort, SuUpload
  <2> QED BY <1>0, <1>5, <2>1 DEF Su!CompleteFails, Su!Fails, Su!Abort
<1>7. Rest'
  BY <1>1, <1>2, <1>3, <1>4, <1>5, <1>6 DEF Su!Next
<1> QED BY <1>7, SuSeqs DEF Su!TypeOK

LEMMA SuInv == ASSUME SuIInv, Su!Next PROVE (SuParts /\ SuResult /\ SuUpload)'
<1> USE DEF SuIInv, Su!TypeOK
<1>1. CASE Su!Call
  <2>1. su_parts' = <<>> /\ Su!Whole(Len(su_parts')) = <<>>
    BY <1>1, SuWhole DEF Su!Call
  <2> QED BY <1>1, <2>1 DEF Su!Call, Su!server, SuParts, SuResult, SuUpload
<1>2. CASE Su!Shrink
  BY <1>2 DEF Su!Shrink, Su!server, SuParts, SuResult, SuUpload
<1>3. CASE Su!Create
  BY <1>3 DEF Su!Create, Su!Fails, SuParts, SuResult, SuUpload
<1>4. CASE Su!Part
  <2>1. CASE su_part_no > Su!Min2(su_total, su_size)
    BY <1>4, <2>1 DEF Su!Part, Su!server, Su!Min2, SuParts, SuResult, SuUpload
  <2>2. CASE ~(su_part_no > Su!Min2(su_total, su_size))
    <3>1. su_parts' = Append(su_parts, Len(su_parts) + 1) /\ su_parts = Su!Whole(Len(su_parts))
      BY <1>4, <2>2 DEF Su!Part, SuParts
    <3>2. Len(su_parts) \in Nat
      OBVIOUS
    <3>3. su_parts' = Su!Whole(Len(su_parts) + 1)
      BY <3>1, <3>2, SuWhole, Zenon
    <3>4. Len(su_parts') = Len(su_parts) + 1
      BY <3>1, <3>2
    <3> QED BY <1>4, <2>2, <3>3, <3>4 DEF Su!Part, Su!server, Su!Min2, SuParts, SuResult, SuUpload
  <2> QED BY <2>1, <2>2
<1>5. CASE Su!PartFails
  BY <1>5 DEF Su!PartFails, Su!GivesUp, Su!server, SuParts, SuResult, SuUpload
<1>6. CASE Su!Complete
  BY <1>6 DEF Su!Complete, SuParts, SuResult, SuUpload
<1>7. CASE Su!CompleteFails
  BY <1>7 DEF Su!CompleteFails, Su!server, Su!Fails, SuParts, SuResult, SuUpload
<1>8. CASE Su!Abort
  BY <1>8 DEF Su!Abort, SuParts, SuResult, SuUpload
<1> QED BY <1>1, <1>2, <1>3, <1>4, <1>5, <1>6, <1>7, <1>8 DEF Su!Next

LEMMA SuOpen == ASSUME SuIInv, Su!Next PROVE Su!NothingLeftOpen'
<1> USE DEF SuIInv, Su!TypeOK, Su!NothingLeftOpen, SuUpload
<1>1. CASE Su!Call \/ Su!Shrink
  BY <1>1 DEF Su!Call, Su!Shrink, Su!server
<1>2. CASE Su!Create
  <2>1. Len(su_uploads) \in Nat /\ DOMAIN su_uploads = 1..Len(su_uploads)
    BY LenProperties
  <2>2. CASE su_uploads' = su_uploads
    BY <1>2, <2>2 DEF Su!Create, Su!Fails
  <2>3. CASE su_uploads' = Append(su_uploads, "open")
    <3>1. DOMAIN su_uploads' = 1..(Len(su_uploads) + 1) /\ \A u \in DOMAIN su_uploads : su_uploads'[u] = su_uploads[u]
      BY <2>1, <2>3, AppendProperties
    <3>2. \A u \in DOMAIN su_uploads : su_uploads[u] = "open" => u \in su_excused
      BY <1>2, <2>1 DEF Su!Create
    <3>3. \/ su_excused' = su_excused \cup {Len(su_uploads) + 1}
          \/ su_excused' = su_excused /\ su_id' = Len(su_uploads) + 1 /\ su_pc' # "idle"
      <4>1. su_uploads' # su_uploads
        BY <2>1, <3>1
      <4> QED BY <1>2, <4>1 DEF Su!Create
    <3> QED BY <2>1, <3>1, <3>2, <3>3
  <2> QED BY <1>2, <2>2, <2>3 DEF Su!Create
<1>3. CASE Su!Part \/ Su!PartFails
  BY <1>3 DEF Su!Part, Su!PartFails, Su!GivesUp, Su!server
<1>4. CASE Su!Complete \/ Su!CompleteFails
  BY <1>4 DEF Su!Complete, Su!CompleteFails, Su!Fails, Su!server
<1>5. CASE Su!Abort
  BY <1>5 DEF Su!Abort
<1> QED BY <1>1, <1>2, <1>3, <1>4, <1>5 DEF Su!Next

LEMMA SuStep == SuIInv /\ [Su!Next]_(Su!vars) => SuIInv'
<1>1. ASSUME SuIInv, Su!Next PROVE SuIInv'
  BY <1>1, SuType, SuInv, SuOpen DEF SuIInv
<1>2. ASSUME SuIInv, UNCHANGED Su!vars PROVE SuIInv'
  BY <1>2 DEF SuIInv, Su!vars, Su!TypeOK, SuParts, SuResult, SuUpload, Su!NothingLeftOpen
<1> QED BY <1>1, <1>2

LEMMA SuSafe == SuIInv => Su!TrueMeansWhole /\ Su!NothingLeftOpen
BY DEF SuIInv, SuParts, SuResult, Su!TrueMeansWhole

LEMMA SuHolds == Spec => []SuIInv
<1>1. Init => SuIInv
  BY SuInit DEF Init
<1>2. SuIInv /\ [Next]_vars => SuIInv'
  <2>1. [Next]_vars => [Su!Next]_(Su!vars)
    BY Zenon DEF Next, vars, su, Su!vars
  <2> QED BY <2>1, SuStep
<1> QED BY <1>1, <1>2, PTL DEF Spec

-----------------------------------------------------------------------------
(* The servers: what a client has been told and what has gone on to its target *)
(* say how far its thread has come.                                            *)

TsTold == {<<>>, <<"not supported">>, <<"denied">>, <<"no target">>, <<"connected">>}
TsPassed == {<<>>, <<"head">>, <<"body">>, <<"head", "body">>}

TsTypes ==
  /\ ts_kind \in Ts!Kinds
  /\ ts_loop \in {"check", "accept", "ended"}
  /\ ts_stop_flag \in BOOLEAN
  /\ ts_pc \in [Conns -> {"none", "queued", "reset", "script", "greeting", "ask", "connect",
                       "piping", "closed"}]
  /\ ts_protocol \in [Conns -> {"?", "socks5", "CONNECT", "plain"}]
  /\ ts_allowed \in [Conns -> {"unasked", "yes", "no"}]
  /\ ts_told \in [Conns -> TsTold]
  /\ ts_to_target \in [Conns -> TsPassed]

\* Nothing is said or passed on before the target is reached, and by a proxy not before
\* the handler has allowed it.
TsConn(c) ==
  /\ ts_pc[c] \notin {"piping", "closed"} => ts_told[c] = <<>> /\ ts_to_target[c] = <<>>
  /\ ts_kind = "proxyListen" =>
       /\ ts_pc[c] \in {"none", "queued", "reset", "greeting", "ask"} => ts_allowed[c] = "unasked"
       /\ ts_pc[c] \in {"connect", "piping"} => ts_allowed[c] = "yes"
       /\ ts_to_target[c] # <<>> => ts_allowed[c] = "yes"
       /\ ts_allowed[c] = "no" => ts_pc[c] = "closed" /\ ts_told[c] = <<"denied">>
       /\ ts_pc[c] # "script"

TsIInv == TsTypes /\ \A c \in Conns : TsConn(c)

\* The few replies and bytes there are.
LEMMA TsAppend ==
  ASSUME NEW S, NEW s \in Seq(S), NEW x \in S
  PROVE  /\ Append(s, x) \in Seq(S) /\ Len(Append(s, x)) = Len(s) + 1
         /\ \A i \in 1 .. Len(s) : Append(s, x)[i] = s[i]
         /\ Append(s, x)[Len(s) + 1] = x
BY AppendProperties

TsPut(S, s, x) ==
  /\ Append(s, x) \in Seq(S) /\ Len(Append(s, x)) = Len(s) + 1
  /\ \A i \in 1 .. Len(s) : Append(s, x)[i] = s[i]
  /\ Append(s, x)[Len(s) + 1] = x

LEMMA TsPuts == ASSUME NEW S, NEW s \in Seq(S), NEW x \in S PROVE TsPut(S, s, x)
BY TsAppend DEF TsPut

LEMMA TsSmall ==
  /\ \A x : Append(<<>>, x) = <<x>> /\ <<x>> # <<>>
  /\ Append(<<"head">>, "body") = <<"head", "body">>
  /\ \A t \in TsTold : Len(t) <= 1
  /\ \A t \in TsPassed : Len(t) <= 2
<1>1. \A x : Append(<<>>, x) = <<x>> /\ <<x>> # <<>>
  OBVIOUS
<1>2. Append(<<"head">>, "body") = <<"head", "body">>
  <2> DEFINE S == {"head", "body"}
             one == <<"head">>
             two == <<"head", "body">>
  <2>1. one \in Seq(S) /\ Len(one) = 1 /\ one[1] = "head" /\ "body" \in S
    OBVIOUS
  <2>2. two \in Seq(S) /\ Len(two) = 2 /\ two[1] = "head" /\ two[2] = "body"
    OBVIOUS
  <2> HIDE DEF S, one, two
  <2> DEFINE app == Append(one, "body")
  <2>a. /\ app \in Seq(S) /\ Len(app) = Len(one) + 1
        /\ \A i \in 1 .. Len(one) : app[i] = one[i]
        /\ app[Len(one) + 1] = "body"
    <3>1. TsPut(S, one, "body")
      BY <2>1, TsPuts
    <3> QED BY <3>1, Zenon DEF TsPut, app
  <2> HIDE DEF app
  <2>3. app \in Seq(S) /\ Len(app) = 2 /\ app[1] = "head" /\ app[2] = "body"
    BY <2>1, <2>a
  <2>4. \A i \in 1 .. Len(two) : app[i] = two[i]
    BY <2>2, <2>3
  <2>5. app = two
    BY <2>2, <2>3, <2>4, SeqEqual
  <2> QED BY <2>5 DEF app, one, two
<1>3. Len(<<>>) <= 1 /\ Len(<<>>) <= 2
  OBVIOUS
<1>4. \A x : Len(<<x>>) <= 1 /\ Len(<<x>>) <= 2
  OBVIOUS
<1>5. \A x, y : Len(<<x, y>>) <= 2
  OBVIOUS
<1>6. \A t \in TsTold : Len(t) <= 1
  BY <1>3, <1>4, Zenon DEF TsTold
<1>7. \A t \in TsPassed : Len(t) <= 2
  BY <1>3, <1>4, <1>5, Zenon DEF TsPassed
<1> QED BY <1>1, <1>2, <1>6, <1>7, Zenon

LEMMA TsInit == Ts!Init => TsIInv
<1> SUFFICES ASSUME Ts!Init PROVE TsIInv
  OBVIOUS
<1>1. TsTypes
  <2>1. <<>> \in TsTold /\ <<>> \in TsPassed
    BY DEF TsTold, TsPassed
  <2>2. /\ ts_pc \in [Conns -> {"none", "queued", "reset", "script", "greeting", "ask", "connect",
                            "piping", "closed"}]
        /\ ts_protocol \in [Conns -> {"?", "socks5", "CONNECT", "plain"}]
        /\ ts_allowed \in [Conns -> {"unasked", "yes", "no"}]
    BY DEF Ts!Init
  <2>3. ts_told \in [Conns -> TsTold] /\ ts_to_target \in [Conns -> TsPassed]
    BY <2>1, Zenon DEF Ts!Init
  <2>4. ts_kind \in Ts!Kinds /\ ts_loop \in {"check", "accept", "ended"} /\ ts_stop_flag \in BOOLEAN
    BY DEF Ts!Init
  <2> QED BY <2>2, <2>3, <2>4, Zenon DEF TsTypes
<1>2. \A c \in Conns : TsConn(c)
  BY DEF Ts!Init, TsConn, TsTold, TsPassed
<1> QED BY <1>1, <1>2 DEF TsIInv

LEMMA TsSafe == TsIInv => Ts!TypeOK /\ Ts!OnlyAllowedArePiped
<1> SUFFICES ASSUME TsIInv PROVE Ts!TypeOK /\ Ts!OnlyAllowedArePiped
  OBVIOUS
<1>1. \A c \in Conns : Len(ts_told[c]) <= 1 /\ Len(ts_to_target[c]) <= 2
  BY TsSmall DEF TsIInv, TsTypes
<1>2. Ts!TypeOK
  BY <1>1 DEF TsIInv, TsTypes, Ts!TypeOK
<1>3. Ts!OnlyAllowedArePiped
  BY <1>1 DEF TsIInv, TsConn, Ts!OnlyAllowedArePiped
<1> QED BY <1>2, <1>3

\* A step of one connection leaves the others alone.
LEMMA TsOne ==
  ASSUME TsIInv, NEW c \in Conns, TsTypes', TsConn(c)', ts_kind' = ts_kind,
         \A d \in Conns \ {c} : /\ ts_pc'[d] = ts_pc[d] /\ ts_allowed'[d] = ts_allowed[d]
                                /\ ts_told'[d] = ts_told[d] /\ ts_to_target'[d] = ts_to_target[d]
  PROVE  TsIInv'
BY DEF TsIInv, TsConn

LEMMA TsThread == ASSUME TsIInv, NEW c \in Conns, Ts!Connect(c) \/ Ts!Accept(c) \/ Ts!Thread(c) \/ Ts!Piped(c)
                  PROVE  TsIInv'
<1>t. TsTypes /\ TsConn(c)
  BY DEF TsIInv
<1> USE DEF TsTypes
<1>1. CASE Ts!Connect(c)
  <2>1. TsTypes'
    BY <1>t, <1>1 DEF Ts!Connect, TsTold, TsPassed
  <2>2. TsConn(c)'
    BY <1>t, <1>1 DEF Ts!Connect, TsConn
  <2> QED BY <1>t, <1>1, <2>1, <2>2, TsOne DEF Ts!Connect
<1>2. CASE Ts!Accept(c)
  <2>1. TsTypes'
    BY <1>t, <1>2 DEF Ts!Accept, Ts!handshake
  <2>2. TsConn(c)'
    BY <1>t, <1>2 DEF Ts!Accept, Ts!handshake, TsConn
  <2> QED BY <1>t, <1>2, <2>1, <2>2, TsOne DEF Ts!Accept, Ts!handshake
<1>3. CASE Ts!ScriptEnds(c) \/ Ts!PipeEnds(c)
  <2>1. TsTypes'
    BY <1>t, <1>3 DEF Ts!ScriptEnds, Ts!PipeEnds, Ts!Goes, Ts!handshake
  <2>2. TsConn(c)'
    BY <1>t, <1>3 DEF Ts!ScriptEnds, Ts!PipeEnds, Ts!Goes, Ts!handshake, TsConn
  <2> QED BY <1>t, <1>3, <2>1, <2>2, TsOne DEF Ts!ScriptEnds, Ts!PipeEnds, Ts!Goes, Ts!handshake
<1>4. CASE Ts!Greeting(c)
  <2>1. TsTypes'
    BY <1>t, <1>4 DEF Ts!Greeting, Ts!Goes
  <2>2. TsConn(c)'
    BY <1>t, <1>4 DEF Ts!Greeting, Ts!Goes, TsConn
  <2> QED BY <1>t, <1>4, <2>1, <2>2, TsOne DEF Ts!Greeting, Ts!Goes
<1>5. CASE Ts!BadGreeting(c)
  <2>1. ts_told[c] = <<>> /\ Append(ts_told[c], "not supported") = <<"not supported">>
    BY <1>t, <1>5, TsSmall DEF Ts!BadGreeting, TsConn
  <2>2. /\ \/ ts_told' = ts_told
           \/ ts_told' = [ts_told EXCEPT ![c] = <<"not supported">>]
        /\ ts_pc[c] = "greeting"
        /\ ts_pc' = [ts_pc EXCEPT ![c] = "closed"]
        /\ UNCHANGED <<ts_kind, ts_loop, ts_stop_flag, ts_protocol, ts_allowed, ts_to_target>>
    BY <1>5, <2>1 DEF Ts!BadGreeting, Ts!Goes
  <2>3. TsTypes'
    BY <1>t, <2>2 DEF TsTold
  <2>4. TsConn(c)'
    BY <1>t, <2>1, <2>2 DEF TsConn
  <2> QED BY <1>t, <2>2, <2>3, <2>4, TsOne
<1>6. CASE Ts!check_access(c)
  <2>1. ts_told[c] = <<>> /\ Append(ts_told[c], "denied") = <<"denied">>
    BY <1>t, <1>6, TsSmall DEF Ts!check_access, TsConn
  <2>2. /\ \/ /\ ts_pc' = [ts_pc EXCEPT ![c] = "connect"] /\ ts_told' = ts_told
              /\ ts_allowed' = [ts_allowed EXCEPT ![c] = "yes"]
           \/ /\ ts_pc' = [ts_pc EXCEPT ![c] = "closed"] /\ ts_told' = [ts_told EXCEPT ![c] = <<"denied">>]
              /\ ts_allowed' = [ts_allowed EXCEPT ![c] = "no"]
        /\ ts_pc[c] = "ask"
        /\ UNCHANGED <<ts_kind, ts_loop, ts_stop_flag, ts_protocol, ts_to_target>>
    BY <1>6, <2>1 DEF Ts!check_access, Ts!Goes, Ts!Tell
  <2>3. TsTypes'
    BY <1>t, <2>2 DEF TsTold
  <2>4. TsConn(c)'
    BY <1>t, <2>1, <2>2 DEF TsConn
  <2> QED BY <1>t, <2>2, <2>3, <2>4, TsOne
<1>7. CASE Ts!ConnectFails(c)
  <2>1. ts_told[c] = <<>> /\ Append(ts_told[c], "no target") = <<"no target">>
    BY <1>t, <1>7, TsSmall DEF Ts!ConnectFails, TsConn
  <2>2. /\ ts_told' = ts_told \/ ts_told' = [ts_told EXCEPT ![c] = <<"no target">>]
        /\ ts_pc[c] = "connect" /\ ts_pc' = [ts_pc EXCEPT ![c] = "closed"]
        /\ UNCHANGED <<ts_kind, ts_loop, ts_stop_flag, ts_protocol, ts_allowed, ts_to_target>>
    BY <1>7, <2>1 DEF Ts!ConnectFails, Ts!Goes, Ts!Tell
  <2>3. TsTypes'
    BY <1>t, <2>2 DEF TsTold
  <2>4. TsConn(c)'
    BY <1>t, <2>1, <2>2 DEF TsConn
  <2> QED BY <1>t, <2>2, <2>3, <2>4, TsOne
<1>8. CASE Ts!Connected(c)
  <2>1. ts_told[c] = <<>> /\ ts_to_target[c] = <<>> /\ Append(ts_told[c], "connected") = <<"connected">>
    BY <1>t, <1>8, TsSmall DEF Ts!Connected, TsConn
  <2>2. /\ ts_told' = ts_told \/ ts_told' = [ts_told EXCEPT ![c] = <<"connected">>]
        /\ ts_to_target' = ts_to_target \/ ts_to_target' = [ts_to_target EXCEPT ![c] = <<"head">>]
        /\ ts_pc[c] = "connect" /\ ts_pc' = [ts_pc EXCEPT ![c] = "piping"]
        /\ UNCHANGED <<ts_kind, ts_loop, ts_stop_flag, ts_protocol, ts_allowed>>
    BY <1>8, <2>1 DEF Ts!Connected, Ts!Goes, Ts!Tell
  <2>3. TsTypes'
    BY <1>t, <2>2 DEF TsTold, TsPassed
  <2>4. TsConn(c)'
    BY <1>t, <2>1, <2>2 DEF TsConn
  <2> QED BY <1>t, <2>2, <2>3, <2>4, TsOne
<1>9. CASE Ts!Piped(c)
  <2>1. ts_to_target[c] \in {<<>>, <<"head">>}
    <3>1. \A i \in DOMAIN ts_to_target[c] : ts_to_target[c][i] # "body"
      BY <1>9 DEF Ts!Piped
    <3>2. ts_to_target[c] # <<"body">>
      BY <3>1
    <3>3. ts_to_target[c] # <<"head", "body">>
      BY <3>1
    <3> QED BY <1>t, <3>2, <3>3 DEF TsPassed
  <2>2. Append(ts_to_target[c], "body") \in {<<"body">>, <<"head", "body">>}
    BY <2>1, TsSmall
  <2>3. /\ ts_to_target' = [ts_to_target EXCEPT ![c] = Append(ts_to_target[c], "body")] /\ ts_pc[c] = "piping"
        /\ UNCHANGED <<ts_kind, ts_loop, ts_stop_flag, ts_pc, ts_protocol, ts_allowed, ts_told>>
    BY <1>9 DEF Ts!Piped
  <2>4. TsTypes'
    BY <1>t, <2>2, <2>3 DEF TsPassed
  <2>5. TsConn(c)'
    BY <1>t, <2>3 DEF TsConn
  <2> QED BY <1>t, <2>3, <2>4, <2>5, TsOne
<1> QED BY <1>1, <1>2, <1>3, <1>4, <1>5, <1>6, <1>7, <1>8, <1>9 DEF Ts!Thread

LEMMA TsStep == TsIInv /\ [Ts!Next]_(Ts!vars) => TsIInv'
<1> SUFFICES ASSUME TsIInv, [Ts!Next]_(Ts!vars) PROVE TsIInv'
  OBVIOUS
<1>t. TsTypes /\ \A c \in Conns : TsConn(c)
  BY DEF TsIInv
<1>1. ASSUME Ts!LoopEnds PROVE TsIInv'
  <2>1. TsTypes'
    BY <1>t, <1>1 DEF Ts!LoopEnds, Ts!handshake, TsTypes
  <2>2. ASSUME NEW c \in Conns PROVE TsConn(c)'
    BY <1>t, <1>1, <2>2 DEF Ts!LoopEnds, Ts!handshake, TsTypes, TsConn
  <2> QED BY <2>1, <2>2 DEF TsIInv
<1>2. ASSUME UNCHANGED <<ts_kind, ts_pc, Ts!handshake>>, ts_loop' \in {"check", "accept"} \/ ts_loop' = ts_loop,
             ts_stop_flag' \in BOOLEAN
      PROVE  TsIInv'
  BY <1>t, <1>2 DEF Ts!handshake, TsTypes, TsConn, TsIInv
<1>3. CASE Ts!Stop
  BY <1>2, <1>3 DEF Ts!Stop
<1>4. CASE Ts!Check \/ Ts!Idle \/ Ts!AcceptFails
  BY <1>1, <1>2, <1>4, <1>t DEF Ts!Check, Ts!Idle, Ts!AcceptFails, TsTypes, Ts!handshake
<1>5. CASE UNCHANGED Ts!vars
  BY <1>2, <1>5, <1>t DEF Ts!vars, Ts!handshake, TsTypes
<1>6. CASE \E c \in Conns : Ts!Connect(c) \/ Ts!Accept(c) \/ Ts!Thread(c) \/ Ts!Piped(c)
  BY <1>6, TsThread
<1> QED BY <1>3, <1>4, <1>5, <1>6 DEF Ts!Next, Ts!LoopStep

\* In the library, the part's invariant holds whatever the behaviour is about: the
\* part begins in one of its initial states, and a step is one of its own or none.
LEMMA TsHolds == Spec => []TsIInv
<1>1. Init => TsIInv
  BY TsInit DEF Init
<1>2. TsIInv /\ [Next]_vars => TsIInv'
  <2>1. [Next]_vars => [Ts!Next]_(Ts!vars)
    BY Zenon DEF Next, vars, ts, Ts!vars
  <2> QED BY <2>1, TsStep
<1> QED BY <1>1, <1>2, PTL DEF Spec

-----------------------------------------------------------------------------
(* tcpPipe: until a thread ends, no socket is shut down, so the first to end has *)
(* come to the end of what its peer sent and has passed all of it on.            *)

LEMMA PiLimits == {MaxBytes, Buffer} \subseteq Nat
BY BoundsAreCounts

PiEnds ==
  /\ \A s \in Pi!Sides : pi_pc[s] = "read" => pi_have[s] = 0
  /\ pi_first = Pi!NoneYet => pi_caller = "waiting"
  /\ pi_caller = "waiting" => pi_shut = {}
  /\ \A s \in Pi!Sides :
       pi_first = <<s, "end of stream">> =>
         pi_pc[s] = "ended" /\ pi_peer[s] # "open" /\ pi_inbox[s] = 0 /\ pi_have[s] = 0

PiIInv == Pi!TypeOK /\ Pi!BytesConserved /\ PiEnds

LEMMA PiInit == Pi!Init => PiIInv
<1> SUFFICES ASSUME Pi!Init PROVE PiIInv
  OBVIOUS
<1>1. 0 \in 0 .. MaxBytes /\ 0 \in 0 .. Buffer
  BY PiLimits
<1>2. Pi!TypeOK
  BY <1>1 DEF Pi!Init, Pi!TypeOK
<1>3. \A s \in Pi!Sides : Pi!Other(s) \in Pi!Sides
  BY DEF Pi!Sides, Pi!Other
<1>4. Pi!BytesConserved
  BY <1>3 DEF Pi!Init, Pi!BytesConserved
<1>5. PiEnds
  BY DEF Pi!Init, PiEnds, Pi!NoneYet, Pi!Sides
<1> QED BY <1>2, <1>4, <1>5 DEF PiIInv

\* There are two sides, each the other's other.
LEMMA PiSides ==
  \A s \in Pi!Sides : /\ Pi!Other(s) \in Pi!Sides /\ Pi!Other(s) # s /\ Pi!Other(Pi!Other(s)) = s
                   /\ \A r \in Pi!Sides : r = s \/ r = Pi!Other(s)
BY DEF Pi!Sides, Pi!Other

\* Sides, buffers and bytes in their sets; how much has been received follows.
PiTypes ==
  /\ pi_peer \in [Pi!Sides -> {"open", "finished", "gone"}]
  /\ pi_sent \in [Pi!Sides -> Nat] /\ pi_got \in [Pi!Sides -> Nat]
  /\ pi_inbox \in [Pi!Sides -> Nat] /\ pi_outbox \in [Pi!Sides -> Nat] /\ pi_have \in [Pi!Sides -> Nat]
  /\ pi_pc \in [Pi!Sides -> {"read", "write", "ended"}]
PiBounds ==
  \A s \in Pi!Sides : /\ pi_sent[s] <= MaxBytes
                   /\ pi_inbox[s] <= Buffer /\ pi_outbox[s] <= Buffer /\ pi_have[s] <= Buffer
PiControl ==
  /\ pi_shut \subseteq Pi!Sides
  /\ pi_first \in {Pi!NoneYet} \cup (Pi!Sides \X {"end of stream", "failed write"})
  /\ pi_caller \in {"waiting", "shutting", "joining", "returned"}
PiCounted(s) ==
  /\ pi_inbox[s] + pi_have[s] + pi_outbox[Pi!Other(s)] + pi_got[Pi!Other(s)] <= pi_sent[s]
  /\ pi_peer[s] # "gone" => pi_inbox[s] + pi_have[s] + pi_outbox[Pi!Other(s)] + pi_got[Pi!Other(s)] = pi_sent[s]

PiInner == PiTypes /\ PiBounds /\ PiControl /\ (\A s \in Pi!Sides : PiCounted(s)) /\ PiEnds

LEMMA PiUnfold == PiIInv <=> PiInner
<1>b. MaxBytes \in Nat /\ Buffer \in Nat
  BY PiLimits
<1>1. ASSUME PiIInv PROVE PiInner
  <2>1. PiTypes
    <3> SUFFICES ASSUME Pi!TypeOK PROVE PiTypes
      BY <1>1 DEF PiIInv
    <3>1. 0 .. MaxBytes \subseteq Nat /\ 0 .. Buffer \subseteq Nat
      OBVIOUS
    <3>2. /\ pi_sent \in [Pi!Sides -> 0 .. MaxBytes] /\ pi_got \in [Pi!Sides -> 0 .. MaxBytes]
          /\ pi_inbox \in [Pi!Sides -> 0 .. Buffer] /\ pi_outbox \in [Pi!Sides -> 0 .. Buffer]
          /\ pi_have \in [Pi!Sides -> 0 .. Buffer]
      BY DEF Pi!TypeOK
    <3> HIDE DEF Pi!TypeOK
    <3>3. pi_sent \in [Pi!Sides -> Nat] /\ pi_got \in [Pi!Sides -> Nat]
      BY <3>1, <3>2
    <3>4. pi_inbox \in [Pi!Sides -> Nat] /\ pi_outbox \in [Pi!Sides -> Nat] /\ pi_have \in [Pi!Sides -> Nat]
      BY <3>1, <3>2
    <3> QED BY <3>3, <3>4 DEF PiTypes, Pi!TypeOK
  <2>2. ASSUME NEW s \in Pi!Sides
        PROVE  /\ pi_sent[s] <= MaxBytes
               /\ pi_inbox[s] <= Buffer /\ pi_outbox[s] <= Buffer /\ pi_have[s] <= Buffer
    <3>1. /\ pi_sent[s] \in 0 .. MaxBytes /\ pi_inbox[s] \in 0 .. Buffer
          /\ pi_outbox[s] \in 0 .. Buffer /\ pi_have[s] \in 0 .. Buffer
      BY <1>1 DEF PiIInv, Pi!TypeOK
    <3> QED BY <1>b, <3>1
  <2>3. PiControl
    BY <1>1 DEF PiIInv, Pi!TypeOK, PiControl
  <2>4. \A s \in Pi!Sides : PiCounted(s)
    BY <1>1, Zenon DEF PiIInv, Pi!BytesConserved, PiCounted
  <2> QED BY <1>1, <2>1, <2>2, <2>3, <2>4 DEF PiIInv, PiInner, PiBounds
<1>2. ASSUME PiInner PROVE PiIInv
  <2>1. ASSUME NEW s \in Pi!Sides
        PROVE  /\ pi_sent[s] \in 0 .. MaxBytes /\ pi_got[s] \in 0 .. MaxBytes
               /\ pi_inbox[s] \in 0 .. Buffer /\ pi_outbox[s] \in 0 .. Buffer /\ pi_have[s] \in 0 .. Buffer
    <3> DEFINE o == Pi!Other(s)
    <3>1. o \in Pi!Sides /\ Pi!Other(o) = s
      BY PiSides
    <3> HIDE DEF o
    <3>2. /\ pi_sent[s] \in Nat /\ pi_inbox[s] \in Nat /\ pi_outbox[s] \in Nat /\ pi_have[s] \in Nat /\ pi_got[s] \in Nat
          /\ pi_sent[o] \in Nat /\ pi_inbox[o] \in Nat /\ pi_have[o] \in Nat
      BY <1>2, <3>1 DEF PiInner, PiTypes
    <3>3. /\ pi_sent[s] <= MaxBytes /\ pi_sent[o] <= MaxBytes
          /\ pi_inbox[s] <= Buffer /\ pi_outbox[s] <= Buffer /\ pi_have[s] <= Buffer
      BY <1>2, <3>1 DEF PiInner, PiBounds
    <3>4. pi_inbox[o] + pi_have[o] + pi_outbox[s] + pi_got[s] <= pi_sent[o]
      BY <1>2, <3>1 DEF PiInner, PiCounted
    <3> QED BY <1>b, <3>2, <3>3, <3>4
  <2>2. /\ pi_sent \in [Pi!Sides -> 0 .. MaxBytes] /\ pi_got \in [Pi!Sides -> 0 .. MaxBytes]
    BY <1>2, <2>1 DEF PiInner, PiTypes
  <2>3. /\ pi_inbox \in [Pi!Sides -> 0 .. Buffer] /\ pi_outbox \in [Pi!Sides -> 0 .. Buffer]
        /\ pi_have \in [Pi!Sides -> 0 .. Buffer]
    BY <1>2, <2>1 DEF PiInner, PiTypes
  <2>4. Pi!TypeOK
    BY <1>2, <2>2, <2>3 DEF PiInner, PiTypes, PiControl, Pi!TypeOK
  <2>5. Pi!BytesConserved
    BY <1>2, Zenon DEF PiInner, Pi!BytesConserved, PiCounted
  <2> QED BY <1>2, <2>4, <2>5 DEF PiIInv, PiInner
<1> QED BY <1>1, <1>2

PiAdds(a, b, n) == 0 + 0 + a + b = n => a + b = n

LEMMA PiSum == \A a, b, n \in Nat : PiAdds(a, b, n)
BY DEF PiAdds

LEMMA PiSafe == PiIInv => Pi!LastBytesArrive
<1> SUFFICES ASSUME PiInner, NEW s \in Pi!Sides, pi_first = <<s, "end of stream">>, pi_peer[s] # "gone"
             PROVE  pi_outbox[Pi!Other(s)] + pi_got[Pi!Other(s)] = pi_sent[s]
  BY PiUnfold DEF Pi!LastBytesArrive
<1>1. Pi!Other(s) \in Pi!Sides
  BY PiSides
<1>2. pi_inbox[s] = 0 /\ pi_have[s] = 0
  BY DEF PiInner, PiEnds
<1>3. pi_outbox[Pi!Other(s)] \in Nat /\ pi_got[Pi!Other(s)] \in Nat
  BY <1>1 DEF PiInner, PiTypes
<1>4. pi_inbox[s] + pi_have[s] + pi_outbox[Pi!Other(s)] + pi_got[Pi!Other(s)] = pi_sent[s]
  BY DEF PiInner, PiCounted
<1> DEFINE a == pi_outbox[Pi!Other(s)]
           b == pi_got[Pi!Other(s)]
           n == pi_sent[s]
<1>5. 0 + 0 + a + b = n /\ a \in Nat /\ b \in Nat /\ n \in Nat
  BY <1>2, <1>3, <1>4 DEF PiInner, PiTypes
<1> HIDE DEF a, b, n
<1>6. a + b = n
  <2>1. PiAdds(a, b, n)
    BY <1>5, PiSum, Zenon
  <2> QED BY <1>5, <2>1, Zenon DEF PiAdds
<1> QED BY <1>6 DEF a, b, n

\* Bytes move from one buffer to the next.
LEMMA PiMoves ==
  ASSUME PiInner, NEW s \in Pi!Sides, Pi!Send(s) \/ Pi!Receive(s) \/ Pi!GoAway(s) \/ Pi!Read(s) \/ Pi!Write(s)
  PROVE  PiInner'
<1> DEFINE o == Pi!Other(s)
<1>o. o \in Pi!Sides /\ o # s /\ Pi!Other(o) = s /\ Pi!Other(s) = o /\ \A r \in Pi!Sides : r = s \/ r = o
  BY PiSides
<1> HIDE DEF o
<1>b. MaxBytes \in Nat /\ Buffer \in Nat
  BY PiLimits
<1>i. PiTypes /\ PiBounds /\ PiControl /\ PiEnds /\ PiCounted(s) /\ PiCounted(o)
  BY <1>o DEF PiInner
<1>n. /\ pi_sent[s] \in Nat /\ pi_inbox[s] \in Nat /\ pi_outbox[s] \in Nat /\ pi_have[s] \in Nat /\ pi_got[s] \in Nat
      /\ pi_sent[o] \in Nat /\ pi_inbox[o] \in Nat /\ pi_outbox[o] \in Nat /\ pi_have[o] \in Nat /\ pi_got[o] \in Nat
  BY <1>i, <1>o DEF PiTypes
<1>q. ASSUME PiTypes', PiBounds', PiControl', PiCounted(s)', PiCounted(o)', PiEnds' PROVE PiInner'
  BY <1>o, <1>q DEF PiInner
<1>1. CASE Pi!Send(s)
  <2>1. PiTypes'
    BY <1>i, <1>1 DEF Pi!Send, PiTypes
  <2>v. /\ pi_sent'[s] = pi_sent[s] + 1 /\ pi_sent'[o] = pi_sent[o] /\ pi_sent[s] < MaxBytes
        /\ pi_inbox'[s] = pi_inbox[s] + 1 /\ pi_inbox'[o] = pi_inbox[o] /\ pi_inbox[s] < Buffer
        /\ UNCHANGED <<pi_have, pi_outbox>>
    BY <1>i, <1>o, <1>1 DEF Pi!Send, PiTypes
  <2>w. PiBounds'
    BY <1>i, <1>n, <1>b, <1>o, <2>v DEF PiBounds
  <2>2. PiBounds' /\ PiControl'
    BY <1>i, <1>1, <2>w DEF Pi!Send, PiControl
  <2>3. PiCounted(s)' /\ PiCounted(o)'
    BY <1>i, <1>n, <1>o, <1>1 DEF Pi!Send, PiTypes, PiCounted
  <2>4. PiEnds'
    BY <1>i, <1>1 DEF Pi!Send, PiEnds, PiTypes
  <2> QED BY <1>q, <2>1, <2>2, <2>3, <2>4
<1>2. CASE Pi!Receive(s)
  <2>1. PiTypes'
    BY <1>i, <1>n, <1>2 DEF Pi!Receive, PiTypes
  <2>v. /\ pi_outbox'[s] = pi_outbox[s] - 1 /\ pi_outbox'[o] = pi_outbox[o] /\ pi_outbox[s] > 0
        /\ pi_got'[s] = pi_got[s] + 1 /\ pi_got'[o] = pi_got[o]
        /\ UNCHANGED <<pi_peer, pi_have, pi_inbox, pi_sent>>
    BY <1>i, <1>o, <1>2 DEF Pi!Receive, PiTypes
  <2>w. PiBounds'
    BY <1>i, <1>n, <1>b, <1>o, <2>v DEF PiBounds
  <2>2. PiBounds' /\ PiControl'
    BY <1>i, <1>2, <2>w DEF Pi!Receive, PiControl
  <2>3. PiCounted(s)' /\ PiCounted(o)'
    <3>1. PiCounted(s)'
      BY <1>i, <1>n, <1>o, <2>v DEF PiCounted
    <3>2. PiCounted(o)'
      <4>1. Pi!Other(o) = s /\ PiCounted(o)
        BY <1>i, <1>o
      <4> QED BY <1>n, <2>v, <4>1 DEF PiCounted
    <3> QED BY <3>1, <3>2
  <2>4. PiEnds'
    BY <1>i, <1>2 DEF Pi!Receive, PiEnds, PiTypes
  <2> QED BY <1>q, <2>1, <2>2, <2>3, <2>4
<1>3. CASE Pi!GoAway(s)
  <2>0. PICK n \in {0, pi_inbox[s]} : pi_inbox' = [pi_inbox EXCEPT ![s] = n]
    BY <1>3 DEF Pi!GoAway
  <2>g. /\ pi_peer' = [pi_peer EXCEPT ![s] = "gone"] /\ n \in Nat /\ n <= pi_inbox[s]
        /\ UNCHANGED <<pi_sent, pi_have, pi_outbox, pi_got, pi_shut, pi_pc, pi_first, pi_caller>>
    BY <1>3, <1>n DEF Pi!GoAway
  <2>1. PiTypes'
    BY <1>i, <2>0, <2>g DEF PiTypes
  <2>v. pi_inbox'[s] = n /\ pi_inbox'[o] = pi_inbox[o]
    BY <1>i, <1>o, <2>0 DEF PiTypes
  <2>w. PiBounds'
    BY <1>i, <1>n, <1>b, <1>o, <2>g, <2>v DEF PiBounds
  <2>2. PiBounds' /\ PiControl'
    BY <1>i, <2>g, <2>w DEF PiControl
  <2>3. PiCounted(s)' /\ PiCounted(o)'
    BY <1>i, <1>n, <1>o, <2>0, <2>g DEF PiTypes, PiCounted
  <2>4. PiEnds'
    BY <1>i, <1>n, <2>0, <2>g DEF PiEnds, PiTypes
  <2> QED BY <1>q, <2>1, <2>2, <2>3, <2>4
<1>4. CASE Pi!Read(s)
  <2>0. pi_have[s] = 0
    BY <1>i, <1>4 DEF Pi!Read, PiEnds
  <2>1. PiTypes'
    BY <1>i, <1>n, <1>4 DEF Pi!Read, PiTypes
  <2>v. /\ pi_have'[s] = pi_inbox[s] /\ pi_have'[o] = pi_have[o] /\ pi_inbox'[s] = 0 /\ pi_inbox'[o] = pi_inbox[o]
        /\ UNCHANGED <<pi_sent, pi_outbox>>
    BY <1>i, <1>o, <1>4 DEF Pi!Read, PiTypes
  <2>w. PiBounds'
    BY <1>i, <1>n, <1>b, <1>o, <2>v DEF PiBounds
  <2>2. PiBounds' /\ PiControl'
    BY <1>i, <1>4, <2>w DEF Pi!Read, PiControl
  <2>3. PiCounted(s)' /\ PiCounted(o)'
    BY <1>i, <1>n, <1>o, <1>4, <2>0 DEF Pi!Read, PiTypes, PiCounted
  <2>4. PiEnds'
    BY <1>i, <1>4 DEF Pi!Read, PiEnds, PiTypes
  <2> QED BY <1>q, <2>1, <2>2, <2>3, <2>4
<1>5. CASE Pi!Write(s)
  <2> DEFINE room == Buffer - pi_outbox[o]
             n == IF pi_have[s] < room THEN pi_have[s] ELSE room
  <2>1. n \in Nat /\ n <= pi_have[s] /\ n + pi_outbox[o] <= Buffer
    BY <1>b, <1>i, <1>n, <1>o DEF PiBounds
  <2>2. /\ pi_outbox' = [pi_outbox EXCEPT ![o] = pi_outbox[o] + n]
        /\ pi_have' = [pi_have EXCEPT ![s] = pi_have[s] - n]
        /\ pi_pc' = [pi_pc EXCEPT ![s] = IF n = pi_have[s] THEN "read" ELSE "write"]
        /\ pi_pc[s] = "write"
        /\ UNCHANGED <<pi_peer, pi_sent, pi_inbox, pi_got, pi_shut, pi_first, pi_caller>>
    BY <1>5 DEF Pi!Write, o
  <2> HIDE DEF n
  <2>3. pi_have[s] - n \in Nat /\ pi_outbox[o] + n \in Nat
    BY <1>n, <2>1
  <2>4. PiTypes'
    BY <1>i, <2>2, <2>3 DEF PiTypes
  <2>v. /\ pi_outbox'[o] = pi_outbox[o] + n /\ pi_outbox'[s] = pi_outbox[s]
        /\ pi_have'[s] = pi_have[s] - n /\ pi_have'[o] = pi_have[o]
    BY <1>i, <1>o, <2>2 DEF PiTypes
  <2>5. PiControl'
    BY <1>i, <2>2 DEF PiControl
  <2>6. PiBounds'
    BY <1>b, <1>i, <1>n, <1>o, <2>1, <2>2, <2>v DEF PiBounds
  <2>7. PiCounted(s)' /\ PiCounted(o)'
    BY <1>i, <1>n, <1>o, <2>1, <2>2, <2>v DEF PiCounted
  <2>e. pi_have[s] - n = 0 <=> n = pi_have[s]
    BY <1>n, <2>1
  <2>r. \A r \in Pi!Sides : pi_pc'[r] = "read" => pi_have'[r] = 0
    BY <1>i, <1>o, <2>2, <2>v, <2>e DEF PiEnds, PiTypes
  <2>f. ~(pi_first = <<s, "end of stream">>)
    BY <1>i, <2>2 DEF PiEnds
  <2>g. \A r \in Pi!Sides :
          pi_first' = <<r, "end of stream">> =>
            pi_pc'[r] = "ended" /\ pi_peer'[r] # "open" /\ pi_inbox'[r] = 0 /\ pi_have'[r] = 0
    BY <1>i, <1>o, <2>2, <2>v, <2>f DEF PiEnds, PiTypes
  <2>8. PiEnds'
    BY <1>i, <2>2, <2>r, <2>g DEF PiEnds
  <2> QED BY <1>q, <2>4, <2>5, <2>6, <2>7, <2>8
<1> QED BY <1>1, <1>2, <1>3, <1>4, <1>5

\* Threads end and sockets are shut down; the buffers stay as they are.
LEMMA PiRest ==
  ASSUME PiInner,
         (\E s \in Pi!Sides : Pi!FinishSending(s) \/ Pi!ReadEnds(s) \/ Pi!WriteFails(s)) \/ Pi!Caller
  PROVE  PiInner'
<1>i. PiTypes /\ PiBounds /\ PiControl /\ PiEnds /\ \A s \in Pi!Sides : PiCounted(s)
  BY DEF PiInner
<1>u. UNCHANGED <<pi_sent, pi_inbox, pi_have, pi_outbox, pi_got>>
  BY DEF Pi!FinishSending, Pi!ReadEnds, Pi!WriteFails, Pi!End, Pi!Caller, Pi!Wake,
     Pi!ShutDown, Pi!Join
<1>n. \A s \in Pi!Sides : pi_have[s] \in Nat /\ pi_inbox[s] \in Nat
  BY <1>i DEF PiTypes
<1>1. PiBounds'
  BY <1>i, <1>u DEF PiBounds
<1>q. ASSUME PiTypes', PiControl', PiEnds', \A s \in Pi!Sides : pi_peer[s] = "gone" <=> pi_peer'[s] = "gone"
      PROVE  PiInner'
  <2>1. \A s \in Pi!Sides : PiCounted(s)'
    BY <1>i, <1>u, <1>q, Zenon DEF PiCounted
  <2> QED BY <1>1, <1>q, <2>1 DEF PiInner
<1>2. ASSUME NEW s \in Pi!Sides, Pi!FinishSending(s) PROVE PiInner'
  <2>1. PiTypes' /\ PiControl' /\ \A r \in Pi!Sides : pi_peer[r] = "gone" <=> pi_peer'[r] = "gone"
    BY <1>i, <1>2 DEF Pi!FinishSending, PiTypes, PiControl
  <2>2. PiEnds'
    BY <1>i, <1>2 DEF Pi!FinishSending, PiTypes, PiEnds
  <2> QED BY <1>q, <2>1, <2>2
<1>3. ASSUME NEW s \in Pi!Sides, Pi!ReadEnds(s) PROVE PiInner'
  <2>1. pi_first = Pi!NoneYet => pi_have[s] = 0 /\ pi_inbox[s] = 0 /\ pi_peer[s] # "open"
    BY <1>i, <1>3 DEF Pi!ReadEnds, Pi!AtEnd, PiTypes, PiEnds
  <2>2. /\ pi_pc' = [pi_pc EXCEPT ![s] = "ended"]
        /\ pi_first' = IF pi_first = Pi!NoneYet THEN <<s, "end of stream">> ELSE pi_first
        /\ UNCHANGED <<pi_peer, pi_inbox, pi_have, pi_shut, pi_caller>>
    BY <1>3 DEF Pi!ReadEnds, Pi!End
  <2>3. PiTypes' /\ PiControl' /\ \A r \in Pi!Sides : pi_peer[r] = "gone" <=> pi_peer'[r] = "gone"
    BY <1>i, <1>u, <2>2 DEF PiTypes, PiControl
  <2>4. pi_first' # Pi!NoneYet
    BY <2>2 DEF Pi!NoneYet
  <2>5. PiEnds'
    BY <1>i, <2>1, <2>2, <2>4 DEF PiTypes, PiEnds
  <2> QED BY <1>q, <2>3, <2>5
<1>4. ASSUME NEW s \in Pi!Sides, Pi!WriteFails(s) PROVE PiInner'
  <2>2. /\ pi_pc' = [pi_pc EXCEPT ![s] = "ended"]
        /\ pi_first' = IF pi_first = Pi!NoneYet THEN <<s, "failed write">> ELSE pi_first
        /\ UNCHANGED <<pi_peer, pi_inbox, pi_have, pi_shut, pi_caller>>
    BY <1>4 DEF Pi!WriteFails, Pi!End
  <2>3. PiTypes' /\ PiControl' /\ \A r \in Pi!Sides : pi_peer[r] = "gone" <=> pi_peer'[r] = "gone"
    BY <1>i, <1>u, <2>2 DEF PiTypes, PiControl
  <2>4. pi_first' # Pi!NoneYet /\ \A r : pi_first' = <<r, "end of stream">> => pi_first' = pi_first
    BY <2>2 DEF Pi!NoneYet
  <2>5. PiEnds'
    BY <1>i, <2>2, <2>4 DEF PiTypes, PiEnds
  <2> QED BY <1>q, <2>3, <2>5
<1>5. ASSUME Pi!Caller PROVE PiInner'
  <2>1. UNCHANGED <<pi_peer, pi_pc, pi_first>>
    BY <1>5 DEF Pi!Caller, Pi!Wake, Pi!ShutDown, Pi!Join
  <2>2. PiTypes'
    BY <1>i, <1>u, <2>1 DEF PiTypes
  <2>3. PiControl'
    BY <1>i, <1>5, <2>1 DEF Pi!Caller, Pi!Wake, Pi!ShutDown, Pi!Join, PiControl, Pi!ToShut
  <2>4. pi_first' = Pi!NoneYet => pi_caller' = "waiting"
    BY <1>i, <1>5, <2>1 DEF Pi!Caller, Pi!Wake, Pi!ShutDown, Pi!Join, PiEnds
  <2>5. pi_caller' = "waiting" => pi_shut' = {}
    BY <1>i, <1>5 DEF Pi!Caller, Pi!Wake, Pi!ShutDown, Pi!Join, PiEnds
  <2>6. PiEnds'
    BY <1>i, <1>u, <2>1, <2>4, <2>5 DEF PiEnds
  <2> QED BY <1>q, <2>1, <2>2, <2>3, <2>6
<1> QED BY <1>2, <1>3, <1>4, <1>5

LEMMA PiStep == PiIInv /\ [Pi!Next]_(Pi!vars) => PiIInv'
<1> SUFFICES ASSUME PiInner, [Pi!Next]_(Pi!vars) PROVE PiInner'
  BY PiUnfold, PTL
<1>1. CASE Pi!Next
  BY <1>1, PiMoves, PiRest, Zenon DEF Pi!Next, Pi!Thread
<1>2. CASE UNCHANGED Pi!vars
  BY <1>2 DEF Pi!vars, PiInner, PiTypes, PiBounds, PiControl, PiCounted, PiEnds
<1> QED BY <1>1, <1>2

LEMMA PiHolds == Spec => []PiIInv
<1>1. Init => PiIInv
  BY PiInit DEF Init
<1>2. PiIInv /\ [Next]_vars => PiIInv'
  <2>1. [Next]_vars => [Pi!Next]_(Pi!vars)
    BY Zenon DEF Next, vars, pi, Pi!vars
  <2> QED BY <2>1, PiStep
<1> QED BY <1>1, <1>2, PTL DEF Spec

-----------------------------------------------------------------------------
(* The encrypted connection.  What decrypting undoes, and what two bytes say of *)
(* a length.                                                                    *)

LEMMA EcLimits == {MaxWrites} \subseteq Nat /\ {Chunk} \subseteq Nat \ {0}
BY BoundsAreCounts

LEMMA EcBytes ==
  \A a, b \in Ec!Byte : /\ a \in Nat /\ a < ByteValues
                     /\ Ec!Add(a, b) \in Ec!Byte /\ Ec!Sub(a, b) \in Ec!Byte /\ Ec!Sub(Ec!Add(a, b), b) = a
BY CodeIsBytes DEF Ec!Byte, Ec!Add, Ec!Sub

LEMMA EcRemainder ==
  ASSUME NEW n \in Nat, NEW d \in Nat \ {0}
  PROVE  n % d \in 0 .. d - 1 /\ n \div d \in Nat /\ n = d * (n \div d) + (n % d)
OBVIOUS

LEMMA EcCode == ASSUME NEW i \in Nat \ {0} PROVE Ec!CodeAt(i) \in Ec!Byte /\ i % ByteValues \in Ec!Byte
<1>1. Len(Code) \in Nat \ {0} /\ i - 1 \in Nat
  BY CodeIsBytes, LenProperties
<1>2. (i - 1) % Len(Code) \in 0 .. Len(Code) - 1
  BY <1>1, EcRemainder
<1>3. ((i - 1) % Len(Code)) + 1 \in 1 .. Len(Code)
  BY <1>1, <1>2
<1>4. Ec!CodeAt(i) \in Ec!Byte
  BY <1>3, CodeIsBytes, ElementOfSeq DEF Ec!CodeAt, Ec!Byte
<1>5. i % ByteValues \in Ec!Byte
  BY CodeIsBytes, EcRemainder DEF Ec!Byte
<1> QED BY <1>4, <1>5

LEMMA EcCrypt ==
  ASSUME NEW b \in Ec!Byte, NEW k \in Ec!Byte, NEW i \in Nat \ {0}
  PROVE  /\ Ec!Encrypted(b, i, k) \in Ec!Byte /\ Ec!Decrypted(b, i, k) \in Ec!Byte
         /\ Ec!Decrypted(Ec!Encrypted(b, i, k), i, k) = b
<1> DEFINE c == Ec!CodeAt(i)
           p == i % ByteValues
<1>1. c \in Ec!Byte /\ p \in Ec!Byte
  BY EcCode
<1> HIDE DEF c, p
<1>2. Ec!Add(b, c) \in Ec!Byte /\ Ec!Add(Ec!Add(b, c), p) \in Ec!Byte /\ Ec!Add(Ec!Add(Ec!Add(b, c), p), k) \in Ec!Byte
  BY <1>1, EcBytes
<1>3. Ec!Sub(b, c) \in Ec!Byte /\ Ec!Sub(Ec!Sub(b, c), p) \in Ec!Byte /\ Ec!Sub(Ec!Sub(Ec!Sub(b, c), p), k) \in Ec!Byte
  BY <1>1, EcBytes
<1>4. \A x, y, z \in Ec!Byte : Ec!Sub(Ec!Add(x, y), z) = Ec!Add(Ec!Sub(x, z), y)
  BY CodeIsBytes DEF Ec!Byte, Ec!Add, Ec!Sub
<1>5. \A x, y \in Ec!Byte : Ec!Sub(Ec!Add(x, y), y) = x /\ Ec!Add(x, y) \in Ec!Byte
  BY EcBytes
<1>6. Ec!Sub(Ec!Add(Ec!Add(Ec!Add(b, c), p), k), c) = Ec!Add(Ec!Add(b, p), k)
  BY <1>1, <1>2, <1>4, <1>5, EcBytes
<1>7. Ec!Sub(Ec!Sub(Ec!Add(Ec!Add(Ec!Add(b, c), p), k), c), p) = Ec!Add(b, k)
  BY <1>1, <1>4, <1>5, <1>6
<1>8. Ec!Sub(Ec!Sub(Ec!Sub(Ec!Add(Ec!Add(Ec!Add(b, c), p), k), c), p), k) = b
  BY <1>5, <1>7
<1>9. /\ Ec!Encrypted(b, i, k) = Ec!Add(Ec!Add(Ec!Add(b, c), p), k)
      /\ Ec!Decrypted(b, i, k) = Ec!Sub(Ec!Sub(Ec!Sub(b, c), p), k)
      /\ Ec!Decrypted(Ec!Encrypted(b, i, k), i, k) = Ec!Sub(Ec!Sub(Ec!Sub(Ec!Add(Ec!Add(Ec!Add(b, c), p), k), c), p), k)
  BY DEF Ec!Encrypted, Ec!Decrypted, c, p
<1> QED BY <1>2, <1>3, <1>8, <1>9

LEMMA EcLength ==
  ASSUME NEW n \in Nat
  PROVE  /\ (n \div ByteValues) % ByteValues \in Ec!Byte /\ n % ByteValues \in Ec!Byte
         /\ n <= Ec!MaxLength => Ec!LengthOf((n \div ByteValues) % ByteValues, n % ByteValues) = n
<1> DEFINE q == n \div ByteValues
           r == n % ByteValues
<1>1. ByteValues \in Nat \ {0} /\ q \in Nat /\ r \in 0 .. ByteValues - 1 /\ n = ByteValues * q + r
  BY CodeIsBytes, EcRemainder
<1>2. q % ByteValues \in 0 .. ByteValues - 1
  BY <1>1, EcRemainder
<1> SUFFICES ASSUME n <= Ec!MaxLength PROVE Ec!LengthOf(q % ByteValues, r) = n
  BY <1>1, <1>2 DEF Ec!Byte
<1> HIDE DEF q, r
<1>3. q < ByteValues
  <2>1. ASSUME q >= ByteValues PROVE FALSE
    <3>1. ByteValues * q >= ByteValues * ByteValues
      BY <1>1, <2>1
    <3>2. n >= ByteValues * ByteValues
      BY <1>1, <3>1
    <3> QED BY <1>1, <3>2 DEF Ec!MaxLength
  <2> QED BY <1>1, <2>1
<1>4. q % ByteValues = q
  <2>1. q \div ByteValues \in Nat /\ q = ByteValues * (q \div ByteValues) + (q % ByteValues) /\ q % ByteValues \in 0 .. ByteValues - 1
    BY <1>1, EcRemainder
  <2>2. ASSUME q \div ByteValues >= 1 PROVE FALSE
    <3>1. ByteValues * (q \div ByteValues) >= ByteValues
      BY <1>1, <2>1, <2>2
    <3> QED BY <1>1, <1>3, <2>1, <3>1
  <2>3. q \div ByteValues = 0
    BY <2>1, <2>2
  <2> QED BY <1>1, <2>1, <2>3
<1> QED BY <1>1, <1>4 DEF Ec!LengthOf

LEMMA EcLengthOf == ASSUME NEW a \in Ec!Byte, NEW b \in Ec!Byte PROVE Ec!LengthOf(a, b) \in Nat
<1>1. a \in Nat /\ b \in Nat /\ ByteValues \in Nat
  BY CodeIsBytes DEF Ec!Byte
<1> QED BY <1>1 DEF Ec!LengthOf
-----------------------------------------------------------------------------
\* What is taken off the front of a sequence, and what is left.
LEMMA EcSplit ==
  ASSUME NEW S, NEW s \in Seq(S), NEW n \in 0 .. Len(s)
  PROVE  /\ SubSeq(s, 1, n) \in Seq(S) /\ SubSeq(s, n + 1, Len(s)) \in Seq(S)
         /\ Len(SubSeq(s, 1, n)) = n /\ Len(SubSeq(s, n + 1, Len(s))) = Len(s) - n
         /\ SubSeq(s, 1, n) \o SubSeq(s, n + 1, Len(s)) = s
<1>1. Len(s) \in Nat /\ \A i \in 1 .. Len(s) : s[i] \in S
  BY LenProperties, ElementOfSeq
<1>2. SubSeq(s, 1, n) \in Seq(S) /\ Len(SubSeq(s, 1, n)) = n
  BY <1>1, SubSeqProperties
<1>3. SubSeq(s, n + 1, Len(s)) \in Seq(S) /\ Len(SubSeq(s, n + 1, Len(s))) = Len(s) - n
  BY <1>1, SubSeqProperties
<1>4. SubSeq(s, 1, n) \o SubSeq(s, n + 1, Len(s)) = SubSeq(s, 1, Len(s))
  <2>1. 1 \in 1 .. Len(s) + 1 /\ n \in 1 - 1 .. Len(s) /\ Len(s) \in n .. Len(s)
    BY <1>1
  <2> QED BY <2>1, ConcatAdjacentSubSeq
<1>5. SubSeq(s, 1, Len(s)) = s
  BY SubSeqFull
<1> QED BY <1>2, <1>3, <1>4, <1>5

EcRegrouped(s, t, u) == (s \o t) \o u = s \o (t \o u)

LEMMA EcAssociative ==
  ASSUME NEW S, NEW s \in Seq(S), NEW t \in Seq(S), NEW u \in Seq(S)
  PROVE  EcRegrouped(s, t, u)
BY ConcatAssociative DEF EcRegrouped

LEMMA EcPrefix ==
  ASSUME NEW S, NEW a \in Seq(S), NEW b \in Seq(S), NEW c \in Seq(S), NEW d \in Seq(S),
         Len(a) >= Len(c)
  PROVE  a \o b = c \o d =>
           SubSeq(a, 1, Len(c)) = c /\ SubSeq(a, Len(c) + 1, Len(a)) \o b = d
<1> DEFINE n == Len(c)
           x == SubSeq(a, 1, n)
           y == SubSeq(a, n + 1, Len(a))
<1>1. Len(a) \in Nat /\ n \in Nat /\ n \in 0 .. Len(a) /\ Len(b) \in Nat /\ Len(d) \in Nat
  BY LenProperties
<1>2. x \in Seq(S) /\ y \in Seq(S) /\ Len(x) = n
  BY <1>1, EcSplit
<1>3. x \o y = a
  BY <1>1, EcSplit
<1> HIDE DEF x, y
<1>4. y \o b \in Seq(S)
  BY <1>2, ConcatProperties
<1>5. (x \o y) \o b = x \o (y \o b)
  <2>r. EcRegrouped(x, y, b)
    BY <1>2, EcAssociative
  <2> QED BY <2>r DEF EcRegrouped
<1>a. (x \o y) \o b = x \o (y \o b) /\ y \o b \in Seq(S)
  BY <1>4, <1>5
<1>x. \A i \in 1 .. n : (x \o (y \o b))[i] = x[i]
  BY <1>1, <1>2, <1>a, ConcatProperties
<1>c. \A i \in 1 .. n : (c \o d)[i] = c[i]
  BY <1>1, ConcatProperties
<1>h. ASSUME a \o b = c \o d PROVE x = c /\ y \o b = d
  <2>1. x \o (y \o b) = c \o d
    BY <1>h, <1>3, <1>5
  <2>2. \A i \in 1 .. n : x[i] = c[i]
    BY <1>x, <1>c, <2>1
  <2>3. x = c
    BY <1>2, <2>2, SeqEqual
  <2>4. \A s, t, v \in Seq(S) : s \o t = s \o v => t = v
    BY ConcatSimplifications
  <2> QED BY <1>a, <2>1, <2>3, <2>4
<1> QED BY <1>h DEF x, y

LEMMA EcConcat ==
  ASSUME NEW S, NEW a \in Seq(S), NEW b \in Seq(S)
  PROVE  /\ a \o b \in Seq(S) /\ Len(a \o b) = Len(a) + Len(b)
         /\ \A i \in 1 .. Len(a) : (a \o b)[i] = a[i]
         /\ \A i \in 1 .. Len(b) : (a \o b)[Len(a) + i] = b[i]
<1>0. Len(a) \in Nat /\ Len(b) \in Nat
  BY LenProperties
<1>1. a \o b \in Seq(S) /\ Len(a \o b) = Len(a) + Len(b)
  BY ConcatProperties
<1>2. \A i \in 1 .. Len(a) : (a \o b)[i] = a[i]
  BY <1>0, ConcatProperties
<1>3. \A i \in 1 .. Len(b) : (a \o b)[Len(a) + i] = b[i]
  BY <1>0, ConcatProperties
<1> QED BY <1>1, <1>2, <1>3

EcJoin(S, a, b) ==
  /\ a \o b \in Seq(S) /\ Len(a \o b) = Len(a) + Len(b)
  /\ \A i \in 1 .. Len(a) : (a \o b)[i] = a[i]
  /\ \A i \in 1 .. Len(b) : (a \o b)[Len(a) + i] = b[i]

LEMMA EcJoins == ASSUME NEW S PROVE \A a, b \in Seq(S) : EcJoin(S, a, b)
BY EcConcat DEF EcJoin

LEMMA EcIsSeq ==
  ASSUME NEW S, NEW n \in Nat, NEW f \in [1 .. n -> S]
  PROVE  f \in Seq(S) /\ Len(f) = n
<1>1. f \in Seq(S)
  BY SeqDef
<1> QED BY <1>1, LenProperties

-----------------------------------------------------------------------------
(* A frame says its length, and its body decrypts to its data. *)

EcFramed == {"txdef", "txdee"}
EcHeads(m) == [1 .. Ec!HeadLen(m) -> Ec!Byte]
EcTail(m) == [i \in 1 .. Ec!TailLen(m) |-> 0]

LEMMA EcPlaces ==
  ASSUME NEW m \in EcFramed
  PROVE  Ec!HeadLen(m) \in Nat /\ Ec!TailLen(m) \in Nat /\ Ec!KeyAt(m) \in 1 .. Ec!HeadLen(m)
BY HeadHasKey DEF EcFramed, Ec!HeadLen, Ec!TailLen, Ec!KeyAt

LEMMA EcDataOf ==
  ASSUME NEW m \in EcFramed, NEW body \in Seq(Ec!Byte), Len(body) >= Ec!HeadLen(m) + Ec!TailLen(m)
  PROVE  /\ Ec!DataOf(m, body) \in Seq(Ec!Byte)
         /\ Len(Ec!DataOf(m, body)) = Len(body) - Ec!HeadLen(m) - Ec!TailLen(m)
<1> DEFINE h == Ec!HeadLen(m)
           n == Len(body) - Ec!HeadLen(m) - Ec!TailLen(m)
<1>1. h \in Nat /\ Ec!TailLen(m) \in Nat /\ Ec!KeyAt(m) \in 1 .. h /\ Len(body) \in Nat
  BY EcPlaces, LenProperties
<1>2. n \in Nat /\ Ec!KeyAt(m) \in 1 .. Len(body) /\ \A i \in 1 .. n : h + i \in 1 .. Len(body)
  BY <1>1
<1>3. body[Ec!KeyAt(m)] \in Ec!Byte /\ \A i \in 1 .. n : body[h + i] \in Ec!Byte
  BY <1>2, ElementOfSeq
<1>4. \A i \in 1 .. n : Ec!Decrypted(body[h + i], i, body[Ec!KeyAt(m)]) \in Ec!Byte
  <2> SUFFICES ASSUME NEW i \in 1 .. n PROVE Ec!Decrypted(body[h + i], i, body[Ec!KeyAt(m)]) \in Ec!Byte
    OBVIOUS
  <2> DEFINE x == body[h + i]
             k == body[Ec!KeyAt(m)]
  <2>1. x \in Ec!Byte /\ k \in Ec!Byte /\ i \in Nat \ {0}
    BY <1>2, <1>3
  <2> HIDE DEF x, k
  <2>2. Ec!Decrypted(x, i, k) \in Ec!Byte
    BY <2>1, EcCrypt
  <2> QED BY <2>2 DEF x, k
<1>5. Ec!DataOf(m, body) \in [1 .. n -> Ec!Byte]
  BY <1>4 DEF Ec!DataOf
<1> HIDE DEF n
<1> QED BY <1>2, <1>5, EcIsSeq DEF n

LEMMA EcFrame ==
  ASSUME NEW m \in EcFramed, NEW data \in Seq(Ec!Byte), NEW head \in EcHeads(m)
  PROVE  /\ Ec!Frame(m, data, head, EcTail(m)) \in Seq(Ec!Byte)
         /\ Ec!TotalLen(m, data) \in Nat
         /\ Ec!TotalLen(m, data) = Ec!HeadLen(m) + Ec!TailLen(m) + Len(data)
         /\ Len(Ec!Frame(m, data, head, EcTail(m))) = 2 + Ec!TotalLen(m, data)
         /\ Ec!Frame(m, data, head, EcTail(m))[1] = (Ec!TotalLen(m, data) \div ByteValues) % ByteValues
         /\ Ec!Frame(m, data, head, EcTail(m))[2] = Ec!TotalLen(m, data) % ByteValues
         /\ SubSeq(Ec!Frame(m, data, head, EcTail(m)), 3, 2 + Ec!TotalLen(m, data))
              = Ec!Body(m, data, head, EcTail(m))
         /\ Ec!DataOf(m, Ec!Body(m, data, head, EcTail(m))) = data
<1> DEFINE h == Ec!HeadLen(m)
           l == Ec!TailLen(m)
           n == Len(data)
           t == Ec!TotalLen(m, data)
           k == head[Ec!KeyAt(m)]
           mid == [i \in 1 .. n |-> Ec!Encrypted(data[i], i, k)]
           tail == EcTail(m)
           body == Ec!Body(m, data, head, tail)
           len == Ec!LengthBytes(t)
           f == Ec!Frame(m, data, head, tail)
<1>1. h \in Nat /\ l \in Nat /\ Ec!KeyAt(m) \in 1 .. h /\ n \in Nat /\ t = h + n + l /\ t \in Nat
  BY EcPlaces, LenProperties DEF Ec!TotalLen
<1>2. head \in Seq(Ec!Byte) /\ Len(head) = h /\ k \in Ec!Byte
  BY <1>1, EcIsSeq DEF EcHeads
<1>3. mid \in Seq(Ec!Byte) /\ Len(mid) = n /\ \A i \in 1 .. n : mid[i] = Ec!Encrypted(data[i], i, k)
  <2>1. \A i \in 1 .. n : Ec!Encrypted(data[i], i, k) \in Ec!Byte
    <3> SUFFICES ASSUME NEW i \in 1 .. n PROVE Ec!Encrypted(data[i], i, k) \in Ec!Byte
      OBVIOUS
    <3>1. i \in Nat \ {0} /\ data[i] \in Ec!Byte /\ k \in Ec!Byte
      BY <1>1, <1>2, ElementOfSeq
    <3> QED BY <3>1, EcCrypt
  <2>2. mid \in [1 .. n -> Ec!Byte]
    BY <2>1
  <2>3. \A i \in 1 .. n : mid[i] = Ec!Encrypted(data[i], i, k)
    OBVIOUS
  <2>4. mid \in Seq(Ec!Byte) /\ Len(mid) = n
    <3> HIDE DEF mid, n
    <3> QED BY <1>1, <2>2, EcIsSeq
  <2> QED BY <2>3, <2>4
<1>4. tail \in Seq(Ec!Byte) /\ Len(tail) = l
  <2>1. 0 \in Ec!Byte
    BY CodeIsBytes DEF Ec!Byte
  <2>2. tail \in [1 .. l -> Ec!Byte]
    BY <2>1 DEF EcTail
  <2> HIDE DEF tail, l
  <2> QED BY <1>1, <2>2, EcIsSeq
<1>5. body = (head \o mid) \o tail
  BY DEF Ec!Body
<1>6. /\ head \o mid \in Seq(Ec!Byte) /\ Len(head \o mid) = h + n
      /\ \A i \in 1 .. h : (head \o mid)[i] = head[i]
      /\ \A i \in 1 .. n : (head \o mid)[h + i] = mid[i]
  <2>1. head \in Seq(Ec!Byte) /\ mid \in Seq(Ec!Byte) /\ Len(head) = h /\ Len(mid) = n
    BY <1>2, <1>3
  <2> HIDE DEF mid, h, n
  <2>2. h \in Nat /\ n \in Nat
    BY <1>1 DEF h, n
  <2>3. head \o mid \in Seq(Ec!Byte) /\ Len(head \o mid) = h + n
    BY <2>1, <2>2, ConcatProperties
  <2>4. \A i \in 1 .. h : (head \o mid)[i] = head[i]
    BY <2>1, <2>2, ConcatProperties
  <2>5. \A i \in 1 .. n : (head \o mid)[h + i] = mid[i]
    BY <2>1, <2>2, ConcatProperties
  <2> QED BY <2>3, <2>4, <2>5
<1>7. /\ body \in Seq(Ec!Byte) /\ Len(body) = t
      /\ \A i \in 1 .. h + n : body[i] = (head \o mid)[i]
  <2> DEFINE hm == head \o mid
  <2>1. hm \in Seq(Ec!Byte) /\ Len(hm) = h + n /\ body = hm \o tail
    BY <1>5, <1>6
  <2> HIDE DEF hm, tail, body, t, h, l, n, mid
  <2>2. /\ hm \o tail \in Seq(Ec!Byte) /\ Len(hm \o tail) = Len(hm) + Len(tail)
        /\ \A i \in 1 .. Len(hm) : (hm \o tail)[i] = hm[i]
    <3>1. EcJoin(Ec!Byte, hm, tail)
      BY <1>4, <2>1, EcJoins
    <3> QED BY <3>1, Zenon DEF EcJoin
  <2>4. body \in Seq(Ec!Byte) /\ Len(body) = t
    BY <1>1, <1>4, <2>1, <2>2
  <2>5. \A i \in 1 .. h + n : body[i] = hm[i]
    BY <2>1, <2>2
  <2> QED BY <2>4, <2>5 DEF hm
<1>8. Ec!DataOf(m, body) = data
  <2>1. body[Ec!KeyAt(m)] = k
    <3> DEFINE j == Ec!KeyAt(m)
    <3>1. j \in 1 .. h /\ j \in 1 .. h + n
      BY <1>1
    <3> HIDE DEF j, body, h, n, mid
    <3>2. body[j] = (head \o mid)[j] /\ (head \o mid)[j] = head[j]
      BY <1>6, <1>7, <3>1
    <3> QED BY <3>2 DEF j
  <2>2. \A i \in 1 .. n : body[h + i] = Ec!Encrypted(data[i], i, k)
    <3> SUFFICES ASSUME NEW i \in 1 .. n PROVE body[h + i] = mid[i]
      BY <1>3
    <3>1. h + i \in 1 .. h + n
      BY <1>1
    <3> QED BY <1>6, <1>7, <3>1
  <2>3. /\ Ec!DataOf(m, body) = [i \in 1 .. Len(body) - h - l |-> Ec!Decrypted(body[h + i], i, body[Ec!KeyAt(m)])]
    BY DEF Ec!DataOf
  <2>4. Len(body) - h - l = n
    BY <1>1, <1>7
  <2>5. \A i \in 1 .. n : Ec!Decrypted(body[h + i], i, body[Ec!KeyAt(m)]) = data[i]
    <3> SUFFICES ASSUME NEW i \in 1 .. n PROVE Ec!Decrypted(body[h + i], i, body[Ec!KeyAt(m)]) = data[i]
      OBVIOUS
    <3> DEFINE x == data[i]
    <3>1. x \in Ec!Byte /\ i \in Nat \ {0}
      BY <1>1, ElementOfSeq
    <3>2. body[h + i] = Ec!Encrypted(x, i, k) /\ body[Ec!KeyAt(m)] = k
      BY <2>1, <2>2
    <3> HIDE DEF x, k
    <3>3. Ec!Decrypted(Ec!Encrypted(x, i, k), i, k) = x
      BY <1>2, <3>1, EcCrypt
    <3> HIDE DEF body, h, n
    <3> QED BY <3>2, <3>3 DEF x
  <2>6. Ec!DataOf(m, body) = [i \in 1 .. n |-> data[i]]
    <3> HIDE DEF body, h, l, n
    <3> QED BY <2>3, <2>4, <2>5
  <2>7. data = [i \in 1 .. n |-> data[i]]
    BY LenProperties
  <2> QED BY <2>6, <2>7
<1>9. len \in Seq(Ec!Byte) /\ Len(len) = 2 /\ len[1] = (t \div ByteValues) % ByteValues /\ len[2] = t % ByteValues
  <2> DEFINE a == (t \div ByteValues) % ByteValues
             b == t % ByteValues
  <2>1. a \in Ec!Byte /\ b \in Ec!Byte /\ len = <<a, b>>
    BY <1>1, EcLength DEF Ec!LengthBytes
  <2> HIDE DEF a, b, len, t
  <2>2. <<a, b>> \in Seq(Ec!Byte)
    BY <2>1
  <2> QED BY <2>1, <2>2 DEF a, b
<1>10. f = len \o body
  BY DEF Ec!Frame
<1>11. f \in Seq(Ec!Byte) /\ Len(f) = 2 + t /\ f[1] = len[1] /\ f[2] = len[2]
  <2> HIDE DEF f, len, body, t
  <2>1. /\ len \o body \in Seq(Ec!Byte) /\ Len(len \o body) = Len(len) + Len(body)
        /\ \A i \in 1 .. Len(len) : (len \o body)[i] = len[i]
    <3>1. EcJoin(Ec!Byte, len, body)
      BY <1>7, <1>9, EcJoins
    <3> QED BY <3>1, Zenon DEF EcJoin
  <2> QED BY <1>1, <1>7, <1>9, <1>10, <2>1
<1>12. SubSeq(f, 3, 2 + t) = body
  <2> HIDE DEF f, len, body, t
  <2>1. 2 \in 0 .. Len(f)
    BY <1>1, <1>11
  <2>2. Len(f) >= Len(len) /\ <<>> \in Seq(Ec!Byte)
    BY <1>1, <1>9, <1>11
  <2>3. f \o <<>> = f /\ len \o body = f
    BY <1>10, <1>11, ConcatEmptySeq
  <2>4. f \o <<>> = len \o body => SubSeq(f, Len(len) + 1, Len(f)) \o <<>> = body
    BY <1>7, <1>9, <1>11, <2>2, EcPrefix
  <2>5. SubSeq(f, 3, 2 + t) \o <<>> = body
    BY <1>9, <1>11, <2>3, <2>4
  <2>6. SubSeq(f, 3, Len(f)) \in Seq(Ec!Byte)
    BY <1>11, <2>1, EcSplit
  <2> QED BY <1>11, <2>5, <2>6, ConcatEmptySeq
<1>13. t = h + l + n
  BY <1>1
<1>14. f[1] = (t \div ByteValues) % ByteValues /\ f[2] = t % ByteValues
  BY <1>9, <1>11
<1> HIDE DEF f, t, body, tail
<1> QED BY <1>1, <1>8, <1>11, <1>12, <1>13, <1>14 DEF f, t, body, tail

-----------------------------------------------------------------------------
(* Streams of frames: the pairs of bytes and data that frames can make up, the *)
(* least set that holds the empty pair and grows by a frame at the end.        *)

EcPairs == Seq(Ec!Byte) \X Seq(Ec!Byte)
EcFits(m, e, c) == Ec!TotalLen(m, c) <= Ec!MaxLength /\ (c = <<>> => e)
EcClosed(m, e, R) ==
  /\ <<<<>>, <<>>>> \in R
  /\ \A p \in R : \A c \in Seq(Ec!Byte) : \A head \in EcHeads(m) :
       EcFits(m, e, c) => <<p[1] \o Ec!Frame(m, c, head, EcTail(m)), p[2] \o c>> \in R
EcStreams(m, e) == {p \in EcPairs : \A R \in SUBSET EcPairs : EcClosed(m, e, R) => p \in R}

LEMMA EcRegroup == \A a, b, c \in Seq(Ec!Byte) : EcRegrouped(a, b, c)
BY EcAssociative

LEMMA EcNothing == <<<<>>, <<>>>> \in EcPairs
<1>1. <<>> \in Seq(Ec!Byte)
  OBVIOUS
<1> QED BY <1>1 DEF EcPairs

LEMMA EcGrows ==
  ASSUME NEW m \in EcFramed, NEW e \in BOOLEAN
  PROVE  EcClosed(m, e, EcStreams(m, e))
<1>1. <<<<>>, <<>>>> \in EcStreams(m, e)
  <2>1. <<<<>>, <<>>>> \in EcPairs
    BY EcNothing
  <2>2. \A R \in SUBSET EcPairs : EcClosed(m, e, R) => <<<<>>, <<>>>> \in R
    BY DEF EcClosed
  <2> QED BY <2>1, <2>2 DEF EcStreams
<1>2. ASSUME NEW p \in EcStreams(m, e), NEW c \in Seq(Ec!Byte), NEW head \in EcHeads(m), EcFits(m, e, c)
      PROVE  <<p[1] \o Ec!Frame(m, c, head, EcTail(m)), p[2] \o c>> \in EcStreams(m, e)
  <2> DEFINE f == Ec!Frame(m, c, head, EcTail(m))
             q == <<p[1] \o f, p[2] \o c>>
  <2>1. f \in Seq(Ec!Byte)
    BY EcFrame
  <2>2. p \in EcPairs /\ p[1] \in Seq(Ec!Byte) /\ p[2] \in Seq(Ec!Byte)
    BY DEF EcStreams, EcPairs
  <2> HIDE DEF f
  <2>3. p[1] \o f \in Seq(Ec!Byte) /\ p[2] \o c \in Seq(Ec!Byte)
    BY <2>1, <2>2, ConcatProperties
  <2>4. q \in EcPairs
    BY <2>3 DEF EcPairs
  <2>5. ASSUME NEW R \in SUBSET EcPairs, EcClosed(m, e, R) PROVE q \in R
    <3>1. p \in R
      BY <2>5 DEF EcStreams
    <3> QED BY <1>2, <2>5, <3>1 DEF EcClosed, f
  <2> HIDE DEF q
  <2> QED BY <2>4, <2>5 DEF EcStreams, q, f
<1> QED BY <1>1, <1>2 DEF EcClosed

LEMMA EcGrowsMore ==
  ASSUME NEW m, NEW e \in BOOLEAN, NEW e2 \in BOOLEAN, e => e2
  PROVE  EcStreams(m, e) \subseteq EcStreams(m, e2)
<1>1. \A R \in SUBSET EcPairs : EcClosed(m, e2, R) => EcClosed(m, e, R)
  BY DEF EcClosed, EcFits
<1> QED BY <1>1 DEF EcStreams

\* What is not empty begins with a frame.
EcBegins(m, e, p) ==
  \E c \in Seq(Ec!Byte) : \E head \in EcHeads(m) : \E q \in EcStreams(m, e) :
    /\ EcFits(m, e, c)
    /\ p[1] = Ec!Frame(m, c, head, EcTail(m)) \o q[1]
    /\ p[2] = c \o q[2]

LEMMA EcFront ==
  ASSUME NEW m \in EcFramed, NEW e \in BOOLEAN, NEW p \in EcStreams(m, e)
  PROVE  p = <<<<>>, <<>>>> \/ EcBegins(m, e, p)
<1> DEFINE none == <<<<>>, <<>>>>
           R == {x \in EcPairs : x = none \/ EcBegins(m, e, x)}
<1>0. none \in EcStreams(m, e)
  BY EcGrows DEF EcClosed
<1>1. none \in R
  BY EcNothing
<1>2. ASSUME NEW x \in R, NEW c \in Seq(Ec!Byte), NEW head \in EcHeads(m), EcFits(m, e, c)
      PROVE  <<x[1] \o Ec!Frame(m, c, head, EcTail(m)), x[2] \o c>> \in R
  <2> DEFINE f == Ec!Frame(m, c, head, EcTail(m))
             y == <<x[1] \o f, x[2] \o c>>
  <2>1. f \in Seq(Ec!Byte) /\ x[1] \in Seq(Ec!Byte) /\ x[2] \in Seq(Ec!Byte)
    BY EcFrame DEF EcPairs
  <2>2. y \in EcPairs
    <3> HIDE DEF f, R
    <3>1. x[1] \o f \in Seq(Ec!Byte) /\ x[2] \o c \in Seq(Ec!Byte)
      BY <2>1, ConcatProperties
    <3> QED BY <3>1 DEF EcPairs
  <2>3. EcBegins(m, e, y)
    <3>1. CASE x = none
      <4>1. x[1] = <<>> /\ x[2] = <<>>
        BY <3>1
      <4> HIDE DEF f, R, y
      <4>2. /\ x[1] \o f = f /\ x[2] \o c = c
        BY <2>1, <4>1, ConcatEmptySeq
      <4>3. f \o <<>> = f /\ c \o <<>> = c
        BY <2>1, ConcatEmptySeq
      <4>4. none[1] = <<>> /\ none[2] = <<>>
        OBVIOUS
      <4>5. y[1] = f \o none[1] /\ y[2] = c \o none[2]
        BY <4>2, <4>3, <4>4 DEF y
      <4> HIDE DEF none
      <4> QED BY <1>0, <1>2, <4>5 DEF EcBegins, f
    <3>2. CASE EcBegins(m, e, x)
      <4>1. PICK c1 \in Seq(Ec!Byte), head1 \in EcHeads(m), q \in EcStreams(m, e) :
              /\ EcFits(m, e, c1)
              /\ x[1] = Ec!Frame(m, c1, head1, EcTail(m)) \o q[1]
              /\ x[2] = c1 \o q[2]
        BY <3>2 DEF EcBegins
      <4> DEFINE f1 == Ec!Frame(m, c1, head1, EcTail(m))
                 z == <<q[1] \o f, q[2] \o c>>
      <4>2. f1 \in Seq(Ec!Byte) /\ q[1] \in Seq(Ec!Byte) /\ q[2] \in Seq(Ec!Byte)
        BY EcFrame DEF EcStreams, EcPairs
      <4>3. z \in EcStreams(m, e)
        BY <1>2, EcGrows DEF EcClosed
      <4>4. x[1] = f1 \o q[1]
        BY <4>1
      <4> HIDE DEF f, f1, R
      <4> DEFINE u == q[1]
                 v == q[2]
      <4>a. f \in Seq(Ec!Byte) /\ f1 \in Seq(Ec!Byte) /\ u \in Seq(Ec!Byte) /\ v \in Seq(Ec!Byte)
        BY <2>1, <4>2
      <4> HIDE DEF u, v
      <4>5. (f1 \o u) \o f = f1 \o (u \o f)
        <5>r. EcRegrouped(f1, u, f)
          BY <4>a, EcRegroup
        <5> QED BY <5>r DEF EcRegrouped
      <4>6. (c1 \o v) \o c = c1 \o (v \o c)
        <5>r. EcRegrouped(c1, v, c)
          BY <4>a, EcRegroup
        <5> QED BY <5>r DEF EcRegrouped
      <4>7. y[1] = f1 \o z[1]
        BY <4>4, <4>5 DEF u
      <4>8. y[2] = c1 \o z[2]
        BY <4>1, <4>6 DEF v
      <4> HIDE DEF y, z
      <4> QED BY <4>1, <4>3, <4>7, <4>8 DEF EcBegins, f1
    <3> QED BY <3>1, <3>2
  <2> HIDE DEF y
  <2> QED BY <2>2, <2>3 DEF y, f
<1>3. R \in SUBSET EcPairs
  OBVIOUS
<1>4. EcClosed(m, e, R)
  <2> HIDE DEF R
  <2> QED BY <1>1, <1>2 DEF EcClosed
<1>5. p \in R
  <2> HIDE DEF R
  <2> QED BY <1>3, <1>4 DEF EcStreams
<1> QED BY <1>5


\* A frame written joins what is on its way.
LEMMA EcWritten ==
  ASSUME NEW m \in EcFramed, NEW e \in BOOLEAN, NEW e2 \in BOOLEAN, e => e2,
         NEW w \in Seq(Ec!Byte), NEW f \in Seq(Ec!Byte), NEW d \in Seq(Ec!Byte),
         <<w \o f, d>> \in EcStreams(m, e),
         NEW c \in Seq(Ec!Byte), NEW head \in EcHeads(m), EcFits(m, e2, c)
  PROVE  <<w \o (f \o Ec!Frame(m, c, head, EcTail(m))), d \o c>> \in EcStreams(m, e2)
<1> DEFINE g == Ec!Frame(m, c, head, EcTail(m))
           p == <<w \o f, d>>
<1>1. p \in EcStreams(m, e2)
  BY EcGrowsMore
<1>2. <<p[1] \o g, p[2] \o c>> \in EcStreams(m, e2)
  BY <1>1, EcGrows DEF EcClosed
<1>3. g \in Seq(Ec!Byte)
  BY EcFrame
<1> HIDE DEF g
<1>4. (w \o f) \o g = w \o (f \o g)
  <2>r. EcRegrouped(w, f, g)
    BY <1>3, EcRegroup
  <2> QED BY <2>r DEF EcRegrouped
<1> QED BY <1>2, <1>4 DEF g

\* Once its length is there, a frame is read as it was written, or is not all there yet.
EcReadable(m, e, w, f, d) ==
  \E t \in Nat : \E c \in Seq(Ec!Byte) : \E r \in Seq(Ec!Byte) :
    /\ t = Ec!LengthOf(w[1], w[2]) /\ t >= Ec!HeadLen(m) + Ec!TailLen(m)
    /\ 2 + t <= Len(w \o f)
    /\ Len(w) >= 2 + t =>
         /\ Ec!DataOf(m, SubSeq(w, 3, 2 + t)) = c
         /\ c = <<>> => e
         /\ d = c \o r
         /\ <<SubSeq(w, 3 + t, Len(w)) \o f, r>> \in EcStreams(m, e)

LEMMA EcArrived ==
  ASSUME NEW m \in EcFramed, NEW e \in BOOLEAN,
         NEW w \in Seq(Ec!Byte), NEW f \in Seq(Ec!Byte), NEW d \in Seq(Ec!Byte),
         <<w \o f, d>> \in EcStreams(m, e), Len(w) >= 2
  PROVE  EcReadable(m, e, w, f, d)
<1> DEFINE p == <<w \o f, d>>
<1>1. w \o f \in Seq(Ec!Byte) /\ Len(w) \in Nat /\ Len(f) \in Nat /\ Len(w \o f) = Len(w) + Len(f)
  BY ConcatProperties, LenProperties
<1>2. p # <<<<>>, <<>>>>
  <2>1. Len(w \o f) # 0
    BY <1>1
  <2>2. w \o f # <<>>
    BY <2>1
  <2> QED BY <2>2
<1>3. PICK c \in Seq(Ec!Byte), head \in EcHeads(m), q \in EcStreams(m, e) :
        /\ EcFits(m, e, c)
        /\ p[1] = Ec!Frame(m, c, head, EcTail(m)) \o q[1]
        /\ p[2] = c \o q[2]
  BY <1>2, EcFront DEF EcBegins
<1> DEFINE g == Ec!Frame(m, c, head, EcTail(m))
           t == Ec!TotalLen(m, c)
           r == q[2]
           s == q[1]
<1>4. /\ g \in Seq(Ec!Byte) /\ t \in Nat /\ t >= Ec!HeadLen(m) + Ec!TailLen(m) /\ Len(g) = 2 + t
      /\ g[1] = (t \div ByteValues) % ByteValues /\ g[2] = t % ByteValues
      /\ Ec!DataOf(m, SubSeq(g, 3, 2 + t)) = c
  <2>1. /\ g \in Seq(Ec!Byte) /\ t \in Nat /\ Len(g) = 2 + t
        /\ g[1] = (t \div ByteValues) % ByteValues /\ g[2] = t % ByteValues
        /\ t = Ec!HeadLen(m) + Ec!TailLen(m) + Len(c)
    BY EcFrame
  <2>2. SubSeq(g, 3, 2 + t) = Ec!Body(m, c, head, EcTail(m)) /\ Ec!DataOf(m, Ec!Body(m, c, head, EcTail(m))) = c
    BY EcFrame
  <2>3. Ec!HeadLen(m) \in Nat /\ Ec!TailLen(m) \in Nat /\ Len(c) \in Nat
    BY EcPlaces, LenProperties
  <2> HIDE DEF g, t
  <2>4. t >= Ec!HeadLen(m) + Ec!TailLen(m)
    BY <2>1, <2>3
  <2> QED BY <2>1, <2>2, <2>4
<1>5. r \in Seq(Ec!Byte) /\ s \in Seq(Ec!Byte)
  BY DEF EcStreams, EcPairs
<1>6. Ec!LengthOf(g[1], g[2]) = t
  <2>1. t <= Ec!MaxLength /\ t \in Nat
    BY <1>3, <1>4 DEF EcFits
  <2> HIDE DEF g, t
  <2> QED BY <1>4, <2>1, EcLength
<1>7. d = c \o r /\ w \o f = g \o s
  BY <1>3
<1>8. (c = <<>> => e) /\ <<s, r>> \in EcStreams(m, e)
  <2>1. q = <<s, r>>
    BY DEF EcStreams, EcPairs
  <2> QED BY <1>3, <2>1 DEF EcFits
<1> HIDE DEF g, t, r, s
<1>9. /\ w[1] = (w \o f)[1] /\ w[2] = (w \o f)[2]
  BY <1>1, ConcatProperties
<1>10. (g \o s)[1] = g[1] /\ (g \o s)[2] = g[2] /\ Len(g \o s) = Len(g) + Len(s) /\ Len(s) \in Nat
  <2>1. g \in Seq(Ec!Byte) /\ Len(g) \in Nat /\ 1 \in 1 .. Len(g) /\ 2 \in 1 .. Len(g) /\ Len(s) \in Nat
    BY <1>4, <1>5, LenProperties
  <2>2. \A i \in 1 .. Len(g) : (g \o s)[i] = g[i]
    BY <1>5, <2>1, ConcatProperties
  <2>3. Len(g \o s) = Len(g) + Len(s)
    BY <1>5, <2>1, ConcatProperties
  <2> QED BY <2>1, <2>2, <2>3
<1>11. t = Ec!LengthOf(w[1], w[2])
  BY <1>6, <1>7, <1>9, <1>10
<1>12. 2 + t <= Len(w \o f)
  <2>1. Len(w \o f) = 2 + t + Len(s)
    BY <1>4, <1>7, <1>10
  <2> QED BY <1>4, <1>10, <2>1
<1>13. ASSUME Len(w) >= 2 + t
       PROVE  /\ Ec!DataOf(m, SubSeq(w, 3, 2 + t)) = c
              /\ <<SubSeq(w, 3 + t, Len(w)) \o f, r>> \in EcStreams(m, e)
  <2>1. Len(w) >= Len(g)
    BY <1>4, <1>13
  <2>2. w \o f = g \o s => SubSeq(w, 1, Len(g)) = g /\ SubSeq(w, Len(g) + 1, Len(w)) \o f = s
    BY <1>4, <1>5, <2>1, EcPrefix
  <2>3. SubSeq(w, 1, 2 + t) = g /\ SubSeq(w, 3 + t, Len(w)) \o f = s
    <3>1. (2 + t) + 1 = 3 + t
      BY <1>4
    <3> QED BY <1>4, <1>7, <2>2, <3>1
  <2>4. SubSeq(SubSeq(w, 1, 2 + t), 3, 2 + t) = SubSeq(w, 3, 2 + t)
    <3>1. \A i \in 1 .. Len(w) : w[i] \in Ec!Byte
      BY ElementOfSeq
    <3>2. 3 + t <= Len(w) + 1
      BY <1>1, <1>4, <1>13
    <3> DEFINE a == SubSeq(w, 1, 2 + t)
               b == SubSeq(a, 3, 2 + t)
               x == SubSeq(w, 3, 2 + t)
    <3>3. a \in Seq(Ec!Byte) /\ Len(a) = 2 + t /\ \A i \in 1 .. 2 + t : a[i] = w[i]
      <4>1. \A i \in 1 .. 2 + t : w[i] \in Ec!Byte
        BY <1>1, <1>4, <1>13, <3>1
      <4> QED BY <1>4, <4>1, SubSeqProperties
    <3> HIDE DEF a
    <3>4. b \in Seq(Ec!Byte) /\ Len(b) = t /\ \A i \in 1 .. t : b[i] = a[i + 2]
      <4>1. \A i \in 3 .. 2 + t : a[i] \in Ec!Byte
        BY <1>1, <1>4, <1>13, <3>1, <3>3
      <4> QED BY <1>4, <4>1, SubSeqProperties
    <3>5. x \in Seq(Ec!Byte) /\ Len(x) = t /\ \A i \in 1 .. t : x[i] = w[i + 2]
      <4>1. \A i \in 3 .. 2 + t : w[i] \in Ec!Byte
        BY <1>1, <1>4, <1>13, <3>1
      <4> QED BY <1>4, <4>1, SubSeqProperties
    <3> HIDE DEF b, x
    <3>6. \A i \in 1 .. t : a[i + 2] = w[i + 2]
      BY <1>4, <3>3
    <3>7. b = x
      BY <1>4, <3>4, <3>5, <3>6, SeqEqual
    <3> QED BY <3>7 DEF a, b, x
  <2>5. Ec!DataOf(m, SubSeq(w, 3, 2 + t)) = c
    BY <1>4, <2>3, <2>4
  <2> QED BY <1>8, <2>3, <2>5
<1> QED BY <1>4, <1>5, <1>7, <1>8, <1>11, <1>12, <1>13 DEF EcReadable


-----------------------------------------------------------------------------
(* Without frames: the place of a byte in the stream is all it takes. *)

LEMMA EcStreamOf ==
  ASSUME NEW d \in Seq(Ec!Byte), NEW n \in Nat
  PROVE  /\ Ec!StreamOf(d, n) \in Seq(Ec!Byte) /\ Len(Ec!StreamOf(d, n)) = Len(d)
         /\ \A i \in 1 .. Len(d) : Ec!StreamOf(d, n)[i] = Ec!Encrypted(d[i], n + i, 0)
<1> DEFINE l == Len(d)
           f == Ec!StreamOf(d, n)
<1>1. l \in Nat /\ \A i \in 1 .. l : d[i] \in Ec!Byte
  BY LenProperties, ElementOfSeq
<1>2. \A i \in 1 .. l : Ec!Encrypted(d[i], n + i, 0) \in Ec!Byte
  <2> SUFFICES ASSUME NEW i \in 1 .. l PROVE Ec!Encrypted(d[i], n + i, 0) \in Ec!Byte
    OBVIOUS
  <2> DEFINE x == d[i]
             j == n + i
  <2>1. x \in Ec!Byte /\ j \in Nat \ {0} /\ 0 \in Ec!Byte
    BY <1>1, CodeIsBytes DEF Ec!Byte
  <2> HIDE DEF x, j
  <2>2. Ec!Encrypted(x, j, 0) \in Ec!Byte
    BY <2>1, EcCrypt
  <2> QED BY <2>2 DEF x, j
<1>3. f \in [1 .. l -> Ec!Byte]
  BY <1>2 DEF Ec!StreamOf
<1>4. \A i \in 1 .. l : f[i] = Ec!Encrypted(d[i], n + i, 0)
  BY DEF Ec!StreamOf
<1> HIDE DEF f, l
<1>5. f \in Seq(Ec!Byte) /\ Len(f) = l
  BY <1>1, <1>3, EcIsSeq
<1> QED BY <1>4, <1>5 DEF f, l

LEMMA EcPlainOf ==
  ASSUME NEW d \in Seq(Ec!Byte), NEW n \in Nat
  PROVE  Ec!PlainOf(d, n) \in Seq(Ec!Byte) /\ Ec!PlainOf(Ec!StreamOf(d, n), n) = d
<1>1. ASSUME NEW b \in Seq(Ec!Byte) PROVE Ec!PlainOf(b, n) \in Seq(Ec!Byte)
  <2> DEFINE l == Len(b)
             f == Ec!PlainOf(b, n)
  <2>1. l \in Nat /\ \A i \in 1 .. l : b[i] \in Ec!Byte
    BY LenProperties, ElementOfSeq
  <2>2. \A i \in 1 .. l : Ec!Decrypted(b[i], n + i, 0) \in Ec!Byte
    <3> SUFFICES ASSUME NEW i \in 1 .. l PROVE Ec!Decrypted(b[i], n + i, 0) \in Ec!Byte
      OBVIOUS
    <3> DEFINE x == b[i]
               j == n + i
    <3>1. x \in Ec!Byte /\ j \in Nat \ {0} /\ 0 \in Ec!Byte
      BY <2>1, CodeIsBytes DEF Ec!Byte
    <3> HIDE DEF x, j
    <3>2. Ec!Decrypted(x, j, 0) \in Ec!Byte
      BY <3>1, EcCrypt
    <3> QED BY <3>2 DEF x, j
  <2>3. f \in [1 .. l -> Ec!Byte]
    BY <2>2 DEF Ec!PlainOf
  <2> HIDE DEF f, l
  <2> QED BY <2>1, <2>3, EcIsSeq DEF f
<1>2. Ec!PlainOf(Ec!StreamOf(d, n), n) = d
  <2> DEFINE l == Len(d)
             b == Ec!StreamOf(d, n)
  <2>1. Len(b) = l /\ l \in Nat /\ \A i \in 1 .. l : b[i] = Ec!Encrypted(d[i], n + i, 0)
    BY EcStreamOf, LenProperties
  <2>2. \A i \in 1 .. l : Ec!Decrypted(b[i], n + i, 0) = d[i]
    <3> SUFFICES ASSUME NEW i \in 1 .. l PROVE Ec!Decrypted(b[i], n + i, 0) = d[i]
      OBVIOUS
    <3> DEFINE x == d[i]
               j == n + i
    <3>1. x \in Ec!Byte /\ j \in Nat \ {0} /\ 0 \in Ec!Byte
      BY <2>1, CodeIsBytes, ElementOfSeq DEF Ec!Byte
    <3>2. b[i] = Ec!Encrypted(x, j, 0)
      BY <2>1
    <3> HIDE DEF x, j, b
    <3>3. Ec!Decrypted(Ec!Encrypted(x, j, 0), j, 0) = x
      BY <3>1, EcCrypt
    <3> QED BY <3>2, <3>3 DEF x, j
  <2> HIDE DEF b, l
  <2>3. Ec!PlainOf(b, n) = [i \in 1 .. l |-> d[i]]
    BY <2>1, <2>2 DEF Ec!PlainOf
  <2>4. d = [i \in 1 .. l |-> d[i]]
    BY LenProperties DEF l
  <2> QED BY <2>3, <2>4 DEF b
<1> QED BY <1>1, <1>2

\* What is written goes on where the stream is.
LEMMA EcStreamJoins ==
  ASSUME NEW d \in Seq(Ec!Byte), NEW c \in Seq(Ec!Byte), NEW n \in Nat
  PROVE  Ec!StreamOf(d \o c, n) = Ec!StreamOf(d, n) \o Ec!StreamOf(c, n + Len(d))
<1> DEFINE l == Len(d)
           x == Ec!StreamOf(d \o c, n)
           u == Ec!StreamOf(d, n)
           v == Ec!StreamOf(c, n + l)
           dc == d \o c
<1>1. l \in Nat /\ Len(c) \in Nat /\ n + l \in Nat
  BY LenProperties
<1>2. dc \in Seq(Ec!Byte) /\ Len(dc) = l + Len(c)
  BY <1>1, ConcatProperties
<1>3. \A i \in 1 .. l : dc[i] = d[i]
  BY <1>1, ConcatProperties
<1>4. \A i \in 1 .. Len(c) : dc[l + i] = c[i]
  BY <1>1, ConcatProperties
<1>5. /\ u \in Seq(Ec!Byte) /\ Len(u) = l
      /\ \A i \in 1 .. l : u[i] = Ec!Encrypted(d[i], n + i, 0)
  BY EcStreamOf
<1>6. /\ v \in Seq(Ec!Byte) /\ Len(v) = Len(c)
      /\ \A i \in 1 .. Len(c) : v[i] = Ec!Encrypted(c[i], (n + l) + i, 0)
  BY <1>1, EcStreamOf
<1>7. /\ x \in Seq(Ec!Byte) /\ Len(x) = l + Len(c)
      /\ \A i \in 1 .. l + Len(c) : x[i] = Ec!Encrypted(dc[i], n + i, 0)
  <2> HIDE DEF dc
  <2>1. /\ Ec!StreamOf(dc, n) \in Seq(Ec!Byte) /\ Len(Ec!StreamOf(dc, n)) = Len(dc)
        /\ \A i \in 1 .. Len(dc) : Ec!StreamOf(dc, n)[i] = Ec!Encrypted(dc[i], n + i, 0)
    BY <1>2, EcStreamOf
  <2> QED BY <1>2, <2>1 DEF dc
<1> HIDE DEF x, u, v, dc, l
<1>0. u \in Seq(Ec!Byte) /\ v \in Seq(Ec!Byte) /\ Len(u) = l /\ Len(v) = Len(c)
  BY <1>5, <1>6
<1>8. u \o v \in Seq(Ec!Byte) /\ Len(u \o v) = l + Len(c)
  <2>1. u \in Seq(Ec!Byte) /\ v \in Seq(Ec!Byte)
    BY <1>0
  <2>2. u \o v \in Seq(Ec!Byte) /\ Len(u \o v) = Len(u) + Len(v)
    BY <2>1, ConcatProperties
  <2> QED BY <1>0, <2>2
<1>9. \A i \in 1 .. l : (u \o v)[i] = u[i]
  BY <1>0, <1>1, ConcatProperties
<1>10. \A i \in 1 .. Len(c) : (u \o v)[l + i] = v[i]
  BY <1>0, <1>1, ConcatProperties
<1>11. \A i \in 1 .. l : x[i] = u[i]
  BY <1>1, <1>3, <1>5, <1>7
<1>12. \A i \in 1 .. Len(c) : x[l + i] = v[i]
  <2> SUFFICES ASSUME NEW i \in 1 .. Len(c) PROVE x[l + i] = v[i]
    OBVIOUS
  <2>1. l + i \in 1 .. l + Len(c) /\ n + (l + i) = (n + l) + i
    BY <1>1
  <2>2. x[l + i] = Ec!Encrypted(dc[l + i], n + (l + i), 0)
    BY <1>7, <2>1
  <2> QED BY <1>4, <1>6, <2>1, <2>2
<1>13. \A i \in 1 .. l + Len(c) : x[i] = (u \o v)[i]
  <2> DEFINE uv == u \o v
  <2>1. /\ \A i \in 1 .. l : x[i] = uv[i]
        /\ \A i \in 1 .. Len(c) : x[l + i] = uv[l + i]
    BY <1>9, <1>10, <1>11, <1>12
  <2> HIDE DEF uv
  <2>2. \A i \in 1 .. l + Len(c) : x[i] = uv[i]
    <3> SUFFICES ASSUME NEW i \in 1 .. l + Len(c) PROVE x[i] = uv[i]
      OBVIOUS
    <3>1. CASE i <= l
      BY <1>1, <2>1, <3>1
    <3>2. CASE i > l
      <4>1. i - l \in 1 .. Len(c) /\ l + (i - l) = i
        BY <1>1, <3>2
      <4> QED BY <2>1, <4>1
    <3> QED BY <1>1, <3>1, <3>2
  <2> QED BY <2>2 DEF uv
<1>14. x = u \o v
  BY <1>7, <1>8, <1>13, SeqEqual
<1> QED BY <1>14 DEF x, u, v, dc, l

\* What is read is the front of what is left, whatever its length.
EcReads(w, f, d, n, k) ==
  \E r \in Seq(Ec!Byte) :
    /\ d = Ec!PlainOf(SubSeq(w, 1, k), n) \o r
    /\ SubSeq(w, k + 1, Len(w)) \o f = Ec!StreamOf(r, n + k)
    /\ Len(Ec!PlainOf(SubSeq(w, 1, k), n)) = k

LEMMA EcStreamRead ==
  ASSUME NEW w \in Seq(Ec!Byte), NEW f \in Seq(Ec!Byte), NEW d \in Seq(Ec!Byte), NEW n \in Nat,
         NEW k \in 0 .. Len(w), w \o f = Ec!StreamOf(d, n)
  PROVE  EcReads(w, f, d, n, k)
<1> DEFINE a == SubSeq(w, 1, k)
           b == SubSeq(w, k + 1, Len(w))
           x == SubSeq(d, 1, k)
           r == SubSeq(d, k + 1, Len(d))
           s == Ec!StreamOf(d, n)
           u == Ec!StreamOf(x, n)
           v == Ec!StreamOf(r, n + k)
<1>1. Len(w) \in Nat /\ Len(f) \in Nat /\ Len(d) \in Nat /\ k \in Nat /\ k <= Len(w)
  BY LenProperties
<1>2. a \in Seq(Ec!Byte) /\ b \in Seq(Ec!Byte) /\ Len(a) = k /\ a \o b = w
  BY EcSplit
<1>3. Len(d) = Len(w) + Len(f)
  <2>1. Len(w \o f) = Len(w) + Len(f)
    BY ConcatProperties
  <2>2. Len(s) = Len(d)
    BY EcStreamOf
  <2>3. w \o f = s
    OBVIOUS
  <2> HIDE DEF s
  <2> QED BY <2>1, <2>2, <2>3
<1>4. k \in 0 .. Len(d)
  BY <1>1, <1>3
<1>5. x \in Seq(Ec!Byte) /\ r \in Seq(Ec!Byte) /\ Len(x) = k /\ x \o r = d
  BY <1>4, EcSplit
<1>6. w \o f = s
  OBVIOUS
<1> HIDE DEF a, b, x, r, s
<1>7. Ec!StreamOf(x \o r, n) = u \o v
  BY <1>1, <1>5, EcStreamJoins
<1>8. u \in Seq(Ec!Byte) /\ Len(u) = k /\ v \in Seq(Ec!Byte)
  <2>1. u \in Seq(Ec!Byte) /\ Len(u) = k
    BY <1>5, EcStreamOf
  <2>2. v \in Seq(Ec!Byte)
    <3>1. n + k \in Nat
      BY <1>1
    <3> QED BY <1>5, <3>1, EcStreamOf
  <2> QED BY <2>1, <2>2
<1>9. s = u \o v
  BY <1>5, <1>7 DEF s
<1> HIDE DEF u, v
<1>10. w \o f = u \o v => SubSeq(w, 1, k) = u /\ SubSeq(w, k + 1, Len(w)) \o f = v
  BY <1>1, <1>8, EcPrefix
<1>11. a = u /\ b \o f = v
  BY <1>6, <1>9, <1>10 DEF a, b
<1>12. Ec!PlainOf(a, n) = x
  BY <1>5, <1>11, EcPlainOf DEF u
<1>13. d = Ec!PlainOf(a, n) \o r /\ b \o f = v /\ Len(Ec!PlainOf(a, n)) = k
  BY <1>5, <1>11, <1>12
<1>14. /\ d = Ec!PlainOf(SubSeq(w, 1, k), n) \o r
       /\ SubSeq(w, k + 1, Len(w)) \o f = Ec!StreamOf(r, n + k)
       /\ Len(Ec!PlainOf(SubSeq(w, 1, k), n)) = k
  BY <1>13, Zenon DEF a, b, v
<1> QED BY <1>5, <1>14, Zenon DEF EcReads


-----------------------------------------------------------------------------
(* What is written and not read yet is in the frames, or the stream, on their way. *)

EcKept ==
  /\ Ec!Framed => \E d \in Seq(Ec!Byte) : /\ ec_sent = (ec_received \o ec_read_buf) \o d
                                    /\ <<ec_wire \o ec_flight, d>> \in EcStreams(ec_method, ec_empty)
  /\ ~Ec!Framed => \E d \in Seq(Ec!Byte) : /\ ec_sent = ec_received \o d /\ ec_read_buf = <<>>
                                     /\ ec_wire \o ec_flight = Ec!StreamOf(d, Len(ec_received))
                                     /\ ec_read_pos = Len(ec_received)
  /\ ec_outcome = "end" => ec_empty \/ (ec_closed /\ ec_received = ec_sent)
  /\ ec_outcome = "error" => ec_closed /\ ec_received = ec_sent

EcIInv == Ec!TypeOK /\ (~ec_cut /\ ~ec_broken => EcKept)

LEMMA EcInit == Ec!Init => EcIInv
<1> SUFFICES ASSUME Ec!Init PROVE EcIInv
  OBVIOUS
<1>1. Ec!TypeOK
  <2>1. 0 \in 0 .. MaxWrites /\ 0 \in Nat /\ <<>> \in Seq(Ec!Byte)
    BY EcLimits
  <2> QED BY <2>1, Zenon DEF Ec!Init, Ec!TypeOK
<1>2. <<>> \in Seq(Ec!Byte) /\ <<>> \o <<>> = <<>>
  BY ConcatEmptySeq
<1>3. Ec!Framed => \E d \in Seq(Ec!Byte) : /\ ec_sent = (ec_received \o ec_read_buf) \o d
                                     /\ <<ec_wire \o ec_flight, d>> \in EcStreams(ec_method, ec_empty)
  <2> SUFFICES ASSUME Ec!Framed PROVE <<<<>>, <<>>>> \in EcStreams(ec_method, FALSE)
    BY <1>2 DEF Ec!Init
  <2>1. ec_method \in EcFramed
    BY DEF Ec!Init, Ec!Framed, EcFramed
  <2> QED BY <2>1, EcGrows DEF EcClosed
<1>4. Ec!StreamOf(<<>>, 0) = <<>>
  <2>1. Ec!StreamOf(<<>>, 0) \in Seq(Ec!Byte) /\ Len(Ec!StreamOf(<<>>, 0)) = 0
    BY <1>2, EcStreamOf
  <2> QED BY <2>1, EmptySeq
<1>5. ~Ec!Framed => \E d \in Seq(Ec!Byte) : /\ ec_sent = ec_received \o d /\ ec_read_buf = <<>>
                                      /\ ec_wire \o ec_flight = Ec!StreamOf(d, Len(ec_received))
                                      /\ ec_read_pos = Len(ec_received)
  BY <1>2, <1>4 DEF Ec!Init
<1>6. EcKept
  BY <1>3, <1>5 DEF EcKept, Ec!Init
<1> QED BY <1>1, <1>6 DEF EcIInv

\* A read hands out the front of what it has and keeps the rest.
LEMMA EcHandOut ==
  ASSUME Ec!TypeOK, NEW d \in Seq(Ec!Byte), Ec!HandOut(d)
  PROVE  /\ ec_received' \in Seq(Ec!Byte) /\ ec_read_buf' \in Seq(Ec!Byte)
         /\ ec_received' \o ec_read_buf' = ec_received \o d
<1> DEFINE n == Ec!Min2(Chunk, Len(d))
           x == SubSeq(d, 1, n)
           y == SubSeq(d, n + 1, Len(d))
<1>0. ec_received \in Seq(Ec!Byte)
  BY DEF Ec!TypeOK
<1>1. n \in 0 .. Len(d)
  BY EcLimits, LenProperties DEF Ec!Min2
<1>2. ec_received' = ec_received \o x /\ ec_read_buf' = y
  BY DEF Ec!HandOut
<1> HIDE DEF n
<1>3. x \in Seq(Ec!Byte) /\ y \in Seq(Ec!Byte) /\ x \o y = d
  BY <1>1, EcSplit
<1> HIDE DEF x, y
<1>4. ec_received \o x \in Seq(Ec!Byte)
  BY <1>0, <1>3, ConcatProperties
<1>5. (ec_received \o x) \o y = ec_received \o (x \o y)
  <2>r. EcRegrouped(ec_received, x, y)
    BY <1>0, <1>3, EcRegroup
  <2> QED BY <2>r DEF EcRegrouped
<1>6. ec_received' \o ec_read_buf' = ec_received \o d
  BY <1>2, <1>3, <1>5
<1> QED BY <1>2, <1>3, <1>4, <1>6

LEMMA EcTypeStep == Ec!TypeOK /\ [Ec!Next]_(Ec!vars) => Ec!TypeOK'
<1> SUFFICES ASSUME Ec!TypeOK, [Ec!Next]_(Ec!vars) PROVE Ec!TypeOK'
  OBVIOUS
<1>0. MaxWrites \in Nat /\ Chunk \in Nat \ {0}
  BY EcLimits
<1>1. ASSUME NEW c \in Writes, Ec!Write(c) PROVE Ec!TypeOK'
  <2>1. c \in Seq(Ec!Byte) /\ ec_sent \in Seq(Ec!Byte) /\ ec_flight \in Seq(Ec!Byte)
    BY CodeIsBytes DEF Ec!TypeOK, Ec!Byte
  <2>2. ec_sent' \in Seq(Ec!Byte)
    BY <1>1, <2>1, ConcatProperties DEF Ec!Write
  <2>3. ec_flight' \in Seq(Ec!Byte)
    <3>1. CASE Ec!Framed
      <4>1. PICK head \in Ec!Heads : ec_flight' = ec_flight \o Ec!Frame(ec_method, c, head, Ec!Tail2)
        BY <1>1, <3>1 DEF Ec!Write
      <4>2. ec_method \in EcFramed
        BY <3>1 DEF Ec!TypeOK, Ec!Framed, EcFramed
      <4>3. head \in EcHeads(ec_method) /\ Ec!Tail2 = EcTail(ec_method)
        BY DEF Ec!Heads, EcHeads, Ec!Tail2, EcTail
      <4>4. Ec!Frame(ec_method, c, head, Ec!Tail2) \in Seq(Ec!Byte)
        BY <2>1, <4>2, <4>3, EcFrame
      <4> QED BY <2>1, <4>1, <4>4, ConcatProperties
    <3>2. CASE ~Ec!Framed
      <4>1. ec_flight' = ec_flight \o Ec!StreamOf(c, Len(ec_sent))
        BY <1>1, <3>2 DEF Ec!Write
      <4>2. Ec!StreamOf(c, Len(ec_sent)) \in Seq(Ec!Byte)
        <5>1. Len(ec_sent) \in Nat
          BY <2>1, LenProperties
        <5> QED BY <2>1, <5>1, EcStreamOf
      <4> QED BY <2>1, <4>1, <4>2, ConcatProperties
    <3> QED BY <3>1, <3>2
  <2>4. ec_writes' \in 0 .. MaxWrites
    BY <1>0, <1>1 DEF Ec!Write, Ec!TypeOK
  <2>5. ec_cut' \in BOOLEAN /\ ec_empty' \in BOOLEAN
    BY <1>1, Zenon DEF Ec!Write, Ec!TypeOK
  <2>6. UNCHANGED <<ec_method, ec_closed, ec_wire, ec_read_buf, ec_read_pos, ec_received, ec_broken, ec_outcome>>
    BY <1>1 DEF Ec!Write
  <2> QED BY <2>2, <2>3, <2>4, <2>5, <2>6 DEF Ec!TypeOK
<1>2. CASE Ec!Close
  BY <1>2 DEF Ec!Close, Ec!TypeOK
<1>3. ASSUME NEW n \in 1 .. Len(ec_flight), Ec!Arrive(n) PROVE Ec!TypeOK'
  <2>1. ec_flight \in Seq(Ec!Byte) /\ ec_wire \in Seq(Ec!Byte) /\ Len(ec_flight) \in Nat
    BY LenProperties DEF Ec!TypeOK
  <2>2. n \in 0 .. Len(ec_flight)
    BY <2>1
  <2>3. SubSeq(ec_flight, 1, n) \in Seq(Ec!Byte) /\ ec_flight' \in Seq(Ec!Byte)
    BY <1>3, <2>1, <2>2, EcSplit DEF Ec!Arrive
  <2>4. ec_wire' \in Seq(Ec!Byte)
    BY <1>3, <2>1, <2>3, ConcatProperties DEF Ec!Arrive
  <2> QED BY <1>3, <2>3, <2>4 DEF Ec!Arrive, Ec!TypeOK
<1>4. CASE Ec!ReadBuffered
  <2>1. ec_read_buf \in Seq(Ec!Byte) /\ Ec!HandOut(ec_read_buf)
    BY <1>4 DEF Ec!ReadBuffered, Ec!TypeOK
  <2>2. ec_received' \in Seq(Ec!Byte) /\ ec_read_buf' \in Seq(Ec!Byte)
    BY <2>1, EcHandOut
  <2> QED BY <1>4, <2>2 DEF Ec!ReadBuffered, Ec!TypeOK
<1>5. CASE Ec!ReadFrame
  <2> DEFINE n == Ec!FrameLen
             body == SubSeq(ec_wire, 3, 2 + n)
             d == Ec!DataOf(ec_method, body)
  <2>1. ec_wire \in Seq(Ec!Byte) /\ Len(ec_wire) \in Nat /\ ec_method \in EcFramed /\ Len(ec_wire) >= 2
    BY <1>5, LenProperties DEF Ec!TypeOK, Ec!ReadFrame, Ec!NextFrame, Ec!Framed, EcFramed
  <2>2. ec_wire[1] \in Ec!Byte /\ ec_wire[2] \in Ec!Byte
    BY <2>1, ElementOfSeq
  <2>3. n \in Nat
    BY <2>2, EcLengthOf DEF Ec!FrameLen
  <2>4. ~(n < Ec!HeadLen(ec_method) + Ec!TailLen(ec_method)) /\ Len(ec_wire) >= 2 + n
    BY <1>5 DEF Ec!ReadFrame, Ec!TooShort
  <2>5. Ec!HeadLen(ec_method) \in Nat /\ Ec!TailLen(ec_method) \in Nat
    BY <2>1, EcPlaces
  <2>6. Ec!HandOut(d) /\ ec_outcome' = (IF d = <<>> THEN "end" ELSE "data")
        /\ ec_wire' = SubSeq(ec_wire, 3 + n, Len(ec_wire))
    BY <1>5 DEF Ec!ReadFrame
  <2> HIDE DEF n
  <2>7. body \in Seq(Ec!Byte) /\ Len(body) = n
    <3>1. \A i \in 3 .. 2 + n : ec_wire[i] \in Ec!Byte
      BY <2>1, <2>3, <2>4, ElementOfSeq
    <3> QED BY <2>3, <3>1, SubSeqProperties
  <2> HIDE DEF body
  <2>8. d \in Seq(Ec!Byte)
    <3>1. Len(body) >= Ec!HeadLen(ec_method) + Ec!TailLen(ec_method)
      BY <2>3, <2>4, <2>5, <2>7
    <3> QED BY <2>1, <2>7, <3>1, EcDataOf
  <2> HIDE DEF d
  <2>9. ec_received' \in Seq(Ec!Byte) /\ ec_read_buf' \in Seq(Ec!Byte)
    BY <2>6, <2>8, EcHandOut
  <2>10. ec_wire' \in Seq(Ec!Byte)
    <3>1. 2 + n \in 0 .. Len(ec_wire) /\ (2 + n) + 1 = 3 + n
      BY <2>1, <2>3, <2>4
    <3> QED BY <2>1, <2>6, <3>1, EcSplit
  <2>11. ec_outcome' \in {"data", "end", "error"}
    BY <2>6
  <2>12. UNCHANGED <<ec_method, ec_sent, ec_writes, ec_cut, ec_empty, ec_closed, ec_flight, ec_read_pos, ec_broken>>
    BY <1>5 DEF Ec!ReadFrame
  <2> QED BY <2>9, <2>10, <2>11, <2>12 DEF Ec!TypeOK
<1>6. CASE Ec!ReadFails
  BY <1>6 DEF Ec!ReadFails, Ec!TypeOK
<1>7. CASE Ec!ReadTimesOut
  BY <1>7 DEF Ec!ReadTimesOut, Ec!TypeOK
<1>8. CASE Ec!ReadStream
  <2> DEFINE n == Ec!Min2(Chunk, Len(ec_wire))
             x == SubSeq(ec_wire, 1, n)
  <2>1. ec_wire \in Seq(Ec!Byte) /\ ec_received \in Seq(Ec!Byte) /\ Len(ec_wire) \in Nat /\ ec_read_pos \in Nat
    BY LenProperties DEF Ec!TypeOK
  <2>2. n \in 0 .. Len(ec_wire) /\ n \in Nat
    BY <1>0, <2>1 DEF Ec!Min2
  <2>3. /\ ec_received' = ec_received \o Ec!PlainOf(x, ec_read_pos) /\ ec_read_pos' = ec_read_pos + n
        /\ ec_wire' = SubSeq(ec_wire, n + 1, Len(ec_wire))
    BY <1>8 DEF Ec!ReadStream, Ec!Place
  <2> HIDE DEF n
  <2>4. x \in Seq(Ec!Byte) /\ ec_wire' \in Seq(Ec!Byte)
    BY <2>1, <2>2, <2>3, EcSplit
  <2> HIDE DEF x
  <2>5. Ec!PlainOf(x, ec_read_pos) \in Seq(Ec!Byte)
    BY <2>1, <2>4, EcPlainOf
  <2>6. ec_received' \in Seq(Ec!Byte)
    BY <2>1, <2>3, <2>5, ConcatProperties
  <2>7. ec_read_pos' \in Nat
    BY <2>1, <2>2, <2>3
  <2>8. UNCHANGED <<ec_method, ec_sent, ec_writes, ec_cut, ec_empty, ec_closed, ec_flight, ec_read_buf, ec_broken, ec_outcome>>
    BY <1>8 DEF Ec!ReadStream
  <2> QED BY <2>4, <2>6, <2>7, <2>8 DEF Ec!TypeOK
<1>9. CASE Ec!ReadEnd
  BY <1>9 DEF Ec!ReadEnd, Ec!TypeOK
<1>10. CASE UNCHANGED Ec!vars
  BY <1>10 DEF Ec!vars, Ec!TypeOK
<1> QED BY <1>1, <1>2, <1>3, <1>4, <1>5, <1>6, <1>7, <1>8, <1>9, <1>10 DEF Ec!Next


LEMMA EcWriteKeeps ==
  ASSUME Ec!TypeOK, EcKept, NEW c \in Writes, Ec!Write(c), ~ec_cut'
  PROVE  EcKept'
<1>0. /\ c \in Seq(Ec!Byte) /\ ec_sent \in Seq(Ec!Byte) /\ ec_flight \in Seq(Ec!Byte) /\ ec_wire \in Seq(Ec!Byte)
      /\ ec_received \in Seq(Ec!Byte) /\ ec_read_buf \in Seq(Ec!Byte) /\ ec_empty \in BOOLEAN /\ ec_empty' \in BOOLEAN
  <2>1. ec_empty' \in BOOLEAN
    BY Zenon DEF Ec!Write, Ec!TypeOK
  <2> QED BY <2>1, CodeIsBytes DEF Ec!TypeOK, Ec!Byte
<1>1. /\ ec_sent' = ec_sent \o c /\ ~ec_closed
      /\ UNCHANGED <<ec_method, ec_closed, ec_wire, ec_read_buf, ec_read_pos, ec_received, ec_broken, ec_outcome>>
  BY DEF Ec!Write
<1>2. Ec!Framed' <=> Ec!Framed
  BY <1>1 DEF Ec!Framed
<1>3. ASSUME Ec!Framed
      PROVE  \E d \in Seq(Ec!Byte) : /\ ec_sent' = (ec_received \o ec_read_buf) \o d
                                  /\ <<ec_wire \o ec_flight', d>> \in EcStreams(ec_method, ec_empty')
  <2>1. PICK d \in Seq(Ec!Byte) : /\ ec_sent = (ec_received \o ec_read_buf) \o d
                               /\ <<ec_wire \o ec_flight, d>> \in EcStreams(ec_method, ec_empty)
    BY <1>3 DEF EcKept
  <2>2. PICK head \in Ec!Heads : ec_flight' = ec_flight \o Ec!Frame(ec_method, c, head, Ec!Tail2)
    BY <1>3 DEF Ec!Write
  <2>3. ec_method \in EcFramed
    BY <1>3 DEF Ec!TypeOK, Ec!Framed, EcFramed
  <2>4. head \in EcHeads(ec_method) /\ Ec!Tail2 = EcTail(ec_method)
    BY DEF Ec!Heads, EcHeads, Ec!Tail2, EcTail
  <2>5. ec_empty' = (ec_empty \/ c = <<>>) /\ ec_cut' = (ec_cut \/ Ec!TotalLen(ec_method, c) > Ec!MaxLength)
    BY <1>3 DEF Ec!Write
  <2>6. Ec!TotalLen(ec_method, c) \in Nat /\ Ec!MaxLength \in Int
    <3>1. head \in EcHeads(ec_method)
      BY <2>4
    <3>2. Ec!TotalLen(ec_method, c) \in Nat
      BY <1>0, <2>3, <3>1, EcFrame
    <3> QED BY <3>2, CodeIsBytes DEF Ec!MaxLength
  <2>7. (ec_empty => ec_empty') /\ (c = <<>> => ec_empty') /\ ~(Ec!TotalLen(ec_method, c) > Ec!MaxLength)
    BY <2>5, Zenon
  <2>8. EcFits(ec_method, ec_empty', c)
    BY <2>6, <2>7 DEF EcFits
  <2>9. <<ec_wire \o (ec_flight \o Ec!Frame(ec_method, c, head, EcTail(ec_method))), d \o c>>
          \in EcStreams(ec_method, ec_empty')
    BY <1>0, <2>1, <2>3, <2>4, <2>7, <2>8, EcWritten
  <2>10. <<ec_wire \o ec_flight', d \o c>> \in EcStreams(ec_method, ec_empty')
    BY <2>2, <2>4, <2>9
  <2> DEFINE g == ec_received \o ec_read_buf
  <2>11. g \in Seq(Ec!Byte)
    BY <1>0, ConcatProperties
  <2>12. ec_sent = g \o d
    BY <2>1
  <2> HIDE DEF g
  <2>c. c \in Seq(Ec!Byte)
    BY <1>0
  <2>13. d \o c \in Seq(Ec!Byte)
    BY <2>c, ConcatProperties
  <2>e. (g \o d) \o c = g \o (d \o c)
    <3>r. EcRegrouped(g, d, c)
      BY <2>11, <2>c, EcRegroup
    <3> QED BY <3>r DEF EcRegrouped
  <2>14. ec_sent' = g \o (d \o c)
    BY <1>1, <2>12, <2>e
  <2> QED BY <2>10, <2>13, <2>14 DEF g
<1>4. ASSUME ~Ec!Framed
      PROVE  \E d \in Seq(Ec!Byte) : /\ ec_sent' = ec_received \o d /\ ec_read_buf = <<>>
                                  /\ ec_wire \o ec_flight' = Ec!StreamOf(d, Len(ec_received))
                                  /\ ec_read_pos = Len(ec_received)
  <2>1. PICK d \in Seq(Ec!Byte) : /\ ec_sent = ec_received \o d /\ ec_read_buf = <<>>
                               /\ ec_wire \o ec_flight = Ec!StreamOf(d, Len(ec_received))
                               /\ ec_read_pos = Len(ec_received)
    BY <1>4 DEF EcKept
  <2>2. ec_flight' = ec_flight \o Ec!StreamOf(c, Len(ec_sent))
    BY <1>4 DEF Ec!Write
  <2>3. Len(ec_received) \in Nat /\ Len(d) \in Nat /\ Len(ec_received \o d) = Len(ec_received) + Len(d)
        /\ d \o c \in Seq(Ec!Byte)
    BY <1>0, LenProperties, ConcatProperties
  <2>4. Len(ec_sent) = Len(ec_received) + Len(d) /\ Len(ec_sent) \in Nat
    BY <2>1, <2>3
  <2> DEFINE u == Ec!StreamOf(c, Len(ec_sent))
             v == Ec!StreamOf(d, Len(ec_received))
  <2>5. u \in Seq(Ec!Byte)
    BY <1>0, <2>4, EcStreamOf
  <2>6. Ec!StreamOf(d \o c, Len(ec_received)) = v \o u
    <3> DEFINE n == Len(ec_received)
    <3>1. n \in Nat /\ c \in Seq(Ec!Byte) /\ Len(ec_sent) = n + Len(d)
      BY <1>0, <2>3, <2>4
    <3> HIDE DEF n
    <3>2. Ec!StreamOf(d \o c, n) = Ec!StreamOf(d, n) \o Ec!StreamOf(c, n + Len(d))
      BY <3>1, EcStreamJoins
    <3> QED BY <3>1, <3>2 DEF n
  <2>7. ec_wire \o ec_flight = v /\ ec_flight' = ec_flight \o u
    BY <2>1, <2>2
  <2> HIDE DEF u, v
  <2>a. /\ ec_wire \in Seq(Ec!Byte) /\ ec_flight \in Seq(Ec!Byte) /\ ec_received \in Seq(Ec!Byte)
        /\ c \in Seq(Ec!Byte)
    BY <1>0
  <2>8. (ec_wire \o ec_flight) \o u = ec_wire \o (ec_flight \o u)
    <3>r. EcRegrouped(ec_wire, ec_flight, u)
      BY <2>a, <2>5, EcRegroup
    <3> QED BY <3>r DEF EcRegrouped
  <2>9. ec_wire \o ec_flight' = Ec!StreamOf(d \o c, Len(ec_received))
    BY <2>6, <2>7, <2>8
  <2>10. (ec_received \o d) \o c = ec_received \o (d \o c)
    <3>r. EcRegrouped(ec_received, d, c)
      BY <2>a, EcRegroup
    <3> QED BY <3>r DEF EcRegrouped
  <2>11. ec_sent' = ec_received \o (d \o c)
    BY <1>1, <2>1, <2>10
  <2> QED BY <2>1, <2>3, <2>9, <2>11
<1>5. ec_outcome' = "end" => ec_empty' \/ (ec_closed' /\ ec_received' = ec_sent')
  <2>1. ec_empty => ec_empty'
    BY Zenon DEF Ec!Write
  <2> QED BY <1>1, <2>1 DEF EcKept
<1>6. ec_outcome' = "error" => ec_closed' /\ ec_received' = ec_sent'
  BY <1>1 DEF EcKept
<1>7. Ec!Framed' => (\E d \in Seq(Ec!Byte) : /\ ec_sent = (ec_received \o ec_read_buf) \o d
                                       /\ <<ec_wire \o ec_flight, d>> \in EcStreams(ec_method, ec_empty))'
  BY <1>1, <1>2, <1>3
<1>8. ~Ec!Framed' => (\E d \in Seq(Ec!Byte) : /\ ec_sent = ec_received \o d /\ ec_read_buf = <<>>
                                        /\ ec_wire \o ec_flight = Ec!StreamOf(d, Len(ec_received))
                                        /\ ec_read_pos = Len(ec_received))'
  BY <1>1, <1>2, <1>4
<1> QED BY <1>5, <1>6, <1>7, <1>8 DEF EcKept

LEMMA EcArriveKeeps ==
  ASSUME Ec!TypeOK, EcKept, NEW n \in 1 .. Len(ec_flight), Ec!Arrive(n)
  PROVE  EcKept'
<1>1. ec_flight \in Seq(Ec!Byte) /\ ec_wire \in Seq(Ec!Byte) /\ Len(ec_flight) \in Nat
  BY LenProperties DEF Ec!TypeOK
<1>2. n \in 0 .. Len(ec_flight)
  BY <1>1
<1> DEFINE x == SubSeq(ec_flight, 1, n)
           y == SubSeq(ec_flight, n + 1, Len(ec_flight))
<1>3. x \in Seq(Ec!Byte) /\ y \in Seq(Ec!Byte) /\ x \o y = ec_flight
  BY <1>1, <1>2, EcSplit
<1>4. ec_wire' = ec_wire \o x /\ ec_flight' = y
  BY DEF Ec!Arrive
<1> HIDE DEF x, y
<1>5. (ec_wire \o x) \o y = ec_wire \o (x \o y)
  <2>r. EcRegrouped(ec_wire, x, y)
    BY <1>1, <1>3, EcRegroup
  <2> QED BY <2>r DEF EcRegrouped
<1>6. ec_wire' \o ec_flight' = ec_wire \o ec_flight
  BY <1>3, <1>4, <1>5
<1>7. UNCHANGED <<ec_method, ec_sent, ec_empty, ec_closed, ec_read_buf, ec_read_pos, ec_received, ec_outcome>>
  BY DEF Ec!Arrive
<1> DEFINE wf == ec_wire \o ec_flight
<1>8. wf' = wf
  BY <1>6
<1>9. EcKept <=>
        /\ Ec!Framed => \E d \in Seq(Ec!Byte) : /\ ec_sent = (ec_received \o ec_read_buf) \o d
                                          /\ <<wf, d>> \in EcStreams(ec_method, ec_empty)
        /\ ~Ec!Framed => \E d \in Seq(Ec!Byte) : /\ ec_sent = ec_received \o d /\ ec_read_buf = <<>>
                                           /\ wf = Ec!StreamOf(d, Len(ec_received))
                                           /\ ec_read_pos = Len(ec_received)
        /\ ec_outcome = "end" => ec_empty \/ (ec_closed /\ ec_received = ec_sent)
        /\ ec_outcome = "error" => ec_closed /\ ec_received = ec_sent
  BY DEF EcKept
<1> HIDE DEF wf
<1>10. EcKept' <=>
        /\ Ec!Framed' => \E d \in Seq(Ec!Byte) : /\ ec_sent' = (ec_received' \o ec_read_buf') \o d
                                          /\ <<wf', d>> \in EcStreams(ec_method', ec_empty')
        /\ ~Ec!Framed' => \E d \in Seq(Ec!Byte) : /\ ec_sent' = ec_received' \o d /\ ec_read_buf' = <<>>
                                           /\ wf' = Ec!StreamOf(d, Len(ec_received'))
                                           /\ ec_read_pos' = Len(ec_received')
        /\ ec_outcome' = "end" => ec_empty' \/ (ec_closed' /\ ec_received' = ec_sent')
        /\ ec_outcome' = "error" => ec_closed' /\ ec_received' = ec_sent'
  BY DEF EcKept, wf
<1>11. Ec!Framed' <=> Ec!Framed
  BY <1>7 DEF Ec!Framed
<1> QED BY <1>7, <1>8, <1>9, <1>10, <1>11

LEMMA EcReadBufferedKeeps ==
  ASSUME Ec!TypeOK, EcKept, Ec!ReadBuffered
  PROVE  EcKept'
<1>1. Ec!Framed /\ ec_outcome = "data"
  BY DEF Ec!ReadBuffered, Ec!Reading, EcKept
<1>2. UNCHANGED <<ec_method, ec_sent, ec_empty, ec_closed, ec_flight, ec_wire, ec_outcome>> /\ Ec!HandOut(ec_read_buf)
      /\ ec_read_buf \in Seq(Ec!Byte)
  BY DEF Ec!ReadBuffered, Ec!TypeOK
<1>3. ec_received' \o ec_read_buf' = ec_received \o ec_read_buf
  BY <1>2, EcHandOut
<1>4. PICK d \in Seq(Ec!Byte) : /\ ec_sent = (ec_received \o ec_read_buf) \o d
                             /\ <<ec_wire \o ec_flight, d>> \in EcStreams(ec_method, ec_empty)
  BY <1>1 DEF EcKept
<1>5. /\ ec_sent' = (ec_received' \o ec_read_buf') \o d
      /\ <<ec_wire' \o ec_flight', d>> \in EcStreams(ec_method', ec_empty')
  BY <1>2, <1>3, <1>4
<1>6. Ec!Framed' /\ ec_outcome' = "data"
  BY <1>1, <1>2 DEF Ec!Framed
<1> QED BY <1>5, <1>6 DEF EcKept

LEMMA EcReadFrameKeeps ==
  ASSUME Ec!TypeOK, EcKept, Ec!ReadFrame
  PROVE  EcKept'
<1>1. Ec!Framed /\ ec_outcome = "data" /\ ec_read_buf = <<>> /\ Len(ec_wire) >= 2 /\ Len(ec_wire) >= 2 + Ec!FrameLen
  BY DEF Ec!ReadFrame, Ec!NextFrame, Ec!Reading
<1>2. /\ Ec!HandOut(Ec!DataOf(ec_method, SubSeq(ec_wire, 3, 2 + Ec!FrameLen)))
      /\ ec_wire' = SubSeq(ec_wire, 3 + Ec!FrameLen, Len(ec_wire))
      /\ ec_outcome' = IF Ec!DataOf(ec_method, SubSeq(ec_wire, 3, 2 + Ec!FrameLen)) = <<>> THEN "end" ELSE "data"
      /\ UNCHANGED <<ec_method, ec_sent, ec_empty, ec_closed, ec_flight>>
  BY DEF Ec!ReadFrame
<1>3. /\ ec_received \in Seq(Ec!Byte) /\ ec_wire \in Seq(Ec!Byte) /\ ec_flight \in Seq(Ec!Byte) /\ ec_empty \in BOOLEAN
      /\ ec_method \in EcFramed
  BY <1>1 DEF Ec!TypeOK, Ec!Framed, EcFramed
<1>4. PICK d \in Seq(Ec!Byte) : /\ ec_sent = (ec_received \o ec_read_buf) \o d
                             /\ <<ec_wire \o ec_flight, d>> \in EcStreams(ec_method, ec_empty)
  BY <1>1 DEF EcKept
<1>5. PICK c \in Seq(Ec!Byte), r \in Seq(Ec!Byte) :
        /\ Ec!DataOf(ec_method, SubSeq(ec_wire, 3, 2 + Ec!FrameLen)) = c
        /\ c = <<>> => ec_empty
        /\ d = c \o r
        /\ <<SubSeq(ec_wire, 3 + Ec!FrameLen, Len(ec_wire)) \o ec_flight, r>> \in EcStreams(ec_method, ec_empty)
  <2>1. Len(ec_wire) >= 2 + Ec!FrameLen /\ Len(ec_wire) >= 2
    BY <1>1
  <2>2. EcReadable(ec_method, ec_empty, ec_wire, ec_flight, d)
    BY <1>3, <1>4, <2>1, EcArrived
  <2> QED BY <2>1, <2>2, Zenon DEF EcReadable, Ec!FrameLen
<1>6. ec_received' \o ec_read_buf' = ec_received \o c
  BY <1>2, <1>5, EcHandOut
<1>7. <<ec_wire' \o ec_flight', r>> \in EcStreams(ec_method', ec_empty')
  BY <1>2, <1>5
<1>8. ec_received \o ec_read_buf = ec_received
  BY <1>1, <1>3, ConcatEmptySeq
<1>9. (ec_received \o c) \o r = ec_received \o (c \o r)
  <2>1. ec_received \in Seq(Ec!Byte)
    BY <1>3
  <2>r. EcRegrouped(ec_received, c, r)
    BY <2>1, EcRegroup
  <2> QED BY <2>r DEF EcRegrouped
<1>10. ec_sent' = (ec_received' \o ec_read_buf') \o r
  BY <1>2, <1>4, <1>5, <1>6, <1>8, <1>9
<1>11. ec_outcome' = "end" => ec_empty'
  BY <1>2, <1>5
<1>12. ec_outcome' # "error" /\ Ec!Framed'
  BY <1>1, <1>2 DEF Ec!Framed
<1> QED BY <1>7, <1>10, <1>11, <1>12 DEF EcKept

LEMMA EcReadFailsKeeps ==
  ASSUME Ec!TypeOK, EcKept, Ec!ReadFails
  PROVE  EcKept'
<1>1. Ec!Framed /\ ec_outcome = "data" /\ ec_read_buf = <<>> /\ ec_outcome' = "error"
  BY DEF Ec!ReadFails, Ec!Reading
<1>2. UNCHANGED <<ec_method, ec_sent, ec_empty, ec_closed, ec_flight, ec_wire, ec_read_buf, ec_received>>
  BY DEF Ec!ReadFails
<1>3. /\ ec_received \in Seq(Ec!Byte) /\ ec_wire \in Seq(Ec!Byte) /\ ec_flight \in Seq(Ec!Byte) /\ ec_empty \in BOOLEAN
      /\ ec_method \in EcFramed
  BY <1>1 DEF Ec!TypeOK, Ec!Framed, EcFramed
<1>4. PICK d \in Seq(Ec!Byte) : /\ ec_sent = (ec_received \o ec_read_buf) \o d
                             /\ <<ec_wire \o ec_flight, d>> \in EcStreams(ec_method, ec_empty)
  BY <1>1 DEF EcKept
<1>5. Len(ec_wire) \in Nat /\ Len(ec_wire \o ec_flight) \in Nat
  BY <1>3, LenProperties, ConcatProperties
<1>6. Ec!HeadLen(ec_method) \in Nat /\ Ec!TailLen(ec_method) \in Nat
  BY <1>3, EcPlaces
<1>7. ASSUME Len(ec_wire) >= 2
      PROVE  Ec!FrameLen \in Nat /\ ~Ec!TooShort /\ 2 + Ec!FrameLen <= Len(ec_wire \o ec_flight)
  <2>1. /\ Ec!FrameLen \in Nat /\ Ec!FrameLen >= Ec!HeadLen(ec_method) + Ec!TailLen(ec_method)
        /\ 2 + Ec!FrameLen <= Len(ec_wire \o ec_flight)
    <3>1. EcReadable(ec_method, ec_empty, ec_wire, ec_flight, d)
      BY <1>3, <1>4, <1>7, EcArrived
    <3> QED BY <3>1, Zenon DEF EcReadable, Ec!FrameLen
  <2> QED BY <1>6, <2>1 DEF Ec!TooShort
<1>8. ec_closed /\ ec_flight = <<>> /\ Ec!Incomplete
  BY <1>7 DEF Ec!ReadFails, Ec!Arrived
<1>9. ec_wire \o ec_flight = ec_wire
  BY <1>3, <1>8, ConcatEmptySeq
<1>10. Len(ec_wire) < 2
  <2>1. ASSUME Len(ec_wire) >= 2 PROVE FALSE
    <3>1. Ec!FrameLen \in Nat /\ 2 + Ec!FrameLen <= Len(ec_wire)
      BY <1>7, <1>9, <2>1
    <3>2. Len(ec_wire) < 2 + Ec!FrameLen
      BY <1>5, <1>8, <2>1 DEF Ec!Incomplete
    <3> QED BY <1>5, <3>1, <3>2
  <2> QED BY <1>5, <2>1
<1>11. <<ec_wire \o ec_flight, d>> = <<<<>>, <<>>>>
  <2>1. ASSUME EcBegins(ec_method, ec_empty, <<ec_wire \o ec_flight, d>>) PROVE FALSE
    <3> DEFINE p == <<ec_wire \o ec_flight, d>>
    <3>1. PICK c \in Seq(Ec!Byte), head \in EcHeads(ec_method), q \in EcStreams(ec_method, ec_empty) :
            p[1] = Ec!Frame(ec_method, c, head, EcTail(ec_method)) \o q[1]
      BY <2>1 DEF EcBegins
    <3> DEFINE g == Ec!Frame(ec_method, c, head, EcTail(ec_method))
               s == q[1]
    <3>2. g \in Seq(Ec!Byte) /\ Len(g) = 2 + Ec!TotalLen(ec_method, c) /\ Ec!TotalLen(ec_method, c) \in Nat
      BY <1>3, EcFrame
    <3>3. s \in Seq(Ec!Byte)
      BY DEF EcStreams, EcPairs
    <3>4. ec_wire = g \o s
      BY <1>9, <3>1
    <3> HIDE DEF g, s
    <3>5. Len(g \o s) = Len(g) + Len(s) /\ Len(s) \in Nat
      BY <3>2, <3>3, ConcatProperties, LenProperties
    <3>6. Len(ec_wire) >= 2
      BY <3>2, <3>4, <3>5
    <3> QED BY <1>5, <1>10, <3>6
  <2> QED BY <1>3, <1>4, <2>1, EcFront
<1>12. d = <<>>
  BY <1>11
<1>13. ec_received \o ec_read_buf = ec_received /\ ec_received \o d = ec_received
  BY <1>1, <1>3, <1>12, ConcatEmptySeq
<1>14. ec_received = ec_sent
  BY <1>4, <1>13
<1>15. Ec!Framed' /\ ec_closed' /\ ec_received' = ec_sent' /\ ec_outcome' = "error"
  BY <1>1, <1>2, <1>8, <1>14 DEF Ec!Framed
<1>16. /\ ec_sent' = (ec_received' \o ec_read_buf') \o d
       /\ <<ec_wire' \o ec_flight', d>> \in EcStreams(ec_method', ec_empty')
  BY <1>2, <1>4
<1> QED BY <1>15, <1>16 DEF EcKept

LEMMA EcReadStreamKeeps ==
  ASSUME Ec!TypeOK, EcKept, Ec!ReadStream
  PROVE  EcKept'
<1> DEFINE n == Ec!Min2(Chunk, Len(ec_wire))
           x == Ec!PlainOf(SubSeq(ec_wire, 1, n), ec_read_pos)
           y == SubSeq(ec_wire, n + 1, Len(ec_wire))
<1>1. /\ ~Ec!Framed /\ ec_outcome = "data" /\ ec_outcome' = ec_outcome
      /\ ec_received' = ec_received \o x /\ ec_read_pos' = ec_read_pos + n /\ ec_wire' = y
      /\ UNCHANGED <<ec_method, ec_sent, ec_flight, ec_read_buf>>
  BY DEF Ec!ReadStream, Ec!Reading, Ec!Place
<1>2. /\ ec_received \in Seq(Ec!Byte) /\ ec_wire \in Seq(Ec!Byte) /\ ec_flight \in Seq(Ec!Byte)
      /\ Len(ec_wire) \in Nat /\ Len(ec_received) \in Nat
  BY LenProperties DEF Ec!TypeOK
<1>3. PICK d \in Seq(Ec!Byte) : /\ ec_sent = ec_received \o d /\ ec_read_buf = <<>>
                             /\ ec_wire \o ec_flight = Ec!StreamOf(d, Len(ec_received))
                             /\ ec_read_pos = Len(ec_received)
  BY <1>1 DEF EcKept
<1>4. n \in 0 .. Len(ec_wire) /\ n \in Nat
  BY <1>2, EcLimits DEF Ec!Min2
<1> HIDE DEF n
<1>5. PICK r \in Seq(Ec!Byte) : /\ d = x \o r /\ Len(x) = n
                             /\ y \o ec_flight = Ec!StreamOf(r, ec_read_pos + n)
  <2>1. \E r \in Seq(Ec!Byte) :
           /\ d = Ec!PlainOf(SubSeq(ec_wire, 1, n), ec_read_pos) \o r
           /\ SubSeq(ec_wire, n + 1, Len(ec_wire)) \o ec_flight = Ec!StreamOf(r, ec_read_pos + n)
           /\ Len(Ec!PlainOf(SubSeq(ec_wire, 1, n), ec_read_pos)) = n
    <3> DEFINE p == ec_read_pos
    <3>1. ec_wire \o ec_flight = Ec!StreamOf(d, p) /\ p \in Nat
      BY <1>2, <1>3
    <3>2. ec_wire \in Seq(Ec!Byte) /\ ec_flight \in Seq(Ec!Byte) /\ n \in 0 .. Len(ec_wire)
      BY <1>2, <1>4
    <3> HIDE DEF p
    <3>3. EcReads(ec_wire, ec_flight, d, p, n)
      BY <3>1, <3>2, EcStreamRead
    <3> QED BY <3>3, Zenon DEF EcReads, p
  <2> QED BY <2>1, Zenon
<1>6. x \in Seq(Ec!Byte)
  <2>1. SubSeq(ec_wire, 1, n) \in Seq(Ec!Byte)
    BY <1>2, <1>4, EcSplit
  <2> QED BY <1>2, <1>3, <2>1, EcPlainOf
<1> HIDE DEF x, y
<1>7. Len(ec_received \o x) = Len(ec_received) + Len(x)
  BY <1>2, <1>6, ConcatProperties
<1>8. (ec_received \o x) \o r = ec_received \o (x \o r)
  <2>r. EcRegrouped(ec_received, x, r)
    BY <1>2, <1>6, EcRegroup
  <2> QED BY <2>r DEF EcRegrouped
<1>9. Len(ec_received') = ec_read_pos'
  BY <1>1, <1>3, <1>5, <1>7
<1>10. ec_sent' = ec_received' \o r
  BY <1>1, <1>3, <1>5, <1>8
<1>11. ec_wire' \o ec_flight' = Ec!StreamOf(r, Len(ec_received'))
  BY <1>1, <1>5, <1>9
<1>12. ~Ec!Framed' /\ ec_outcome' = "data" /\ ec_read_buf' = <<>>
  BY <1>1, <1>3 DEF Ec!Framed
<1> QED BY <1>9, <1>10, <1>11, <1>12 DEF EcKept

LEMMA EcReadEndKeeps ==
  ASSUME Ec!TypeOK, EcKept, Ec!ReadEnd
  PROVE  EcKept'
<1>1. ~Ec!Framed /\ ec_wire = <<>> /\ ec_flight = <<>> /\ ec_closed /\ ec_outcome' = "end"
  BY DEF Ec!ReadEnd, Ec!Arrived
<1>2. UNCHANGED <<ec_method, ec_sent, ec_empty, ec_closed, ec_flight, ec_wire, ec_read_buf, ec_read_pos, ec_received>>
  BY DEF Ec!ReadEnd
<1>3. PICK d \in Seq(Ec!Byte) : /\ ec_sent = ec_received \o d /\ ec_read_buf = <<>>
                             /\ ec_wire \o ec_flight = Ec!StreamOf(d, Len(ec_received))
                             /\ ec_read_pos = Len(ec_received)
  BY <1>1 DEF EcKept
<1>4. ec_received \in Seq(Ec!Byte) /\ Len(ec_received) \in Nat
  BY LenProperties DEF Ec!TypeOK
<1>5. ec_wire \o ec_flight = <<>>
  BY <1>1, ConcatEmptySeq
<1>6. Len(Ec!StreamOf(d, Len(ec_received))) = Len(d)
  BY <1>4, EcStreamOf
<1>7. Len(d) = 0
  BY <1>3, <1>5, <1>6
<1>8. d = <<>>
  BY <1>7, EmptySeq
<1>9. ec_received = ec_sent
  BY <1>3, <1>4, <1>8, ConcatEmptySeq
<1>10. ec_closed' /\ ec_received' = ec_sent' /\ ~Ec!Framed' /\ ec_outcome' # "error"
  BY <1>1, <1>2, <1>9 DEF Ec!Framed
<1>11. /\ ec_sent' = ec_received' \o d /\ ec_read_buf' = <<>>
       /\ ec_wire' \o ec_flight' = Ec!StreamOf(d, Len(ec_received'))
       /\ ec_read_pos' = Len(ec_received')
  BY <1>2, <1>3
<1> QED BY <1>10, <1>11 DEF EcKept

LEMMA EcStep == EcIInv /\ [Ec!Next]_(Ec!vars) => EcIInv'
<1> SUFFICES ASSUME EcIInv, [Ec!Next]_(Ec!vars) PROVE EcIInv'
  OBVIOUS
<1>0. Ec!TypeOK /\ Ec!TypeOK'
  BY EcTypeStep DEF EcIInv
<1> SUFFICES ASSUME ~ec_cut', ~ec_broken' PROVE EcKept'
  BY <1>0 DEF EcIInv
<1>1. ASSUME ~ec_cut, ~ec_broken PROVE EcKept
  BY <1>1 DEF EcIInv
<1>2. ASSUME NEW c \in Writes, Ec!Write(c) PROVE EcKept'
  <2>1. ~ec_cut /\ ~ec_broken
    <3>1. ec_broken' = ec_broken /\ (ec_cut => ec_cut')
      BY <1>2, Zenon DEF Ec!Write
    <3> QED BY <3>1
  <2> QED BY <1>0, <1>1, <1>2, <2>1, EcWriteKeeps
<1>3. CASE Ec!Close
  <2>1. /\ ec_closed' = TRUE /\ ~ec_closed
        /\ UNCHANGED <<ec_method, ec_sent, ec_cut, ec_empty, ec_flight, ec_wire, ec_read_buf, ec_read_pos, ec_received, ec_broken, ec_outcome>>
    BY <1>3 DEF Ec!Close
  <2>2. EcKept
    BY <1>1, <2>1
  <2>3. Ec!Framed' <=> Ec!Framed
    BY <2>1 DEF Ec!Framed
  <2> QED BY <2>1, <2>2, <2>3 DEF EcKept
<1>4. ASSUME NEW n \in 1 .. Len(ec_flight), Ec!Arrive(n) PROVE EcKept'
  <2>1. ~ec_cut /\ ~ec_broken
    BY <1>4 DEF Ec!Arrive
  <2> QED BY <1>0, <1>1, <1>4, <2>1, EcArriveKeeps
<1>5. CASE Ec!ReadBuffered
  <2>1. ~ec_cut /\ ~ec_broken
    BY <1>5 DEF Ec!ReadBuffered
  <2> QED BY <1>0, <1>1, <1>5, <2>1, EcReadBufferedKeeps
<1>6. CASE Ec!ReadFrame
  <2>1. ~ec_cut /\ ~ec_broken
    BY <1>6 DEF Ec!ReadFrame
  <2> QED BY <1>0, <1>1, <1>6, <2>1, EcReadFrameKeeps
<1>7. CASE Ec!ReadFails
  <2>1. ~ec_cut /\ ~ec_broken
    BY <1>7 DEF Ec!ReadFails
  <2> QED BY <1>0, <1>1, <1>7, <2>1, EcReadFailsKeeps
<1>8. CASE Ec!ReadTimesOut
  BY <1>8 DEF Ec!ReadTimesOut
<1>9. CASE Ec!ReadStream
  <2>1. ~ec_cut /\ ~ec_broken
    BY <1>9 DEF Ec!ReadStream
  <2> QED BY <1>0, <1>1, <1>9, <2>1, EcReadStreamKeeps
<1>10. CASE Ec!ReadEnd
  <2>1. ~ec_cut /\ ~ec_broken
    BY <1>10 DEF Ec!ReadEnd
  <2> QED BY <1>0, <1>1, <1>10, <2>1, EcReadEndKeeps
<1>11. CASE UNCHANGED Ec!vars
  <2>1. ~ec_cut /\ ~ec_broken
    BY <1>11 DEF Ec!vars
  <2>2. EcKept
    BY <1>1, <2>1
  <2> QED BY <1>11, <2>2 DEF EcKept, Ec!vars, Ec!Framed
<1> QED BY <1>2, <1>3, <1>4, <1>5, <1>6, <1>7, <1>8, <1>9, <1>10, <1>11 DEF Ec!Next

LEMMA EcSafe == EcIInv => Ec!TypeOK /\ Ec!StreamIntact
<1> SUFFICES ASSUME EcIInv, ~ec_cut, ~ec_broken PROVE Ec!TypeOK /\ Ec!StreamIntact
  BY DEF EcIInv, Ec!StreamIntact
<1>1. Ec!TypeOK /\ EcKept
  BY DEF EcIInv
<1>2. ec_received \in Seq(Ec!Byte) /\ ec_read_buf \in Seq(Ec!Byte) /\ ec_sent \in Seq(Ec!Byte)
  BY <1>1 DEF Ec!TypeOK
<1> DEFINE g == ec_received \o ec_read_buf
<1>3. g \in Seq(Ec!Byte)
  BY <1>2, ConcatProperties
<1>4. \E d \in Seq(Ec!Byte) : ec_sent = g \o d
  <2>1. CASE Ec!Framed
    BY <1>1, <2>1 DEF EcKept
  <2>2. CASE ~Ec!Framed
    <3>1. ec_read_buf = <<>> /\ \E d \in Seq(Ec!Byte) : ec_sent = ec_received \o d
      BY <1>1, <2>2 DEF EcKept
    <3>2. g = ec_received
      BY <1>2, <3>1, ConcatEmptySeq
    <3> QED BY <3>1, <3>2
  <2> QED BY <2>1, <2>2
<1>5. PICK d \in Seq(Ec!Byte) : ec_sent = g \o d
  BY <1>4
<1> HIDE DEF g
<1>6. Len(g) \in Nat /\ Len(d) \in Nat /\ Len(g \o d) = Len(g) + Len(d)
  BY <1>3, LenProperties, ConcatProperties
<1>7. Len(g) <= Len(ec_sent)
  BY <1>5, <1>6
<1>8. SubSeq(ec_sent, 1, Len(g)) = g
  <2>1. <<>> \in Seq(Ec!Byte) /\ Len(ec_sent) >= Len(g)
    BY <1>2, <1>6, <1>7, LenProperties
  <2>2. ec_sent \o <<>> = g \o d => SubSeq(ec_sent, 1, Len(g)) = g
    BY <1>2, <1>3, <2>1, EcPrefix
  <2>3. ec_sent \o <<>> = ec_sent
    BY <1>2, ConcatEmptySeq
  <2> QED BY <1>5, <2>2, <2>3
<1>9. Ec!IsPrefixOf(ec_received \o ec_read_buf, ec_sent)
  BY <1>7, <1>8 DEF Ec!IsPrefixOf, g
<1> QED BY <1>1, <1>9 DEF EcKept, Ec!StreamIntact

LEMMA EcHolds == Spec => []EcIInv
<1>1. Init => EcIInv
  BY EcInit DEF Init
<1>2. EcIInv /\ [Next]_vars => EcIInv'
  <2>1. [Next]_vars => [Ec!Next]_(Ec!vars)
    BY Zenon DEF Next, vars, ec, Ec!vars
  <2> QED BY <2>1, EcStep
<1> QED BY <1>1, <1>2, PTL DEF Spec

-----------------------------------------------------------------------------
(* The console: parts are reported and shown one at a time, each of the text at *)
(* hand and by the thread that holds the writer.                                *)

LEMMA CoLimits == {MaxTexts, MaxTail} \subseteq Nat
BY BoundsAreCounts

LEMMA CoNone == None \notin Users
BY NoneIsNobody

\* The instance counts as the library of proved facts does.
LEMMA CoCardinality == \A S : Co!Cardinality(S) = Cardinality(S)
BY Zenon DEF Co!Cardinality, Cardinality

CoPieces == [text : Nat, by : Users, part : {"lines", "tail", "long tail"}]

\* The parts of n texts, the last of them printed by w.
CoOf(v, n, w) ==
  \A i \in DOMAIN v : /\ v[i].text >= 1 /\ v[i].text <= n
                      /\ v[i].text = n => v[i].by = w
CoOrdered(v) ==
  \A i, j \in DOMAIN v :
    /\ i < j => v[i].text <= v[j].text
    /\ v[i].text = v[j].text => v[i].by = v[j].by
CoGood(s, v, n, w) ==
  /\ s \in Seq(CoPieces) /\ v \in Seq(CoPieces)
  /\ CoOf(s, n, w) /\ CoOf(v, n, w) /\ CoOrdered(v) /\ Co!ShownOf(s, v)

LEMMA CoPlaces ==
  ASSUME NEW s \in Seq(CoPieces)
  PROVE  /\ DOMAIN s = 1 .. Len(s) /\ Len(s) \in Nat
         /\ IsFiniteSet(Co!Kept(s)) /\ Cardinality(Co!Kept(s)) \in Nat
         /\ \A i \in Co!Kept(s) : {k \in Co!Kept(s) : k <= i} \subseteq Co!Kept(s)
         /\ \A i \in Co!Kept(s) : Cardinality({k \in Co!Kept(s) : k <= i}) \in 1 .. Cardinality(Co!Kept(s))
<1>1. DOMAIN s = 1 .. Len(s) /\ Len(s) \in Nat
  BY LenProperties
<1>2. Co!Kept(s) \subseteq 1 .. Len(s)
  BY <1>1 DEF Co!Kept
<1>3. IsFiniteSet(Co!Kept(s))
  <2>1. IsFiniteSet(1 .. Len(s))
    BY <1>1, FS_Interval
  <2> QED BY <1>2, <2>1, FS_Subset
<1>4. Cardinality(Co!Kept(s)) \in Nat
  BY <1>3, FS_CardinalityType
<1>5. ASSUME NEW i \in Co!Kept(s)
      PROVE  Cardinality({k \in Co!Kept(s) : k <= i}) \in 1 .. Cardinality(Co!Kept(s))
  <2> DEFINE K == {k \in Co!Kept(s) : k <= i}
  <2>1. K \subseteq Co!Kept(s) /\ i \in K
    BY <1>1, <1>2
  <2>2. IsFiniteSet(K) /\ Cardinality(K) <= Cardinality(Co!Kept(s))
    BY <1>3, <2>1, FS_Subset
  <2>3. Cardinality(K) \in Nat /\ Cardinality(K) # 0
    BY <2>1, <2>2, FS_CardinalityType, FS_EmptySet
  <2> QED BY <1>4, <2>2, <2>3
<1> QED BY <1>1, <1>3, <1>4, <1>5

CoRegrouped(s, t, u) == (s \o t) \o u = s \o (t \o u)

LEMMA CoRegroup == \A s, t, u \in Seq(CoPieces) : CoRegrouped(s, t, u)
BY ConcatAssociative DEF CoRegrouped

LEMMA CoAppend ==
  ASSUME NEW s \in Seq(CoPieces), NEW x \in CoPieces
  PROVE  /\ Append(s, x) \in Seq(CoPieces) /\ Len(Append(s, x)) = Len(s) + 1
         /\ DOMAIN Append(s, x) = 1 .. Len(s) + 1 /\ Len(s) \in Nat /\ DOMAIN s = 1 .. Len(s)
         /\ \A i \in 1 .. Len(s) : Append(s, x)[i] = s[i]
         /\ Append(s, x)[Len(s) + 1] = x
         /\ Append(s, x) = s \o <<x>>
BY AppendProperties, AppendIsConcat, LenProperties

\* One part more is reported, and shown unless it is a long tail.
LEMMA CoSnoc ==
  ASSUME NEW s, NEW v, NEW n \in Nat, NEW w, NEW x \in CoPieces, CoGood(s, v, n, w),
         x.text = n, n >= 1, x.by = w
  PROVE  CoGood(Append(s, x), IF x.part = "long tail" THEN v ELSE Append(v, x), n, w)
<1> DEFINE t == Append(s, x)
           u == Append(v, x)
           K == Co!Kept(s)
           m == Len(s) + 1
<1>s. s \in Seq(CoPieces) /\ v \in Seq(CoPieces)
  BY DEF CoGood
<1>1. /\ t \in Seq(CoPieces) /\ DOMAIN t = 1 .. m /\ DOMAIN s = 1 .. Len(s) /\ Len(s) \in Nat
      /\ \A i \in 1 .. Len(s) : t[i] = s[i]
      /\ t[m] = x
  BY <1>s, CoAppend
<1>2. /\ u \in Seq(CoPieces) /\ DOMAIN u = 1 .. Len(v) + 1 /\ DOMAIN v = 1 .. Len(v)
      /\ Len(v) \in Nat /\ Len(u) = Len(v) + 1
      /\ \A i \in 1 .. Len(v) : u[i] = v[i]
      /\ u[Len(v) + 1] = x
  BY <1>s, CoAppend
<1> HIDE DEF t, u
<1>3. CoOf(t, n, w)
  BY <1>1 DEF CoGood, CoOf
<1>4. CoOf(u, n, w)
  BY <1>2 DEF CoGood, CoOf
<1>5. CoOrdered(u)
  <2> SUFFICES ASSUME NEW i \in 1 .. Len(v) + 1, NEW j \in 1 .. Len(v) + 1
               PROVE  /\ i < j => u[i].text <= u[j].text
                      /\ u[i].text = u[j].text => u[i].by = u[j].by
    BY <1>2, Zenon DEF CoOrdered
  <2>1. (i \in 1 .. Len(v) \/ i = Len(v) + 1) /\ (j \in 1 .. Len(v) \/ j = Len(v) + 1)
    BY <1>2
  <2>2. \A k \in 1 .. Len(v) : v[k].text <= n /\ (v[k].text = n => v[k].by = w)
    BY <1>2 DEF CoGood, CoOf
  <2>3. CoOrdered(v)
    BY DEF CoGood
  <2>4. CASE i \in 1 .. Len(v) /\ j \in 1 .. Len(v)
    BY <1>2, <2>3, <2>4 DEF CoOrdered
  <2>5. CASE i \in 1 .. Len(v) /\ j = Len(v) + 1
    BY <1>2, <2>2, <2>5
  <2>6. CASE i = Len(v) + 1 /\ j \in 1 .. Len(v)
    BY <1>2, <2>2, <2>6
  <2>7. CASE i = Len(v) + 1 /\ j = Len(v) + 1
    BY <1>2, <2>7
  <2> QED BY <2>1, <2>4, <2>5, <2>6, <2>7
<1>k. /\ Co!Kept(t) \ {m} = K /\ (m \in Co!Kept(t) <=> x.part # "long tail") /\ m \notin K
      /\ \A i \in K : i \in 1 .. Len(s) /\ i < m
  <2>1. K = {i \in 1 .. Len(s) : s[i].part # "long tail"}
    BY <1>1 DEF Co!Kept
  <2>2. Co!Kept(t) = {i \in 1 .. m : t[i].part # "long tail"}
    BY <1>1 DEF Co!Kept
  <2>3. m \in Nat /\ m \notin 1 .. Len(s) /\ m \in 1 .. m /\ 1 .. m = (1 .. Len(s)) \cup {m}
        /\ \A i \in 1 .. Len(s) : i < m
    BY <1>1
  <2> HIDE DEF K, m
  <2>4. \A i : i \in Co!Kept(t) \ {m} <=> i \in K
    BY <1>1, <2>1, <2>2, <2>3
  <2>5. m \in Co!Kept(t) <=> x.part # "long tail"
    BY <1>1, <2>2, <2>3
  <2>6. m \notin K /\ \A i \in K : i \in 1 .. Len(s) /\ i < m
    BY <2>1, <2>3
  <2> QED BY <2>4, <2>5, <2>6
<1>m. m \in Nat /\ \A i \in K : i \in Nat /\ i < m
  <2>1. m \in Nat /\ 1 .. Len(s) \subseteq Nat
    BY <1>1
  <2> HIDE DEF m, K
  <2> QED BY <1>k, <2>1
<1>p. /\ IsFiniteSet(K) /\ Cardinality(K) \in Nat
      /\ \A i \in K : Cardinality({k \in K : k <= i}) \in 1 .. Cardinality(K)
  BY <1>s, CoPlaces
<1>v. Len(v) = Cardinality(K) /\ \A i \in K : v[Cardinality({k \in K : k <= i})] = s[i]
  BY CoCardinality DEF CoGood, Co!ShownOf
<1> HIDE DEF K
<1>6. CASE x.part = "long tail"
  <2>1. Co!Kept(t) = K
    BY <1>6, <1>k
  <2>2. Co!ShownOf(t, v)
    BY CoCardinality, <1>1, <1>k, <1>v, <2>1 DEF Co!ShownOf
  <2> QED BY <1>1, <1>3, <1>6, <2>2 DEF CoGood, t
<1>7. CASE x.part # "long tail"
  <2>1. Co!Kept(t) = K \cup {m}
    BY <1>7, <1>k
  <2>2. Cardinality(K \cup {m}) = Cardinality(K) + 1
    BY <1>k, <1>p, FS_AddElement
  <2>3. \A i \in K : {k \in K \cup {m} : k <= i} = {k \in K : k <= i}
    <3> SUFFICES ASSUME NEW i \in K PROVE {k \in K \cup {m} : k <= i} = {k \in K : k <= i}
      OBVIOUS
    <3>1. i \in Nat /\ m \in Nat /\ i < m
      BY <1>m, Zenon
    <3> HIDE DEF m
    <3> QED BY <3>1
  <2>4. {k \in K \cup {m} : k <= m} = K \cup {m}
    <3>1. m \in Nat /\ \A k \in K : k \in Nat /\ k < m
      BY <1>m, Zenon
    <3> HIDE DEF m
    <3> QED BY <3>1
  <2>5. u[Cardinality({k \in K \cup {m} : k <= m})] = x
    BY <1>2, <1>v, <2>2, <2>4
  <2>6. ASSUME NEW i \in K PROVE u[Cardinality({k \in K \cup {m} : k <= i})] = t[i]
    <3> DEFINE c == Cardinality({k \in K : k <= i})
    <3>1. c \in 1 .. Len(v) /\ v[c] = s[i] /\ t[i] = s[i]
      BY <1>1, <1>k, <1>p, <1>v
    <3>2. Cardinality({k \in K \cup {m} : k <= i}) = c
      BY <2>3
    <3> HIDE DEF c
    <3> QED BY <1>2, <3>1, <3>2
  <2>7. Co!ShownOf(t, u)
    <3>1. Len(u) = Cardinality(K \cup {m})
      BY <1>2, <1>v, <2>2
    <3>2. \A i \in K \cup {m} : u[Cardinality({k \in K \cup {m} : k <= i})] = t[i]
      BY <1>1, <2>5, <2>6
    <3> QED BY CoCardinality, <2>1, <3>1, <3>2, Zenon DEF Co!ShownOf
  <2> QED BY <1>1, <1>2, <1>3, <1>4, <1>5, <1>7, <2>7 DEF CoGood, t, u
<1> QED BY <1>6, <1>7

CoIInv ==
  /\ co_writer \in Users \cup {None} /\ co_texts \in 0 .. MaxTexts /\ co_left \in Seq(Co!Texts)
  /\ co_writer # None => co_texts >= 1
  /\ \E w : CoGood(co_said, co_shown, co_texts, w) /\ (co_writer # None => w = co_writer)

LEMMA CoInit == Co!Init => CoIInv
<1> SUFFICES ASSUME Co!Init PROVE CoIInv
  OBVIOUS
<1>1. <<>> \in Seq(CoPieces) /\ <<>> \in Seq(Co!Texts) /\ DOMAIN <<>> = {} /\ Len(<<>>) = 0
  OBVIOUS
<1>2. Co!Kept(<<>>) = {}
  BY <1>1 DEF Co!Kept
<1>3. Co!ShownOf(<<>>, <<>>)
  BY CoCardinality, <1>1, <1>2, FS_EmptySet DEF Co!ShownOf
<1>4. CoOf(<<>>, 0, None) /\ CoOrdered(<<>>)
  BY <1>1, Zenon DEF CoOf, CoOrdered
<1>5. CoGood(co_said, co_shown, co_texts, None) /\ co_writer = None
  BY <1>1, <1>3, <1>4 DEF Co!Init, CoGood
<1>6. co_writer \in Users \cup {None} /\ co_texts \in 0 .. MaxTexts /\ co_left \in Seq(Co!Texts)
  BY <1>1, CoLimits DEF Co!Init
<1> QED BY <1>5, <1>6 DEF CoIInv

LEMMA CoSafe == CoIInv => Co!TypeOK /\ Co!TextsAreShown
<1> SUFFICES ASSUME CoIInv PROVE Co!TypeOK /\ Co!TextsAreShown
  OBVIOUS
<1>1. PICK w : CoGood(co_said, co_shown, co_texts, w)
  BY DEF CoIInv
<1>2. Co!TextsAreShown
  BY <1>1 DEF CoGood, CoOrdered, Co!TextsAreShown
<1>3. \A i \in DOMAIN co_said : co_said[i].text \in 1 .. co_texts /\ co_said[i].by \in Users
  <2> SUFFICES ASSUME NEW i \in DOMAIN co_said PROVE co_said[i].text \in 1 .. co_texts /\ co_said[i].by \in Users
    OBVIOUS
  <2>1. co_said[i] \in CoPieces
    BY <1>1, ElementOfSeq, LenProperties DEF CoGood
  <2>2. co_said[i].text \in Nat /\ co_said[i].by \in Users
    BY <2>1 DEF CoPieces
  <2>3. co_said[i].text >= 1 /\ co_said[i].text <= co_texts
    BY <1>1 DEF CoGood, CoOf
  <2>4. co_texts \in Nat
    BY CoLimits DEF CoIInv
  <2> QED BY <2>2, <2>3, <2>4
<1>4. Co!TypeOK
  BY <1>3 DEF CoIInv, Co!TypeOK
<1> QED BY <1>2, <1>4

\* A piece of the text at hand is reported and shown.
LEMMA CoWrite ==
  ASSUME CoIInv, NEW t \in Users, Co!Write(t)
  PROVE  CoGood(co_said', co_shown', co_texts', co_writer')
<1> DEFINE piece == Head(co_left)
           ls == Co!Lines(piece)
           rs == Co!Rest(piece)
           long == Co!LongTail(piece)
           l == [text |-> co_texts, by |-> co_writer, part |-> "lines"]
           r == [text |-> co_texts, by |-> co_writer, part |-> IF long THEN "long tail" ELSE "tail"]
<1>1. /\ co_writer = t /\ co_texts \in Nat /\ co_texts >= 1 /\ CoGood(co_said, co_shown, co_texts, t)
      /\ co_texts' = co_texts /\ co_writer' = t
  BY CoLimits, CoNone DEF Co!Write, CoIInv
<1>2. /\ co_said' = co_said \o ls \o rs
      /\ co_shown' = co_shown \o (IF long THEN ls ELSE ls \o rs)
  BY DEF Co!Write, Co!Taken
<1>3. ls = <<>> \/ ls = <<l>>
  BY DEF Co!Lines
<1>4. rs = <<>> \/ rs = <<r>>
  BY DEF Co!Rest
<1>5. l \in CoPieces /\ r \in CoPieces /\ l.text = co_texts /\ r.text = co_texts /\ l.by = t /\ r.by = t
      /\ l.part # "long tail" /\ (r.part = "long tail" <=> long)
  BY <1>1 DEF CoPieces
<1> HIDE DEF ls, rs, l, r, long
<1> DEFINE s1 == co_said \o ls
           v1 == co_shown \o ls
<1>6. CoGood(s1, v1, co_texts, t)
  <2>1. CASE ls = <<>>
    BY <1>1, <2>1, ConcatEmptySeq DEF CoGood
  <2>2. CASE ls = <<l>>
    <3>1. CoGood(Append(co_said, l), Append(co_shown, l), co_texts, t)
      BY <1>1, <1>5, CoSnoc
    <3>2. s1 = Append(co_said, l) /\ v1 = Append(co_shown, l)
      BY <1>1, <1>5, <2>2, CoAppend DEF CoGood
    <3> QED BY <3>1, <3>2
  <2> QED BY <1>3, <2>1, <2>2
<1>7. /\ ls \in Seq(CoPieces) /\ rs \in Seq(CoPieces) /\ co_said \in Seq(CoPieces)
      /\ co_shown \in Seq(CoPieces) /\ s1 \in Seq(CoPieces) /\ v1 \in Seq(CoPieces)
  <2>1. <<>> \in Seq(CoPieces) /\ <<l>> \in Seq(CoPieces) /\ <<r>> \in Seq(CoPieces)
    <3>1. \A x \in CoPieces : <<x>> \in Seq(CoPieces)
      OBVIOUS
    <3>2. <<>> \in Seq(CoPieces)
      OBVIOUS
    <3> QED BY <1>5, <3>1, <3>2, Zenon
  <2>2. ls \in Seq(CoPieces) /\ rs \in Seq(CoPieces)
    BY <1>3, <1>4, <2>1
  <2> QED BY <1>1, <1>6, <2>2 DEF CoGood
<1>8. co_shown \o (ls \o rs) = v1 \o rs
  <2>r. CoRegrouped(co_shown, ls, rs)
    BY <1>7, CoRegroup
  <2> QED BY <2>r DEF CoRegrouped
<1> HIDE DEF s1, v1
<1>9. /\ co_said' = s1 \o rs
      /\ co_shown' = IF long THEN v1 ELSE v1 \o rs
  BY <1>2, <1>8 DEF s1, v1
<1>10. CASE rs = <<>>
  BY <1>1, <1>6, <1>7, <1>9, <1>10, ConcatEmptySeq
<1>11. CASE rs = <<r>>
  <2>1. CoGood(Append(s1, r), IF long THEN v1 ELSE Append(v1, r), co_texts, t)
    BY <1>1, <1>5, <1>6, CoSnoc
  <2>2. s1 \o <<r>> = Append(s1, r) /\ v1 \o <<r>> = Append(v1, r)
    BY <1>5, <1>7, CoAppend
  <2> QED BY <1>1, <1>9, <1>11, <2>1, <2>2
<1> QED BY <1>4, <1>10, <1>11

LEMMA CoStep == CoIInv /\ [Co!Next]_(Co!vars) => CoIInv'
<1> SUFFICES ASSUME CoIInv, [Co!Next]_(Co!vars) PROVE CoIInv'
  OBVIOUS
<1>t. /\ co_writer \in Users \cup {None} /\ co_texts \in 0 .. MaxTexts /\ co_left \in Seq(Co!Texts)
      /\ co_writer # None => co_texts >= 1 /\ MaxTexts \in Nat
  BY CoLimits DEF CoIInv
<1>n. co_texts \in Nat /\ MaxTexts \in Nat
  <2>1. MaxTexts \in Nat
    BY CoLimits
  <2>2. co_texts \in 0 .. MaxTexts
    BY <1>t, Zenon
  <2> QED BY <2>1, <2>2
<1>1. ASSUME NEW t \in Users, Co!PrintText(t) PROVE CoIInv'
  <2>1. PICK text \in Co!Texts, end \in {<<>>, <<Co!LineBreak>>} : co_left' = <<text>> \o end
    BY <1>1 DEF Co!PrintText
  <2>2. Co!LineBreak \in Co!Texts
    BY CoLimits DEF Co!LineBreak, Co!Texts
  <2>3. <<text>> \in Seq(Co!Texts) /\ end \in Seq(Co!Texts)
    <3>1. \A x \in Co!Texts : <<x>> \in Seq(Co!Texts)
      OBVIOUS
    <3>2. <<>> \in Seq(Co!Texts)
      OBVIOUS
    <3> QED BY <2>2, <3>1, <3>2, Zenon
  <2>4. co_left' \in Seq(Co!Texts)
    BY <2>1, <2>3, ConcatProperties
  <2>5. /\ co_writer' = t /\ co_texts' = co_texts + 1 /\ co_texts' \in 0 .. MaxTexts /\ co_texts' >= 1
        /\ co_said' = co_said /\ co_shown' = co_shown
    <3>1. co_texts < MaxTexts /\ co_writer' = t /\ co_texts' = co_texts + 1 /\ co_said' = co_said /\ co_shown' = co_shown
      BY <1>1 DEF Co!PrintText
    <3>2. \A a, b \in Nat : a < b => a + 1 \in 0 .. b /\ a + 1 >= 1
      OBVIOUS
    <3>4. co_texts + 1 \in 0 .. MaxTexts /\ co_texts + 1 >= 1
      BY <1>n, <3>1, <3>2, Zenon
    <3> QED BY <3>1, <3>4, Zenon
  <2>6. PICK w : CoGood(co_said, co_shown, co_texts, w)
    BY DEF CoIInv
  <2>7. ASSUME NEW s \in Seq(CoPieces), CoOf(s, co_texts, w) PROVE CoOf(s, co_texts + 1, t)
    <3>1. \A i \in DOMAIN s : s[i].text \in Nat
      <4> SUFFICES ASSUME NEW i \in DOMAIN s PROVE s[i].text \in Nat
        OBVIOUS
      <4>1. s[i] \in CoPieces
        BY ElementOfSeq, LenProperties
      <4> QED BY <4>1 DEF CoPieces
    <3> QED BY <1>t, <2>7, <3>1 DEF CoOf
  <2>8. CoGood(co_said', co_shown', co_texts', t)
    BY <2>5, <2>6, <2>7 DEF CoGood
  <2> QED BY <2>4, <2>5, <2>8 DEF CoIInv
<1>2. ASSUME NEW t \in Users, Co!Write(t) PROVE CoIInv'
  <2>1. CoGood(co_said', co_shown', co_texts', co_writer')
    BY <1>2, CoWrite
  <2>2. co_left' \in Seq(Co!Texts)
    BY <1>2, <1>t, HeadTailProperties DEF Co!Write
  <2> QED BY <1>2, <1>t, <2>1, <2>2 DEF Co!Write, CoIInv
<1>3. ASSUME NEW t \in Users, Co!Unlock(t) PROVE CoIInv'
  BY <1>3, <1>t DEF Co!Unlock, CoIInv
<1>4. CASE UNCHANGED Co!vars
  BY <1>4 DEF Co!vars, CoIInv
<1> QED BY <1>1, <1>2, <1>3, <1>4 DEF Co!Next

LEMMA CoHolds == Spec => []CoIInv
<1>1. Init => CoIInv
  BY CoInit DEF Init
<1>2. CoIInv /\ [Next]_vars => CoIInv'
  <2>1. [Next]_vars => [Co!Next]_(Co!vars)
    BY Zenon DEF Next, vars, co, Co!vars
  <2> QED BY <2>1, CoStep
<1> QED BY <1>1, <1>2, PTL DEF Spec

-----------------------------------------------------------------------------
(* The shared TCP connection: a write is under way, unanswered or answered, and so *)
(* no more answers wait than there were writes.                                    *)

TcWriting == {u \in Users : tc_op[u] = "write"}

TcTypes ==
  /\ tc_kind \in {"plain", "encrypted"}
  /\ tc_lock \in [Tc!Locks -> Users \cup {None}]
  /\ tc_op \in [Users -> Tc!Calls \cup {"flush", "none"}]
  /\ tc_inside \subseteq Users /\ tc_limited \subseteq Users
  /\ tc_timed \in BOOLEAN /\ tc_closed \in BOOLEAN
  /\ tc_writes \in 0 .. MaxWrites /\ tc_asked \in Nat /\ tc_inbox \in Nat

TcCounted ==
  /\ IsFiniteSet(TcWriting)
  /\ Cardinality(TcWriting) + tc_asked + tc_inbox <= tc_writes

TcIInv == TcTypes /\ TcCounted

LEMMA TcLimits == MaxWrites \in Nat
BY BoundsAreCounts

LEMMA TcInit == Tc!Init => TcIInv
<1> SUFFICES ASSUME Tc!Init PROVE TcIInv
  OBVIOUS
<1>1. TcTypes
  <2>1. tc_lock \in [Tc!Locks -> Users \cup {None}] /\ tc_op \in [Users -> Tc!Calls \cup {"flush", "none"}]
    BY DEF Tc!Init
  <2>2. tc_writes \in 0 .. MaxWrites
    BY TcLimits DEF Tc!Init
  <2> QED BY <2>1, <2>2 DEF Tc!Init, TcTypes
<1>2. TcWriting = {}
  BY DEF Tc!Init, TcWriting
<1> QED BY <1>1, <1>2, FS_EmptySet DEF Tc!Init, TcIInv, TcCounted

\* A call that is not a write begins or ends.
LEMMA TcOther ==
  ASSUME TcIInv, NEW u \in Users, NEW call, call # "write", tc_op[u] # "write",
         tc_op' = [tc_op EXCEPT ![u] = call]
  PROVE  TcWriting' = TcWriting
BY DEF TcIInv, TcTypes, TcWriting

LEMMA TcGoesOn ==
  ASSUME TcIInv, NEW u \in Users, NEW next \in {"flush", "none"}, Tc!GoOn(u, next)
  PROVE  /\ tc_lock' \in [Tc!Locks -> Users \cup {None}]
         /\ tc_op' \in [Users -> Tc!Calls \cup {"flush", "none"}] /\ tc_inside' \subseteq Users
         /\ tc_op' = [tc_op EXCEPT ![u] = next]
         /\ tc_kind' = tc_kind /\ tc_writes' = tc_writes
BY DEF TcIInv, TcTypes, Tc!GoOn

LEMMA TcEnds ==
  ASSUME TcIInv, NEW u \in Users, Tc!Leave(u)
  PROVE  /\ tc_lock' \in [Tc!Locks -> Users \cup {None}]
         /\ tc_op' \in [Users -> Tc!Calls \cup {"flush", "none"}] /\ tc_inside' \subseteq Users
         /\ tc_op' = [tc_op EXCEPT ![u] = "none"]
         /\ tc_kind' = tc_kind /\ tc_writes' = tc_writes
BY TcGoesOn DEF Tc!Leave

LEMMA TcStep == TcIInv /\ [Tc!Next]_(Tc!vars) => TcIInv'
<1> SUFFICES ASSUME TcIInv, [Tc!Next]_(Tc!vars) PROVE TcIInv'
  OBVIOUS
<1> USE TcLimits DEF TcIInv
<1>0. /\ Cardinality(TcWriting) \in Nat /\ tc_asked \in Nat /\ tc_inbox \in Nat
      /\ tc_writes \in Nat /\ tc_writes <= MaxWrites
  BY FS_CardinalityType DEF TcCounted, TcTypes
<1>1. ASSUME NEW u \in Users, NEW call \in Tc!Calls, Tc!Start(u, call) PROVE TcIInv'
  <2>1. TcTypes'
    BY <1>1, <1>0 DEF Tc!Start, TcTypes
  <2>2. CASE call = "write"
    <3>1. TcWriting' = TcWriting \cup {u} /\ u \notin TcWriting
      BY <1>1, <2>2 DEF Tc!Start, TcWriting, TcTypes
    <3>2. /\ IsFiniteSet(TcWriting \cup {u})
          /\ Cardinality(TcWriting \cup {u}) = Cardinality(TcWriting) + 1
      BY <3>1, FS_AddElement DEF TcCounted
    <3> QED BY <1>0, <1>1, <2>1, <2>2, <3>1, <3>2 DEF Tc!Start, TcCounted
  <2>3. CASE call # "write"
    <3>1. TcWriting' = TcWriting
      BY <1>1, <2>3, TcOther DEF Tc!Start
    <3> QED BY <1>1, <2>1, <2>3, <3>1 DEF Tc!Start, TcCounted
  <2> QED BY <2>2, <2>3
<1>2. ASSUME NEW u \in Users, Tc!Enter(u) PROVE TcIInv'
  <2>1. TcTypes'
    BY <1>2 DEF Tc!Enter, TcTypes
  <2>2. TcWriting' = TcWriting
    BY <1>2 DEF Tc!Enter, TcWriting
  <2> QED BY <1>2, <2>1, <2>2 DEF Tc!Enter, TcCounted
<1>3. ASSUME NEW u \in Users, Tc!Read(u) PROVE TcIInv'
  <2>1. TcTypes'
    BY <1>0, <1>3, TcEnds DEF Tc!Read, TcTypes
  <2>2. TcWriting' = TcWriting
    BY <1>3, TcEnds, TcOther DEF Tc!Read
  <2>3. tc_asked' = tc_asked /\ tc_writes' = tc_writes /\ tc_inbox' <= tc_inbox /\ tc_inbox' \in Nat
    BY <1>0, <1>3, TcEnds DEF Tc!Read
  <2> QED BY <1>0, <2>1, <2>2, <2>3 DEF TcCounted
<1>4. ASSUME NEW u \in Users, Tc!Write(u) PROVE TcIInv'
  <2>0. PICK next \in {"flush", "none"} : Tc!GoOn(u, next)
    BY <1>4 DEF Tc!Write, Tc!Leave
  <2>1. TcTypes'
    BY <1>0, <1>4, <2>0, TcGoesOn DEF Tc!Write, TcTypes
  <2>2. TcWriting' = TcWriting \ {u} /\ u \in TcWriting
    BY <1>4, <2>0, TcGoesOn DEF Tc!Write, TcWriting, TcTypes
  <2>3. /\ IsFiniteSet(TcWriting \ {u})
        /\ Cardinality(TcWriting \ {u}) = Cardinality(TcWriting) - 1
    BY <2>2, FS_RemoveElement DEF TcCounted
  <2>4. tc_asked' <= tc_asked + 1 /\ tc_asked' \in Nat /\ tc_inbox' = tc_inbox /\ tc_writes' = tc_writes
    BY <1>0, <1>4, <2>0, TcGoesOn DEF Tc!Write
  <2> QED BY <1>0, <2>1, <2>2, <2>3, <2>4 DEF TcCounted
<1>5. ASSUME NEW u \in Users, Tc!Flush(u) \/ Tc!Close(u) \/ Tc!SetTimeout(u) PROVE TcIInv'
  <2>1. TcTypes'
    BY <1>5, TcEnds DEF Tc!Flush, Tc!Close, Tc!SetTimeout, TcTypes
  <2>2. TcWriting' = TcWriting
    BY <1>5, TcEnds, TcOther DEF Tc!Flush, Tc!Close, Tc!SetTimeout
  <2>3. tc_asked' = tc_asked /\ tc_inbox' = tc_inbox /\ tc_writes' = tc_writes
    BY <1>5, TcEnds DEF Tc!Flush, Tc!Close, Tc!SetTimeout
  <2> QED BY <2>1, <2>2, <2>3 DEF TcCounted
<1>6. CASE Tc!Answer
  <2>1. /\ tc_asked > 0 /\ tc_asked' = tc_asked - 1 /\ tc_inbox' = tc_inbox + 1
        /\ tc_writes' = tc_writes
    BY <1>6 DEF Tc!Answer
  <2>2. tc_asked' \in Nat /\ tc_inbox' \in Nat
    BY <1>0, <2>1
  <2>3. TcTypes'
    BY <1>6, <2>2 DEF Tc!Answer, TcTypes
  <2>4. TcWriting' = TcWriting
    BY <1>6 DEF Tc!Answer, TcWriting
  <2>5. Cardinality(TcWriting) + (tc_asked - 1) + (tc_inbox + 1) <= tc_writes
    BY <1>0 DEF TcCounted
  <2> QED BY <2>1, <2>3, <2>4, <2>5 DEF TcCounted
<1>8. CASE Tc!PeerCloses
  <2>1. TcTypes' /\ TcWriting' = TcWriting
    BY <1>8 DEF Tc!PeerCloses, TcTypes, TcWriting
  <2> QED BY <1>8, <2>1 DEF Tc!PeerCloses, TcCounted
<1>7. CASE UNCHANGED Tc!vars
  BY <1>7 DEF Tc!vars, TcTypes, TcCounted, TcWriting
<1> QED BY <1>1, <1>2, <1>3, <1>4, <1>5, <1>6, <1>7, <1>8, Zenon DEF Tc!Next, Tc!Go

LEMMA TcHolds == Spec => []TcIInv
<1>1. Init => TcIInv
  BY TcInit DEF Init
<1>2. TcIInv /\ [Next]_vars => TcIInv'
  <2>1. [Next]_vars => [Tc!Next]_(Tc!vars)
    BY Zenon DEF Next, vars, tc, Tc!vars
  <2> QED BY <2>1, TcStep
<1> QED BY <1>1, <1>2, PTL DEF Spec

LEMMA TcTypeOK == TcIInv => Tc!TypeOK
<1> SUFFICES ASSUME TcIInv PROVE Tc!TypeOK
  OBVIOUS
<1>1. Cardinality(TcWriting) \in Nat /\ tc_asked \in Nat /\ tc_inbox \in Nat /\ tc_writes \in Nat
  BY TcLimits, FS_CardinalityType DEF TcIInv, TcCounted, TcTypes
<1>2. tc_asked \in 0 .. tc_writes /\ tc_inbox \in 0 .. tc_writes
  BY <1>1 DEF TcIInv, TcCounted
<1> QED BY <1>2 DEF TcIInv, TcTypes, Tc!TypeOK

-----------------------------------------------------------------------------
(* What the invariants say of the types.                                       *)

LEMMA TsTypeOK == TsIInv => Ts!TypeOK
<1> SUFFICES ASSUME TsIInv PROVE Ts!TypeOK
  OBVIOUS
<1>1. \A c \in Conns : Len(ts_told[c]) <= 1 /\ Len(ts_to_target[c]) <= 2
  <2> SUFFICES ASSUME NEW c \in Conns PROVE Len(ts_told[c]) <= 1 /\ Len(ts_to_target[c]) <= 2
    OBVIOUS
  <2>1. ts_told[c] \in TsTold /\ ts_to_target[c] \in TsPassed
    BY DEF TsIInv, TsTypes
  <2> QED BY <2>1, TsSmall, Zenon
<1> QED BY <1>1 DEF TsIInv, TsTypes, Ts!TypeOK

LEMMA CoTypeOK == CoIInv => Co!TypeOK
<1> SUFFICES ASSUME CoIInv PROVE Co!TypeOK
  OBVIOUS
<1>1. PICK w : CoGood(co_said, co_shown, co_texts, w)
  BY DEF CoIInv
<1>2. \A i \in DOMAIN co_said : co_said[i].text \in 1 .. co_texts /\ co_said[i].by \in Users
  <2> SUFFICES ASSUME NEW i \in DOMAIN co_said
               PROVE  co_said[i].text \in 1 .. co_texts /\ co_said[i].by \in Users
    OBVIOUS
  <2>1. co_said[i] \in CoPieces /\ co_said[i].text >= 1 /\ co_said[i].text <= co_texts
    BY <1>1 DEF CoGood, CoOf
  <2>2. co_texts \in Nat
    BY DEF CoIInv
  <2>3. co_said[i].text \in Nat /\ co_said[i].by \in Users
    BY <2>1 DEF CoPieces
  <2>4. co_said[i].text \in 1 .. co_texts
    BY <2>1, <2>2, <2>3
  <2> QED BY <2>3, <2>4
<1> QED BY <1>2 DEF CoIInv, Co!TypeOK

-----------------------------------------------------------------------------
(* What the parts promise together.                                            *)

\* A result of runAsync goes to one place, to the script or to the window, and a
\* session's output is shown in order (AsyncResults, however the frames, the event loop
\* and the script's own runAsyncResults take turns).
THEOREM ResultsGoToOnePlace == Spec => []ResultsOnce
<1>1. AsIInv => ResultsOnce
  BY Zenon DEF AsIInv, ResultsOnce
<1> QED BY <1>1, AsHolds, PTL

\* The HTTP server's registry names exactly the handlers that run, whatever ends them,
\* and a handler that has the server to itself finds its own request in the context.
THEOREM RegistryIsKept == Spec => []HandlersAreKept
<1>1. HsIInv => HandlersAreKept
  BY Zenon DEF HsIInv, HandlersAreKept
<1> QED BY <1>1, HsHolds, PTL

\* Cookies go only to hosts they belong to and there is one of a key; a request is
\* counted once, the response returned is the one saved, and retries are bounded.
THEOREM BooksAreRight == Spec => []ClientBooksAreRight
<1>1. CjIInv /\ HrIInv => ClientBooksAreRight
  BY Zenon DEF CjIInv, HrIInv, ClientBooksAreRight
<1> QED BY <1>1, CjHolds, HrHolds, PTL

\* What was answered is so: a setting answered for is in the file unless something went
\* wrong, a true upload is the whole object, and an exit code is the child's.
THEOREM AnswersHold == Spec => []AnswersAreTrue
<1>1. CfIInv /\ SuIInv /\ PrIInv => AnswersAreTrue
  BY CfSafe, SuSafe, Zenon DEF PrIInv, AnswersAreTrue
<1> QED BY <1>1, CfHolds, SuHolds, PrHolds, PTL

\* No byte reaches a target the proxy's handler refused; tcpPipe loses and invents
\* nothing and passes on all of what the first side to finish has sent; an encrypted
\* connection decrypts to what was written, whatever the pieces it arrives in; printed
\* texts are shown whole and one after the other, but for a long tail.
THEOREM StreamsCarryTheirBytes == Spec => []BytesArrive
<1>1. TsIInv /\ PiIInv /\ EcIInv /\ CoIInv => BytesArrive
  BY TsSafe, PiSafe, EcSafe, CoSafe, Zenon DEF PiIInv, BytesArrive
<1> QED BY <1>1, TsHolds, PiHolds, EcHolds, CoHolds, PTL

=============================================================================
