------------------------------ MODULE VM_proofs ------------------------------
(***************************************************************************)
(* Theorems about the virtual machine for any programs, as long as no      *)
(* nested execute_frames is left by a Yield (NestedRunsEnd, the condition  *)
(* that the comments of call_function_value and run state).                *)
(*                                                                         *)
(* Whatever code the programs are compiled to, sensible or not, every run  *)
(* has the frame it was started for, and the depth is the number of calls  *)
(* in progress.  An event that no try statement takes gives back one level *)
(* of depth; were the frame ending already, it would do so twice.  Hence   *)
(* the invariant IInv knows that an event finds a frame that is not        *)
(* running its deferred calls, and, because an error may come out of a     *)
(* callback or a module, which of the frames below started the nested runs *)
(* (Links).                                                                *)
(*                                                                         *)
(* In code that keeps what the compiler promises (CodeIsVerified), types,  *)
(* try entries and operands are as the instructions expect.  CInv says so  *)
(* of the top frame before each step (TopOK), of what is under way         *)
(* (Travels, Ends, PauseOK), and of every frame below that it will be in   *)
(* order once it has its result back (Awaits, Chain).                      *)
(***************************************************************************)
EXTENDS VM, FiniteSetTheorems, SequenceTheorems, WellFoundedInduction, TLAPS

IsSeq(s) == \E S : s \in Seq(S)

\* The fields of a frame, whatever is in most of them.
IsFrame(f) ==
  /\ f = [fn |-> f.fn, ip |-> f.ip, e |-> f.e, count |-> f.count, defers |-> f.defers,
          try |-> f.try, resume |-> f.resume, finish |-> f.finish, base |-> f.base]
  /\ f.finish = [result |-> f.finish.result, rest |-> f.finish.rest, err |-> f.finish.err]
  /\ f.finish.result = NoFlow => f.finish = NoFinish

\* g is a later state of frame f.
SameKind(g, f) == IsFrame(g) /\ g.resume = f.resume /\ (Finishing(g) <=> Finishing(f))

Tops(fs) == {i \in DOMAIN fs : fs[i].resume = "TopLevel"}
Open(fs) == {i \in DOMAIN fs : fs[i].resume = "PushResult" /\ ~Finishing(fs[i])}
Callbacks(runs) == {i \in DOMAIN runs : runs[i].what = "callback"}

\* b[i] is the frame the i-th nested run was started for, on top of the frame that
\* started it by an instruction or by a deferred call.
Links(b, fs, runs) ==
  /\ \A i, j \in 1 .. Len(runs) : i < j => b[i] < b[j]
  /\ \A k \in 2 .. Len(fs) : fs[k].resume = "TopLevel" <=> \E i \in 1 .. Len(runs) : b[i] = k
  /\ \A i \in 1 .. Len(runs) : runs[i].call.by = "instr" <=> ~Finishing(fs[b[i] - 1])
Linked(fs, runs) == \E b \in [1 .. Len(runs) -> 2 .. Len(fs)] : Links(b, fs, runs)

Struct(fs, runs) ==
  /\ IsSeq(fs) /\ fs # <<>> /\ IsSeq(runs)
  /\ \A i \in DOMAIN fs : IsFrame(fs[i])
  /\ fs[1].resume = "TopLevel"
  /\ \A i \in DOMAIN runs : runs[i].what # "callback" => runs[i].call.by = "instr"
  /\ Linked(fs, runs)

\* An event, and an error that is waiting to become one, find a frame that is not
\* running its deferred calls.
EventOK ==
  /\ ctl \in {"event", "deliver", "returned"} => flow # NoFlow
  /\ ctl = "event" => ~Finishing(Top)
  /\ ctl = "returned" => (call.by = "instr" <=> ~Finishing(Top))
  /\ pending_throw # None => ctl = "machine" /\ ~Finishing(Top)
ParkOK ==
  awaited = "fail" =>
    /\ ctl \in {"returned", "yield", "paused"} /\ ~Finishing(Top)
    /\ ctl = "returned" => pause = "ParkedInject" /\ flow.kind = "return"

Counted == Cardinality(Tops(frames)) = Len(native) + 1
IInv ==
  /\ DepthMatches
  /\ ctl # "done" => Struct(frames, native) /\ Counted /\ EventOK /\ ParkOK

-----------------------------------------------------------------------------
(* Sequences.                                                                    *)

LEMMA SeqFacts ==
  ASSUME NEW s, IsSeq(s)
  PROVE  Len(s) \in Nat /\ DOMAIN s = 1 .. Len(s) /\ (s # <<>> => Len(s) > 0)
<1>1. PICK S : s \in Seq(S)
  BY DEF IsSeq
<1> QED BY <1>1, EmptySeq, LenProperties

LEMMA FrontFacts ==
  ASSUME NEW s, IsSeq(s), s # <<>>
  PROVE  /\ IsSeq(Front(s)) /\ Len(Front(s)) = Len(s) - 1
         /\ \A i \in 1 .. Len(s) - 1 : Front(s)[i] = s[i]
<1>1. PICK S : s \in Seq(S)
  BY DEF IsSeq
<1>2. Len(s) \in Nat /\ Len(s) > 0 /\ \A i \in 1 .. Len(s) - 1 : s[i] \in S
  BY <1>1, SeqFacts, LenProperties
<1> DEFINE n == Len(s) - 1
           u == SubSeq(s, 1, n)
<1>3. /\ u \in Seq(S)
      /\ Len(u) = IF 1 <= n THEN n - 1 + 1 ELSE 0
      /\ \A i \in 1 .. n - 1 + 1 : u[i] = s[1 + i - 1]
  BY <1>2, SubSeqProperties, 1 \in Int, n \in Int
<1>4. u = Front(s) /\ n \in Nat
  BY <1>2 DEF Front
<1> HIDE DEF u, n
<1>5. IsSeq(u)
  BY <1>3 DEF IsSeq
<1>6. Len(u) = n /\ \A i \in 1 .. n : u[i] = s[i]
  BY <1>3, <1>4
<1> QED BY <1>4, <1>5, <1>6 DEF n

LEMMA AppendFacts ==
  ASSUME NEW s, IsSeq(s), NEW x
  PROVE  /\ IsSeq(Append(s, x)) /\ Append(s, x) # <<>> /\ Len(Append(s, x)) = Len(s) + 1
         /\ \A i \in 1 .. Len(s) : Append(s, x)[i] = s[i]
         /\ Append(s, x)[Len(s) + 1] = x
<1>1. PICK S : s \in Seq(S)
  BY DEF IsSeq
<1> DEFINE T == S \cup {x}
<1>2. s \in Seq(T) /\ x \in T
  BY <1>1
<1> HIDE DEF T
<1> QED BY <1>2, AppendProperties DEF IsSeq

LEMMA WithLastFacts ==
  ASSUME NEW s, IsSeq(s), s # <<>>, NEW x
  PROVE  LET t == WithLast(s, x)
         IN  /\ IsSeq(t) /\ t # <<>> /\ Len(t) = Len(s) /\ DOMAIN t = DOMAIN s
             /\ \A i \in 1 .. Len(s) - 1 : t[i] = s[i]
             /\ t[Len(s)] = x /\ Last(t) = x
<1> DEFINE t == WithLast(s, x)
<1>1. /\ IsSeq(t) /\ t # <<>> /\ Len(t) = Len(Front(s)) + 1
      /\ \A i \in 1 .. Len(Front(s)) : t[i] = Front(s)[i]
      /\ t[Len(Front(s)) + 1] = x
  BY FrontFacts, AppendFacts DEF WithLast
<1>2. Len(s) \in Nat /\ Len(s) > 0 /\ DOMAIN s = 1 .. Len(s)
  BY SeqFacts
<1>3. DOMAIN t = 1 .. Len(t)
  BY <1>1, SeqFacts
<1> HIDE DEF t
<1>4. Len(t) = Len(s) /\ DOMAIN t = DOMAIN s /\ t[Len(s)] = x
  <2>1. Len(Front(s)) = Len(s) - 1
    BY FrontFacts
  <2>2. Len(Front(s)) + 1 = Len(s)
    BY <1>2, <2>1
  <2> QED BY <1>1, <1>2, <1>3, <2>2
<1>5. \A i \in 1 .. Len(s) - 1 : t[i] = s[i]
  BY <1>1, <1>2, FrontFacts
<1> QED BY <1>1, <1>4, <1>5 DEF t, Last

-----------------------------------------------------------------------------
(* Frames: the ways the program updates one, and what that does to the stack.    *)

LEMMA Updated ==
  ASSUME NEW f, IsFrame(f), NEW x, NEW y
  PROVE  /\ SameKind(f, f)
         /\ SameKind([f EXCEPT !.ip = x], f)
         /\ SameKind([f EXCEPT !.e = x], f)
         /\ SameKind([f EXCEPT !.count[y] = x], f)
         /\ SameKind([f EXCEPT !.defers = x], f)
         /\ SameKind([f EXCEPT !.try = x], f)
         /\ SameKind([f EXCEPT !.ip = x, !.try = y], f)
<1>1. /\ SameKind(f, f)
      /\ SameKind([f EXCEPT !.ip = x], f)
      /\ SameKind([f EXCEPT !.e = x], f)
      /\ SameKind([f EXCEPT !.count[y] = x], f)
      /\ SameKind([f EXCEPT !.defers = x], f)
      /\ SameKind([f EXCEPT !.try = x], f)
  BY DEF SameKind, IsFrame, Finishing
<1>2. SameKind([f EXCEPT !.ip = x, !.try = y], f)
  <2> DEFINE g == [f EXCEPT !.ip = x]
             h == [g EXCEPT !.try = y]
  <2>1. SameKind(g, f)
    BY <1>1
  <2>2. SameKind(h, g)
    <3> HIDE DEF g
    <3> QED BY <2>1 DEF SameKind, IsFrame, Finishing
  <2>3. h = [f EXCEPT !.ip = x, !.try = y]
    OBVIOUS
  <2> QED BY <2>1, <2>2, <2>3, Zenon DEF SameKind
<1> QED BY <1>1, <1>2

\* What EndFrame makes of a frame with deferred calls.
LEMMA Ending ==
  ASSUME NEW f, IsFrame(f), NEW result, result # NoFlow
  PROVE  LET g == [f EXCEPT !.try = <<>>, !.defers = <<>>,
                            !.finish = [result |-> result, rest |-> f.defers, err |-> NoFlow]]
         IN  IsFrame(g) /\ Finishing(g) /\ g.resume = f.resume
<1> DEFINE fin == [result |-> result, rest |-> f.defers, err |-> NoFlow]
           g == [f EXCEPT !.try = <<>>]
           h == [g EXCEPT !.defers = <<>>]
           k == [h EXCEPT !.finish = fin]
<1>1. SameKind(g, f)
  BY Updated
<1>2. SameKind(h, g)
  <2> HIDE DEF g
  <2> QED BY <1>1, Updated DEF SameKind
<1>3. IsFrame(k) /\ k.resume = f.resume /\ k.finish = fin
  <2>1. IsFrame(h) /\ h.resume = f.resume
    BY <1>1, <1>2 DEF SameKind
  <2> HIDE DEF h
  <2> QED BY <2>1 DEF IsFrame
<1>4. fin # NoFinish
  BY DEF NoFinish
<1>5. k = [f EXCEPT !.try = <<>>, !.defers = <<>>, !.finish = fin]
  OBVIOUS
<1> HIDE DEF k
<1> QED BY <1>3, <1>4, <1>5 DEF Finishing

LEMMA Finish ==
  ASSUME NEW f, IsFrame(f), NEW x
  PROVE  /\ Finishing(f) <=> f.finish.result # NoFlow
         /\ Finishing(f) => /\ SameKind([f EXCEPT !.finish.rest = x], f)
                            /\ SameKind([f EXCEPT !.finish.err = x], f)
<1>1. Finishing(f) <=> f.finish.result # NoFlow
  BY DEF IsFrame, Finishing, NoFinish
<1>2. Finishing(f) => SameKind([f EXCEPT !.finish.rest = x], f)
  BY DEF SameKind, IsFrame, Finishing, NoFinish
<1>3. Finishing(f) => SameKind([f EXCEPT !.finish.err = x], f)
  BY DEF SameKind, IsFrame, Finishing, NoFinish
<1> QED BY <1>1, <1>2, <1>3

LEMMA NewFrame ==
  ASSUME NEW fn, NEW resume, NEW base
  PROVE  LET f == Frame(fn, resume, base) IN IsFrame(f) /\ ~Finishing(f) /\ f.resume = resume
BY DEF IsFrame, Finishing, NoFinish, Frame

LEMMA Replace ==
  ASSUME NEW fs, NEW runs, Struct(fs, runs), NEW f, IsFrame(f), f.resume = Last(fs).resume
  PROVE  LET t == WithLast(fs, f)
         IN  /\ Struct(t, runs) /\ Len(t) = Len(fs) /\ Last(t) = f /\ Tops(t) = Tops(fs)
             /\ Open(t) = IF Finishing(f) THEN Open(fs) \ {Len(fs)}
                          ELSE IF Finishing(Last(fs)) /\ f.resume = "PushResult"
                                 THEN Open(fs) \cup {Len(fs)} ELSE Open(fs)
<1> DEFINE t == WithLast(fs, f)
<1>1. /\ IsSeq(fs) /\ fs # <<>> /\ Len(fs) \in Nat /\ Len(fs) > 0 /\ DOMAIN fs = 1 .. Len(fs)
      /\ \A i \in DOMAIN fs : IsFrame(fs[i])
  BY SeqFacts DEF Struct
<1>2. /\ IsSeq(t) /\ t # <<>> /\ Len(t) = Len(fs) /\ DOMAIN t = DOMAIN fs
      /\ \A i \in 1 .. Len(fs) - 1 : t[i] = fs[i]
      /\ t[Len(fs)] = f /\ Last(t) = f
  BY <1>1, WithLastFacts
<1> HIDE DEF t
<1>3. \A i \in DOMAIN fs : IsFrame(t[i]) /\ t[i].resume = fs[i].resume
  BY <1>1, <1>2 DEF Last
<1>4. Tops(t) = Tops(fs)
  BY <1>2, <1>3 DEF Tops
<1>5. PICK b \in [1 .. Len(runs) -> 2 .. Len(fs)] : Links(b, fs, runs)
  BY DEF Struct, Linked
<1>6. Links(b, t, runs)
  <2>1. \A i \in 1 .. Len(runs) : t[b[i] - 1] = fs[b[i] - 1]
    BY <1>1, <1>2, <1>5
  <2>2. \A k \in 2 .. Len(fs) : t[k].resume = fs[k].resume
    BY <1>1, <1>3
  <2> QED BY <1>2, <1>5, <2>1, <2>2 DEF Links
<1>7. Struct(t, runs)
  <2>1. t[1].resume = "TopLevel"
    BY <1>1, <1>3 DEF Struct
  <2>2. Linked(t, runs)
    BY <1>2, <1>5, <1>6 DEF Linked
  <2> QED BY <1>2, <1>3, <2>1, <2>2 DEF Struct
<1>8. /\ Finishing(f) => Open(t) = Open(fs) \ {Len(fs)}
      /\ ~Finishing(f) /\ Finishing(Last(fs)) /\ f.resume = "PushResult" =>
           Open(t) = Open(fs) \cup {Len(fs)}
      /\ ~Finishing(f) /\ ~(Finishing(Last(fs)) /\ f.resume = "PushResult") =>
           Open(t) = Open(fs)
  BY <1>1, <1>2 DEF Open, Last
<1> QED BY <1>2, <1>4, <1>7, <1>8 DEF t

LEMMA SameReplace ==
  ASSUME NEW fs, NEW runs, Struct(fs, runs), NEW f, SameKind(f, Last(fs))
  PROVE  LET t == WithLast(fs, f)
         IN  /\ Struct(t, runs) /\ Len(t) = Len(fs) /\ Last(t) = f
             /\ Tops(t) = Tops(fs) /\ Open(t) = Open(fs)
<1>1. IsFrame(f) /\ f.resume = Last(fs).resume /\ (Finishing(f) <=> Finishing(Last(fs)))
  BY DEF SameKind
<1>2. Finishing(f) => Len(fs) \notin Open(fs)
  BY <1>1 DEF Open, Last
<1> DEFINE t == WithLast(fs, f)
<1>3. /\ Struct(t, runs) /\ Len(t) = Len(fs) /\ Last(t) = f /\ Tops(t) = Tops(fs)
      /\ Open(t) = IF Finishing(f) THEN Open(fs) \ {Len(fs)}
                   ELSE IF Finishing(Last(fs)) /\ f.resume = "PushResult"
                          THEN Open(fs) \cup {Len(fs)} ELSE Open(fs)
  BY <1>1, Replace
<1> HIDE DEF t
<1>4. Open(t) = Open(fs)
  BY <1>1, <1>2, <1>3
<1> QED BY <1>3, <1>4 DEF t

LEMMA Push ==
  ASSUME NEW fs, NEW runs, Struct(fs, runs), NEW g, IsFrame(g), ~Finishing(g)
  PROVE  LET t == Append(fs, g)
         IN  /\ Len(t) = Len(fs) + 1 /\ Last(t) = g
             /\ g.resume = "PushResult" =>
                  /\ Struct(t, runs) /\ Tops(t) = Tops(fs)
                  /\ Open(t) = Open(fs) \cup {Len(fs) + 1}
             /\ g.resume = "TopLevel" =>
                  /\ Tops(t) = Tops(fs) \cup {Len(fs) + 1} /\ Open(t) = Open(fs)
<1> DEFINE t == Append(fs, g)
<1>1. /\ IsSeq(fs) /\ fs # <<>> /\ Len(fs) \in Nat /\ Len(fs) > 0 /\ DOMAIN fs = 1 .. Len(fs)
      /\ IsSeq(runs) /\ Len(runs) \in Nat /\ DOMAIN runs = 1 .. Len(runs)
      /\ \A i \in DOMAIN fs : IsFrame(fs[i])
      /\ fs[1].resume = "TopLevel"
  BY SeqFacts DEF Struct
<1>2. /\ IsSeq(t) /\ t # <<>> /\ Len(t) = Len(fs) + 1
      /\ \A i \in 1 .. Len(fs) : t[i] = fs[i]
      /\ t[Len(fs) + 1] = g
  BY <1>1, AppendFacts
<1>3. DOMAIN t = 1 .. Len(fs) + 1
  BY <1>2, SeqFacts
<1> HIDE DEF t
<1>4. \A i \in DOMAIN t : IsFrame(t[i])
  BY <1>1, <1>2, <1>3
<1>5. PICK b \in [1 .. Len(runs) -> 2 .. Len(fs)] : Links(b, fs, runs)
  BY DEF Struct, Linked
<1>6. ASSUME g.resume = "PushResult"
      PROVE  /\ Struct(t, runs) /\ Tops(t) = Tops(fs)
             /\ Open(t) = Open(fs) \cup {Len(fs) + 1}
  <2>1. Tops(t) = Tops(fs) /\ Open(t) = Open(fs) \cup {Len(fs) + 1}
    BY <1>1, <1>2, <1>3, <1>6 DEF Tops, Open
  <2>2. b \in [1 .. Len(runs) -> 2 .. Len(t)]
    BY <1>1, <1>2
  <2>3. Links(b, t, runs)
    <3>1. \A i \in 1 .. Len(runs) : t[b[i] - 1] = fs[b[i] - 1] /\ b[i] # Len(fs) + 1
      BY <1>1, <1>2
    <3>2. \A k \in 2 .. Len(fs) : t[k].resume = fs[k].resume
      BY <1>1, <1>2
    <3>3. \A k \in 2 .. Len(t) : t[k].resume = "TopLevel" <=> \E i \in 1 .. Len(runs) : b[i] = k
      <4> TAKE k \in 2 .. Len(t)
      <4>1. CASE k = Len(fs) + 1
        BY <1>2, <1>6, <3>1, <4>1
      <4>2. CASE k \in 2 .. Len(fs)
        BY <1>5, <3>2, <4>2 DEF Links
      <4> QED BY <1>1, <1>2, <4>1, <4>2
    <3> QED BY <1>5, <3>1, <3>3 DEF Links
  <2>4. Struct(t, runs)
    BY <1>1, <1>2, <1>4, <2>2, <2>3 DEF Struct, Linked
  <2> QED BY <2>1, <2>4
<1>7. ASSUME g.resume = "TopLevel"
      PROVE  Tops(t) = Tops(fs) \cup {Len(fs) + 1} /\ Open(t) = Open(fs)
  BY <1>1, <1>2, <1>3, <1>7 DEF Tops, Open
<1>8. Last(t) = g
  BY <1>2 DEF Last
<1> QED BY <1>2, <1>6, <1>7, <1>8 DEF t

LEMMA PushRun ==
  ASSUME NEW fs, NEW runs, Struct(fs, runs), NEW g, IsFrame(g), ~Finishing(g),
         g.resume = "TopLevel", NEW n, n.call.by = "instr" <=> ~Finishing(Last(fs)),
         n.what # "callback" => n.call.by = "instr"
  PROVE  Struct(Append(fs, g), Append(runs, n))
<1> DEFINE t == Append(fs, g)
<1>1. /\ IsSeq(fs) /\ fs # <<>> /\ Len(fs) \in Nat /\ Len(fs) > 0 /\ DOMAIN fs = 1 .. Len(fs)
      /\ IsSeq(runs) /\ Len(runs) \in Nat /\ DOMAIN runs = 1 .. Len(runs)
      /\ \A i \in DOMAIN fs : IsFrame(fs[i])
      /\ fs[1].resume = "TopLevel"
  BY SeqFacts DEF Struct
<1>2. /\ IsSeq(t) /\ t # <<>> /\ Len(t) = Len(fs) + 1
      /\ \A i \in 1 .. Len(fs) : t[i] = fs[i]
      /\ t[Len(fs) + 1] = g
  BY <1>1, AppendFacts
<1>3. DOMAIN t = 1 .. Len(fs) + 1
  BY <1>2, SeqFacts
<1> HIDE DEF t
<1>4. \A i \in DOMAIN t : IsFrame(t[i])
  BY <1>1, <1>2, <1>3
<1>5. PICK b \in [1 .. Len(runs) -> 2 .. Len(fs)] : Links(b, fs, runs)
  BY DEF Struct, Linked
<1> DEFINE r == Append(runs, n)
           c == [i \in 1 .. Len(runs) + 1 |-> IF i = Len(runs) + 1 THEN Len(fs) + 1 ELSE b[i]]
<1>6. /\ IsSeq(r) /\ Len(r) = Len(runs) + 1 /\ r[Len(runs) + 1] = n
      /\ \A i \in 1 .. Len(runs) : r[i] = runs[i]
  BY <1>1, AppendFacts
<1> HIDE DEF r
<1>7. c \in [1 .. Len(r) -> 2 .. Len(t)]
  BY <1>1, <1>2, <1>6
<1>8. /\ \A i \in 1 .. Len(runs) : c[i] = b[i] /\ c[i] \in 2 .. Len(fs)
      /\ c[Len(runs) + 1] = Len(fs) + 1
  BY <1>1
<1> HIDE DEF c
<1>9. \A i, j \in 1 .. Len(r) : i < j => c[i] < c[j]
  <2> SUFFICES ASSUME NEW i \in 1 .. Len(r), NEW j \in 1 .. Len(r), i < j PROVE c[i] < c[j]
    OBVIOUS
  <2>1. i \in 1 .. Len(runs) /\ (j \in 1 .. Len(runs) \/ j = Len(runs) + 1)
    <3>1. Len(runs) \in Nat /\ Len(r) = Len(runs) + 1
      BY <1>1, <1>6
    <3> QED BY <3>1
  <2> QED BY <1>1, <1>5, <1>8, <2>1 DEF Links
<1>10. \A k \in 2 .. Len(t) : t[k].resume = "TopLevel" <=> \E i \in 1 .. Len(r) : c[i] = k
  <2> TAKE k \in 2 .. Len(t)
  <2>1. CASE k = Len(fs) + 1
    BY <1>1, <1>2, <1>6, <1>8, <2>1
  <2>2. CASE k \in 2 .. Len(fs)
    <3>1. t[k].resume = "TopLevel" <=> \E i \in 1 .. Len(runs) : b[i] = k
      BY <1>1, <1>2, <1>5, <2>2 DEF Links
    <3>2. (\E i \in 1 .. Len(runs) : b[i] = k) <=> \E i \in 1 .. Len(r) : c[i] = k
      <4>1. 1 .. Len(r) = (1 .. Len(runs)) \cup {Len(runs) + 1} /\ Len(fs) + 1 # k
        BY <1>1, <1>6, <2>2
      <4> QED BY <1>8, <4>1, Zenon
    <3> QED BY <3>1, <3>2
  <2> QED BY <1>1, <1>2, <2>1, <2>2
<1>11. \A i \in 1 .. Len(r) : r[i].call.by = "instr" <=> ~Finishing(t[c[i] - 1])
  <2> TAKE i \in 1 .. Len(r)
  <2>1. CASE i = Len(runs) + 1
    <3>1. t[c[i] - 1] = Last(fs)
      BY <1>1, <1>2, <1>8, <2>1 DEF Last
    <3> QED BY <1>6, <2>1, <3>1
  <2>2. CASE i \in 1 .. Len(runs)
    <3>1. t[c[i] - 1] = fs[b[i] - 1]
      BY <1>1, <1>2, <1>8, <2>2
    <3> QED BY <1>5, <1>6, <2>2, <3>1 DEF Links
  <2> QED BY <1>1, <1>6, <2>1, <2>2
<1>12. Linked(t, r)
  BY <1>7, <1>9, <1>10, <1>11 DEF Linked, Links
<1>13. \A i \in DOMAIN r : r[i].what # "callback" => r[i].call.by = "instr"
  <2>1. DOMAIN r = 1 .. Len(runs) + 1
    BY <1>6, SeqFacts
  <2> QED BY <1>1, <1>6, <2>1 DEF Struct
<1>14. t[1].resume = "TopLevel"
  BY <1>1, <1>2
<1> QED BY <1>2, <1>4, <1>6, <1>12, <1>13, <1>14 DEF Struct, r, t

LEMMA Pop ==
  ASSUME NEW fs, NEW runs, Struct(fs, runs)
  PROVE  LET t == Front(fs)
         IN  /\ Len(t) = Len(fs) - 1
             /\ Last(fs).resume = "PushResult" =>
                  /\ Struct(t, runs) /\ Tops(t) = Tops(fs)
                  /\ Open(t) = Open(fs) \ {Len(fs)}
             /\ Last(fs).resume = "TopLevel" /\ runs # <<>> =>
                  /\ Struct(t, Front(runs)) /\ Open(t) = Open(fs)
                  /\ Tops(t) = Tops(fs) \ {Len(fs)}
                  /\ Last(runs).call.by = "instr" <=> ~Finishing(Last(t))
                  /\ Last(runs).what # "callback" => Last(runs).call.by = "instr"
             /\ Last(fs).resume = "TopLevel" /\ runs = <<>> => Len(fs) = 1
<1> DEFINE t == Front(fs)
<1>1. /\ IsSeq(fs) /\ fs # <<>> /\ Len(fs) \in Nat /\ Len(fs) > 0 /\ DOMAIN fs = 1 .. Len(fs)
      /\ IsSeq(runs) /\ Len(runs) \in Nat /\ DOMAIN runs = 1 .. Len(runs)
      /\ \A i \in DOMAIN fs : IsFrame(fs[i])
      /\ fs[1].resume = "TopLevel"
  BY SeqFacts DEF Struct
<1>2. /\ IsSeq(t) /\ Len(t) = Len(fs) - 1 /\ \A i \in 1 .. Len(fs) - 1 : t[i] = fs[i]
  BY <1>1, FrontFacts
<1>3. DOMAIN t = 1 .. Len(fs) - 1
  BY <1>2, SeqFacts
<1>4. /\ DOMAIN fs = DOMAIN t \cup {Len(fs)} /\ Len(fs) \notin DOMAIN t
       /\ \A i \in DOMAIN t : t[i] = fs[i]
  BY <1>1, <1>2, <1>3
<1> HIDE DEF t
<1>5. \A i \in DOMAIN t : IsFrame(t[i])
  BY <1>1, <1>2, <1>3
<1>6. PICK b \in [1 .. Len(runs) -> 2 .. Len(fs)] : Links(b, fs, runs)
  BY DEF Struct, Linked
<1>7. ASSUME Last(fs).resume = "PushResult"
      PROVE  /\ Struct(t, runs) /\ Tops(t) = Tops(fs)
             /\ Open(t) = Open(fs) \ {Len(fs)}
  <2>1. Len(fs) > 1 /\ fs[Len(fs)].resume # "TopLevel"
    BY <1>1, <1>7 DEF Last
  <2>2. Tops(t) = Tops(fs) /\ Open(t) = Open(fs) \ {Len(fs)}
    BY <1>4, <2>1 DEF Tops, Open
  <2>3. \A i \in 1 .. Len(runs) : b[i] # Len(fs)
    BY <1>1, <1>6, <2>1 DEF Links
  <2>4. b \in [1 .. Len(runs) -> 2 .. Len(t)]
    BY <1>1, <1>2, <2>3
  <2>5. Links(b, t, runs)
    <3>1. \A i \in 1 .. Len(runs) : t[b[i] - 1] = fs[b[i] - 1]
      BY <1>1, <1>2
    <3>2. \A k \in 2 .. Len(t) : k \in 2 .. Len(fs) /\ t[k].resume = fs[k].resume
      BY <1>1, <1>2
    <3> QED BY <1>6, <3>1, <3>2 DEF Links
  <2>6. t # <<>> /\ t[1].resume = "TopLevel"
    BY <1>1, <1>2, <1>3, <2>1
  <2>7. Struct(t, runs)
    BY <1>1, <1>2, <1>5, <2>4, <2>5, <2>6 DEF Struct, Linked
  <2> QED BY <2>2, <2>7
<1>8. ASSUME Last(fs).resume = "TopLevel", runs # <<>>
      PROVE  /\ Struct(t, Front(runs)) /\ Open(t) = Open(fs)
             /\ Tops(t) = Tops(fs) \ {Len(fs)}
             /\ Last(runs).call.by = "instr" <=> ~Finishing(Last(t))
             /\ Last(runs).what # "callback" => Last(runs).call.by = "instr"
  <2> DEFINE r == Front(runs)
             n == Len(runs)
             c == [i \in 1 .. n - 1 |-> b[i]]
  <2>1. n \in Nat /\ n > 0 /\ fs[Len(fs)].resume = "TopLevel"
    BY <1>1, <1>8, SeqFacts DEF Last
  <2>2. IsSeq(r) /\ Len(r) = n - 1 /\ \A i \in 1 .. n - 1 : r[i] = runs[i]
    BY <1>1, <1>8, FrontFacts
  <2>3. b[n] = Len(fs) /\ Len(fs) > 1
    <3>1. b[n] \in 2 .. Len(fs)
      BY <2>1
    <3>2. Len(fs) \in 2 .. Len(fs)
      BY <1>1, <3>1
    <3>3. PICK i \in 1 .. n : b[i] = Len(fs)
      BY <1>6, <2>1, <3>2 DEF Links
    <3>4. i < n => b[i] < b[n]
      BY <1>6, <2>1, <3>3 DEF Links
    <3> QED BY <1>1, <2>1, <3>1, <3>3, <3>4
  <2>4. \A i \in 1 .. n - 1 : b[i] \in 2 .. Len(fs) - 1
    <3> TAKE i \in 1 .. n - 1
    <3>1. i \in 1 .. n /\ n \in 1 .. n /\ i < n
      BY <2>1
    <3>2. b[i] < b[n] /\ b[i] \in 2 .. Len(fs)
      BY <1>6, <3>1 DEF Links
    <3> QED BY <1>1, <2>3, <3>2
  <2> HIDE DEF r
  <2>5. c \in [1 .. Len(r) -> 2 .. Len(t)]
    BY <1>2, <2>2, <2>4
  <2>6. \A i \in 1 .. n - 1 : c[i] = b[i] /\ i \in 1 .. n
    BY <2>1
  <2> HIDE DEF c
  <2>7. Links(c, t, r)
    <3>1. \A i, j \in 1 .. Len(r) : i < j => c[i] < c[j]
      BY <1>6, <2>2, <2>6 DEF Links
    <3>2. \A k \in 2 .. Len(t) : t[k].resume = "TopLevel" <=> \E i \in 1 .. Len(r) : c[i] = k
      <4> TAKE k \in 2 .. Len(t)
      <4>1. Len(fs) \in Nat
        BY <1>1
      <4>2. k \in 2 .. Len(fs) - 1 /\ k \in 1 .. Len(fs) - 1
        BY <1>1, <1>2
      <4>3. k \in 2 .. Len(fs) /\ k # Len(fs)
        BY <4>2, <4>1
      <4>4. t[k] = fs[k]
        BY <1>2, <4>2
      <4>5. t[k].resume = "TopLevel" <=> \E i \in 1 .. n : b[i] = k
        BY <1>6, <4>3, <4>4 DEF Links
      <4>6. (\E i \in 1 .. n : b[i] = k) <=> \E i \in 1 .. n - 1 : b[i] = k
        BY <2>1, <2>3, <4>3
      <4> QED BY <2>2, <2>6, <4>5, <4>6
    <3>3. \A i \in 1 .. Len(r) : r[i].call.by = "instr" <=> ~Finishing(t[c[i] - 1])
      <4> TAKE i \in 1 .. Len(r)
      <4>1. i \in 1 .. n /\ r[i] = runs[i] /\ c[i] = b[i] /\ b[i] \in 2 .. Len(fs) - 1
        BY <2>2, <2>4, <2>6
      <4>2. t[b[i] - 1] = fs[b[i] - 1]
        BY <1>1, <1>2, <4>1
      <4> QED BY <1>6, <4>1, <4>2 DEF Links
    <3> QED BY <3>1, <3>2, <3>3 DEF Links
  <2>8. t # <<>> /\ t[1].resume = "TopLevel"
    BY <1>1, <1>2, <1>3, <2>3
  <2>9. /\ Struct(t, r)
        /\ Last(runs).what # "callback" => Last(runs).call.by = "instr"
    <3>1. \A i \in DOMAIN runs : runs[i].what # "callback" => runs[i].call.by = "instr"
      BY DEF Struct
    <3>2. DOMAIN r = 1 .. n - 1 /\ n \in DOMAIN runs /\ \A i \in 1 .. n - 1 : i \in DOMAIN runs
      BY <1>1, <2>1, <2>2, SeqFacts
    <3>3. \A i \in DOMAIN r : r[i].what # "callback" => r[i].call.by = "instr"
      BY <2>2, <3>1, <3>2
    <3>4. Struct(t, r)
      BY <1>2, <1>5, <2>2, <2>5, <2>7, <2>8, <3>3 DEF Struct, Linked
    <3> QED BY <3>1, <3>2, <3>4 DEF Last
  <2>10. Open(t) = Open(fs) /\ Tops(t) = Tops(fs) \ {Len(fs)}
    BY <1>4, <2>1 DEF Tops, Open
  <2>11. Last(runs).call.by = "instr" <=> ~Finishing(Last(t))
    <3>1. Last(t) = fs[b[n] - 1]
      BY <1>1, <1>2, <2>3 DEF Last
    <3>2. runs[n].call.by = "instr" <=> ~Finishing(fs[b[n] - 1])
      BY <1>6, <2>1 DEF Links
    <3> QED BY <3>1, <3>2 DEF Last
  <2> QED BY <2>9, <2>10, <2>11 DEF r
<1>9. ASSUME Last(fs).resume = "TopLevel", runs = <<>>
      PROVE  Len(fs) = 1
  <2>1. Len(runs) = 0
    BY <1>9
  <2>2. Len(fs) \in 2 .. Len(fs) => FALSE
    BY <1>6, <1>9, <2>1 DEF Links, Last
  <2> QED BY <1>1, <2>2
<1> QED BY <1>2, <1>7, <1>8, <1>9 DEF t

-----------------------------------------------------------------------------
(* Counting.                                                                     *)

\* The frames that DepthMatches counts.
InProgress(fs, c) == IF c = "deliver" THEN Open(fs) \ {Len(fs)} ELSE Open(fs)

LEMMA DepthIs ==
  /\ DepthMatches <=>
       depth = Cardinality(InProgress(frames, ctl)) + Cardinality(Callbacks(native))
  /\ DepthMatches' <=>
       depth' = Cardinality(InProgress(frames', ctl')) + Cardinality(Callbacks(native'))
<1>1. {i \in DOMAIN frames : frames[i].resume = "PushResult" /\ ~Ended(i)} =
        InProgress(frames, ctl)
  BY DEF Ended, InProgress, Open
<1>2. {i \in DOMAIN frames' : frames'[i].resume = "PushResult" /\ ~Ended(i)'} =
        InProgress(frames', ctl')
  BY DEF Ended, InProgress, Open, Finishing
<1> QED BY <1>1, <1>2, Zenon DEF DepthMatches, Callbacks

LEMMA Finite ==
  ASSUME NEW fs, NEW runs, Struct(fs, runs)
  PROVE  /\ IsFiniteSet(Open(fs)) /\ IsFiniteSet(Tops(fs)) /\ IsFiniteSet(Callbacks(runs))
         /\ Cardinality(Open(fs)) \in Nat /\ Cardinality(Tops(fs)) \in Nat
         /\ Cardinality(Callbacks(runs)) \in Nat
         /\ Len(fs) + 1 \notin Open(fs) /\ Len(fs) + 1 \notin Tops(fs)
<1>1. /\ Len(fs) \in Nat /\ DOMAIN fs = 1 .. Len(fs)
      /\ Len(runs) \in Nat /\ DOMAIN runs = 1 .. Len(runs)
  BY SeqFacts DEF Struct
<1>2. IsFiniteSet(1 .. Len(fs)) /\ IsFiniteSet(1 .. Len(runs))
  BY <1>1, FS_Interval
<1>3. /\ Open(fs) \subseteq 1 .. Len(fs) /\ Tops(fs) \subseteq 1 .. Len(fs)
      /\ Callbacks(runs) \subseteq 1 .. Len(runs)
  BY <1>1 DEF Open, Tops, Callbacks
<1>4. IsFiniteSet(Open(fs)) /\ IsFiniteSet(Tops(fs)) /\ IsFiniteSet(Callbacks(runs))
  BY <1>2, <1>3, FS_Subset
<1> QED BY <1>1, <1>3, <1>4, FS_CardinalityType

LEMMA CallbackFacts ==
  ASSUME NEW runs, IsSeq(runs)
  PROVE  /\ \A n : Callbacks(Append(runs, n)) =
                     IF n.what = "callback" THEN Callbacks(runs) \cup {Len(runs) + 1}
                     ELSE Callbacks(runs)
         /\ Len(runs) + 1 \notin Callbacks(runs)
         /\ runs # <<>> => /\ Callbacks(Front(runs)) = Callbacks(runs) \ {Len(runs)}
                           /\ Len(runs) \in Callbacks(runs) <=> Last(runs).what = "callback"
<1>1. Len(runs) \in Nat /\ DOMAIN runs = 1 .. Len(runs) /\ (runs # <<>> => Len(runs) > 0)
  BY SeqFacts
<1>2. ASSUME NEW n
      PROVE  Callbacks(Append(runs, n)) =
               IF n.what = "callback" THEN Callbacks(runs) \cup {Len(runs) + 1}
               ELSE Callbacks(runs)
  <2> DEFINE r == Append(runs, n)
  <2>1. /\ IsSeq(r) /\ Len(r) = Len(runs) + 1 /\ r[Len(runs) + 1] = n
        /\ \A i \in 1 .. Len(runs) : r[i] = runs[i]
    BY AppendFacts
  <2>2. DOMAIN r = 1 .. Len(runs) + 1
    BY <2>1, SeqFacts
  <2> HIDE DEF r
  <2>3. Callbacks(r) = IF n.what = "callback" THEN Callbacks(runs) \cup {Len(runs) + 1}
                       ELSE Callbacks(runs)
    BY <1>1, <2>1, <2>2 DEF Callbacks
  <2> QED BY <2>3 DEF r
<1>3. ASSUME runs # <<>>
      PROVE  /\ Callbacks(Front(runs)) = Callbacks(runs) \ {Len(runs)}
             /\ Len(runs) \in Callbacks(runs) <=> Last(runs).what = "callback"
  <2> DEFINE r == Front(runs)
  <2>1. IsSeq(r) /\ Len(r) = Len(runs) - 1 /\ \A i \in 1 .. Len(runs) - 1 : r[i] = runs[i]
    BY <1>3, FrontFacts
  <2>2. DOMAIN r = 1 .. Len(runs) - 1
    BY <2>1, SeqFacts
  <2> HIDE DEF r
  <2>3. /\ DOMAIN runs = DOMAIN r \cup {Len(runs)} /\ Len(runs) \notin DOMAIN r
        /\ \A i \in DOMAIN r : r[i] = runs[i]
    BY <1>1, <1>3, <2>1, <2>2
  <2>4. Callbacks(r) = Callbacks(runs) \ {Len(runs)}
    BY <2>3 DEF Callbacks
  <2>5. Len(runs) \in Callbacks(runs) <=> Last(runs).what = "callback"
    BY <2>3 DEF Callbacks, Last
  <2> QED BY <2>4, <2>5 DEF r
<1>4. Len(runs) + 1 \notin Callbacks(runs)
  BY <1>1 DEF Callbacks
<1> QED BY <1>2, <1>3, <1>4

-----------------------------------------------------------------------------
(* Steps.  Most of them leave the frames as they are but for what is in the top  *)
(* one.                                                                          *)

Steady ==
  /\ frames' = frames \/ \E g : SameKind(g, Top) /\ frames' = WithLast(frames, g)
  /\ native' = native

LEMMA TopFacts ==
  ASSUME Struct(frames, native)
  PROVE  IsFrame(Top) /\ SameKind(Top, Top) /\ SameKind(Advanced, Top)
<1>1. Len(frames) \in DOMAIN frames
  BY SeqFacts DEF Struct
<1>2. IsFrame(Top)
  BY <1>1 DEF Struct, Top, Last
<1> QED BY <1>2, Updated DEF Advanced

LEMMA SteadyStep ==
  ASSUME Struct(frames, native), Steady
  PROVE  /\ Struct(frames', native') /\ Len(frames') = Len(frames)
         /\ Tops(frames') = Tops(frames) /\ Open(frames') = Open(frames)
         /\ Finishing(Last(frames')) <=> Finishing(Top)
         /\ Last(frames').resume = Top.resume
BY SameReplace DEF Steady, Top, SameKind

\* A steady step that keeps the depth.
LEMMA Steadily ==
  ASSUME IInv, ctl \notin {"done", "deliver"}, Steady, depth' = depth,
         ctl' = "deliver" => Finishing(Top)
  PROVE  /\ DepthMatches' /\ Struct(frames', native') /\ Counted'
         /\ Finishing(Last(frames')) <=> Finishing(Top)
<1>1. /\ Struct(frames', native') /\ Len(frames') = Len(frames)
      /\ Tops(frames') = Tops(frames) /\ Open(frames') = Open(frames)
      /\ Finishing(Last(frames')) <=> Finishing(Top)
  BY SteadyStep DEF IInv
<1>2. InProgress(frames', ctl') = InProgress(frames, ctl)
  <2>1. Finishing(Top) => Len(frames) \notin Open(frames)
    BY DEF Open, Top, Last
  <2> QED BY <1>1, <2>1 DEF InProgress
<1>3. DepthMatches'
  BY <1>2, DepthIs DEF IInv, Steady
<1>4. Counted'
  BY <1>1 DEF IInv, Counted, Steady
<1> QED BY <1>1, <1>3, <1>4

\* An instruction that changes its frame and the operands only.
LEMMA LocalInv ==
  ASSUME IInv, ctl = "machine", pending_throw = None,
         NEW f, SameKind(f, Top), NEW stk, Local(f, stk)
  PROVE  IInv'
<1>1. Steady /\ UNCHANGED <<depth, ctl, flow, call, pause, pending_throw, awaited>>
  BY DEF Local, Become, Steady, pauseVars, ctlVars
<1>2. /\ DepthMatches' /\ Struct(frames', native') /\ Counted'
      /\ Finishing(Last(frames')) <=> Finishing(Top)
  BY <1>1, Steadily
<1> QED BY <1>1, <1>2 DEF IInv, EventOK, ParkOK

LEMMA EventInv ==
  ASSUME IInv, ctl = "machine", pending_throw = None, ~Finishing(Top),
         NEW f, SameKind(f, Top), NEW stk, NEW ev, ev # NoFlow, RaiseEvent(f, stk, ev)
  PROVE  IInv'
<1>1. /\ Steady /\ ctl' = "event" /\ flow' = ev
      /\ UNCHANGED <<depth, pause, pending_throw, awaited>>
  BY DEF RaiseEvent, Become, Raise, Steady, pauseVars
<1>2. /\ DepthMatches' /\ Struct(frames', native') /\ Counted'
      /\ Finishing(Last(frames')) <=> Finishing(Top)
  BY <1>1, Steadily
<1>3. EventOK' /\ ParkOK'
  BY <1>1, <1>2 DEF IInv, EventOK, ParkOK, Top
<1> QED BY <1>2, <1>3 DEF IInv

LEMMA RunningFacts ==
  ASSUME NEW op, Running(op)
  PROVE  ctl = "machine" /\ pending_throw = None /\ ~Finishing(Top)
BY DEF Running

LEMMA DataInv == IInv /\ Data => IInv'
<1> SUFFICES ASSUME IInv, Data PROVE IInv'
  OBVIOUS
<1>1. ctl = "machine" /\ pending_throw = None
  BY DEF Data, Running
<1>2. IsFrame(Top) /\ SameKind(Top, Top) /\ SameKind(Advanced, Top)
  BY <1>1, TopFacts DEF IInv
<1>3. \A x, y : /\ SameKind([Top EXCEPT !.ip = x], Top)
               /\ SameKind([Advanced EXCEPT !.e = x], Top)
               /\ SameKind([Advanced EXCEPT !.count[y] = x], Top)
  <2> TAKE x, y
  <2>1. SameKind([Top EXCEPT !.ip = x], Top)
    BY <1>2, Updated
  <2>2. IsFrame(Advanced)
    BY <1>2 DEF SameKind
  <2>3. SameKind([Advanced EXCEPT !.e = x], Advanced)
    BY <2>2, Updated
  <2>4. SameKind([Advanced EXCEPT !.count[y] = x], Advanced)
    BY <2>2, Updated
  <2> QED BY <1>2, <2>1, <2>3, <2>4 DEF SameKind
<1>4. PICK f, stk : Local(f, stk) /\ SameKind(f, Top)
  BY <1>2, <1>3 DEF Data
<1> QED BY <1>1, <1>4, LocalInv

LEMMA DeferCallInv == IInv /\ DeferCall => IInv'
<1> SUFFICES ASSUME IInv, DeferCall PROVE IInv'
  OBVIOUS
<1>1. ctl = "machine" /\ pending_throw = None
  BY DEF DeferCall, Running
<1>2. SameKind(Advanced, Top)
  BY <1>1, TopFacts DEF IInv
<1>3. \A x : SameKind([Advanced EXCEPT !.defers = x], Top)
  <2>1. IsFrame(Advanced)
    BY <1>2 DEF SameKind
  <2>2. \A x : SameKind([Advanced EXCEPT !.defers = x], Advanced)
    BY <2>1, Updated
  <2> QED BY <1>2, <2>2 DEF SameKind
<1>4. PICK f, stk : Local(f, stk) /\ SameKind(f, Top)
  BY <1>3 DEF DeferCall
<1> QED BY <1>1, <1>4, LocalInv

\* What the instructions of a try statement make of the top frame.
LEMMA TryUpdates ==
  ASSUME Struct(frames, native), NEW x, NEW y
  PROVE  /\ SameKind([Advanced EXCEPT !.try = x], Top)
         /\ SameKind([Top EXCEPT !.try = x], Top)
         /\ SameKind([Top EXCEPT !.ip = y, !.try = x], Top)
         /\ SameKind([[Top EXCEPT !.try = x] EXCEPT !.ip = y], Top)
<1>1. IsFrame(Top) /\ SameKind(Advanced, Top)
  BY TopFacts
<1>2. SameKind([Advanced EXCEPT !.try = x], Top)
  <2>1. IsFrame(Advanced)
    BY <1>1 DEF SameKind
  <2>2. SameKind([Advanced EXCEPT !.try = x], Advanced)
    BY <2>1, Updated
  <2> QED BY <1>1, <2>2 DEF SameKind
<1>3. SameKind([Top EXCEPT !.try = x], Top) /\ SameKind([Top EXCEPT !.ip = y, !.try = x], Top)
  BY <1>1, Updated
<1>4. SameKind([[Top EXCEPT !.try = x] EXCEPT !.ip = y], Top)
  <2> DEFINE f == [Top EXCEPT !.try = x]
  <2>1. SameKind(f, Top)
    BY <1>3
  <2> HIDE DEF f
  <2>2. IsFrame(f)
    BY <2>1 DEF SameKind
  <2>3. SameKind([f EXCEPT !.ip = y], f)
    BY <2>2, Updated
  <2>4. SameKind([f EXCEPT !.ip = y], Top)
    BY <2>1, <2>3 DEF SameKind
  <2> QED BY <2>4 DEF f
<1> QED BY <1>2, <1>3, <1>4

LEMMA TryInv == IInv /\ (PushTry \/ BlockEnd) => IInv'
<1> SUFFICES ASSUME IInv, PushTry \/ BlockEnd PROVE IInv'
  OBVIOUS
<1>1. ctl = "machine" /\ pending_throw = None
  BY DEF PushTry, BlockEnd, Running
<1>2. PICK f, stk : Local(f, stk) /\ SameKind(f, Top)
  BY <1>1, TryUpdates DEF PushTry, BlockEnd, IInv
<1> QED BY <1>1, <1>2, LocalInv

LEMMA FlowFacts ==
  /\ \A v : Flow("throw", v) # NoFlow /\ Flow("return", v) # NoFlow
  /\ \A t, n : Jump(t, n) # NoFlow
  /\ Undefined # NoFlow /\ Undefined.kind = "return"
  /\ \A v : Flow("return", v).kind = "return"
BY DEF Flow, NoFlow, Jump, Undefined

LEMMA ExitFinallyInv == IInv /\ ExitFinally => IInv'
<1> SUFFICES ASSUME IInv, ExitFinally PROVE IInv'
  OBVIOUS
<1>1. ctl = "machine" /\ pending_throw = None /\ ~Finishing(Top)
  BY DEF ExitFinally, Running
<1>2. \/ \E f, stk : Local(f, stk) /\ SameKind(f, Top)
      \/ \E f, ev : SameKind(f, Top) /\ ev # NoFlow /\ RaiseEvent(f, stack, ev)
  BY <1>1, TryUpdates DEF ExitFinally, IInv, RaiseEvent
<1> QED BY <1>1, <1>2, LocalInv, EventInv

LEMMA EventsInv == IInv /\ Events => IInv'
<1> SUFFICES ASSUME IInv, Events PROVE IInv'
  OBVIOUS
<1>1. ctl = "machine" /\ pending_throw = None /\ ~Finishing(Top)
  BY DEF Events, Running
<1>2. SameKind(Top, Top) /\ SameKind(Advanced, Top)
  BY <1>1, TopFacts DEF IInv
<1>3. PICK f, stk, ev : SameKind(f, Top) /\ ev # NoFlow /\ RaiseEvent(f, stk, ev)
  BY <1>2, FlowFacts DEF Events
<1> QED BY <1>1, <1>3, EventInv

\* A call that returns at once, or parks.
LEMMA AtOnceInv ==
  ASSUME IInv, ctl = "machine", pending_throw = None, NEW g, SameKind(g, Top), NEW stk,
         NEW c, c.by = "instr" <=> ~Finishing(Top), NEW r, r # NoFlow,
         ReturnsAtOnce(WithLast(frames, g), stk, c, r), pending_throw' = pending_throw,
         awaited' = "fail" => ~Finishing(Top) /\ pause' = "ParkedInject" /\ r.kind = "return"
  PROVE  IInv'
<1>1. Steady /\ depth' = depth /\ ctl' = "returned" /\ flow' = r /\ call' = c
  BY DEF ReturnsAtOnce, Answer, Steady
<1>2. /\ DepthMatches' /\ Struct(frames', native') /\ Counted'
      /\ Finishing(Last(frames')) <=> Finishing(Top)
  BY <1>1, Steadily
<1>3. EventOK' /\ ParkOK'
  BY <1>1, <1>2 DEF EventOK, ParkOK, Top
<1> QED BY <1>2, <1>3 DEF IInv

\* A call that gets a frame.
LEMMA EnterInv ==
  ASSUME IInv, ctl = "machine", pending_throw = None, NEW g, SameKind(g, Top), NEW stk,
         NEW c, c.by = "instr" <=> ~Finishing(Top),
         EnterFunction(WithLast(frames, g), stk, c) \/ CallBack(WithLast(frames, g), stk, c)
  PROVE  IInv'
<1> DEFINE fs == WithLast(frames, g)
           run == [what |-> "callback", call |-> c]
<1>1. /\ Struct(fs, native) /\ Len(fs) = Len(frames) /\ Last(fs) = g
      /\ Tops(fs) = Tops(frames) /\ Open(fs) = Open(frames)
      /\ Finishing(g) <=> Finishing(Top)
  <2>1. Struct(frames, native) /\ SameKind(g, Last(frames))
    BY DEF IInv, Top
  <2> QED BY <2>1, SameReplace DEF SameKind, Top
<1>2. PICK fn, resume :
        /\ frames' = Append(fs, Frame(fn, resume, Len(stk)))
        /\ \/ resume = "PushResult" /\ native' = native
           \/ resume = "TopLevel" /\ native' = Append(native, run)
        /\ depth' = depth + 1 /\ ctl' = "machine"
        /\ UNCHANGED <<pending_throw, awaited>>
  BY DEF EnterFunction, CallBack, Enter, Goto, pauseVars
<1>3. PICK new : /\ IsFrame(new) /\ ~Finishing(new) /\ new.resume = resume
                 /\ frames' = Append(fs, new)
  BY <1>2, NewFrame
<1>4. run.call.by = "instr" <=> ~Finishing(Last(fs))
  BY <1>1
<1>5. run.what = "callback"
  OBVIOUS
<1>6. IsSeq(native) /\ Len(native) \in Nat
  BY <1>1, SeqFacts DEF Struct
<1> HIDE DEF fs, run
<1>7. /\ Struct(frames', native') /\ Last(frames') = new
      /\ resume = "PushResult" => /\ Tops(frames') = Tops(frames)
                                  /\ Open(frames') = Open(frames) \cup {Len(frames) + 1}
      /\ resume = "TopLevel" => /\ Tops(frames') = Tops(frames) \cup {Len(frames) + 1}
                                /\ Open(frames') = Open(frames)
  <2>1. CASE resume = "PushResult" /\ native' = native
    BY <1>1, <1>3, <2>1, Push
  <2>2. CASE resume = "TopLevel" /\ native' = Append(native, run)
    <3>1. Struct(Append(fs, new), Append(native, run))
      BY <1>1, <1>3, <1>4, <1>5, <2>2, PushRun
    <3>2. /\ Last(Append(fs, new)) = new
          /\ Tops(Append(fs, new)) = Tops(fs) \cup {Len(fs) + 1}
          /\ Open(Append(fs, new)) = Open(fs)
      BY <1>1, <1>3, <2>2, Push
    <3> QED BY <1>1, <1>3, <2>2, <3>1, <3>2
  <2> QED BY <1>2, <2>1, <2>2
<1>8. /\ Cardinality(Open(frames)) \in Nat /\ Cardinality(Callbacks(native)) \in Nat
      /\ Cardinality(Open(frames) \cup {Len(frames) + 1}) = Cardinality(Open(frames)) + 1
      /\ Cardinality(Tops(frames) \cup {Len(frames) + 1}) = Cardinality(Tops(frames)) + 1
      /\ Cardinality(Callbacks(native) \cup {Len(native) + 1}) = Cardinality(Callbacks(native)) + 1
  BY <1>6, Finite, CallbackFacts, FS_AddElement DEF IInv
<1>9. depth = Cardinality(Open(frames)) + Cardinality(Callbacks(native))
  BY DepthIs DEF IInv, InProgress
<1>10. depth' = Cardinality(Open(frames')) + Cardinality(Callbacks(native')) /\ Counted'
  <2>1. CASE resume = "PushResult" /\ native' = native
    <3>1. Cardinality(Tops(frames')) = Len(native') + 1
      BY <1>7, <2>1 DEF Counted, IInv
    <3>2. Cardinality(Open(frames')) = Cardinality(Open(frames)) + 1
      BY <1>7, <1>8, <2>1
    <3> QED BY <1>2, <1>8, <1>9, <2>1, <3>1, <3>2 DEF Counted
  <2>2. CASE resume = "TopLevel" /\ native' = Append(native, run)
    <3>1. Callbacks(native') = Callbacks(native) \cup {Len(native) + 1}
      BY <1>5, <1>6, <2>2, CallbackFacts
    <3>2. Len(native') = Len(native) + 1
      BY <1>6, <2>2, AppendFacts
    <3>3. Cardinality(Tops(frames')) = Len(native') + 1
      BY <1>1, <1>7, <1>8, <2>2, <3>2 DEF IInv, Counted
    <3> QED BY <1>1, <1>2, <1>7, <1>8, <1>9, <2>2, <3>1, <3>3 DEF Counted
  <2> QED BY <1>2, <2>1, <2>2
<1>11. DepthMatches'
  BY <1>2, <1>10, DepthIs DEF InProgress
<1>12. EventOK' /\ ParkOK'
  BY <1>2, <1>3, <1>7 DEF EventOK, ParkOK, IInv, Top
<1> QED BY <1>7, <1>10, <1>11, <1>12 DEF IInv

LEMMA StartCallInv ==
  ASSUME IInv, ctl = "machine", pending_throw = None, NEW g, SameKind(g, Top), NEW stk,
         NEW c, c.by = "instr" <=> ~Finishing(Top), StartCall(WithLast(frames, g), stk, c)
  PROVE  IInv'
<1> DEFINE fs == WithLast(frames, g)
<1>1. awaited # "fail"
  BY DEF IInv, ParkOK
<1> HIDE DEF fs
<1>2. CASE EnterFunction(fs, stk, c) \/ CallBack(fs, stk, c)
  BY <1>2, EnterInv DEF fs
<1>3. CASE TooDeep(fs, stk, c)
  <2>1. /\ ReturnsAtOnce(fs, stk, c, Flow("throw", "too deep"))
        /\ UNCHANGED <<pending_throw, awaited>>
    BY <1>3 DEF TooDeep, pauseVars
  <2>2. Flow("throw", "too deep") # NoFlow
    BY FlowFacts
  <2> QED BY <1>1, <2>1, <2>2, AtOnceInv DEF fs
<1>4. CASE NotCallable(fs, stk, c)
  <2>1. /\ ReturnsAtOnce(fs, stk, c, Flow("throw", "not callable"))
        /\ UNCHANGED <<pending_throw, awaited>>
    BY <1>4 DEF NotCallable, pauseVars
  <2>2. Flow("throw", "not callable") # NoFlow
    BY FlowFacts
  <2> QED BY <1>1, <2>1, <2>2, AtOnceInv DEF fs
<1>5. CASE InPlace(fs, stk, c)
  <2>1. PICK r : r # NoFlow /\ ReturnsAtOnce(fs, stk, c, r)
    <3>1. \A b \in Builtins \ {"each"} : Result(b) # NoFlow
      BY FlowFacts DEF Builtins, Result
    <3>2. Flow("throw", "refused") # NoFlow
      BY FlowFacts
    <3> QED BY <1>5, <3>1, <3>2 DEF InPlace
  <2>2. UNCHANGED <<pending_throw, awaited>>
    BY <1>5 DEF InPlace, pauseVars
  <2> QED BY <1>1, <2>1, <2>2, AtOnceInv DEF fs
<1>6. CASE ParkInject(fs, stk, c)
  <2>1. /\ ReturnsAtOnce(fs, stk, c, Undefined) /\ pending_throw' = pending_throw
        /\ ~Finishing(Top) /\ pause' = "ParkedInject"
    BY <1>6 DEF ParkInject, Refused
  <2> QED BY <2>1, FlowFacts, AtOnceInv DEF fs
<1>7. CASE ParkRetry(fs, stk, c)
  <2>1. /\ ReturnsAtOnce(fs, stk, c, Undefined) /\ pending_throw' = pending_throw
        /\ awaited' # "fail"
    BY <1>7 DEF ParkRetry
  <2> QED BY <2>1, FlowFacts, AtOnceInv DEF fs
<1> QED BY <1>2, <1>3, <1>5, <1>6, <1>7, <1>4 DEF StartCall, fs

LEMMA CallInstrInv == IInv /\ CallInstr => IInv'
<1> SUFFICES ASSUME IInv, CallInstr PROVE IInv'
  OBVIOUS
<1>1. ctl = "machine" /\ pending_throw = None /\ ~Finishing(Top)
  BY DEF CallInstr, Running
<1>2. SameKind(Advanced, Top)
  BY <1>1, TopFacts DEF IInv
<1>3. \A d : Site(d, "instr").by = "instr"
  BY DEF Site
<1> QED BY <1>1, <1>2, <1>3, StartCallInv DEF CallInstr

LEMMA NextDeferInv == IInv /\ NextDefer => IInv'
<1> SUFFICES ASSUME IInv, NextDefer PROVE IInv'
  OBVIOUS
<1>1. ctl = "machine" /\ pending_throw = None /\ Finishing(Top)
  BY DEF NextDefer
<1>2. SameKind([Top EXCEPT !.finish.rest = Front(@)], Top)
  BY <1>1, TopFacts, Finish DEF IInv
<1>3. \A d : Site(d, "defer").by # "instr"
  BY DEF Site
<1> QED BY <1>1, <1>2, <1>3, StartCallInv DEF NextDefer

LEMMA FinishedInv == IInv /\ Finished => IInv'
<1> SUFFICES ASSUME IInv, Finished PROVE IInv'
  OBVIOUS
<1>1. /\ ctl = "machine" /\ pending_throw = None /\ Finishing(Top) /\ ctl' = "deliver"
      /\ flow' = IF Top.finish.err # NoFlow THEN Top.finish.err ELSE Top.finish.result
      /\ Steady /\ UNCHANGED <<depth, pause, pending_throw, awaited>>
  BY DEF Finished, Raise, Steady, frameVars, pauseVars
<1>2. Top.finish.result # NoFlow
  BY <1>1, TopFacts, Finish DEF IInv
<1>3. /\ DepthMatches' /\ Struct(frames', native') /\ Counted'
  BY <1>1, Steadily
<1>4. EventOK' /\ ParkOK'
  BY <1>1, <1>2 DEF EventOK, ParkOK, IInv
<1> QED BY <1>3, <1>4 DEF IInv

LEMMA ReturnedInv == IInv /\ Returned => IInv'
<1> SUFFICES ASSUME IInv, Returned PROVE IInv'
  OBVIOUS
<1>1. /\ ctl = "returned" /\ pending_throw = None /\ flow # NoFlow
      /\ call.by = "instr" <=> ~Finishing(Top)
      /\ UNCHANGED <<depth, native, pause, pending_throw, awaited>>
      /\ flow' = IF ctl' = "event" THEN flow ELSE NoFlow
  BY DEF Returned, IInv, EventOK, pauseVars
<1>2. IsFrame(Top)
  BY <1>1, TopFacts DEF IInv
<1>3. \A x : SameKind([Top EXCEPT !.ip = x], Top)
  BY <1>2, Updated
<1>4. Finishing(Top) => \A x : /\ SameKind([Top EXCEPT !.finish.rest = x], Top)
                               /\ SameKind([Top EXCEPT !.finish.err = x], Top)
  BY <1>2, Finish
<1>5. /\ Steady
      /\ \/ ctl' \in {"yield", "machine"}
         \/ ctl' = "event" /\ call.by = "instr"
      /\ awaited = "fail" => ctl' = "yield"
  <2>1. awaited = "fail" => pause = "ParkedInject" /\ flow.kind = "return" /\ ~Finishing(Top)
    BY <1>1 DEF IInv, ParkOK
  <2>2. CASE PutBack
    BY <1>1, <1>3, <1>4, <2>2 DEF PutBack, Become, Steady
  <2>3. CASE ToCaller /\ call.by = "instr"
    BY <1>1, <2>1, <2>3 DEF ToCaller, Steady
  <2>4. CASE ToFinish /\ call.by # "instr"
    BY <1>1, <1>4, <2>1, <2>4 DEF ToFinish, Steady
  <2> QED BY <2>2, <2>3, <2>4 DEF Returned
<1>6. /\ DepthMatches' /\ Struct(frames', native') /\ Counted'
      /\ Finishing(Last(frames')) <=> Finishing(Top)
  BY <1>1, <1>5, Steadily
<1>7. EventOK' /\ ParkOK'
  BY <1>1, <1>5, <1>6 DEF EventOK, ParkOK, IInv, Top
<1> QED BY <1>6, <1>7 DEF IInv

LEMMA TakenInv == IInv /\ (TakeEvent \/ FinishJump) => IInv'
<1> SUFFICES ASSUME IInv, TakeEvent \/ FinishJump PROVE IInv'
  OBVIOUS
<1>1. /\ ctl = "event" /\ pending_throw = None /\ awaited # "fail" /\ ctl' = "machine"
      /\ UNCHANGED <<depth, native, pause, pending_throw, awaited>>
  BY DEF TakeEvent, FinishJump, IInv, EventOK, ParkOK, pauseVars
<1>2. Steady
  BY <1>1, TryUpdates DEF TakeEvent, FinishJump, EnterCatch, EnterFinally, Become, Steady, IInv
<1>3. /\ DepthMatches' /\ Struct(frames', native') /\ Counted'
  BY <1>1, <1>2, Steadily
<1>4. EventOK' /\ ParkOK'
  BY <1>1 DEF EventOK, ParkOK
<1> QED BY <1>3, <1>4 DEF IInv

LEMMA EndFrameInv == IInv /\ EndFrame => IInv'
<1> SUFFICES ASSUME IInv, EndFrame PROVE IInv'
  OBVIOUS
<1>1. /\ ctl = "event" /\ pending_throw = None /\ awaited # "fail" /\ flow # NoFlow
      /\ ~Finishing(Top) /\ Struct(frames, native) /\ Counted
      /\ UNCHANGED <<native, pause, pending_throw, awaited>> /\ depth' = DepthWithout(Top)
  BY DEF EndFrame, IInv, EventOK, ParkOK, pauseVars
<1>2. IsFrame(Top)
  BY <1>1, TopFacts
<1>3. /\ Struct(frames', native') /\ Counted'
      /\ InProgress(frames', ctl') = Open(frames) \ {Len(frames)}
      /\ ctl' = "machine" \/ (ctl' = "deliver" /\ flow' = flow)
  <2>1. CASE Top.defers # <<>>
    <3> DEFINE g == [Top EXCEPT !.try = <<>>, !.defers = <<>>,
                       !.finish = [result |-> flow, rest |-> Top.defers, err |-> NoFlow]]
    <3>1. frames' = WithLast(frames, g) /\ ctl' = "machine"
      BY <2>1 DEF EndFrame, Become
    <3>2. IsFrame(g) /\ Finishing(g) /\ g.resume = Top.resume
      BY <1>1, <1>2, Ending
    <3> HIDE DEF g
    <3>3. /\ Struct(frames', native) /\ Tops(frames') = Tops(frames)
          /\ Open(frames') = Open(frames) \ {Len(frames)}
      BY <1>1, <3>1, <3>2, Replace DEF Top
    <3> QED BY <1>1, <3>1, <3>3 DEF Counted, InProgress
  <2>2. CASE Top.defers = <<>>
    <3>1. SameKind([Top EXCEPT !.try = <<>>], Top)
      BY <1>2, Updated
    <3>2. Steady /\ ctl' = "deliver" /\ flow' = flow
      BY <1>1, <2>2, <3>1 DEF EndFrame, Become, Goto, Steady
    <3>3. /\ Struct(frames', native') /\ Len(frames') = Len(frames)
          /\ Tops(frames') = Tops(frames) /\ Open(frames') = Open(frames)
      BY <1>1, <3>2, SteadyStep
    <3> QED BY <1>1, <3>2, <3>3 DEF Counted, InProgress
  <2> QED BY <2>1, <2>2
<1>4. DepthMatches'
  <2>1. depth = Cardinality(Open(frames)) + Cardinality(Callbacks(native))
    BY <1>1, DepthIs DEF IInv, InProgress
  <2>2. /\ IsFiniteSet(Open(frames)) /\ Cardinality(Open(frames)) \in Nat
        /\ Cardinality(Callbacks(native)) \in Nat
    BY <1>1, Finite
  <2>3. Len(frames) \in Open(frames) <=> Top.resume = "PushResult"
    BY <1>1, SeqFacts DEF Struct, Open, Top, Last
  <2>4. CASE Top.resume = "PushResult"
    <3>1. Cardinality(Open(frames) \ {Len(frames)}) = Cardinality(Open(frames)) - 1
      BY <2>2, <2>3, <2>4, FS_RemoveElement
    <3> QED BY <1>1, <1>3, <2>1, <2>2, <2>4, <3>1, DepthIs DEF DepthWithout
  <2>5. CASE Top.resume # "PushResult"
    <3>1. Open(frames) \ {Len(frames)} = Open(frames)
      BY <2>3, <2>5
    <3> QED BY <1>1, <1>3, <2>1, <2>5, <3>1, DepthIs DEF DepthWithout
  <2> QED BY <2>4, <2>5
<1>5. EventOK' /\ ParkOK'
  BY <1>1, <1>3 DEF EventOK, ParkOK
<1> QED BY <1>3, <1>4, <1>5 DEF IInv

LEMMA DeliverToFrameInv == IInv /\ DeliverToFrame => IInv'
<1> SUFFICES ASSUME IInv, DeliverToFrame PROVE IInv'
  OBVIOUS
<1> DEFINE under == Front(frames)
           caller == Last(under)
<1>1. /\ ctl = "deliver" /\ pending_throw = None /\ awaited # "fail" /\ flow # NoFlow
      /\ Top.resume = "PushResult" /\ Struct(frames, native) /\ Counted
      /\ UNCHANGED <<depth, native, pause, pending_throw, awaited>>
  BY DEF DeliverToFrame, IInv, EventOK, ParkOK, pauseVars
<1>2. /\ Struct(under, native) /\ Tops(under) = Tops(frames)
      /\ Open(under) = Open(frames) \ {Len(frames)}
  BY <1>1, Pop DEF Top
<1>3. IsFrame(caller)
  <2> HIDE DEF under
  <2>1. Len(under) \in DOMAIN under
    BY <1>2, SeqFacts DEF Struct
  <2> QED BY <1>2, <2>1 DEF Struct, Last
<1>4. Finishing(caller) => SameKind([caller EXCEPT !.finish.err = flow], caller)
  BY <1>3, Finish
<1>5. /\ \/ frames' = under
         \/ \E g : SameKind(g, caller) /\ frames' = WithLast(under, g)
      /\ \/ ctl' = "machine"
         \/ ctl' = "event" /\ flow' = flow /\ ~Finishing(caller)
  BY <1>4 DEF DeliverToFrame
<1>6. /\ Struct(frames', native) /\ Tops(frames') = Tops(under) /\ Open(frames') = Open(under)
      /\ Finishing(Last(frames')) <=> Finishing(caller)
  <2> HIDE DEF under
  <2> QED BY <1>2, <1>5, SameReplace DEF SameKind
<1>7. DepthMatches'
  <2>1. InProgress(frames', ctl') = InProgress(frames, ctl)
    BY <1>1, <1>2, <1>5, <1>6 DEF InProgress
  <2> QED BY <1>1, <2>1, DepthIs DEF IInv
<1>8. Counted'
  BY <1>1, <1>2, <1>6 DEF Counted
<1>9. EventOK' /\ ParkOK'
  BY <1>1, <1>5, <1>6 DEF EventOK, ParkOK, Top
<1> QED BY <1>1, <1>6, <1>7, <1>8, <1>9 DEF IInv

LEMMA DeliverToRunInv == IInv /\ DeliverToRun => IInv'
<1> SUFFICES ASSUME IInv, DeliverToRun PROVE IInv'
  OBVIOUS
<1> DEFINE run == Last(native)
<1>1. /\ ctl = "deliver" /\ pending_throw = None /\ awaited # "fail" /\ flow # NoFlow
      /\ Top.resume = "TopLevel" /\ native # <<>> /\ Struct(frames, native) /\ Counted
      /\ UNCHANGED <<pause, pending_throw, awaited>>
      /\ frames' = Front(frames) /\ native' = Front(native) /\ EndNested(run, flow)
  BY DEF DeliverToRun, IInv, EventOK, ParkOK, pauseVars, EndNested
<1>2. /\ Struct(frames', native') /\ Open(frames') = Open(frames)
      /\ Tops(frames') = Tops(frames) \ {Len(frames)}
      /\ run.call.by = "instr" <=> ~Finishing(Last(frames'))
      /\ run.what # "callback" => run.call.by = "instr"
  BY <1>1, Pop DEF Top
<1> HIDE DEF run
<1>3. \/ /\ run.what = "callback" /\ depth' = depth - 1
         /\ ctl' = "returned" /\ flow' = flow /\ call' = run.call
      \/ /\ run.what # "callback" /\ depth' = depth
         /\ ctl' = "machine" \/ (ctl' = "event" /\ flow' = flow)
  BY <1>1 DEF EndNested, Answer
<1>4. /\ IsSeq(native) /\ IsFiniteSet(Tops(frames)) /\ IsFiniteSet(Callbacks(native))
      /\ Len(native) \in Nat /\ Len(frames) \in Tops(frames)
      /\ Cardinality(Open(frames)) \in Nat /\ Cardinality(Callbacks(native)) \in Nat
      /\ Len(native') = Len(native) - 1
  <2>1. IsSeq(native) /\ IsSeq(frames) /\ frames # <<>>
    BY <1>1 DEF Struct
  <2>2. Len(frames) \in Tops(frames)
    BY <1>1, <2>1, SeqFacts DEF Tops, Top, Last
  <2>3. Len(native) \in Nat /\ Len(native') = Len(native) - 1
    BY <1>1, <2>1, SeqFacts, FrontFacts
  <2> QED BY <1>1, <2>1, <2>2, <2>3, Finite
<1>5. DepthMatches'
  <2>1. InProgress(frames, ctl) = Open(frames) /\ InProgress(frames', ctl') = Open(frames)
    BY <1>1, <1>2, <1>3 DEF InProgress, Open, Top, Last
  <2>2. /\ Callbacks(native') = Callbacks(native) \ {Len(native)}
        /\ Len(native) \in Callbacks(native) <=> run.what = "callback"
    BY <1>1, <1>4, CallbackFacts DEF run
  <2>3. depth = Cardinality(Open(frames)) + Cardinality(Callbacks(native))
    BY <2>1, DepthIs DEF IInv
  <2>4. CASE run.what = "callback"
    <3>1. Cardinality(Callbacks(native')) = Cardinality(Callbacks(native)) - 1
      BY <1>4, <2>2, <2>4, FS_RemoveElement
    <3> QED BY <1>3, <1>4, <2>1, <2>3, <2>4, <3>1, DepthIs
  <2>5. CASE run.what # "callback"
    <3>1. Callbacks(native') = Callbacks(native)
      BY <2>2, <2>5
    <3> QED BY <1>3, <2>1, <2>3, <2>5, <3>1, DepthIs
  <2> QED BY <2>4, <2>5
<1>6. Counted'
  <2>1. Cardinality(Tops(frames')) = Cardinality(Tops(frames)) - 1
    BY <1>2, <1>4, FS_RemoveElement
  <2> QED BY <1>1, <1>4, <2>1 DEF Counted
<1>7. EventOK' /\ ParkOK'
  BY <1>1, <1>2, <1>3 DEF EventOK, ParkOK, Top
<1> QED BY <1>2, <1>5, <1>6, <1>7 DEF IInv

\* The outermost run has one frame left when it ends, and no call.
LEMMA EndProgramInv == IInv /\ EndProgram => IInv'
<1> SUFFICES ASSUME IInv, EndProgram PROVE IInv'
  OBVIOUS
<1>1. /\ ctl = "deliver" /\ Top.resume = "TopLevel" /\ native = <<>>
      /\ frames' = <<>> /\ ctl' = "done" /\ UNCHANGED <<depth, native>>
      /\ Struct(frames, native)
  BY DEF EndProgram, IInv
<1>2. Len(frames) = 1 /\ DOMAIN frames = 1 .. 1
  BY <1>1, Pop, SeqFacts DEF Top, Struct
<1>3. InProgress(frames, ctl) = {} /\ InProgress(frames', ctl') = {}
  BY <1>1, <1>2 DEF InProgress, Open, Top, Last
<1>4. DepthMatches'
  BY <1>1, <1>3, DepthIs DEF IInv
<1> QED BY <1>1, <1>4 DEF IInv

LEMMA ImportModuleInv == IInv /\ ImportModule => IInv'
<1> SUFFICES ASSUME IInv, ImportModule PROVE IInv'
  OBVIOUS
<1>1. /\ ctl = "machine" /\ pending_throw = None /\ ~Finishing(Top) /\ awaited # "fail"
      /\ Struct(frames, native) /\ Counted
  BY DEF ImportModule, Running, IInv, ParkOK
<1>2. SameKind(Advanced, Top)
  BY <1>1, TopFacts
<1>3. CASE Local(Advanced, stack)
  BY <1>1, <1>2, <1>3, LocalInv
<1>4. CASE RaiseEvent(Advanced, stack, Flow("throw", "cycle"))
  BY <1>1, <1>2, <1>4, FlowFacts, EventInv
<1>5. ASSUME NEW fs, NEW new, NEW run,
             fs = WithLast(frames, Advanced), new = Frame(Ins.val, "TopLevel", Len(stack)),
             run = [what |-> "import", call |-> [NoCall EXCEPT !.callee = Ins.val]],
             frames' = Append(fs, new), native' = Append(native, run),
             UNCHANGED <<depth, pauseVars, ctlVars>>
      PROVE  IInv'
  <2>1. /\ Struct(fs, native) /\ Len(fs) = Len(frames) /\ Tops(fs) = Tops(frames)
        /\ Open(fs) = Open(frames) /\ Last(fs) = Advanced /\ ~Finishing(Advanced)
    BY <1>1, <1>2, <1>5, SameReplace DEF Top, SameKind
  <2>2. IsFrame(new) /\ ~Finishing(new) /\ new.resume = "TopLevel"
    BY <1>5, NewFrame
  <2>3. run.call.by = "instr" /\ run.what # "callback"
    BY <1>5 DEF NoCall
  <2>4. Struct(frames', native')
    BY <1>5, <2>1, <2>2, <2>3, PushRun
  <2>5. /\ Last(frames') = new /\ Open(frames') = Open(frames)
        /\ Tops(frames') = Tops(frames) \cup {Len(frames) + 1}
    BY <1>5, <2>1, <2>2, Push
  <2>6. Callbacks(native') = Callbacks(native) /\ Len(native') = Len(native) + 1
    BY <1>1, <1>5, <2>3, CallbackFacts, AppendFacts DEF Struct
  <2>7. DepthMatches'
    <3>1. InProgress(frames', ctl') = InProgress(frames, ctl) /\ depth' = depth
      BY <1>1, <1>5, <2>5 DEF InProgress, ctlVars
    <3> QED BY <2>6, <3>1, DepthIs DEF IInv
  <2>8. Counted'
    <3>1. Cardinality(Tops(frames')) = Cardinality(Tops(frames)) + 1
      BY <1>1, <2>5, Finite, FS_AddElement
    <3> QED BY <1>1, <2>6, <3>1 DEF Counted
  <2>9. EventOK' /\ ParkOK'
    BY <1>1, <1>5 DEF EventOK, ParkOK, pauseVars, ctlVars
  <2> QED BY <2>4, <2>7, <2>8, <2>9 DEF IInv
<1> QED BY <1>3, <1>4, <1>5 DEF ImportModule

LEMMA NoneIsNew == None # "fail"
BY VMAssumption DEF Builtins

LEMMA SliceInv ==
  IInv /\ NestedRunsEnd /\ (OutOfFuel \/ Yield \/ NextSlice \/ DeliverError) => IInv'
<1> SUFFICES ASSUME IInv, NestedRunsEnd, OutOfFuel \/ Yield \/ NextSlice \/ DeliverError
             PROVE  IInv'
  OBVIOUS
<1>1. /\ ctl \in {"machine", "yield", "paused"} /\ EventOK /\ ParkOK
      /\ Steady /\ UNCHANGED <<depth, frames>>
  BY DEF OutOfFuel, Yield, NextSlice, DeliverError, NestedRunsEnd, IInv, Steady, Goto, frameVars
<1>2. CASE OutOfFuel
  <2>1. /\ ctl = "machine" /\ ctl' = "yield" /\ pending_throw = None
        /\ UNCHANGED <<pending_throw, awaited>>
    BY <1>2 DEF OutOfFuel, Goto
  <2> QED BY <1>1, <2>1, Steadily DEF IInv, EventOK, ParkOK
<1>3. CASE Yield
  <2>1. /\ ctl = "yield" /\ ctl' = "paused" /\ UNCHANGED <<pending_throw, awaited>>
    BY <1>3 DEF Yield, Goto, NestedRunsEnd, pauseVars
  <2>2. EventOK' /\ ParkOK'
    BY <1>1, <2>1 DEF EventOK, ParkOK, Top
  <2> QED BY <1>1, <2>1, <2>2, Steadily DEF IInv
<1>4. CASE NextSlice
  <2>1. /\ ctl = "paused" /\ ctl' = "machine" /\ awaited' = None
        /\ pending_throw' # None => awaited = "fail"
    BY <1>4 DEF NextSlice, Goto
  <2>2. EventOK' /\ ParkOK'
    BY <1>1, <2>1, NoneIsNew DEF EventOK, ParkOK, Top
  <2> QED BY <1>1, <2>1, <2>2, Steadily DEF IInv
<1>5. CASE DeliverError
  <2>1. /\ ctl = "machine" /\ pending_throw # None /\ pending_throw' = None
        /\ ctl' = "event" /\ flow' # NoFlow /\ awaited' = awaited
    BY <1>5, FlowFacts DEF DeliverError, Raise
  <2>2. EventOK' /\ ParkOK'
    BY <1>1, <2>1 DEF EventOK, ParkOK, Top
  <2> QED BY <1>1, <2>1, <2>2, Steadily DEF IInv
<1> QED BY <1>2, <1>3, <1>4, <1>5

LEMMA Initially == Init => IInv
<1> SUFFICES ASSUME Init PROVE IInv
  OBVIOUS
<1> DEFINE main == Frame("main", "TopLevel", 0)
<1>1. frames = <<main>> /\ native = <<>> /\ depth = 0 /\ ctl = "machine"
  BY DEF Init
<1>2. IsFrame(main) /\ ~Finishing(main) /\ main.resume = "TopLevel"
  BY NewFrame
<1> HIDE DEF main
<1>3. /\ Len(frames) = 1 /\ DOMAIN frames = 1 .. 1 /\ frames[1] = main /\ frames # <<>>
      /\ Len(native) = 0 /\ DOMAIN native = 1 .. 0
  BY <1>1
<1>4. IsSeq(frames) /\ IsSeq(native)
  <2>1. <<main>> \in Seq({main}) /\ <<>> \in Seq({main})
    OBVIOUS
  <2> QED BY <1>1, <2>1 DEF IsSeq
<1>5. Linked(frames, native)
  <2>1. [i \in 1 .. 0 |-> 2] \in [1 .. Len(native) -> 2 .. Len(frames)]
    BY <1>3
  <2>2. Links([i \in 1 .. 0 |-> 2], frames, native)
    BY <1>3 DEF Links
  <2> QED BY <2>1, <2>2 DEF Linked
<1>6. Struct(frames, native)
  BY <1>2, <1>3, <1>4, <1>5 DEF Struct
<1>7. Tops(frames) = {1} /\ Open(frames) = {} /\ Callbacks(native) = {}
  BY <1>2, <1>3 DEF Tops, Open, Callbacks
<1>8. Cardinality({1}) = 1 /\ Cardinality({}) = 0
  BY FS_EmptySet, FS_Singleton
<1>9. DepthMatches
  <2>1. InProgress(frames, ctl) = {}
    BY <1>1, <1>7 DEF InProgress
  <2>2. 0 = Cardinality(InProgress(frames, ctl)) + Cardinality(Callbacks(native))
    BY <1>7, <1>8, <2>1
  <2> QED BY <1>1, <2>2, DepthIs
<1>10. Counted
  BY <1>3, <1>7, <1>8 DEF Counted
<1>11. EventOK /\ ParkOK
  BY <1>1, NoneIsNew DEF Init, EventOK, ParkOK
<1> QED BY <1>6, <1>9, <1>10, <1>11 DEF IInv

LEMMA StutterInv == IInv /\ UNCHANGED vars => IInv'
BY DEF IInv, vars, frameVars, pauseVars, libVars, ctlVars, DepthMatches, Ended, Finishing, Struct,
       Counted, Tops, EventOK, ParkOK, Top, Last, Linked, Links

LEMMA Inductive == IInv /\ NestedRunsEnd /\ [Next]_vars => IInv'
<1> SUFFICES ASSUME IInv, NestedRunsEnd, [Next]_vars PROVE IInv'
  OBVIOUS
<1>1. CASE Execute
  BY <1>1, DataInv, DeferCallInv, TryInv, ExitFinallyInv, EventsInv, CallInstrInv, NextDeferInv,
     FinishedInv, ReturnedInv, TakenInv, EndFrameInv, DeliverToFrameInv, DeliverToRunInv,
     EndProgramInv, ImportModuleInv, SliceInv DEF Execute
<1>2. CASE OutOfFuel \/ NextSlice
  BY <1>2, SliceInv
<1>3. CASE Terminated \/ UNCHANGED vars
  BY <1>3, StutterInv DEF Terminated
<1> QED BY <1>1, <1>2, <1>3 DEF Next

LEMMA Invariance == Spec /\ []NestedRunsEnd => []IInv
BY Initially, Inductive, PTL DEF Spec

\* The call depth is the number of calls in progress on every way out of a function,
\* through try statements, deferred calls, callbacks and modules, as long as no
\* nested run is left by a Yield (vm.rs: dispatch_event_parts, call_function_value).
THEOREM DepthIsExact == Spec /\ []NestedRunsEnd => []DepthMatches
<1>1. IInv => DepthMatches
  BY DEF IInv
<1> QED BY <1>1, Invariance, PTL

\* Every running execute_frames has one frame to end with, the one it was started
\* for, as long as no nested run is left by a Yield (vm.rs: execute_frames,
\* deliver_frame_result).
THEOREM RunsHaveTheirFrames == Spec /\ []NestedRunsEnd => []EveryRunHasItsFrame
<1>1. IInv => EveryRunHasItsFrame
  BY DEF IInv, Counted, Tops, EveryRunHasItsFrame
<1> QED BY <1>1, Invariance, PTL

-----------------------------------------------------------------------------
(* Sequences once more, and the try blocks of a list of entries.             *)

LEMMA Least ==
  ASSUME NEW T, T \subseteq Nat, T # {}
  PROVE  \E x \in T : \A y \in T : x <= y
<1> DEFINE R == OpToRel(<, Nat)
<1>1. IsWellFoundedOn(R, Nat)
  BY NatLessThanWellFounded
<1>2. \A x, y \in Nat : y < x => <<y, x>> \in R
  BY DEF OpToRel
<1> HIDE DEF R
<1>3. PICK x \in T : \A y \in T : ~ (<<y, x>> \in R)
  BY <1>1, WFMin
<1>4. \A y \in T : ~ (y < x)
  <2>1. T \subseteq Nat /\ x \in Nat
    OBVIOUS
  <2> QED BY <1>2, <1>3, <2>1, Zenon
<1>5. \A y \in T : x \in Nat /\ y \in Nat
  OBVIOUS
<1>6. \A y \in T : x <= y
  BY <1>4, <1>5
<1> QED BY <1>6

LEMMA Greatest ==
  ASSUME NEW n \in Nat, NEW T, T \subseteq 1 .. n, T # {}
  PROVE  \E x \in T : \A y \in T : y <= x
<1> DEFINE U == {n - t : t \in T}
<1>1. \A t \in T : n - t \in Nat /\ t \in Nat /\ n - t \in U
  OBVIOUS
<1>2. U \subseteq Nat
  BY <1>1
<1>3. U # {}
  OBVIOUS
<1>4. PICK x \in U : \A y \in U : x <= y
  BY <1>2, <1>3, Least
<1>5. PICK t \in T : x = n - t
  OBVIOUS
<1> HIDE DEF U
<1>6. \A y \in T : y <= t
  BY <1>1, <1>4, <1>5
<1> QED BY <1>6

LEMMA SameSeq ==
  ASSUME NEW s, IsSeq(s), NEW t, IsSeq(t), Len(s) = Len(t), \A i \in 1 .. Len(s) : s[i] = t[i]
  PROVE  s = t
<1>1. PICK S, T : s \in Seq(S) /\ t \in Seq(T)
  BY DEF IsSeq
<1> DEFINE U == S \cup T
<1>2. s \in Seq(U) /\ t \in Seq(U)
  BY <1>1, SeqMonotonic
<1> HIDE DEF U
<1> QED BY <1>2, SeqEqual

LEMMA CutFacts ==
  ASSUME NEW s, IsSeq(s), NEW n \in 0 .. Len(s)
  PROVE  LET u == SubSeq(s, 1, n)
         IN  /\ IsSeq(u) /\ Len(u) = n /\ DOMAIN u = 1 .. n
             /\ \A i \in 1 .. n : u[i] = s[i]
             /\ n = Len(s) => u = s
<1>1. PICK S : s \in Seq(S)
  BY DEF IsSeq
<1>2. Len(s) \in Nat /\ n \in Nat /\ n <= Len(s) /\ \A i \in 1 .. n : s[i] \in S
  BY <1>1, SeqFacts, LenProperties
<1> DEFINE u == SubSeq(s, 1, n)
<1>3. /\ u \in Seq(S)
      /\ Len(u) = IF 1 <= n THEN n - 1 + 1 ELSE 0
      /\ \A i \in 1 .. n - 1 + 1 : u[i] = s[1 + i - 1]
  BY <1>2, SubSeqProperties, 1 \in Int, n \in Int
<1> HIDE DEF u
<1>4. IsSeq(u)
  BY <1>3 DEF IsSeq
<1>5. Len(u) = n /\ \A i \in 1 .. n : u[i] = s[i]
  BY <1>2, <1>3
<1>6. n = Len(s) => u = s
  BY <1>4, <1>5, SameSeq
<1>7. DOMAIN u = 1 .. n
  BY <1>4, <1>5, SeqFacts
<1> QED BY <1>4, <1>5, <1>6, <1>7 DEF u

LEMMA BlocksFacts ==
  ASSUME NEW try, IsSeq(try)
  PROVE  /\ IsSeq(Blocks(try)) /\ Len(Blocks(try)) = Len(try)
         /\ \A i \in 1 .. Len(try) : Blocks(try)[i] = [phase |-> try[i].phase, at |-> try[i].at]
<1>1. Len(try) \in Nat /\ DOMAIN try = 1 .. Len(try)
  BY SeqFacts
<1> DEFINE S == {[phase |-> try[i].phase, at |-> try[i].at] : i \in 1 .. Len(try)}
           b == Blocks(try)
<1>2. b = [i \in 1 .. Len(try) |-> [phase |-> try[i].phase, at |-> try[i].at]]
  BY <1>1 DEF Blocks
<1>3. b \in [1 .. Len(try) -> S]
  BY <1>2
<1>4. b \in Seq(S)
  BY <1>1, <1>3, SeqDef
<1> HIDE DEF S, b
<1>5. DOMAIN b = 1 .. Len(try)
  BY <1>3
<1>6. Len(b) = Len(try)
  BY <1>1, <1>4, <1>5, LenProperties
<1>7. \A i \in 1 .. Len(try) : b[i] = [phase |-> try[i].phase, at |-> try[i].at]
  BY <1>2
<1>8. IsSeq(b)
  BY <1>4 DEF IsSeq
<1> QED BY <1>6, <1>7, <1>8 DEF b

\* Blocks of a shorter or longer list of entries.
LEMMA BlocksCut ==
  ASSUME NEW try, IsSeq(try), NEW n \in 0 .. Len(try)
  PROVE  Blocks(SubSeq(try, 1, n)) = SubSeq(Blocks(try), 1, n)
<1> DEFINE u == SubSeq(try, 1, n)
           b == Blocks(try)
           c == SubSeq(b, 1, n)
<1>1. IsSeq(u) /\ Len(u) = n /\ \A i \in 1 .. n : u[i] = try[i]
  BY CutFacts
<1>2. IsSeq(b) /\ Len(b) = Len(try) /\ Len(try) \in Nat
      /\ \A i \in 1 .. Len(try) : b[i] = [phase |-> try[i].phase, at |-> try[i].at]
  BY BlocksFacts, SeqFacts
<1> HIDE DEF u, b
<1>3. IsSeq(c) /\ Len(c) = n /\ \A i \in 1 .. n : c[i] = b[i]
  BY <1>2, CutFacts
<1> HIDE DEF c
<1>4. /\ IsSeq(Blocks(u)) /\ Len(Blocks(u)) = n
      /\ \A i \in 1 .. n : Blocks(u)[i] = [phase |-> u[i].phase, at |-> u[i].at]
  BY <1>1, BlocksFacts
<1>5. \A i \in 1 .. n : Blocks(u)[i] = c[i]
  BY <1>1, <1>2, <1>3, <1>4
<1>6. Blocks(u) = c
  BY <1>3, <1>4, <1>5, SameSeq
<1> QED BY <1>6 DEF u, c, b

LEMMA BlocksAppend ==
  ASSUME NEW try, IsSeq(try), NEW te
  PROVE  Blocks(Append(try, te)) = Append(Blocks(try), [phase |-> te.phase, at |-> te.at])
<1> DEFINE n == Len(try)
           u == Append(try, te)
           b == Blocks(try)
           x == [phase |-> te.phase, at |-> te.at]
           c == Append(b, x)
<1>1. /\ IsSeq(u) /\ Len(u) = n + 1 /\ n \in Nat
      /\ \A i \in 1 .. n : u[i] = try[i]
      /\ u[n + 1] = te
  BY AppendFacts, SeqFacts
<1>2. IsSeq(b) /\ Len(b) = n
      /\ \A i \in 1 .. n : b[i] = [phase |-> try[i].phase, at |-> try[i].at]
  BY BlocksFacts
<1> HIDE DEF u, b
<1>3. /\ IsSeq(c) /\ Len(c) = n + 1 /\ c[n + 1] = x
      /\ \A i \in 1 .. n : c[i] = b[i]
  BY <1>2, AppendFacts
<1> HIDE DEF c, n
<1>4. /\ IsSeq(Blocks(u)) /\ Len(Blocks(u)) = n + 1
      /\ \A i \in 1 .. n + 1 : Blocks(u)[i] = [phase |-> u[i].phase, at |-> u[i].at]
  BY <1>1, BlocksFacts
<1>5. \A i \in 1 .. n + 1 : Blocks(u)[i] = c[i]
  <2> TAKE i \in 1 .. n + 1
  <2>1. CASE i = n + 1
    BY <1>1, <1>3, <1>4, <2>1
  <2>2. CASE i \in 1 .. n
    BY <1>1, <1>2, <1>3, <1>4, <2>2
  <2> QED BY <1>1, <2>1, <2>2
<1>6. Blocks(u) = c
  BY <1>1, <1>3, <1>4, <1>5, SameSeq
<1> QED BY <1>6 DEF u, c, b

-----------------------------------------------------------------------------
(* The code is verified: what CInv says of flows of control and try entries. *)

\* A flow of control that has its end: a result or an error.
Ends(fl) ==
  /\ fl = [kind |-> fl.kind, val |-> fl.val, target |-> fl.target, leave |-> fl.leave]
  /\ fl.kind \in {"return", "throw"} /\ fl.leave \in Nat

\* An event under way in the try blocks nest, above h operands of the frame: a return
\* leaves none, a jump leads to code that stands in the blocks it does not leave, with
\* as many operands as each block it leaves began with.
Travels(code, fl, nest, h) ==
  /\ fl = [kind |-> fl.kind, val |-> fl.val, target |-> fl.target, leave |-> fl.leave]
  /\ fl.kind \in {"return", "throw", "jump"} /\ fl.leave \in Nat
  /\ fl.kind = "return" => h = 0
  /\ fl.kind = "jump" =>
       /\ fl.leave <= Len(nest)
       /\ Expects(code, fl.target, SubSeq(nest, 1, Len(nest) - fl.leave), h)
       /\ \A j \in Len(nest) - fl.leave + 1 .. Len(nest) : code[nest[j].at].height = h

\* te is the entry of the PushTry at te.at, which stands in the blocks nest.
EntryOK(code, base, nest, te) ==
  /\ te = [catch |-> te.catch, finally |-> te.finally, end |-> te.end, phase |-> te.phase,
           snapshot |-> te.snapshot, pending |-> te.pending, at |-> te.at]
  /\ te.at \in DOMAIN code /\ code[te.at].op = "PushTry" /\ code[te.at].nest = nest
  /\ te.catch = code[te.at].catch /\ te.finally = code[te.at].finally
  /\ te.end = code[te.at].target
  /\ code[te.at].height \in Nat /\ te.snapshot = base + code[te.at].height
  /\ te.pending = NoFlow \/ Travels(code, te.pending, nest, code[te.at].height)
EntriesOK(code, base, try) ==
  /\ IsSeq(try)
  /\ \A j \in DOMAIN try : EntryOK(code, base, SubSeq(Blocks(try), 1, j - 1), try[j])

LEMMA CutCut ==
  ASSUME NEW s, IsSeq(s), NEW n \in 0 .. Len(s), NEW m \in 0 .. n
  PROVE  SubSeq(SubSeq(s, 1, n), 1, m) = SubSeq(s, 1, m)
<1> DEFINE u == SubSeq(s, 1, n)
           v == SubSeq(u, 1, m)
           w == SubSeq(s, 1, m)
<1>1. /\ IsSeq(u) /\ Len(u) = n /\ \A i \in 1 .. n : u[i] = s[i]
      /\ Len(s) \in Nat
  BY CutFacts, SeqFacts
<1>2. m \in 0 .. Len(s) /\ m \in 0 .. Len(u)
  BY <1>1
<1>3. IsSeq(w) /\ Len(w) = m /\ \A i \in 1 .. m : w[i] = s[i]
  BY <1>2, CutFacts
<1> HIDE DEF u, w
<1>4. IsSeq(v) /\ Len(v) = m /\ \A i \in 1 .. m : v[i] = u[i]
  BY <1>1, <1>2, CutFacts
<1> HIDE DEF v
<1>5. \A i \in 1 .. m : v[i] = w[i]
  BY <1>1, <1>3, <1>4
<1>6. v = w
  BY <1>3, <1>4, <1>5, SameSeq
<1> QED BY <1>6 DEF u, v, w

LEMMA CutAppend ==
  ASSUME NEW s, IsSeq(s), NEW x, NEW m \in 0 .. Len(s)
  PROVE  SubSeq(Append(s, x), 1, m) = SubSeq(s, 1, m)
<1> DEFINE u == Append(s, x)
           v == SubSeq(u, 1, m)
           w == SubSeq(s, 1, m)
<1>1. /\ IsSeq(u) /\ Len(u) = Len(s) + 1 /\ \A i \in 1 .. Len(s) : u[i] = s[i]
      /\ Len(s) \in Nat
  BY AppendFacts, SeqFacts
<1>2. m \in 0 .. Len(u)
  BY <1>1
<1>3. IsSeq(w) /\ Len(w) = m /\ \A i \in 1 .. m : w[i] = s[i]
  BY CutFacts
<1> HIDE DEF u, w
<1>4. IsSeq(v) /\ Len(v) = m /\ \A i \in 1 .. m : v[i] = u[i]
  BY <1>1, <1>2, CutFacts
<1> HIDE DEF v
<1>5. \A i \in 1 .. m : v[i] = w[i]
  BY <1>1, <1>3, <1>4
<1>6. v = w
  BY <1>3, <1>4, <1>5, SameSeq
<1> QED BY <1>6 DEF u, v, w

LEMMA NoEntries ==
  ASSUME NEW code, NEW base
  PROVE  EntriesOK(code, base, <<>>) /\ Blocks(<<>>) = <<>>
<1>1. IsSeq(<<>>) /\ Len(<<>>) = 0 /\ DOMAIN <<>> = 1 .. 0
  <2>1. <<>> \in Seq({})
    OBVIOUS
  <2>2. IsSeq(<<>>)
    BY <2>1 DEF IsSeq
  <2> QED BY <2>2
<1>2. EntriesOK(code, base, <<>>)
  BY <1>1 DEF EntriesOK
<1>3. IsSeq(Blocks(<<>>)) /\ Len(Blocks(<<>>)) = 0
  BY <1>1, BlocksFacts
<1>4. \A i \in 1 .. Len(Blocks(<<>>)) : Blocks(<<>>)[i] = <<>>[i]
  BY <1>3
<1>5. Blocks(<<>>) = <<>>
  BY <1>1, <1>3, <1>4, SameSeq
<1> QED BY <1>2, <1>5

LEMMA EntriesCut ==
  ASSUME NEW code, NEW base, NEW try, EntriesOK(code, base, try), NEW n \in 0 .. Len(try)
  PROVE  LET u == SubSeq(try, 1, n)
         IN  EntriesOK(code, base, u) /\ Blocks(u) = SubSeq(Blocks(try), 1, n)
<1> DEFINE u == SubSeq(try, 1, n)
           b == Blocks(try)
<1>1. /\ IsSeq(try) /\ DOMAIN try = 1 .. Len(try) /\ Len(try) \in Nat
      /\ \A j \in DOMAIN try : EntryOK(code, base, SubSeq(b, 1, j - 1), try[j])
  BY SeqFacts DEF EntriesOK
<1>2. IsSeq(u) /\ DOMAIN u = 1 .. n /\ \A i \in 1 .. n : u[i] = try[i]
  BY <1>1, CutFacts
<1>3. Blocks(u) = SubSeq(b, 1, n) /\ IsSeq(b) /\ Len(b) = Len(try)
  BY <1>1, BlocksCut, BlocksFacts
<1> HIDE DEF u, b
<1>4. ASSUME NEW j \in 1 .. n
      PROVE  EntryOK(code, base, SubSeq(Blocks(u), 1, j - 1), u[j])
  <2>1. j \in DOMAIN try /\ j - 1 \in 0 .. n /\ n \in 0 .. Len(b)
    BY <1>1, <1>3
  <2>2. SubSeq(SubSeq(b, 1, n), 1, j - 1) = SubSeq(b, 1, j - 1)
    BY <1>3, <2>1, CutCut
  <2>3. EntryOK(code, base, SubSeq(b, 1, j - 1), try[j])
    BY <1>1, <2>1
  <2>4. u[j] = try[j]
    BY <1>2
  <2> QED BY <1>3, <2>2, <2>3, <2>4
<1>5. EntriesOK(code, base, u)
  BY <1>2, <1>4 DEF EntriesOK
<1> QED BY <1>3, <1>5 DEF u, b

LEMMA EntriesAppend ==
  ASSUME NEW code, NEW base, NEW try, EntriesOK(code, base, try),
         NEW te, EntryOK(code, base, Blocks(try), te)
  PROVE  LET u == Append(try, te)
         IN  /\ EntriesOK(code, base, u)
             /\ Blocks(u) = Append(Blocks(try), [phase |-> te.phase, at |-> te.at])
<1> DEFINE n == Len(try)
           u == Append(try, te)
           b == Blocks(try)
           x == [phase |-> te.phase, at |-> te.at]
<1>1. /\ IsSeq(try) /\ DOMAIN try = 1 .. n /\ n \in Nat
      /\ \A j \in DOMAIN try : EntryOK(code, base, SubSeq(b, 1, j - 1), try[j])
  BY SeqFacts DEF EntriesOK
<1>2. /\ IsSeq(u) /\ Len(u) = n + 1 /\ u[n + 1] = te
      /\ \A i \in 1 .. n : u[i] = try[i]
  BY <1>1, AppendFacts
<1>3. DOMAIN u = 1 .. n + 1
  BY <1>2, SeqFacts
<1>4. Blocks(u) = Append(b, x) /\ IsSeq(b) /\ Len(b) = n
  BY <1>1, BlocksAppend, BlocksFacts
<1>5. EntryOK(code, base, b, te)
  OBVIOUS
<1> HIDE DEF u, b, x, n
<1>6. ASSUME NEW j \in 1 .. n + 1
      PROVE  EntryOK(code, base, SubSeq(Blocks(u), 1, j - 1), u[j])
  <2>1. j - 1 \in 0 .. Len(b)
    BY <1>1, <1>4
  <2>2. SubSeq(Blocks(u), 1, j - 1) = SubSeq(b, 1, j - 1)
    BY <1>4, <2>1, CutAppend
  <2>3. CASE j \in 1 .. n
    <3>1. EntryOK(code, base, SubSeq(b, 1, j - 1), try[j]) /\ u[j] = try[j]
      BY <1>1, <1>2, <2>3
    <3> QED BY <2>2, <3>1
  <2>4. CASE j = n + 1
    <3>1. j - 1 = Len(b)
      BY <1>1, <1>4, <2>4
    <3>2. SubSeq(b, 1, j - 1) = b
      BY <1>4, <2>1, <3>1, CutFacts
    <3> QED BY <1>2, <1>5, <2>2, <2>4, <3>2
  <2> QED BY <1>1, <2>3, <2>4
<1>7. EntriesOK(code, base, u)
  BY <1>2, <1>3, <1>6 DEF EntriesOK
<1> QED BY <1>4, <1>7 DEF u, b, x

\* Entries above the i-th are dropped, the i-th is changed.
LEMMA EntriesUnwound ==
  ASSUME NEW code, NEW base, NEW try, EntriesOK(code, base, try), NEW i \in 1 .. Len(try),
         NEW te, EntryOK(code, base, SubSeq(Blocks(try), 1, i - 1), te)
  PROVE  LET u == Append(SubSeq(try, 1, i - 1), te)
         IN  /\ EntriesOK(code, base, u)
             /\ Blocks(u) = Append(SubSeq(Blocks(try), 1, i - 1),
                                   [phase |-> te.phase, at |-> te.at])
<1> DEFINE v == SubSeq(try, 1, i - 1)
<1>1. i - 1 \in 0 .. Len(try)
  BY SeqFacts DEF EntriesOK
<1>2. EntriesOK(code, base, v)
  BY <1>1, EntriesCut
<1>3. Blocks(v) = SubSeq(Blocks(try), 1, i - 1)
  BY <1>1, EntriesCut
<1> HIDE DEF v
<1>4. EntryOK(code, base, Blocks(v), te)
  BY <1>3
<1>5. EntriesOK(code, base, Append(v, te))
  BY <1>2, <1>4, EntriesAppend
<1>6. Blocks(Append(v, te)) = Append(Blocks(v), [phase |-> te.phase, at |-> te.at])
  BY <1>2, <1>4, EntriesAppend
<1> QED BY <1>3, <1>5, <1>6 DEF v

LEMMA EntryAt ==
  ASSUME NEW code, NEW base, NEW try, EntriesOK(code, base, try), NEW i \in 1 .. Len(try)
  PROVE  EntryOK(code, base, SubSeq(Blocks(try), 1, i - 1), try[i])
BY SeqFacts DEF EntriesOK

-----------------------------------------------------------------------------
(* Frames and the frames that wait for them.                                 *)

FrameOK(fns, f) ==
  /\ f.fn \in DOMAIN fns /\ f.ip \in DOMAIN fns[f.fn] /\ f.base \in Nat
  /\ f.resume \in {"TopLevel", "PushResult"}
  /\ EntriesOK(fns[f.fn], f.base, f.try)
  /\ Finishing(f) =>
       /\ Ends(f.finish.result)
       /\ f.finish.err = NoFlow \/ (Ends(f.finish.err) /\ f.finish.err.kind = "throw")

\* f stands in the try blocks its instruction expects, h operands of its own on the stack.
Stands(fns, f, h) ==
  LET I == fns[f.fn][f.ip] IN I.nest = Blocks(f.try) /\ I.height = h

\* n operands on the stack are enough for frame f and for what its try entries go back to.
Holds(f, n) == n >= f.base /\ \A j \in DOMAIN f.try : f.try[j].snapshot <= n

\* Of a frame that runs its deferred calls, only that its operands are gone if it is to
\* return.
Deferring(f, n) ==
  /\ Holds(f, n)
  /\ f.finish.result.kind = "return" /\ f.finish.err = NoFlow => n = f.base

\* Frame f can go on with n operands on the stack; or with one more, the result of the
\* call it has made.
Finds(fns, f, n) ==
  IF Finishing(f) THEN Deferring(f, n) ELSE Holds(f, n) /\ Stands(fns, f, n - f.base)
Awaits(fns, f, n) ==
  IF Finishing(f) THEN Deferring(f, n) ELSE Holds(f, n) /\ Stands(fns, f, n + 1 - f.base)

LEMMA FindsHolds ==
  ASSUME NEW fns, NEW f, NEW n, Finds(fns, f, n) \/ Awaits(fns, f, n)
  PROVE  Holds(f, n)
BY DEF Finds, Awaits, Deferring

LEMMA HoldsMore ==
  ASSUME NEW fns, NEW f, FrameOK(fns, f), NEW n \in Nat, Holds(f, n), NEW m \in Nat, n <= m
  PROVE  Holds(f, m)
<1>1. ASSUME NEW j \in DOMAIN f.try
      PROVE  f.try[j].snapshot \in Nat /\ f.try[j].snapshot <= n
  <2> DEFINE te == f.try[j]
             code == fns[f.fn]
  <2>1. EntryOK(code, f.base, SubSeq(Blocks(f.try), 1, j - 1), te) /\ f.base \in Nat
    BY <1>1 DEF FrameOK, EntriesOK
  <2> HIDE DEF te, code
  <2>2. te.snapshot \in Nat
    BY <2>1 DEF EntryOK
  <2> QED BY <1>1, <2>2 DEF Holds, te
<1>2. f.base \in Nat /\ n >= f.base
  BY DEF Holds, FrameOK
<1> QED BY <1>1, <1>2 DEF Holds

\* Where an instruction may take k operands, the try entries keep theirs.
LEMMA Room ==
  ASSUME NEW code, NEW f, f.base \in Nat, EntriesOK(code, f.base, f.try),
         NEW i, code[i].nest = Blocks(f.try), code[i].height \in Nat,
         NEW k \in Nat, Spare(code, i, k), NEW n \in Int, n - f.base = code[i].height - k
  PROVE  Holds(f, n)
<1>1. n >= f.base
  BY DEF Spare
<1>2. ASSUME NEW j \in DOMAIN f.try
      PROVE  f.try[j].snapshot <= n
  <2> DEFINE te == f.try[j]
  <2>1. EntryOK(code, f.base, SubSeq(Blocks(f.try), 1, j - 1), te)
    BY <1>2 DEF EntriesOK
  <2>2. code[te.at].height \in Nat /\ te.snapshot = f.base + code[te.at].height
    BY <2>1 DEF EntryOK
  <2>3. j \in DOMAIN code[i].nest /\ code[i].nest[j].at = te.at
    <3>1. IsSeq(f.try)
      BY DEF EntriesOK
    <3>2. /\ IsSeq(Blocks(f.try)) /\ Len(Blocks(f.try)) = Len(f.try)
          /\ \A l \in 1 .. Len(f.try) :
               Blocks(f.try)[l] = [phase |-> f.try[l].phase, at |-> f.try[l].at]
      BY <3>1, BlocksFacts
    <3>3. DOMAIN f.try = 1 .. Len(f.try) /\ DOMAIN Blocks(f.try) = 1 .. Len(Blocks(f.try))
      BY <3>1, <3>2, SeqFacts
    <3>4. j \in 1 .. Len(f.try) /\ Len(Blocks(f.try)) = Len(f.try)
      BY <1>2, <3>2, <3>3
    <3>5. Blocks(f.try)[j] = [phase |-> te.phase, at |-> te.at]
      BY <3>2, <3>4
    <3> HIDE DEF te
    <3> QED BY <3>3, <3>4, <3>5
  <2>4. code[te.at].height + k <= code[i].height
    <3> HIDE DEF te
    <3> QED BY <2>3 DEF Spare
  <2> HIDE DEF te
  <2>5. te.snapshot <= n
    BY <2>2, <2>4
  <2> QED BY <2>5 DEF te
<1> QED BY <1>1, <1>2 DEF Holds

\* The run that the top-level frame k belongs to.
UpTo(fs, k)  == {j \in Tops(fs) : j <= k}
RunOf(fs, k) == Cardinality(UpTo(fs, k)) - 1
Loads(fs, runs, k) == fs[k].resume = "TopLevel" /\ runs[RunOf(fs, k)].what = "import"

\* Frame f started what is above the operands n: a module, or a call.
Started(fns, f, n, isImport) ==
  IF isImport THEN ~Finishing(f) /\ Finds(fns, f, n) ELSE Awaits(fns, f, n)

Chain(fns, fs, runs) ==
  \A k \in 2 .. Len(fs) : Started(fns, fs[k - 1], fs[k].base, Loads(fs, runs, k))
Bases(fs) == \A i, j \in DOMAIN fs : i <= j => fs[i].base <= fs[j].base
RunOK(fns, run) ==
  /\ run.what \in {"callback", "import"}
  /\ run.what = "import" => run.call.callee \in DOMAIN fns

Standing(fns, fs, runs) ==
  /\ \A i \in DOMAIN fs : FrameOK(fns, fs[i])
  /\ Chain(fns, fs, runs) /\ Bases(fs)
  /\ \A i \in DOMAIN runs : RunOK(fns, runs[i])

\* One run more than nested ones.
Matched(fs, runs) == Cardinality(Tops(fs)) = Len(runs) + 1

LEMMA RunOfFacts ==
  ASSUME NEW fs, NEW runs, Struct(fs, runs), Matched(fs, runs)
  PROVE  /\ RunOf(fs, Len(fs)) = Len(runs)
         /\ \A k \in 2 .. Len(fs) : fs[k].resume = "TopLevel" =>
              /\ RunOf(fs, k) \in 1 .. Len(runs)
              /\ k < Len(fs) /\ Last(fs).resume = "TopLevel" => RunOf(fs, k) \in 1 .. Len(runs) - 1
<1>1. /\ Len(fs) \in Nat /\ DOMAIN fs = 1 .. Len(fs) /\ Len(fs) > 0
      /\ Len(runs) \in Nat /\ fs[1].resume = "TopLevel"
  BY SeqFacts DEF Struct
<1>2. IsFiniteSet(Tops(fs)) /\ Cardinality(Tops(fs)) = Len(runs) + 1
  BY Finite DEF Matched
<1>3. UpTo(fs, Len(fs)) = Tops(fs)
  BY <1>1 DEF UpTo, Tops
<1>4. RunOf(fs, Len(fs)) = Len(runs)
  BY <1>1, <1>2, <1>3 DEF RunOf
<1>5. ASSUME NEW k \in 2 .. Len(fs), fs[k].resume = "TopLevel"
      PROVE  /\ RunOf(fs, k) \in 1 .. Len(runs)
             /\ k < Len(fs) /\ Last(fs).resume = "TopLevel" => RunOf(fs, k) \in 1 .. Len(runs) - 1
  <2> DEFINE U == UpTo(fs, k)
  <2>1. U \subseteq Tops(fs)
    BY DEF UpTo
  <2>2. IsFiniteSet(U) /\ Cardinality(U) <= Len(runs) + 1 /\ Cardinality(U) \in Nat
    BY <1>2, <2>1, FS_Subset, FS_CardinalityType
  <2>3. 1 \in U /\ k \in U /\ k # 1
    BY <1>1, <1>5 DEF UpTo, Tops
  <2>4. Cardinality({1, k}) = 2 /\ {1, k} \subseteq U
    <3>1. IsFiniteSet({1}) /\ Cardinality({1}) = 1 /\ {1, k} = {1} \cup {k}
      BY FS_Singleton
    <3>2. k \notin {1}
      BY <2>3
    <3>3. Cardinality({1} \cup {k}) = Cardinality({1}) + 1
      BY <3>1, <3>2, FS_AddElement
    <3>4. Cardinality({1, k}) = 2
      BY <3>1, <3>3
    <3> QED BY <2>3, <3>4
  <2>5. Cardinality(U) >= 2
    BY <2>2, <2>4, FS_Subset
  <2>6. RunOf(fs, k) \in 1 .. Len(runs)
    BY <1>1, <2>2, <2>5 DEF RunOf
  <2>7. ASSUME k < Len(fs), Last(fs).resume = "TopLevel"
        PROVE  RunOf(fs, k) \in 1 .. Len(runs) - 1
    <3>1. Len(fs) \in Tops(fs)
      BY <1>1, <2>7 DEF Tops, Last
    <3>2. Len(fs) \notin U
      BY <1>1, <2>7 DEF UpTo
    <3>3. /\ IsFiniteSet(Tops(fs) \ {Len(fs)})
          /\ Cardinality(Tops(fs) \ {Len(fs)}) = Len(runs) + 1 - 1
      BY <1>2, <3>1, FS_RemoveElement
    <3>4. U \in SUBSET (Tops(fs) \ {Len(fs)})
      BY <2>1, <3>2
    <3>5. Cardinality(U) <= Len(runs) + 1 - 1
      BY <3>3, <3>4, FS_Subset
    <3> QED BY <1>1, <2>2, <2>5, <3>5 DEF RunOf
  <2> QED BY <2>6, <2>7
<1> QED BY <1>4, <1>5

LEMMA StandingReplace ==
  ASSUME NEW fns, NEW fs, NEW runs, Struct(fs, runs), Standing(fns, fs, runs),
         NEW g, IsFrame(g), FrameOK(fns, g), g.resume = Last(fs).resume, g.base = Last(fs).base
  PROVE  Standing(fns, WithLast(fs, g), runs)
<1> DEFINE t == WithLast(fs, g)
           n == Len(fs)
<1>1. IsSeq(fs) /\ fs # <<>> /\ n \in Nat /\ n > 0 /\ DOMAIN fs = 1 .. n
  BY SeqFacts DEF Struct
<1>2. /\ DOMAIN t = 1 .. n /\ Len(t) = n /\ t[n] = g
      /\ \A i \in 1 .. n - 1 : t[i] = fs[i]
  BY <1>1, WithLastFacts
<1>3. Tops(t) = Tops(fs)
  BY Replace
<1> HIDE DEF t
<1>4. \A i \in 1 .. n : t[i].base = fs[i].base /\ t[i].resume = fs[i].resume
  BY <1>1, <1>2 DEF Last
<1>5. \A i \in DOMAIN t : FrameOK(fns, t[i])
  BY <1>1, <1>2 DEF Standing
<1>6. \A k \in 2 .. n : Loads(t, runs, k) <=> Loads(fs, runs, k)
  BY <1>1, <1>3, <1>4 DEF Loads, RunOf, UpTo
<1>7. Chain(fns, t, runs)
  <2> SUFFICES ASSUME NEW k \in 2 .. n
               PROVE  Started(fns, t[k - 1], t[k].base, Loads(t, runs, k))
    BY <1>2 DEF Chain
  <2>1. Started(fns, fs[k - 1], fs[k].base, Loads(fs, runs, k))
    BY DEF Standing, Chain
  <2>2. t[k - 1] = fs[k - 1] /\ t[k].base = fs[k].base
    BY <1>1, <1>2, <1>4
  <2>3. Loads(t, runs, k) <=> Loads(fs, runs, k)
    BY <1>6
  <2> QED BY <2>1, <2>2, <2>3 DEF Started
<1>8. Bases(t)
  BY <1>1, <1>2, <1>4 DEF Standing, Bases
<1> QED BY <1>5, <1>7, <1>8 DEF Standing, t

LEMMA StandingPush ==
  ASSUME NEW fns, NEW fs, NEW runs, Struct(fs, runs), Standing(fns, fs, runs), Matched(fs, runs),
         NEW g, IsFrame(g), ~Finishing(g), FrameOK(fns, g), g.base >= Last(fs).base
  PROVE  LET t == Append(fs, g)
         IN  /\ g.resume = "PushResult" /\ Awaits(fns, Last(fs), g.base) => Standing(fns, t, runs)
             /\ \A run : g.resume = "TopLevel" /\ RunOK(fns, run)
                           /\ Started(fns, Last(fs), g.base, run.what = "import")
                           => Standing(fns, t, Append(runs, run))
<1> DEFINE t == Append(fs, g)
           n == Len(fs)
<1>1. /\ IsSeq(fs) /\ fs # <<>> /\ n \in Nat /\ n > 0 /\ DOMAIN fs = 1 .. n
      /\ IsSeq(runs) /\ Len(runs) \in Nat /\ DOMAIN runs = 1 .. Len(runs)
  BY SeqFacts DEF Struct
<1>2. IsSeq(t) /\ Len(t) = n + 1 /\ t[n + 1] = g /\ \A i \in 1 .. n : t[i] = fs[i]
  BY <1>1, AppendFacts
<1>3. DOMAIN t = 1 .. n + 1
  BY <1>2, SeqFacts
<1>4. Tops(t) = IF g.resume = "TopLevel" THEN Tops(fs) \cup {n + 1} ELSE Tops(fs)
  <2> HIDE DEF t
  <2> QED BY <1>1, <1>2, <1>3 DEF Tops
<1>5. g.resume = "TopLevel" => Tops(t) = Tops(fs) \cup {n + 1}
  BY <1>4
<1> HIDE DEF t
<1>6. \A i \in DOMAIN t : FrameOK(fns, t[i])
  <2>1. \A i \in 1 .. n : FrameOK(fns, fs[i])
    BY <1>1 DEF Standing
  <2> QED BY <1>1, <1>2, <1>3, <2>1
<1>7. Bases(t)
  <2>1. \A i, j \in 1 .. n : i <= j => fs[i].base <= fs[j].base
    BY <1>1 DEF Standing, Bases
  <2>2. \A i \in 1 .. n : fs[i].base \in Nat
    BY <1>1 DEF Standing, FrameOK
  <2>3. g.base \in Nat /\ g.base >= fs[n].base
    BY DEF FrameOK, Last
  <2>4. \A i \in 1 .. n : fs[i].base <= g.base
    BY <1>1, <2>1, <2>2, <2>3
  <2> SUFFICES ASSUME NEW i \in 1 .. n + 1, NEW j \in 1 .. n + 1, i <= j
               PROVE  t[i].base <= t[j].base
    BY <1>3 DEF Bases
  <2>5. CASE j \in 1 .. n
    BY <1>1, <1>2, <2>1, <2>5
  <2>6. CASE j = n + 1 /\ i \in 1 .. n
    BY <1>2, <2>4, <2>6
  <2>7. CASE j = n + 1 /\ i = n + 1
    BY <1>2, <2>3, <2>7
  <2> QED BY <1>1, <2>5, <2>6, <2>7
<1>8. \A k \in 1 .. n : UpTo(t, k) = UpTo(fs, k)
  BY <1>1, <1>4 DEF UpTo
<1>9. \A k \in 1 .. n : RunOf(t, k) = RunOf(fs, k)
  BY <1>8 DEF RunOf
<1>10. \A k \in 2 .. n : Started(fns, t[k - 1], t[k].base, Loads(fs, runs, k))
  <2> TAKE k \in 2 .. n
  <2>1. k \in 1 .. n /\ k - 1 \in 1 .. n
    BY <1>1
  <2> QED BY <1>2, <2>1 DEF Standing, Chain
<1>11. t[n + 1 - 1] = Last(fs) /\ t[n + 1].base = g.base
  BY <1>1, <1>2 DEF Last
<1>12. ASSUME g.resume = "PushResult", Awaits(fns, Last(fs), g.base)
       PROVE  Standing(fns, t, runs)
  <2>1. \A k \in 2 .. n : Loads(t, runs, k) <=> Loads(fs, runs, k)
    <3> TAKE k \in 2 .. n
    <3>1. k \in 1 .. n
      BY <1>1
    <3> QED BY <1>2, <1>9, <3>1 DEF Loads
  <2>2. ~Loads(t, runs, n + 1)
    BY <1>2, <1>12 DEF Loads
  <2>3. Chain(fns, t, runs)
    <3> SUFFICES ASSUME NEW k \in 2 .. n + 1
                 PROVE  Started(fns, t[k - 1], t[k].base, Loads(t, runs, k))
      BY <1>2 DEF Chain
    <3>1. CASE k \in 2 .. n
      BY <1>10, <2>1, <3>1 DEF Started
    <3>2. CASE k = n + 1
      BY <1>11, <1>12, <2>2, <3>2 DEF Started
    <3> QED BY <1>1, <3>1, <3>2
  <2> QED BY <1>6, <1>7, <2>3 DEF Standing
<1>13. ASSUME NEW run, g.resume = "TopLevel", RunOK(fns, run),
              Started(fns, Last(fs), g.base, run.what = "import")
       PROVE  Standing(fns, t, Append(runs, run))
  <2> DEFINE r == Append(runs, run)
  <2>1. /\ IsSeq(r) /\ Len(r) = Len(runs) + 1 /\ r[Len(runs) + 1] = run
        /\ \A i \in 1 .. Len(runs) : r[i] = runs[i]
    BY <1>1, AppendFacts
  <2>2. DOMAIN r = 1 .. Len(runs) + 1
    BY <2>1, SeqFacts
  <2> HIDE DEF r
  <2>3. \A k \in 2 .. n : Loads(t, r, k) <=> Loads(fs, runs, k)
    <3> TAKE k \in 2 .. n
    <3>1. k \in 1 .. n
      BY <1>1
    <3>2. CASE fs[k].resume = "TopLevel"
      <4>1. RunOf(fs, k) \in 1 .. Len(runs)
        BY <3>2, RunOfFacts
      <4> QED BY <1>2, <1>9, <2>1, <3>1, <4>1 DEF Loads
    <3>3. CASE fs[k].resume # "TopLevel"
      BY <1>2, <3>1, <3>3 DEF Loads
    <3> QED BY <3>2, <3>3
  <2>4. Loads(t, r, n + 1) <=> run.what = "import"
    <3>1. IsFiniteSet(Tops(fs)) /\ Cardinality(Tops(fs)) = Len(runs) + 1 /\ n + 1 \notin Tops(fs)
      BY Finite DEF Matched
    <3>2. UpTo(t, n + 1) = Tops(fs) \cup {n + 1}
      <4>1. Tops(fs) \subseteq 1 .. n
        BY <1>1 DEF Tops
      <4> QED BY <1>1, <1>13, <1>5, <4>1 DEF UpTo
    <3>3. Cardinality(Tops(fs) \cup {n + 1}) = Len(runs) + 1 + 1
      BY <3>1, FS_AddElement
    <3>4. Cardinality(UpTo(t, n + 1)) = Len(runs) + 1 + 1
      BY <3>2, <3>3, Zenon
    <3>5. RunOf(t, n + 1) = Len(runs) + 1
      BY <1>1, <3>4 DEF RunOf
    <3> QED BY <1>2, <1>13, <2>1, <3>5 DEF Loads
  <2>5. Chain(fns, t, r)
    <3> SUFFICES ASSUME NEW k \in 2 .. n + 1
                 PROVE  Started(fns, t[k - 1], t[k].base, Loads(t, r, k))
      BY <1>2 DEF Chain
    <3>1. CASE k \in 2 .. n
      BY <1>10, <2>3, <3>1 DEF Started
    <3>2. CASE k = n + 1
      BY <1>11, <1>13, <2>4, <3>2 DEF Started
    <3> QED BY <1>1, <3>1, <3>2
  <2>6. \A i \in DOMAIN r : RunOK(fns, r[i])
    <3>1. \A i \in 1 .. Len(runs) : RunOK(fns, runs[i])
      BY <1>1 DEF Standing
    <3> QED BY <1>1, <1>13, <2>1, <2>2, <3>1
  <2>7. Standing(fns, t, r)
    BY <1>6, <1>7, <2>5, <2>6 DEF Standing
  <2> QED BY <2>7 DEF r
<1> QED BY <1>12, <1>13 DEF t

LEMMA StandingPop ==
  ASSUME NEW fns, NEW fs, NEW runs, Struct(fs, runs), Standing(fns, fs, runs), Matched(fs, runs),
         Len(fs) > 1
  PROVE  LET t == Front(fs)
             n == Last(fs).base
         IN  /\ Last(fs).resume = "PushResult" =>
                  Standing(fns, t, runs) /\ Awaits(fns, Last(t), n)
             /\ Last(fs).resume = "TopLevel" /\ runs # <<>> =>
                  /\ Standing(fns, t, Front(runs))
                  /\ Started(fns, Last(t), n, Last(runs).what = "import")
                  /\ RunOK(fns, Last(runs))
<1> DEFINE t == Front(fs)
           n == Len(fs)
<1>1. /\ IsSeq(fs) /\ fs # <<>> /\ n \in Nat /\ n > 1 /\ DOMAIN fs = 1 .. n
      /\ IsSeq(runs) /\ Len(runs) \in Nat /\ DOMAIN runs = 1 .. Len(runs)
  BY SeqFacts DEF Struct
<1>2. IsSeq(t) /\ Len(t) = n - 1 /\ \A i \in 1 .. n - 1 : t[i] = fs[i]
  BY <1>1, FrontFacts
<1>3. DOMAIN t = 1 .. n - 1
  BY <1>2, SeqFacts
<1> HIDE DEF t
<1>4. \A k \in 1 .. n - 1 : UpTo(t, k) = UpTo(fs, k)
  BY <1>1, <1>2, <1>3 DEF UpTo, Tops
<1>5. \A k \in 1 .. n - 1 : RunOf(t, k) = RunOf(fs, k)
  BY <1>4 DEF RunOf
<1>6. (\A i \in DOMAIN t : FrameOK(fns, t[i])) /\ Bases(t)
  <2>1. \A i \in DOMAIN t : i \in DOMAIN fs /\ t[i] = fs[i]
    BY <1>1, <1>2, <1>3
  <2> QED BY <2>1 DEF Standing, Bases
<1>7. \A k \in 2 .. n - 1 : Started(fns, t[k - 1], t[k].base, Loads(fs, runs, k))
  <2> TAKE k \in 2 .. n - 1
  <2>1. k \in 1 .. n - 1 /\ k - 1 \in 1 .. n - 1 /\ k \in 2 .. n
    BY <1>1
  <2> QED BY <1>2, <2>1 DEF Standing, Chain
<1>8. Started(fns, Last(t), Last(fs).base, Loads(fs, runs, n))
  <2>1. n \in 2 .. n /\ Last(t) = fs[n - 1]
    BY <1>1, <1>2 DEF Last
  <2> QED BY <2>1 DEF Standing, Chain, Last
<1>9. ASSUME Last(fs).resume = "PushResult"
      PROVE  Standing(fns, t, runs) /\ Awaits(fns, Last(t), Last(fs).base)
  <2>1. \A k \in 2 .. n - 1 : Loads(t, runs, k) <=> Loads(fs, runs, k)
    <3> TAKE k \in 2 .. n - 1
    <3>1. k \in 1 .. n - 1
      BY <1>1
    <3> QED BY <1>2, <1>5, <3>1 DEF Loads
  <2>2. Chain(fns, t, runs)
    BY <1>2, <1>7, <2>1 DEF Chain, Started
  <2>3. ~Loads(fs, runs, n)
    BY <1>9 DEF Loads, Last
  <2> QED BY <1>6, <1>8, <2>2, <2>3 DEF Standing, Started
<1>10. ASSUME Last(fs).resume = "TopLevel", runs # <<>>
       PROVE  /\ Standing(fns, t, Front(runs))
              /\ Started(fns, Last(t), Last(fs).base, Last(runs).what = "import")
              /\ RunOK(fns, Last(runs))
  <2> DEFINE r == Front(runs)
             m == Len(runs)
  <2>1. IsSeq(r) /\ Len(r) = m - 1 /\ m > 0 /\ \A i \in 1 .. m - 1 : r[i] = runs[i]
    BY <1>1, <1>10, FrontFacts, SeqFacts
  <2>2. DOMAIN r = 1 .. m - 1
    BY <2>1, SeqFacts
  <2> HIDE DEF r
  <2>3. \A k \in 2 .. n - 1 : Loads(t, r, k) <=> Loads(fs, runs, k)
    <3> TAKE k \in 2 .. n - 1
    <3>1. k \in 1 .. n - 1 /\ k \in 2 .. n /\ k < n
      BY <1>1
    <3>2. CASE fs[k].resume = "TopLevel"
      <4>1. RunOf(fs, k) \in 1 .. m - 1
        BY <1>10, <3>1, <3>2, RunOfFacts
      <4> QED BY <1>2, <1>5, <2>1, <3>1, <4>1 DEF Loads
    <3>3. CASE fs[k].resume # "TopLevel"
      BY <1>2, <3>1, <3>3 DEF Loads
    <3> QED BY <3>2, <3>3
  <2>4. Chain(fns, t, r)
    BY <1>2, <1>7, <2>3 DEF Chain, Started
  <2>5. Loads(fs, runs, n) <=> Last(runs).what = "import"
    <3>1. RunOf(fs, n) = m
      BY RunOfFacts
    <3> QED BY <1>10, <3>1 DEF Loads, Last
  <2>6. (\A i \in DOMAIN r : RunOK(fns, r[i])) /\ RunOK(fns, Last(runs))
    <3>1. \A i \in DOMAIN r : i \in DOMAIN runs /\ r[i] = runs[i]
      BY <1>1, <2>1, <2>2
    <3>2. m \in DOMAIN runs
      BY <1>1, <2>1
    <3> QED BY <3>1, <3>2 DEF Standing, Last
  <2> QED BY <1>6, <1>8, <2>4, <2>5, <2>6 DEF Standing, Started, r
<1> QED BY <1>9, <1>10 DEF t

-----------------------------------------------------------------------------
(* The invariant.                                                            *)

Fns == Code[prog]

\* Frame f can repeat the call with these arguments that it has made with n operands
\* below them.
Repeats(fns, f, n, args) ==
  LET back == [f EXCEPT !.ip = @ - 1]
  IN  FrameOK(fns, back) /\ Finds(fns, back, n + 1 + Len(args))

Scalars ==
  /\ prog \in Programs /\ Verified(Fns)
  /\ waits \in 0 .. MaxWaits /\ depth \in Nat /\ depth <= MaxDepth
  /\ pause \in {"None", "Parked", "ParkedInject", "YieldFuel"}
  /\ awaited \in Builtins \cup {None}
  /\ imported \subseteq Functions
  /\ ctl \in {"machine", "event", "deliver", "returned", "yield", "paused", "done"}
  /\ flow.kind \in FlowKinds /\ flow.leave \in Nat
  /\ IsSeq(stack)
  /\ ctl = "done" => frames = <<>>

\* What the next step finds in the top frame with n operands on the stack.
ReturnedOK(n) ==
  /\ Ends(flow)
  /\ flow.kind = "return" => Awaits(Fns, Top, n)
  /\ pause = "Parked" /\ call.by = "instr" => IsSeq(call.args) /\ Repeats(Fns, Top, n, call.args)
TopOK ==
  LET n == Len(stack)
  IN  /\ Holds(Top, n)
      /\ ctl = "machine" /\ pending_throw = None => Finds(Fns, Top, n)
      /\ ctl \in {"yield", "paused"} => Finds(Fns, Top, n)
      /\ ctl = "event" => Travels(Fns[Top.fn], flow, Blocks(Top.try), n - Top.base)
      /\ ctl = "deliver" => Ends(flow) /\ (flow.kind = "return" => n = Top.base)
      /\ ctl = "returned" => ReturnedOK(n)

\* What the task waits for when a builtin has parked it.
Injects(b) == b \in {"recv", "read", "fail"}
PauseOK ==
  /\ ctl \in {"machine", "event", "deliver"} => pause = "None" /\ awaited = None
  /\ ctl = "returned" =>
       \/ pause = "None" /\ awaited = None
       \/ pause = "Parked" /\ awaited = "acquire" /\ call.callee \in Builtins
          /\ flow.kind = "return"
       \/ pause = "ParkedInject" /\ Injects(awaited) /\ flow.kind = "return" /\ ~Finishing(Top)
  /\ ctl \in {"yield", "paused"} /\ Injects(awaited) => stack # <<>>

CInv ==
  /\ Scalars
  /\ ctl # "done" => Standing(Fns, frames, native) /\ TopOK /\ PauseOK

-----------------------------------------------------------------------------
\* g is frame f with another instruction next and other try entries.
Moved(g, f, ip, try) ==
  /\ IsFrame(g) /\ g.fn = f.fn /\ g.ip = ip /\ g.try = try
  /\ g.resume = f.resume /\ g.finish = f.finish /\ g.base = f.base

LEMMA Moves ==
  ASSUME NEW f, IsFrame(f), NEW x, NEW y
  PROVE  /\ Moved(f, f, f.ip, f.try)
         /\ Moved([f EXCEPT !.ip = x], f, x, f.try)
         /\ Moved([f EXCEPT !.e = x], f, f.ip, f.try)
         /\ Moved([f EXCEPT !.count[y] = x], f, f.ip, f.try)
         /\ Moved([f EXCEPT !.defers = x], f, f.ip, f.try)
         /\ Moved([f EXCEPT !.try = x], f, f.ip, x)
         /\ Moved([f EXCEPT !.ip = x, !.try = y], f, x, y)
<1>1. /\ Moved(f, f, f.ip, f.try)
      /\ Moved([f EXCEPT !.ip = x], f, x, f.try)
      /\ Moved([f EXCEPT !.e = x], f, f.ip, f.try)
      /\ Moved([f EXCEPT !.count[y] = x], f, f.ip, f.try)
      /\ Moved([f EXCEPT !.defers = x], f, f.ip, f.try)
      /\ Moved([f EXCEPT !.try = x], f, f.ip, x)
  BY DEF Moved, IsFrame
<1>2. Moved([f EXCEPT !.ip = x, !.try = y], f, x, y)
  <2> DEFINE g == [f EXCEPT !.ip = x]
             h == [g EXCEPT !.try = y]
  <2>1. Moved(g, f, x, f.try)
    BY <1>1
  <2>2. Moved(h, g, x, y)
    <3> HIDE DEF g
    <3> QED BY <2>1 DEF Moved, IsFrame
  <2>3. h = [f EXCEPT !.ip = x, !.try = y]
    OBVIOUS
  <2> HIDE DEF h, g
  <2>4. Moved(h, f, x, y)
    BY <2>1, <2>2 DEF Moved
  <2> QED BY <2>3, <2>4
<1> QED BY <1>1, <1>2

LEMMA MovedTwice ==
  ASSUME NEW f, NEW g, NEW h, NEW i, NEW t, NEW j, NEW u, Moved(g, f, i, t), Moved(h, g, j, u)
  PROVE  Moved(h, f, j, u)
BY DEF Moved

LEMMA MovedKind ==
  ASSUME NEW f, NEW g, NEW i, NEW t, Moved(g, f, i, t)
  PROVE  SameKind(g, f)
BY DEF Moved, SameKind, Finishing

\* A frame that control moves to an instruction which expects what it brings.
LEMMA Arrives ==
  ASSUME CInv, NEW f, FrameOK(Fns, f), ~Finishing(f), NEW g, NEW i, NEW t,
         Moved(g, f, i, t), EntriesOK(Fns[f.fn], f.base, t), i \in DOMAIN Fns[f.fn]
  PROVE  /\ FrameOK(Fns, g) /\ ~Finishing(g)
         /\ \A n \in Nat : n >= f.base /\ Expects(Fns[f.fn], i, Blocks(t), n - f.base)
                             => Finds(Fns, g, n)
<1> DEFINE code == Fns[f.fn]
<1>1. FrameOK(Fns, g) /\ ~Finishing(g)
  BY DEF Moved, FrameOK, Finishing
<1>2. Spare(code, i, 0) /\ f.base \in Nat
  BY DEF CInv, Scalars, Verified, FrameOK
<1>3. g.fn = f.fn /\ g.ip = i /\ g.try = t /\ g.base = f.base
  BY DEF Moved
<1>4. EntriesOK(code, g.base, g.try)
  BY <1>3
<1>5. ASSUME NEW n \in Nat, n >= f.base, Expects(code, i, Blocks(t), n - f.base)
      PROVE  Finds(Fns, g, n)
  <2>1. code[i].nest = Blocks(t) /\ code[i].height = n - f.base
    BY <1>5 DEF Expects
  <2>2. Holds(g, n)
    <3> HIDE DEF code
    <3>1. code[i].height \in Nat /\ n - g.base = code[i].height - 0 /\ g.base \in Nat
      BY <1>2, <1>3, <1>5, <2>1
    <3>2. code[i].nest = Blocks(g.try)
      BY <1>3, <2>1
    <3> QED BY <1>2, <1>4, <3>1, <3>2, Room
  <2> QED BY <1>1, <1>3, <2>1, <2>2 DEF Finds, Stands
<1> QED BY <1>1, <1>5

-----------------------------------------------------------------------------
\* The new state of the top frame.
NewTop(g) == IsFrame(g) /\ FrameOK(Fns, g) /\ g.resume = Top.resume /\ g.base = Top.base

LEMMA TopIs ==
  ASSUME IInv, CInv, ctl # "done"
  PROVE  /\ Struct(frames, native) /\ Matched(frames, native) /\ IsFrame(Top)
         /\ FrameOK(Fns, Top) /\ Top.base \in Nat
         /\ Len(stack) \in Nat /\ Len(stack) >= Top.base /\ Holds(Top, Len(stack))
<1>1. Struct(frames, native) /\ Matched(frames, native)
  BY DEF IInv, Counted, Matched
<1>2. IsFrame(Top)
  BY <1>1, TopFacts
<1>3. Len(frames) \in DOMAIN frames
  BY <1>1, SeqFacts DEF Struct
<1>4. FrameOK(Fns, Top)
  BY <1>3 DEF CInv, Standing, Top, Last
<1>5. Len(stack) \in Nat /\ Len(stack) >= Top.base /\ Holds(Top, Len(stack))
  BY SeqFacts DEF CInv, Scalars, TopOK, Holds
<1> QED BY <1>1, <1>2, <1>4, <1>5 DEF FrameOK

LEMMA TopReplaced ==
  ASSUME IInv, CInv, ctl # "done", UNCHANGED <<prog, native>>, NEW g, NewTop(g), Become(g)
  PROVE  Standing(Fns, frames, native)' /\ Top' = g
<1>1. Struct(frames, native) /\ Standing(Fns, frames, native)
  BY TopIs DEF CInv
<1>2. Standing(Fns, frames', native)
  BY <1>1, StandingReplace DEF NewTop, Become, Top
<1>3. Last(frames') = g
  BY <1>1, WithLastFacts DEF Become, Struct
<1> QED BY <1>2, <1>3 DEF Fns, Top

\* The code of the instruction at hand keeps what the compiler promises.
LEMMA AtInstr ==
  ASSUME IInv, CInv, NEW op, Running(op)
  PROVE  /\ ctl = "machine" /\ pending_throw = None /\ ~Finishing(Top) /\ Ins.op = op
         /\ Top.ip \in DOMAIN Fns[Top.fn] /\ Ins = Fns[Top.fn][Top.ip]
         /\ InstrOK(Fns, Fns[Top.fn], Top.ip)
         /\ Ins.nest = Blocks(Top.try) /\ Ins.height = Len(stack) - Top.base
         /\ Ins.height \in Nat /\ Ins.n \in Nat
         /\ EntriesOK(Fns[Top.fn], Top.base, Top.try)
         /\ pause = "None" /\ awaited = None
<1>1. ctl = "machine" /\ pending_throw = None /\ ~Finishing(Top) /\ Ins.op = op
  BY DEF Running
<1>2. FrameOK(Fns, Top) /\ Finds(Fns, Top, Len(stack)) /\ pause = "None" /\ awaited = None
  BY <1>1, TopIs DEF CInv, TopOK, PauseOK
<1>3. Ins = Fns[Top.fn][Top.ip]
  BY DEF Ins, Fns
<1>4. Ins.nest = Blocks(Top.try) /\ Ins.height = Len(stack) - Top.base
  BY <1>1, <1>2, <1>3 DEF Finds, Stands
<1>5. /\ InstrOK(Fns, Fns[Top.fn], Top.ip) /\ Ins.height \in Nat /\ Ins.n \in Nat
      /\ Top.ip \in DOMAIN Fns[Top.fn]
  BY <1>2, <1>3 DEF CInv, Scalars, Verified, FrameOK
<1> QED BY <1>1, <1>2, <1>3, <1>4, <1>5 DEF FrameOK

LEMMA Promised ==
  ASSUME NEW fns, NEW code, NEW i, InstrOK(fns, code, i)
  PROVE  LET I == code[i]
             OnWith(n) == Expects(code, i + 1, I.nest, n)
             h == I.height
         IN  /\ I.op \in {"Const", "LoadLocal"} => OnWith(h + 1)
             /\ I.op \in {"Bind", "Pop"} => Spare(code, i, 1) /\ OnWith(h - 1)
             /\ I.op = "Jump" => Expects(code, I.target, I.nest, h)
             /\ I.op \in {"Reset", "Inc"} => OnWith(h)
             /\ I.op \in {"Test", "Case"} => OnWith(h) /\ Expects(code, I.target, I.nest, h)
             /\ I.op = "Call" => Spare(code, i, I.n + 1) /\ OnWith(h - I.n)
             /\ I.op = "Defer" => Spare(code, i, I.n + 1) /\ OnWith(h - I.n - 1)
             /\ I.op = "PushTry" => PushTryOK(code, i)
             /\ I.op \in {"TryBodyEnd", "CatchEnd"} => BlockEndOK(code, i)
             /\ I.op = "ExitFinally" => I.nest # <<>> /\ h = code[Last(I.nest).at].height
             /\ I.op = "Throw" => Spare(code, i, 1) /\ i + 1 \in DOMAIN code
             /\ I.op = "Return" => h = 1 /\ Spare(code, i, 1)
             /\ I.op = "ReturnVoid" => h = 0
             /\ I.op = "LeaveLoop" => LeaveLoopOK(code, i)
             /\ I.op = "Import" => I.val \in DOMAIN fns /\ OnWith(h)
BY DEF InstrOK

\* An instruction that changes its frame and the operands only.
LEMMA LocalCode ==
  ASSUME IInv, CInv, ctl = "machine", pending_throw = None, pause = "None", awaited = None,
         NEW f, NewTop(f), NEW stk, IsSeq(stk), Finds(Fns, f, Len(stk)), Local(f, stk)
  PROVE  CInv'
<1>1. /\ Become(f) /\ stack' = stk
      /\ UNCHANGED <<prog, depth, native, pause, pending_throw, awaited, waits, imported,
                     ctl, flow, call>>
  BY DEF Local, pauseVars, libVars, ctlVars
<1>2. Standing(Fns, frames, native)' /\ Top' = f /\ Fns' = Fns
  BY <1>1, TopReplaced DEF Fns
<1>3. Scalars'
  BY <1>1, <1>2 DEF CInv, Scalars, Functions
<1>4. TopOK'
  BY <1>1, <1>2, FindsHolds DEF TopOK
<1>5. PauseOK'
  BY <1>1 DEF PauseOK
<1> QED BY <1>2, <1>3, <1>4, <1>5 DEF CInv

\* An instruction that raises an event.
LEMMA EventCode ==
  ASSUME IInv, CInv, ctl = "machine", pause = "None", awaited = None,
         NEW f, NewTop(f), NEW stk, IsSeq(stk), Holds(f, Len(stk)),
         NEW ev, Travels(Fns[f.fn], ev, Blocks(f.try), Len(stk) - f.base),
         RaiseEvent(f, stk, ev)
  PROVE  CInv'
<1>1. /\ Become(f) /\ stack' = stk /\ ctl' = "event" /\ flow' = ev
      /\ UNCHANGED <<prog, depth, native, pause, pending_throw, awaited, waits, imported>>
  BY DEF RaiseEvent, Raise, pauseVars, libVars
<1>2. Standing(Fns, frames, native)' /\ Top' = f /\ Fns' = Fns
  BY <1>1, TopReplaced DEF Fns
<1>3. Scalars'
  BY <1>1, <1>2 DEF CInv, Scalars, Functions, Travels, FlowKinds
<1>4. TopOK'
  BY <1>1, <1>2 DEF TopOK
<1>5. PauseOK'
  BY <1>1 DEF PauseOK
<1> QED BY <1>2, <1>3, <1>4, <1>5 DEF CInv

-----------------------------------------------------------------------------
(* Data instructions.                                                        *)

\* An instruction after which the top frame stands where the code expects it.
LEMMA Goes ==
  ASSUME IInv, CInv, NEW op, Running(op), NEW f, NEW i, NEW t, Moved(f, Top, i, t),
         EntriesOK(Fns[Top.fn], Top.base, t), NEW stk, IsSeq(stk), Len(stk) >= Top.base,
         Expects(Fns[Top.fn], i, Blocks(t), Len(stk) - Top.base), Local(f, stk)
  PROVE  CInv'
<1>1. /\ ctl = "machine" /\ pending_throw = None /\ ~Finishing(Top)
      /\ pause = "None" /\ awaited = None /\ FrameOK(Fns, Top)
  BY AtInstr, TopIs
<1>2. Len(stk) \in Nat /\ i \in DOMAIN Fns[Top.fn]
  BY SeqFacts DEF Expects
<1>3. NewTop(f) /\ Finds(Fns, f, Len(stk))
  BY <1>1, <1>2, Arrives DEF NewTop, Moved
<1> QED BY <1>1, <1>3, LocalCode

\* The frames that instructions make of the top one.
LEMMA TopMoves ==
  ASSUME IInv, CInv, ctl # "done", NEW x, NEW y
  PROVE  /\ Moved(Top, Top, Top.ip, Top.try)
         /\ Moved(Advanced, Top, Top.ip + 1, Top.try)
         /\ Moved([Advanced EXCEPT !.e = x], Top, Top.ip + 1, Top.try)
         /\ Moved([Advanced EXCEPT !.count[y] = x], Top, Top.ip + 1, Top.try)
         /\ Moved([Advanced EXCEPT !.defers = x], Top, Top.ip + 1, Top.try)
         /\ Moved([Advanced EXCEPT !.try = x], Top, Top.ip + 1, x)
         /\ Moved([Top EXCEPT !.ip = x], Top, x, Top.try)
         /\ Moved([Top EXCEPT !.try = x], Top, Top.ip, x)
         /\ Moved([Top EXCEPT !.ip = y, !.try = x], Top, y, x)
         /\ Moved([[Top EXCEPT !.try = x] EXCEPT !.ip = y], Top, y, x)
<1>1. IsFrame(Top)
  BY TopIs
<1>2. Moved(Advanced, Top, Top.ip + 1, Top.try)
  BY <1>1, Moves DEF Advanced
<1>3. IsFrame(Advanced) /\ Advanced.ip = Top.ip + 1 /\ Advanced.try = Top.try
  BY <1>2 DEF Moved
<1>4. /\ Moved([Advanced EXCEPT !.e = x], Advanced, Top.ip + 1, Top.try)
      /\ Moved([Advanced EXCEPT !.count[y] = x], Advanced, Top.ip + 1, Top.try)
      /\ Moved([Advanced EXCEPT !.defers = x], Advanced, Top.ip + 1, Top.try)
      /\ Moved([Advanced EXCEPT !.try = x], Advanced, Top.ip + 1, x)
  <2> DEFINE f == Advanced
  <2>1. IsFrame(f) /\ f.ip = Top.ip + 1 /\ f.try = Top.try
    BY <1>3
  <2> HIDE DEF f
  <2>2. /\ Moved([f EXCEPT !.e = x], f, f.ip, f.try)
        /\ Moved([f EXCEPT !.count[y] = x], f, f.ip, f.try)
        /\ Moved([f EXCEPT !.defers = x], f, f.ip, f.try)
        /\ Moved([f EXCEPT !.try = x], f, f.ip, x)
    BY <2>1, Moves
  <2> QED BY <2>1, <2>2 DEF f
<1>5. /\ Moved([Advanced EXCEPT !.e = x], Top, Top.ip + 1, Top.try)
      /\ Moved([Advanced EXCEPT !.count[y] = x], Top, Top.ip + 1, Top.try)
      /\ Moved([Advanced EXCEPT !.defers = x], Top, Top.ip + 1, Top.try)
      /\ Moved([Advanced EXCEPT !.try = x], Top, Top.ip + 1, x)
  BY <1>2, <1>4 DEF Moved
<1>6. /\ Moved(Top, Top, Top.ip, Top.try)
      /\ Moved([Top EXCEPT !.ip = x], Top, x, Top.try)
      /\ Moved([Top EXCEPT !.try = x], Top, Top.ip, x)
      /\ Moved([Top EXCEPT !.ip = y, !.try = x], Top, y, x)
  BY <1>1, Moves
<1>7. Moved([[Top EXCEPT !.try = x] EXCEPT !.ip = y], Top, y, x)
  <2> DEFINE f == [Top EXCEPT !.try = x]
  <2>1. Moved(f, Top, Top.ip, x)
    BY <1>6
  <2> HIDE DEF f
  <2>2. IsFrame(f) /\ f.try = x
    BY <2>1 DEF Moved
  <2>3. Moved([f EXCEPT !.ip = y], f, y, x)
    BY <2>2, Moves
  <2>4. Moved([f EXCEPT !.ip = y], Top, y, x)
    BY <2>1, <2>3, MovedTwice
  <2> QED BY <2>4 DEF f
<1> QED BY <1>2, <1>5, <1>6, <1>7

\* Operands pushed and popped.
LEMMA StackFacts ==
  ASSUME IInv, CInv, ctl # "done"
  PROVE  /\ IsSeq(stack) /\ Len(stack) \in Nat /\ Top.base \in Nat
         /\ \A v : IsSeq(Append(stack, v)) /\ Len(Append(stack, v)) = Len(stack) + 1
         /\ Len(stack) > 0 => IsSeq(Front(stack)) /\ Len(Front(stack)) = Len(stack) - 1
<1>1. IsSeq(stack) /\ Len(stack) \in Nat /\ Top.base \in Nat
  BY TopIs DEF CInv, Scalars
<1>2. Len(stack) > 0 => stack # <<>>
  OBVIOUS
<1> QED BY <1>1, <1>2, AppendFacts, FrontFacts

LEMMA DataCode == IInv /\ CInv /\ Data => CInv'
<1> SUFFICES ASSUME IInv, CInv, Data PROVE CInv'
  OBVIOUS
<1> DEFINE code == Fns[Top.fn]
           L == Len(stack)
           b == Blocks(Top.try)
<1>1. ctl # "done" /\ EntriesOK(code, Top.base, Top.try)
  BY AtInstr DEF Data, Running
<1>2. /\ IsSeq(stack) /\ L \in Nat /\ Top.base \in Nat /\ L >= Top.base
      /\ \A v : IsSeq(Append(stack, v)) /\ Len(Append(stack, v)) = L + 1
      /\ L > 0 => IsSeq(Front(stack)) /\ Len(Front(stack)) = L - 1
  BY <1>1, StackFacts, TopIs
<1>3. \A op : Running(op) =>
        /\ Ins.op = op /\ Ins = code[Top.ip] /\ InstrOK(Fns, code, Top.ip)
        /\ Ins.nest = b /\ Ins.height = L - Top.base
  BY AtInstr
<1> HIDE DEF code, L, b
<1>4. ASSUME NEW op \in {"Const", "LoadLocal"}, NEW v, Running(op),
             Local(Advanced, Append(stack, v))
      PROVE  CInv'
  <2>1. Expects(code, Top.ip + 1, b, L - Top.base + 1)
    BY <1>3, <1>4, Promised
  <2>2. PICK stk : IsSeq(stk) /\ Len(stk) = L + 1 /\ Local(Advanced, stk)
    BY <1>2, <1>4, Zenon
  <2>3. Running(op)
    BY <1>4
  <2>4. Moved(Advanced, Top, Top.ip + 1, Top.try)
    BY <1>1, TopMoves
  <2>5. Len(stk) - Top.base = L - Top.base + 1 /\ Len(stk) >= Top.base
    <3>1. Len(stk) = L + 1
      BY <2>2
    <3> QED BY <1>2, <3>1
  <2>6. Expects(code, Top.ip + 1, b, Len(stk) - Top.base) /\ Len(stk) >= Top.base
    BY <2>1, <2>5, Zenon
  <2>7. EntriesOK(code, Top.base, Top.try)
    BY <1>1
  <2>8. IsSeq(stk) /\ Local(Advanced, stk)
    BY <2>2
  <2> QED BY <2>3, <2>4, <2>6, <2>7, <2>8, Goes DEF code, b
<1>5. /\ Running("Const") /\ Local(Advanced, Append(stack, Ins.val)) => CInv'
      /\ Running("LoadLocal") /\ Local(Advanced, Append(stack, Top.e)) => CInv'
  BY <1>4
<1>6. CASE Running("Bind") /\ Local([Advanced EXCEPT !.e = Last(stack)], Front(stack))
  <2>1. 1 <= L - Top.base /\ Expects(code, Top.ip + 1, b, L - Top.base - 1)
    BY <1>3, <1>6, Promised DEF Spare
  <2>2. L - Top.base - 1 = L - 1 - Top.base /\ L > 0 /\ L - 1 >= Top.base
    BY <1>2, <2>1
  <2> QED BY <1>1, <1>2, <1>6, <2>1, <2>2, TopMoves, Goes DEF code, b
<1>7. CASE Running("Pop") /\ Local(Advanced, Front(stack))
  <2>1. 1 <= L - Top.base /\ Expects(code, Top.ip + 1, b, L - Top.base - 1)
    BY <1>3, <1>7, Promised DEF Spare
  <2>2. L - Top.base - 1 = L - 1 - Top.base /\ L > 0 /\ L - 1 >= Top.base
    BY <1>2, <2>1
  <2> QED BY <1>1, <1>2, <1>7, <2>1, <2>2, TopMoves, Goes DEF code, b
<1>8. CASE Running("Jump") /\ Local([Top EXCEPT !.ip = Ins.target], stack)
  <2>1. Expects(code, Ins.target, b, L - Top.base)
    BY <1>3, <1>8, Promised
  <2> QED BY <1>1, <1>2, <1>8, <2>1, TopMoves, Goes DEF code, b, L
<1>9. CASE Running("Reset") /\ Local([Advanced EXCEPT !.count[Ins.n] = 0], stack)
  <2>1. Expects(code, Top.ip + 1, b, L - Top.base)
    BY <1>3, <1>9, Promised
  <2> QED BY <1>1, <1>2, <1>9, <2>1, TopMoves, Goes DEF code, b, L
<1>10. CASE Running("Inc") /\ Local([Advanced EXCEPT !.count[Ins.n] = @ + 1], stack)
  <2>1. Expects(code, Top.ip + 1, b, L - Top.base)
    BY <1>3, <1>10, Promised
  <2> QED BY <1>1, <1>2, <1>10, <2>1, TopMoves, Goes DEF code, b, L
<1>11. ASSUME NEW op \in {"Test", "Case"}, Running(op), Local(Advanced, stack)
       PROVE  CInv'
  <2>1. Expects(code, Top.ip + 1, b, L - Top.base)
    BY <1>3, <1>11, Promised
  <2> QED BY <1>1, <1>2, <1>11, <2>1, TopMoves, Goes DEF code, b, L
<1>12. ASSUME NEW op \in {"Test", "Case"}, Running(op),
              Local([Top EXCEPT !.ip = Ins.target], stack)
       PROVE  CInv'
  <2>1. Expects(code, Ins.target, b, L - Top.base)
    BY <1>3, <1>12, Promised
  <2> QED BY <1>1, <1>2, <1>12, <2>1, TopMoves, Goes DEF code, b, L
<1>13. /\ Running("Test") /\ Local(IF Top.count[Ins.n] < 2 THEN Advanced
                                    ELSE [Top EXCEPT !.ip = Ins.target], stack) => CInv'
       /\ Running("Case") /\ Local(IF Ins.n # 0 THEN Advanced
                                    ELSE [Top EXCEPT !.ip = Ins.target], stack) => CInv'
  BY <1>11, <1>12
<1> QED BY <1>5, <1>6, <1>7, <1>8, <1>9, <1>10, <1>13 DEF Data

\* Callee and arguments taken from the operand stack.
LEMMA CalledFacts ==
  ASSUME IInv, CInv, ctl # "done", NEW n \in Nat, n + 1 <= Len(stack) - Top.base
  PROVE  /\ IsSeq(Below(n)) /\ Len(Below(n)) = Len(stack) - n - 1
         /\ Len(Below(n)) >= Top.base
         /\ IsSeq(Called(n).args) /\ Len(Called(n).args) = n
<1>1. IsSeq(stack) /\ Len(stack) \in Nat /\ Top.base \in Nat
  BY StackFacts
<1>2. IsSeq(Below(n)) /\ Len(Below(n)) = Len(stack) - n - 1
  <2>1. Len(stack) - n - 1 \in 0 .. Len(stack)
    BY <1>1
  <2> QED BY <1>1, <2>1, CutFacts DEF Below
<1>3. IsSeq(Called(n).args) /\ Len(Called(n).args) = n
  <2> DEFINE i == Len(stack) - n + 1
             a == SubSeq(stack, i, Len(stack))
  <2>1. PICK S : stack \in Seq(S)
    BY <1>1 DEF IsSeq
  <2>2. i \in Int /\ Len(stack) \in Int /\ \A j \in i .. Len(stack) : stack[j] \in S
    BY <1>1, <2>1, ElementOfSeq
  <2>3. a \in Seq(S) /\ Len(a) = IF i <= Len(stack) THEN Len(stack) - i + 1 ELSE 0
    BY <2>2, SubSeqProperties
  <2> HIDE DEF a
  <2>4. Len(a) = n
    BY <1>1, <2>3
  <2>5. Called(n).args = a
    BY DEF Called, a
  <2> QED BY <2>3, <2>4, <2>5 DEF IsSeq
<1> QED BY <1>1, <1>2, <1>3

LEMMA DeferCallCode == IInv /\ CInv /\ DeferCall => CInv'
<1> SUFFICES ASSUME IInv, CInv, DeferCall PROVE CInv'
  OBVIOUS
<1>1. /\ Running("Defer") /\ ctl # "done" /\ Ins.n \in Nat
      /\ EntriesOK(Fns[Top.fn], Top.base, Top.try)
      /\ Ins.n + 1 <= Len(stack) - Top.base
      /\ Expects(Fns[Top.fn], Top.ip + 1, Blocks(Top.try), Len(stack) - Top.base - Ins.n - 1)
  BY AtInstr, Promised DEF DeferCall, Spare
<1>2. PICK x : Local([Advanced EXCEPT !.defers = x], Below(Ins.n))
  BY DEF DeferCall
<1>3. /\ IsSeq(Below(Ins.n)) /\ Len(Below(Ins.n)) = Len(stack) - Ins.n - 1
      /\ Len(Below(Ins.n)) >= Top.base
  BY <1>1, CalledFacts
<1>4. Len(stack) - Top.base - Ins.n - 1 = Len(Below(Ins.n)) - Top.base
  BY <1>1, <1>3, StackFacts
<1>5. Expects(Fns[Top.fn], Top.ip + 1, Blocks(Top.try), Len(Below(Ins.n)) - Top.base)
  BY <1>1, <1>4
<1> QED BY <1>1, <1>2, <1>3, <1>5, TopMoves, Goes

-----------------------------------------------------------------------------
(* Try statements and events raised.                                         *)

LEMMA FlowEnds ==
  /\ \A v : Ends(Flow("throw", v)) /\ Flow("throw", v).kind = "throw"
  /\ \A v : Ends(Flow("return", v)) /\ Flow("return", v).kind = "return"
  /\ Ends(Undefined) /\ Undefined.kind = "return"
BY DEF Ends, Flow, Undefined

LEMMA EndsTravels ==
  ASSUME NEW fl, Ends(fl), NEW code, NEW nest, NEW h, fl.kind = "throw" \/ h = 0
  PROVE  Travels(code, fl, nest, h)
BY DEF Ends, Travels

LEMMA EndsSome ==
  ASSUME NEW fl, Ends(fl)
  PROVE  fl # NoFlow
BY DEF Ends, NoFlow, Flow

LEMMA JumpTravels ==
  ASSUME NEW target, NEW n \in Nat, NEW code, NEW nest, NEW h, n <= Len(nest),
         Expects(code, target, SubSeq(nest, 1, Len(nest) - n), h),
         \A j \in Len(nest) - n + 1 .. Len(nest) : code[nest[j].at].height = h
  PROVE  Travels(code, Jump(target, n), nest, h)
BY DEF Travels, Jump

LEMMA KeepFacts ==
  ASSUME NEW s, IsSeq(s), NEW n \in Nat
  PROVE  IsSeq(Keep(s, n)) /\ Len(Keep(s, n)) = IF Len(s) > n THEN n ELSE Len(s)
<1>1. Len(s) \in Nat
  BY SeqFacts
<1>2. CASE Len(s) > n
  <2>1. n \in 0 .. Len(s)
    BY <1>1, <1>2
  <2>2. IsSeq(SubSeq(s, 1, n)) /\ Len(SubSeq(s, 1, n)) = n
    BY <2>1, CutFacts
  <2> QED BY <1>2, <2>2 DEF Keep
<1>3. CASE ~(Len(s) > n)
  BY <1>3 DEF Keep
<1> QED BY <1>2, <1>3

\* What the compiler promises of the blocks of a try statement.
LEMMA EntryLeads ==
  ASSUME IInv, CInv, ctl # "done", NEW nest, NEW te, EntryOK(Fns[Top.fn], Top.base, nest, te)
  PROVE  LET code == Fns[Top.fn]
             In(phase) == Append(nest, [phase |-> phase, at |-> te.at])
             h == code[te.at].height
         IN  /\ te.catch # 0 => Expects(code, te.catch, In("Catch"), h + 1)
             /\ te.finally # 0 => Expects(code, te.finally, In("Finally"), h)
             /\ Expects(code, te.end, nest, h)
<1> DEFINE code == Fns[Top.fn]
<1>1. Top.fn \in DOMAIN Fns
  BY TopIs DEF FrameOK
<1>2. /\ te.at \in DOMAIN code /\ code[te.at].op = "PushTry" /\ code[te.at].nest = nest
      /\ te.catch = code[te.at].catch /\ te.finally = code[te.at].finally
      /\ te.end = code[te.at].target
  BY DEF EntryOK
<1>3. InstrOK(Fns, code, te.at)
  BY <1>1, <1>2 DEF CInv, Scalars, Verified
<1>4. PushTryOK(code, te.at)
  BY <1>2, <1>3, Promised
<1> HIDE DEF code
<1>5. /\ te.catch # 0 => Expects(code, te.catch, Append(nest, [phase |-> "Catch", at |-> te.at]),
                                 code[te.at].height + 1)
      /\ te.finally # 0 => Expects(code, te.finally,
                                   Append(nest, [phase |-> "Finally", at |-> te.at]),
                                   code[te.at].height)
      /\ Expects(code, te.end, nest, code[te.at].height)
  BY <1>2, <1>4, Zenon DEF PushTryOK
<1> QED BY <1>5 DEF code

\* An entry whose catch or finally block is entered.
InCatch(te)      == [te EXCEPT !.phase = "Catch"]
InFinally(te, x) == [te EXCEPT !.phase = "Finally", !.pending = x]

LEMMA CatchEntered ==
  ASSUME NEW code, NEW base, NEW nest, NEW te, EntryOK(code, base, nest, te)
  PROVE  /\ EntryOK(code, base, nest, InCatch(te))
         /\ InCatch(te).phase = "Catch" /\ InCatch(te).at = te.at
BY DEF EntryOK, InCatch

LEMMA FinallyEntered ==
  ASSUME NEW code, NEW base, NEW nest, NEW te, EntryOK(code, base, nest, te),
         NEW x, NEW h, h = code[te.at].height, x = NoFlow \/ Travels(code, x, nest, h)
  PROVE  /\ EntryOK(code, base, nest, InFinally(te, x))
         /\ InFinally(te, x).phase = "Finally" /\ InFinally(te, x).at = te.at
<1> DEFINE u == [te EXCEPT !.phase = "Finally"]
           v == [u EXCEPT !.pending = x]
<1>1. EntryOK(code, base, nest, u) /\ u.phase = "Finally" /\ u.at = te.at
  BY DEF EntryOK
<1>2. v = InFinally(te, x)
  BY DEF InFinally
<1>3. EntryOK(code, base, nest, v) /\ v.phase = "Finally" /\ v.at = te.at
  <2> HIDE DEF u
  <2> QED BY <1>1 DEF EntryOK
<1> HIDE DEF v
<1> QED BY <1>2, <1>3

\* The innermost try entry te, and what is left without it.
Inner(code, base, try, te, left) ==
  /\ Len(try) \in Nat /\ Len(try) > 0
  /\ left = SubSeq(Blocks(try), 1, Len(try) - 1)
  /\ EntryOK(code, base, left, te)
  /\ Last(Blocks(try)).at = te.at
  /\ Front(try) = SubSeq(try, 1, Len(try) - 1) /\ Front(Blocks(try)) = left
  /\ EntriesOK(code, base, Front(try)) /\ Blocks(Front(try)) = left

LEMMA LastEntry ==
  ASSUME NEW code, NEW base, NEW try, EntriesOK(code, base, try), Blocks(try) # <<>>
  PROVE  Inner(code, base, try, Last(try), SubSeq(Blocks(try), 1, Len(try) - 1))
<1> DEFINE n == Len(try)
           b == Blocks(try)
<1>1. IsSeq(try) /\ n \in Nat /\ IsSeq(b) /\ Len(b) = n
      /\ \A i \in 1 .. n : b[i] = [phase |-> try[i].phase, at |-> try[i].at]
  BY SeqFacts, BlocksFacts DEF EntriesOK
<1>2. try # <<>> /\ n > 0
  BY <1>1, NoEntries, SeqFacts
<1>3. n \in 1 .. n /\ n - 1 \in 0 .. n
  BY <1>1, <1>2
<1>4. EntryOK(code, base, SubSeq(b, 1, n - 1), Last(try))
  BY <1>3, EntryAt DEF Last
<1>5. Last(b).at = Last(try).at
  <2>1. b[n] = [phase |-> try[n].phase, at |-> try[n].at]
    BY <1>1, <1>3
  <2> QED BY <1>1, <2>1 DEF Last
<1>6. Front(try) = SubSeq(try, 1, n - 1) /\ Front(b) = SubSeq(b, 1, n - 1)
  BY <1>1 DEF Front
<1>7. /\ EntriesOK(code, base, SubSeq(try, 1, n - 1))
      /\ Blocks(SubSeq(try, 1, n - 1)) = SubSeq(b, 1, n - 1)
  BY <1>3, EntriesCut
<1> QED BY <1>1, <1>2, <1>4, <1>5, <1>6, <1>7, Zenon DEF Inner

LEMMA PushTryCode == IInv /\ CInv /\ PushTry => CInv'
<1> SUFFICES ASSUME IInv, CInv, PushTry PROVE CInv'
  OBVIOUS
<1> DEFINE code == Fns[Top.fn]
           x == [phase |-> "Body", at |-> Top.ip]
<1>1. /\ Running("PushTry") /\ ctl # "done" /\ Ins = code[Top.ip] /\ Ins.op = "PushTry"
      /\ Top.ip \in DOMAIN code /\ EntriesOK(code, Top.base, Top.try)
      /\ Ins.nest = Blocks(Top.try) /\ Ins.height = Len(stack) - Top.base /\ Ins.height \in Nat
      /\ InstrOK(Fns, code, Top.ip)
  BY AtInstr DEF PushTry
<1>2. PushTryOK(code, Top.ip)
  BY <1>1, Promised
<1>3. Expects(code, Top.ip + 1, Append(Blocks(Top.try), x), Ins.height)
  <2> HIDE DEF code
  <2> QED BY <1>1, <1>2 DEF PushTryOK
<1>4. IsSeq(stack) /\ Len(stack) \in Nat /\ Top.base \in Nat
  BY <1>1, StackFacts
<1>5. Len(stack) = Top.base + Ins.height /\ Len(stack) >= Top.base
  BY <1>1, <1>4
<1>6. EntryOK(code, Top.base, Blocks(Top.try), TryEntry) /\ TryEntry.phase = "Body"
      /\ TryEntry.at = Top.ip
  <2> HIDE DEF code
  <2> QED BY <1>1, <1>5 DEF EntryOK, TryEntry
<1> DEFINE t == Append(Top.try, TryEntry)
<1>7. EntriesOK(code, Top.base, t)
  BY <1>1, <1>6, EntriesAppend
<1>8. Blocks(t) = Append(Blocks(Top.try), x)
  BY <1>1, <1>6, EntriesAppend
<1> HIDE DEF x, code, t
<1>9. Expects(code, Top.ip + 1, Blocks(t), Len(stack) - Top.base)
  BY <1>1, <1>3, <1>8
<1>10. Advanced.try = Top.try
  BY <1>1, TopMoves DEF Moved
<1>11. Local([Advanced EXCEPT !.try = t], stack)
  BY <1>10 DEF PushTry, t
<1>12. Moved([Advanced EXCEPT !.try = t], Top, Top.ip + 1, t)
  BY <1>1, TopMoves
<1>13. Running("PushTry") /\ IsSeq(stack) /\ Len(stack) >= Top.base
  BY <1>1, <1>4, <1>5
<1> QED BY <1>7, <1>9, <1>11, <1>12, <1>13, Goes DEF code

LEMMA BlockEndCode == IInv /\ CInv /\ BlockEnd => CInv'
<1> SUFFICES ASSUME IInv, CInv, BlockEnd PROVE CInv'
  OBVIOUS
<1> DEFINE code == Fns[Top.fn]
           b == Blocks(Top.try)
           n == Len(Top.try)
           te == Last(Top.try)
           left == SubSeq(b, 1, n - 1)
<1>1. PICK op \in {"TryBodyEnd", "CatchEnd"} : Running(op)
  BY DEF BlockEnd
<1>2. /\ ctl # "done" /\ Ins = code[Top.ip] /\ Ins.op = op
      /\ EntriesOK(code, Top.base, Top.try)
      /\ Ins.nest = b /\ Ins.height = Len(stack) - Top.base
      /\ InstrOK(Fns, code, Top.ip)
  BY <1>1, AtInstr
<1>3. BlockEndOK(code, Top.ip)
  BY <1>2, Promised
<1>4. /\ Ins.height = code[Last(b).at].height /\ b # <<>>
      /\ code[Last(b).at].finally = 0 => Expects(code, Top.ip + 1, Front(b), Ins.height)
  <2> HIDE DEF code, b
  <2> QED BY <1>2, <1>3 DEF BlockEndOK
<1>5. IsSeq(stack) /\ Len(stack) \in Nat /\ Top.base \in Nat /\ Len(stack) >= Top.base
  BY <1>2, StackFacts, TopIs
<1>6. Inner(code, Top.base, Top.try, te, left)
  BY <1>2, <1>4, LastEntry
<1>7. /\ n \in Nat /\ n > 0
      /\ EntryOK(code, Top.base, left, te) /\ Last(b).at = te.at /\ Front(b) = left
      /\ EntriesOK(code, Top.base, Front(Top.try)) /\ Blocks(Front(Top.try)) = left
      /\ Front(Top.try) = SubSeq(Top.try, 1, n - 1)
  BY <1>6, Zenon DEF Inner
<1>8. /\ code[te.at].finally = te.finally /\ code[te.at].height \in Nat
      /\ te.snapshot = Top.base + code[te.at].height
  BY <1>7 DEF EntryOK
<1>9. CASE te.finally # 0
  <2> DEFINE new == InFinally(te, NoFlow)
             t == Append(SubSeq(Top.try, 1, n - 1), new)
  <2>1. Expects(code, te.finally, Append(left, [phase |-> "Finally", at |-> te.at]),
                code[te.at].height)
    BY <1>2, <1>7, <1>9, EntryLeads
  <2>2. EntryOK(code, Top.base, left, new) /\ new.phase = "Finally" /\ new.at = te.at
    <3>1. EntryOK(code, Top.base, left, te)
      BY <1>7
    <3> HIDE DEF code, left, te
    <3> QED BY <3>1, FinallyEntered
  <2>3. n \in 1 .. Len(Top.try)
    BY <1>7
  <2> HIDE DEF new
  <2>4. EntriesOK(code, Top.base, t)
    BY <1>2, <2>2, <2>3, EntriesUnwound
  <2>5. Blocks(t) = Append(left, [phase |-> new.phase, at |-> new.at])
    BY <1>2, <2>2, <2>3, EntriesUnwound
  <2>6. WithLast(Top.try, new) = t
    BY <1>7 DEF WithLast
  <2>7. Local([Top EXCEPT !.ip = te.finally, !.try = t], Keep(stack, te.snapshot))
    BY <1>9, <2>6 DEF BlockEnd, new, InFinally
  <2> HIDE DEF t
  <2>8. /\ IsSeq(Keep(stack, te.snapshot))
        /\ Len(Keep(stack, te.snapshot)) = Top.base + code[te.at].height
    <3>1. Len(stack) = te.snapshot
      BY <1>2, <1>4, <1>5, <1>7, <1>8
    <3>2. IsSeq(Keep(stack, te.snapshot)) /\ Len(Keep(stack, te.snapshot)) = te.snapshot
      BY <1>5, <3>1, KeepFacts
    <3> QED BY <1>8, <3>2
  <2>9. Blocks(t) = Append(left, [phase |-> "Finally", at |-> te.at])
    BY <2>2, <2>5
  <2> HIDE DEF code, left, te
  <2>10. Expects(code, te.finally, Blocks(t), Len(Keep(stack, te.snapshot)) - Top.base)
    <3>1. Len(Keep(stack, te.snapshot)) - Top.base = code[te.at].height
      BY <1>5, <1>8, <2>8
    <3> QED BY <2>1, <2>9, <3>1
  <2>11. Moved([Top EXCEPT !.ip = te.finally, !.try = t], Top, te.finally, t)
    BY <1>2, TopMoves
  <2>12. Len(Keep(stack, te.snapshot)) >= Top.base
    BY <1>5, <1>8, <2>8
  <2> QED BY <1>1, <2>4, <2>7, <2>8, <2>10, <2>11, <2>12, Goes DEF code
<1>10. CASE te.finally = 0
  <2>1. Expects(code, Top.ip + 1, Blocks(Front(Top.try)), Len(stack) - Top.base)
    BY <1>2, <1>4, <1>7, <1>8, <1>10
  <2>2. Advanced.try = Top.try
    BY <1>2, TopMoves DEF Moved
  <2>3. Local([Advanced EXCEPT !.try = Front(Top.try)], stack)
    BY <1>10, <2>2 DEF BlockEnd
  <2>4. Len(stack) >= Top.base /\ IsSeq(stack)
    BY <1>5
  <2>5. Moved([Advanced EXCEPT !.try = Front(Top.try)], Top, Top.ip + 1, Front(Top.try))
    BY <1>2, TopMoves
  <2> QED BY <1>1, <1>7, <2>1, <2>3, <2>4, <2>5, Goes
<1> QED BY <1>9, <1>10

LEMMA ExitFinallyCode == IInv /\ CInv /\ ExitFinally => CInv'
<1> SUFFICES ASSUME IInv, CInv, ExitFinally PROVE CInv'
  OBVIOUS
<1> DEFINE code == Fns[Top.fn]
           b == Blocks(Top.try)
           n == Len(Top.try)
           te == Last(Top.try)
           left == SubSeq(b, 1, n - 1)
           f == [Top EXCEPT !.try = Front(Top.try)]
<1>1. Running("ExitFinally")
  BY DEF ExitFinally
<1>2. /\ ctl = "machine" /\ pause = "None" /\ awaited = None /\ ~Finishing(Top)
      /\ Ins = code[Top.ip] /\ Ins.op = "ExitFinally" /\ Top.ip \in DOMAIN code
      /\ EntriesOK(code, Top.base, Top.try)
      /\ Ins.nest = b /\ Ins.height = Len(stack) - Top.base
      /\ InstrOK(Fns, code, Top.ip)
  BY <1>1, AtInstr
<1>3. Ins.height = code[Last(b).at].height /\ b # <<>>
  BY <1>2, Promised
<1>4. /\ IsSeq(stack) /\ Len(stack) \in Nat /\ Top.base \in Nat /\ Len(stack) >= Top.base
      /\ Holds(Top, Len(stack))
  BY <1>2, StackFacts, TopIs
<1>5. Inner(code, Top.base, Top.try, te, left)
  BY <1>2, <1>3, LastEntry
<1>6. /\ EntryOK(code, Top.base, left, te) /\ Last(b).at = te.at
      /\ EntriesOK(code, Top.base, Front(Top.try)) /\ Blocks(Front(Top.try)) = left
      /\ n \in Nat /\ n > 0 /\ Front(Top.try) = SubSeq(Top.try, 1, n - 1)
  BY <1>5, Zenon DEF Inner
<1>7. CASE te.pending = NoFlow
  <2>1. Expects(code, te.end, left, Len(stack) - Top.base)
    <3>1. Len(stack) - Top.base = code[te.at].height
      BY <1>2, <1>3, <1>6
    <3>2. Expects(code, te.end, left, code[te.at].height)
      BY <1>2, <1>6, EntryLeads
    <3> QED BY <3>1, <3>2, Zenon
  <2>2. Local([[Top EXCEPT !.try = Front(Top.try)] EXCEPT !.ip = te.end], stack)
    BY <1>7 DEF ExitFinally
  <2>3. Expects(code, te.end, Blocks(Front(Top.try)), Len(stack) - Top.base)
    BY <1>6, <2>1
  <2>4. Moved([[Top EXCEPT !.try = Front(Top.try)] EXCEPT !.ip = te.end], Top,
               te.end, Front(Top.try))
    BY <1>2, TopMoves
  <2> QED BY <1>1, <1>4, <1>6, <2>2, <2>3, <2>4, Goes
<1>8. CASE te.pending # NoFlow
  <2>1. Travels(code, te.pending, left, Len(stack) - Top.base)
    <3>1. Len(stack) - Top.base = code[te.at].height
      BY <1>2, <1>3, <1>6
    <3>2. Travels(code, te.pending, left, code[te.at].height)
      BY <1>6, <1>8 DEF EntryOK
    <3> QED BY <3>1, <3>2, Zenon
  <2>2. Moved(f, Top, Top.ip, Front(Top.try))
    BY <1>2, TopMoves
  <2>3. RaiseEvent(f, stack, te.pending)
    BY <1>8 DEF ExitFinally, RaiseEvent
  <2> HIDE DEF f
  <2>4. FrameOK(Fns, Top)
    BY <1>2, TopIs
  <2>5. FrameOK(Fns, f)
    BY <1>2, <1>6, <2>2, <2>4, Arrives
  <2>6. NewTop(f) /\ Fns[f.fn] = code /\ Blocks(f.try) = left /\ f.base = Top.base
    BY <1>6, <2>2, <2>5 DEF NewTop, Moved
  <2>7. Holds(f, Len(stack))
    <3>1. f.try = SubSeq(Top.try, 1, n - 1) /\ n - 1 \in 0 .. n /\ IsSeq(Top.try)
      BY <1>2, <1>6, <2>2 DEF Moved, EntriesOK
    <3>2. \A j \in DOMAIN f.try : j \in DOMAIN Top.try /\ f.try[j] = Top.try[j]
      BY <3>1, CutFacts, SeqFacts
    <3> QED BY <1>4, <2>6, <3>2 DEF Holds
  <2>8. Travels(Fns[f.fn], te.pending, Blocks(f.try), Len(stack) - f.base)
    BY <2>1, <2>6, Zenon
  <2> QED BY <1>2, <1>4, <2>3, <2>6, <2>7, <2>8, EventCode
<1> QED BY <1>7, <1>8

LEMMA EventsCode == IInv /\ CInv /\ Events => CInv'
<1> SUFFICES ASSUME IInv, CInv, Events PROVE CInv'
  OBVIOUS
<1> DEFINE code == Fns[Top.fn]
           b == Blocks(Top.try)
<1>1. \A op : Running(op) =>
        /\ ctl = "machine" /\ pause = "None" /\ awaited = None /\ ~Finishing(Top)
        /\ Ins = code[Top.ip] /\ Ins.op = op /\ Top.ip \in DOMAIN code
        /\ EntriesOK(code, Top.base, Top.try) /\ Ins.n \in Nat
        /\ Ins.nest = b /\ Ins.height = Len(stack) - Top.base /\ Ins.height \in Nat
        /\ InstrOK(Fns, code, Top.ip)
  BY AtInstr
<1>2. ctl # "done"
  BY <1>1 DEF Events
<1>3. FrameOK(Fns, Top) /\ IsFrame(Top) /\ Holds(Top, Len(stack))
  BY <1>2, TopIs
<1>4. /\ IsSeq(stack) /\ Len(stack) \in Nat /\ Top.base \in Nat /\ Len(stack) >= Top.base
      /\ Len(stack) > 0 => IsSeq(Front(stack)) /\ Len(Front(stack)) = Len(stack) - 1
  BY <1>2, StackFacts, TopIs
<1>5. NewTop(Top)
  BY <1>3 DEF NewTop
<1>6. ASSUME NEW op, Running(op), Top.ip + 1 \in DOMAIN code
      PROVE  /\ NewTop(Advanced) /\ Advanced.fn = Top.fn /\ Advanced.try = Top.try
             /\ Advanced.base = Top.base
  <2>1. Moved(Advanced, Top, Top.ip + 1, Top.try)
    BY <1>2, TopMoves
  <2>2. FrameOK(Fns, Advanced)
    BY <1>1, <1>3, <1>6, <2>1, Arrives
  <2> QED BY <2>1, <2>2 DEF NewTop, Moved
\* An operand is there to be taken.
<1>11. ASSUME NEW op, Running(op), Spare(code, Top.ip, 1)
       PROVE  /\ Len(stack) > 0 /\ Len(stack) - 1 >= Top.base /\ Holds(Top, Len(stack) - 1)
              /\ IsSeq(Front(stack)) /\ Len(Front(stack)) = Len(stack) - 1
  <2>1. 1 <= Len(stack) - Top.base
    BY <1>1, <1>11 DEF Spare
  <2>2. Len(stack) > 0 /\ Len(stack) - 1 >= Top.base /\ Len(stack) - 1 \in Int
    BY <1>4, <2>1
  <2>3. /\ code[Top.ip].nest = b /\ code[Top.ip].height \in Nat
        /\ Len(stack) - 1 - Top.base = code[Top.ip].height - 1
    BY <1>1, <1>4, <1>11
  <2>4. EntriesOK(code, Top.base, Top.try)
    BY <1>1, <1>11
  <2>5. Holds(Top, Len(stack) - 1)
    <3> HIDE DEF code
    <3> QED BY <1>4, <1>11, <2>2, <2>3, <2>4, Room
  <2> QED BY <1>4, <2>2, <2>5
<1> HIDE DEF code, b
<1>7. CASE Running("Throw") /\ RaiseEvent(Advanced, Front(stack), Flow("throw", Last(stack)))
  <2>1. Spare(code, Top.ip, 1) /\ Top.ip + 1 \in DOMAIN code
    BY <1>1, <1>7, Promised
  <2>2. IsSeq(Front(stack)) /\ Holds(Top, Len(Front(stack)))
    BY <1>7, <1>11, <2>1
  <2>3. NewTop(Advanced) /\ Holds(Advanced, Len(Front(stack)))
    BY <1>6, <1>7, <2>1, <2>2 DEF Holds
  <2>4. Travels(Fns[Advanced.fn], Flow("throw", Last(stack)), Blocks(Advanced.try),
                Len(Front(stack)) - Advanced.base)
    BY FlowEnds, EndsTravels
  <2> QED BY <1>1, <1>7, <2>2, <2>3, <2>4, EventCode
<1>8. CASE Running("Return") /\ RaiseEvent(Top, Front(stack), Flow("return", Last(stack)))
  <2>1. Len(stack) - Top.base = 1 /\ Spare(code, Top.ip, 1)
    BY <1>1, <1>8, Promised
  <2>2. /\ IsSeq(Front(stack)) /\ Holds(Top, Len(Front(stack)))
        /\ Len(Front(stack)) - Top.base = 0
    BY <1>4, <1>8, <1>11, <2>1
  <2>3. Travels(Fns[Top.fn], Flow("return", Last(stack)), Blocks(Top.try),
                Len(Front(stack)) - Top.base)
    BY <2>2, FlowEnds, EndsTravels
  <2> QED BY <1>1, <1>5, <1>8, <2>2, <2>3, EventCode
<1>9. CASE Running("ReturnVoid") /\ RaiseEvent(Top, stack, Flow("return", "undefined"))
  <2>1. Len(stack) - Top.base = 0
    BY <1>1, <1>9, Promised
  <2>2. Travels(Fns[Top.fn], Flow("return", "undefined"), Blocks(Top.try), Len(stack) - Top.base)
    BY <2>1, FlowEnds, EndsTravels
  <2> QED BY <1>1, <1>3, <1>4, <1>5, <1>9, <2>2, EventCode
<1>10. CASE Running("LeaveLoop") /\ RaiseEvent(Advanced, stack, Jump(Ins.target, Ins.n))
  <2>1. LeaveLoopOK(code, Top.ip)
    BY <1>1, <1>10, Promised
  <2> DEFINE h == Len(stack) - Top.base
  <2>2. /\ Ins.n <= Len(b) /\ Top.ip + 1 \in DOMAIN code /\ Ins.n \in Nat
        /\ Expects(code, Ins.target, SubSeq(b, 1, Len(b) - Ins.n), h)
        /\ \A j \in Len(b) - Ins.n + 1 .. Len(b) : code[b[j].at].height = h
    BY <1>1, <1>10, <2>1 DEF LeaveLoopOK
  <2>3. /\ NewTop(Advanced) /\ Advanced.fn = Top.fn /\ Advanced.try = Top.try
        /\ Advanced.base = Top.base
    BY <1>6, <1>10, <2>2
  <2>4. Holds(Advanced, Len(stack))
    BY <1>3, <2>3 DEF Holds
  <2>5. Travels(code, Jump(Ins.target, Ins.n), b, h)
    <3> HIDE DEF h
    <3> QED BY <2>2, JumpTravels
  <2>6. Travels(Fns[Advanced.fn], Jump(Ins.target, Ins.n), Blocks(Advanced.try),
                Len(stack) - Advanced.base)
    BY <2>3, <2>5 DEF code, b
  <2> QED BY <1>1, <1>4, <1>10, <2>3, <2>4, <2>6, EventCode
<1> QED BY <1>7, <1>8, <1>9, <1>10 DEF Events

-----------------------------------------------------------------------------
(* Events taken, and frames that end.                                        *)

\* An event has been taken: the top frame goes on.
LEMMA ResumeCode ==
  ASSUME IInv, CInv, ctl = "event", NEW f, NewTop(f), Become(f),
         IsSeq(stack'), Finds(Fns, f, Len(stack')), depth' \in Nat,
         depth' <= MaxDepth, ctl' = "machine", flow' = NoFlow,
         UNCHANGED <<prog, native, pause, awaited, waits, imported>>
  PROVE  CInv'
<1>1. Standing(Fns, frames, native)' /\ Top' = f /\ Fns' = Fns
  BY TopReplaced DEF Fns
<1>2. Scalars'
  BY <1>1 DEF CInv, Scalars, Functions, NoFlow, Flow, FlowKinds
<1>3. TopOK'
  BY <1>1, FindsHolds DEF TopOK
<1>4. PauseOK'
  BY DEF CInv, PauseOK
<1> QED BY <1>1, <1>2, <1>3, <1>4 DEF CInv

\* What is known of the top frame and of an event that looks for a taker.
LEMMA AtEvent ==
  ASSUME IInv, CInv, ctl = "event"
  PROVE  /\ IsFrame(Top) /\ FrameOK(Fns, Top) /\ ~Finishing(Top)
         /\ EntriesOK(Fns[Top.fn], Top.base, Top.try)
         /\ IsSeq(stack) /\ Len(stack) \in Nat /\ Top.base \in Nat /\ Len(stack) >= Top.base
         /\ Holds(Top, Len(stack))
         /\ Travels(Fns[Top.fn], flow, Blocks(Top.try), Len(stack) - Top.base)
         /\ flow.kind = "return" => Len(stack) = Top.base
         /\ depth \in Nat /\ depth <= MaxDepth
<1>1. /\ IsFrame(Top) /\ FrameOK(Fns, Top) /\ ~Finishing(Top) /\ Len(stack) >= Top.base
      /\ Holds(Top, Len(stack))
  BY TopIs DEF IInv, EventOK
<1>2. IsSeq(stack) /\ Len(stack) \in Nat /\ Top.base \in Nat
  BY StackFacts
<1>3. Travels(Fns[Top.fn], flow, Blocks(Top.try), Len(stack) - Top.base)
  BY DEF CInv, TopOK
<1>4. flow.kind = "return" => Len(stack) = Top.base
  BY <1>2, <1>3 DEF Travels
<1> QED BY <1>1, <1>2, <1>3, <1>4 DEF FrameOK, CInv, Scalars

LEMMA InnermostFacts ==
  ASSUME IInv, CInv, ctl = "event", Takers # {}
  PROVE  /\ Innermost \in 1 .. Len(Top.try) /\ Takes(Top.try[Innermost], flow.kind)
         /\ flow.kind = "jump" => Innermost > Len(Top.try) - flow.leave
<1>1. Len(Top.try) \in Nat /\ DOMAIN Top.try = 1 .. Len(Top.try)
  BY AtEvent, SeqFacts DEF EntriesOK
<1>2. Takers \subseteq 1 .. Len(Top.try)
  BY <1>1 DEF Takers, Reach
<1>3. \E i \in Takers : \A j \in Takers : j <= i
  BY <1>1, <1>2, Greatest
<1>4. Innermost \in Takers
  BY <1>3 DEF Innermost
<1> QED BY <1>1, <1>4 DEF Takers, Reach

\* What is left of an event where it enters a finally block, with the operands that the
\* try statement began with.
LEMMA PendingTravels ==
  ASSUME NEW code, NEW nest, IsSeq(nest), NEW h, Travels(code, flow, nest, h),
         Len(nest) = Len(Top.try),
         NEW i \in 1 .. Len(nest), flow.kind = "jump" => i > Len(nest) - flow.leave,
         flow.kind = "return" => code[nest[i].at].height = 0
  PROVE  Travels(code, Pending(i), SubSeq(nest, 1, i - 1), code[nest[i].at].height)
<1> DEFINE left == SubSeq(nest, 1, i - 1)
           n == Len(nest)
<1>1. n \in Nat /\ i - 1 \in 0 .. n /\ Len(left) = i - 1
      /\ \A j \in 1 .. i - 1 : left[j] = nest[j]
  <2>1. n \in Nat /\ i - 1 \in 0 .. n
    BY SeqFacts
  <2> QED BY <2>1, CutFacts
<1>2. CASE flow.kind = "jump"
  <2> DEFINE m == flow.leave - (n - i) - 1
  <2>1. /\ flow.leave \in Nat /\ flow.leave <= n
        /\ Expects(code, flow.target, SubSeq(nest, 1, n - flow.leave), h)
        /\ \A j \in n - flow.leave + 1 .. n : code[nest[j].at].height = h
    BY <1>2 DEF Travels
  <2>2. i \in Nat /\ i > n - flow.leave /\ i <= n
    BY <1>1, <1>2 DEF n
  <2>3. m \in Nat /\ m <= i - 1 /\ i - 1 - m = n - flow.leave /\ n - flow.leave \in 0 .. i - 1
    <3> HIDE DEF n, left
    <3>1. n \in Nat /\ flow.leave \in Nat /\ flow.leave <= n
      BY <1>1, <2>1
    <3> QED BY <2>2, <3>1 DEF m
  <2>4. Pending(i) = [flow EXCEPT !.leave = m]
    BY <1>2 DEF Pending
  <2> HIDE DEF m
  <2>5. /\ Pending(i) = [kind |-> "jump", val |-> flow.val, target |-> flow.target, leave |-> m]
    BY <1>2, <2>4 DEF Travels
  <2>6. SubSeq(left, 1, n - flow.leave) = SubSeq(nest, 1, n - flow.leave)
    BY <1>1, <2>3, CutCut
  <2>7. Expects(code, flow.target, SubSeq(left, 1, n - flow.leave), h)
    BY <2>1, <2>6
  <2>13. code[nest[i].at].height = h
    <3> HIDE DEF n, left
    <3>1. i \in n - flow.leave + 1 .. n
      BY <1>1, <2>1, <2>2
    <3> QED BY <2>1, <3>1
  <2> HIDE DEF left, n
  <2>8. Len(left) - m = n - flow.leave
    BY <1>1, <2>3
  <2>9. Expects(code, flow.target, SubSeq(left, 1, Len(left) - m), h)
    BY <2>7, <2>8, Zenon
  <2>14. \A j \in Len(left) - m + 1 .. Len(left) : code[left[j].at].height = h
    <3> TAKE j \in Len(left) - m + 1 .. Len(left)
    <3>1. j \in n - flow.leave + 1 .. n /\ j \in 1 .. i - 1
      BY <1>1, <2>1, <2>2, <2>3, <2>8
    <3>2. left[j] = nest[j]
      BY <1>1, <3>1
    <3> QED BY <2>1, <3>1, <3>2
  <2>10. m <= Len(left)
    BY <1>1, <2>3
  <2> DEFINE p == Pending(i)
  <2>11. /\ p = [kind |-> p.kind, val |-> p.val, target |-> p.target, leave |-> p.leave]
         /\ p.kind = "jump" /\ p.leave = m /\ p.target = flow.target
    BY <2>5
  <2> HIDE DEF p
  <2>12. Travels(code, p, left, h)
    BY <2>3, <2>9, <2>10, <2>11, <2>14 DEF Travels
  <2> QED BY <2>12, <2>13 DEF p, left
<1>3. CASE flow.kind # "jump"
  BY <1>3 DEF Pending, Travels
<1> QED BY <1>2, <1>3

LEMMA TakeEventCode == IInv /\ CInv /\ TakeEvent => CInv'
<1> SUFFICES ASSUME IInv, CInv, TakeEvent PROVE CInv'
  OBVIOUS
<1> DEFINE code == Fns[Top.fn]
           b == Blocks(Top.try)
           i == Innermost
           te == Top.try[i]
           left == SubSeq(b, 1, i - 1)
           cut == SubSeq(Top.try, 1, i - 1)
<1>1. /\ ctl = "event" /\ Takers # {} /\ (EnterCatch(i) \/ EnterFinally(i))
      /\ ctl' = "machine" /\ flow' = NoFlow
      /\ UNCHANGED <<prog, depth, native, pause, awaited, waits, imported>>
  BY DEF TakeEvent, pauseVars, libVars
<1>2. ctl = "event" /\ ctl # "done" /\ Takers # {}
  BY DEF TakeEvent
<1>3. /\ FrameOK(Fns, Top) /\ ~Finishing(Top) /\ EntriesOK(code, Top.base, Top.try)
      /\ IsSeq(stack) /\ Len(stack) \in Nat /\ Top.base \in Nat /\ Len(stack) >= Top.base
      /\ Holds(Top, Len(stack)) /\ Travels(code, flow, b, Len(stack) - Top.base)
      /\ flow.kind = "return" => Len(stack) = Top.base
      /\ depth \in Nat /\ depth <= MaxDepth
  BY <1>2, AtEvent, Zenon
<1>4. /\ i \in 1 .. Len(Top.try) /\ Takes(te, flow.kind)
      /\ flow.kind = "jump" => i > Len(Top.try) - flow.leave
  BY <1>2, InnermostFacts, Zenon
<1>5. EntryOK(code, Top.base, left, te)
  BY <1>3, <1>4, EntryAt
<1>6. IsSeq(b) /\ Len(b) = Len(Top.try) /\ b[i].at = te.at
  <2>1. IsSeq(Top.try)
    BY <1>3 DEF EntriesOK
  <2>2. /\ IsSeq(b) /\ Len(b) = Len(Top.try)
        /\ \A l \in 1 .. Len(Top.try) : b[l] = [phase |-> Top.try[l].phase, at |-> Top.try[l].at]
    BY <2>1, BlocksFacts
  <2>3. b[i] = [phase |-> te.phase, at |-> te.at]
    BY <1>4, <2>2
  <2> HIDE DEF te
  <2> QED BY <2>2, <2>3
<1> DEFINE h == code[te.at].height
<1>7. /\ h \in Nat /\ te.snapshot = Top.base + h /\ te.snapshot \in Nat
      /\ te.snapshot <= Len(stack)
  <2>1. h \in Nat /\ te.snapshot = Top.base + h
    BY <1>5 DEF EntryOK
  <2>2. i \in DOMAIN Top.try
    BY <1>3, <1>4, SeqFacts DEF EntriesOK
  <2>3. te.snapshot <= Len(stack)
    BY <1>3, <2>2 DEF Holds
  <2> HIDE DEF te, h
  <2> QED BY <1>3, <2>1, <2>3
<1>8. IsSeq(Keep(stack, te.snapshot)) /\ Len(Keep(stack, te.snapshot)) = Top.base + h
  <2> DEFINE k == te.snapshot
  <2>1. k \in Nat /\ k <= Len(stack) /\ k = Top.base + h
    BY <1>7
  <2> HIDE DEF k, h
  <2>2. IsSeq(Keep(stack, k)) /\ Len(Keep(stack, k)) = IF Len(stack) > k THEN k ELSE Len(stack)
    BY <1>3, <2>1, KeepFacts
  <2>3. Len(Keep(stack, k)) = k
    BY <1>3, <2>1, <2>2
  <2> QED BY <2>1, <2>2, <2>3 DEF k
<1>9. ASSUME NEW to, NEW new, EntryOK(code, Top.base, left, new),
             Become([Top EXCEPT !.ip = to, !.try = Append(cut, new)]),
             IsSeq(stack'), Len(stack') \in Nat, Len(stack') >= Top.base,
             Expects(code, to, Append(left, [phase |-> new.phase, at |-> new.at]),
                     Len(stack') - Top.base)
      PROVE  CInv'
  <2> DEFINE t == Append(cut, new)
             f == [Top EXCEPT !.ip = to, !.try = t]
  <2>1. EntriesOK(code, Top.base, t)
    BY <1>3, <1>4, <1>9, EntriesUnwound
  <2>2. Blocks(t) = Append(left, [phase |-> new.phase, at |-> new.at])
    <3>1. i \in 1 .. Len(Top.try) /\ EntriesOK(code, Top.base, Top.try)
      BY <1>3, <1>4
    <3>2. EntryOK(code, Top.base, left, new)
      BY <1>9
    <3> HIDE DEF i, code
    <3> QED BY <3>1, <3>2, EntriesUnwound
  <2>3. Become(f)
    BY <1>9
  <2> HIDE DEF t
  <2>4. Expects(code, to, Blocks(t), Len(stack') - Top.base)
    BY <1>9, <2>2, Zenon
  <2>5. Moved(f, Top, to, t)
    BY <1>2, TopMoves
  <2> HIDE DEF f
  <2>6. to \in DOMAIN code
    BY <2>4 DEF Expects
  <2>7. FrameOK(Fns, f) /\ Finds(Fns, f, Len(stack'))
    BY <1>3, <1>9, <2>1, <2>4, <2>5, <2>6, Arrives
  <2>8. NewTop(f)
    BY <2>5, <2>7 DEF NewTop, Moved
  <2>9. IsSeq(stack') /\ Len(stack') >= Top.base
    BY <1>9
  <2>10. depth' \in Nat /\ depth' <= MaxDepth
    BY <1>1, <1>3
  <2>11. /\ ctl' = "machine" /\ flow' = NoFlow
         /\ UNCHANGED <<prog, native, pause, awaited, waits, imported>>
    BY <1>1
  <2> QED BY <1>2, <2>3, <2>7, <2>8, <2>9, <2>10, <2>11, ResumeCode
<1>10. CASE EnterCatch(i)
  <2>1. /\ te.catch # 0 /\ Become([Top EXCEPT !.ip = te.catch, !.try = Append(cut, InCatch(te))])
        /\ stack' = Append(Keep(stack, te.snapshot), flow.val)
    BY <1>10 DEF EnterCatch, InCatch
  <2>2. /\ EntryOK(code, Top.base, left, InCatch(te))
        /\ InCatch(te).phase = "Catch" /\ InCatch(te).at = te.at
    <3> HIDE DEF te, left, code
    <3> QED BY <1>5, CatchEntered
  <2>3. Expects(code, te.catch, Append(left, [phase |-> "Catch", at |-> te.at]), h + 1)
    <3> HIDE DEF te, left
    <3>1. te.catch # 0
      BY <2>1
    <3> QED BY <1>2, <1>5, <3>1, EntryLeads, Zenon
  <2>4. IsSeq(stack') /\ Len(stack') = Top.base + h + 1
    BY <1>8, <2>1, AppendFacts
  <2> HIDE DEF left, code, te, cut, h
  <2>5. Len(stack') \in Nat /\ Len(stack') >= Top.base /\ Len(stack') - Top.base = h + 1
    BY <1>3, <1>7, <2>4
  <2>6. Expects(code, te.catch, Append(left, [phase |-> InCatch(te).phase, at |-> InCatch(te).at]),
                Len(stack') - Top.base)
    BY <2>2, <2>3, <2>5, Zenon
  <2> QED BY <1>9, <2>1, <2>2, <2>4, <2>5, <2>6
<1>11. CASE EnterFinally(i)
  <2> DEFINE new == InFinally(te, Pending(i))
  <2>1. /\ ~(flow.kind = "throw" /\ te.phase = "Body" /\ te.catch # 0)
        /\ Become([Top EXCEPT !.ip = te.finally, !.try = Append(cut, new)])
        /\ stack' = Keep(stack, te.snapshot)
    BY <1>11 DEF EnterFinally, InFinally
  <2>2. te.finally # 0
    BY <1>4, <2>1 DEF Takes
  <2>3. Travels(code, Pending(i), left, h)
    <3>1. flow.kind = "return" => h = 0
      <4> HIDE DEF h, te
      <4> QED BY <1>3, <1>7
    <3>2. /\ flow.kind = "return" => code[b[i].at].height = 0
          /\ i \in 1 .. Len(b)
          /\ flow.kind = "jump" => i > Len(b) - flow.leave
      BY <1>4, <1>6, <3>1
    <3>3. Travels(code, Pending(i), left, code[b[i].at].height)
      <4> HIDE DEF code, b, i
      <4> QED BY <1>3, <1>6, <3>2, PendingTravels
    <3> QED BY <1>6, <3>3
  <2>4. EntryOK(code, Top.base, left, new) /\ new.phase = "Finally" /\ new.at = te.at
    <3> DEFINE x == Pending(i)
    <3>1. Travels(code, x, left, code[te.at].height) /\ EntryOK(code, Top.base, left, te)
      BY <1>5, <2>3
    <3> HIDE DEF te, left, code, x
    <3>2. /\ EntryOK(code, Top.base, left, InFinally(te, x))
          /\ InFinally(te, x).phase = "Finally" /\ InFinally(te, x).at = te.at
      BY <3>1, FinallyEntered
    <3> QED BY <3>2 DEF x
  <2>5. Expects(code, te.finally, Append(left, [phase |-> "Finally", at |-> te.at]), h)
    <3> HIDE DEF te, left
    <3> QED BY <1>2, <1>5, <2>2, EntryLeads, Zenon
  <2>6. IsSeq(stack') /\ Len(stack') = Top.base + h
    BY <1>8, <2>1
  <2> HIDE DEF left, code, te, cut, new, h
  <2>7. Len(stack') \in Nat /\ Len(stack') >= Top.base /\ Len(stack') - Top.base = h
    BY <1>3, <1>7, <2>6
  <2>8. Expects(code, te.finally, Append(left, [phase |-> new.phase, at |-> new.at]),
                Len(stack') - Top.base)
    BY <2>4, <2>5, <2>7, Zenon
  <2> QED BY <1>9, <2>1, <2>4, <2>6, <2>7, <2>8
<1> QED BY <1>1, <1>10, <1>11

LEMMA FinishJumpCode == IInv /\ CInv /\ FinishJump => CInv'
<1> SUFFICES ASSUME IInv, CInv, FinishJump PROVE CInv'
  OBVIOUS
<1> DEFINE code == Fns[Top.fn]
           b == Blocks(Top.try)
           n == Len(Top.try)
           m == n - flow.leave
           t == SubSeq(Top.try, 1, m)
           f == [Top EXCEPT !.ip = flow.target, !.try = t]
<1>1. /\ ctl = "event" /\ flow.kind = "jump" /\ ctl' = "machine" /\ flow' = NoFlow
      /\ Become([Top EXCEPT !.ip = flow.target, !.try = Keep(Top.try, n - flow.leave)])
      /\ UNCHANGED <<prog, stack, depth, native, pause, awaited, waits, imported>>
  BY DEF FinishJump, pauseVars, libVars
<1>2. /\ FrameOK(Fns, Top) /\ ~Finishing(Top) /\ EntriesOK(code, Top.base, Top.try)
      /\ IsSeq(stack) /\ Len(stack) \in Nat /\ Top.base \in Nat /\ Len(stack) >= Top.base
      /\ Travels(code, flow, b, Len(stack) - Top.base) /\ depth \in Nat /\ depth <= MaxDepth
  BY <1>1, AtEvent
<1>3. IsSeq(Top.try) /\ n \in Nat /\ Len(b) = n
  BY <1>2, BlocksFacts, SeqFacts DEF EntriesOK
<1>4. /\ flow.leave \in Nat /\ flow.leave <= n
      /\ Expects(code, flow.target, SubSeq(b, 1, m), Len(stack) - Top.base)
  BY <1>1, <1>2, <1>3 DEF Travels
<1>5. m \in 0 .. n /\ (~(n > m) => m = n)
  BY <1>3, <1>4
<1>6. Keep(Top.try, m) = t
  BY <1>3, <1>5, CutFacts DEF Keep
<1>7. EntriesOK(code, Top.base, t)
  BY <1>2, <1>5, EntriesCut
<1>8. Blocks(t) = SubSeq(b, 1, m)
  BY <1>2, <1>5, EntriesCut
<1>9. Become(f)
  BY <1>1, <1>6
<1> HIDE DEF t, m
<1>10. Expects(code, flow.target, Blocks(t), Len(stack) - Top.base)
  BY <1>4, <1>8, Zenon
<1>11. Moved(f, Top, flow.target, t)
  BY <1>1, TopMoves
<1> HIDE DEF f
<1>12. flow.target \in DOMAIN code
  BY <1>10 DEF Expects
<1>13. FrameOK(Fns, f) /\ Finds(Fns, f, Len(stack))
  BY <1>2, <1>7, <1>10, <1>11, <1>12, Arrives
<1>14. NewTop(f)
  BY <1>11, <1>13 DEF NewTop, Moved
<1>15. IsSeq(stack') /\ Finds(Fns, f, Len(stack'))
  BY <1>1, <1>2, <1>13
<1> QED BY <1>1, <1>2, <1>9, <1>14, <1>15, ResumeCode

\* The depth is a number because it counts.
LEMMA DepthIsNat == IInv' /\ ctl' # "done" => depth' \in Nat
<1> SUFFICES ASSUME IInv', ctl' # "done" PROVE depth' \in Nat
  OBVIOUS
<1>1. /\ Struct(frames', native')
      /\ depth' = Cardinality(InProgress(frames', ctl')) + Cardinality(Callbacks(native'))
  BY DepthIs DEF IInv
<1>2. /\ IsFiniteSet(Open(frames')) /\ Cardinality(Open(frames')) \in Nat
      /\ Cardinality(Callbacks(native')) \in Nat
  BY <1>1, Finite
<1>3. Cardinality(Open(frames') \ {Len(frames')}) \in Nat
  BY <1>2, FS_RemoveElement, FS_CardinalityType
<1>4. Cardinality(InProgress(frames', ctl')) \in Nat
  BY <1>2, <1>3 DEF InProgress
<1> QED BY <1>1, <1>2, <1>4

LEMMA EndFrameCode == IInv /\ CInv /\ EndFrame => CInv'
<1> SUFFICES ASSUME IInv, CInv, EndFrame PROVE CInv'
  OBVIOUS
<1>1. /\ ctl = "event" /\ flow.kind # "jump" /\ depth' = DepthWithout(Top)
      /\ UNCHANGED <<prog, stack, native, pause, awaited, waits, imported>>
      /\ ctl' # "done"
  BY DEF EndFrame, pauseVars, libVars, Goto
<1>2. /\ IsFrame(Top) /\ FrameOK(Fns, Top) /\ ~Finishing(Top)
      /\ IsSeq(stack) /\ Len(stack) \in Nat /\ Top.base \in Nat /\ Len(stack) >= Top.base
      /\ Travels(Fns[Top.fn], flow, Blocks(Top.try), Len(stack) - Top.base)
      /\ depth \in Nat /\ depth <= MaxDepth
      /\ flow.kind = "return" => Len(stack) = Top.base
  BY <1>1, AtEvent
<1>3. Ends(flow)
  BY <1>1, <1>2 DEF Travels, Ends
<1>4. depth' \in Nat /\ depth' <= MaxDepth
  <2>1. depth' \in Nat
    BY <1>1, EndFrameInv, DepthIsNat
  <2> QED BY <1>1, <1>2, <2>1, VMAssumption DEF DepthWithout
<1>5. CASE Top.defers # <<>>
  <2> DEFINE g == [Top EXCEPT !.try = <<>>, !.defers = <<>>,
                     !.finish = [result |-> flow, rest |-> Top.defers, err |-> NoFlow]]
  <2>1. Become(g) /\ ctl' = "machine" /\ flow' = NoFlow
    BY <1>5 DEF EndFrame
  <2>2. flow # NoFlow
    BY <1>3, EndsSome
  <2>3. /\ IsFrame(g) /\ Finishing(g) /\ g.resume = Top.resume /\ g.fn = Top.fn /\ g.ip = Top.ip
        /\ g.base = Top.base /\ g.try = <<>> /\ g.finish.result = flow /\ g.finish.err = NoFlow
    <3>1. IsFrame(g) /\ Finishing(g) /\ g.resume = Top.resume
      BY <1>2, <2>2, Ending
    <3>2. g.fn = Top.fn /\ g.ip = Top.ip /\ g.base = Top.base
      BY <1>2 DEF IsFrame
    <3>3. g.try = <<>> /\ g.finish.result = flow /\ g.finish.err = NoFlow
      BY <1>2 DEF IsFrame
    <3> QED BY <3>1, <3>2, <3>3
  <2> HIDE DEF g
  <2>4. EntriesOK(Fns[g.fn], g.base, g.try)
    BY <2>3, NoEntries
  <2>5. NewTop(g)
    BY <1>2, <1>3, <2>3, <2>4 DEF NewTop, FrameOK
  <2>6. Finds(Fns, g, Len(stack'))
    <3>1. Holds(g, Len(stack'))
      BY <1>1, <1>2, <2>3 DEF Holds
    <3> QED BY <1>1, <1>2, <2>3, <3>1 DEF Finds, Deferring
  <2>7. IsSeq(stack')
    BY <1>1, <1>2
  <2> QED BY <1>1, <1>4, <2>1, <2>5, <2>6, <2>7, ResumeCode
<1>6. CASE Top.defers = <<>>
  <2> DEFINE g == [Top EXCEPT !.try = <<>>]
  <2>1. Become(g) /\ ctl' = "deliver" /\ flow' = flow
    BY <1>6 DEF EndFrame, Goto
  <2>2. Moved(g, Top, Top.ip, <<>>)
    BY <1>1, TopMoves
  <2> HIDE DEF g
  <2>3. EntriesOK(Fns[Top.fn], Top.base, <<>>) /\ Top.ip \in DOMAIN Fns[Top.fn]
    BY <1>2, NoEntries DEF FrameOK
  <2>4. NewTop(g)
    BY <1>2, <2>2, <2>3, Arrives DEF NewTop, Moved
  <2>5. Standing(Fns, frames, native)' /\ Top' = g /\ Fns' = Fns
    BY <1>1, <2>1, <2>4, TopReplaced DEF Fns
  <2>6. Scalars'
    BY <1>1, <1>4, <2>1, <2>5 DEF CInv, Scalars, Functions
  <2>7. TopOK'
    <3>1. Holds(g, Len(stack)) /\ g.base = Top.base
      BY <1>2, <2>2 DEF Holds, Moved
    <3> QED BY <1>1, <1>2, <1>3, <2>1, <2>5, <3>1 DEF TopOK
  <2>8. PauseOK'
    BY <1>1, <2>1 DEF CInv, PauseOK
  <2> QED BY <2>5, <2>6, <2>7, <2>8 DEF CInv
<1> QED BY <1>5, <1>6

LEMMA FinishedCode == IInv /\ CInv /\ Finished => CInv'
<1> SUFFICES ASSUME IInv, CInv, Finished PROVE CInv'
  OBVIOUS
<1>1. /\ ctl = "machine" /\ pending_throw = None /\ Finishing(Top) /\ ctl' = "deliver"
      /\ flow' = IF Top.finish.err # NoFlow THEN Top.finish.err ELSE Top.finish.result
      /\ UNCHANGED <<prog, frames, stack, depth, native, pause, awaited, waits, imported>>
  BY DEF Finished, Raise, frameVars, pauseVars, libVars
<1>2. FrameOK(Fns, Top) /\ Finds(Fns, Top, Len(stack)) /\ Holds(Top, Len(stack))
  BY <1>1, TopIs DEF CInv, TopOK
<1>3. /\ Ends(flow') /\ (flow'.kind = "return" => Len(stack) = Top.base)
  BY <1>1, <1>2 DEF FrameOK, Finds, Deferring
<1>4. Top' = Top /\ Fns' = Fns
  BY <1>1 DEF Top, Fns
<1>5. Scalars'
  BY <1>1, <1>3, <1>4 DEF CInv, Scalars, Functions, Ends, FlowKinds
<1>6. TopOK'
  BY <1>1, <1>2, <1>3, <1>4 DEF TopOK
<1>7. PauseOK'
  BY <1>1 DEF CInv, PauseOK
<1>8. Standing(Fns, frames, native)'
  BY <1>1, <1>4 DEF CInv
<1> QED BY <1>5, <1>6, <1>7, <1>8 DEF CInv

-----------------------------------------------------------------------------
(* Calls.                                                                    *)

\* A frame that starts: at the first instruction, without operands of its own.
LEMMA FreshFrame ==
  ASSUME NEW fns, Verified(fns), NEW fn \in DOMAIN fns, NEW n \in Nat,
         NEW resume \in {"TopLevel", "PushResult"}
  PROVE  LET f == Frame(fn, resume, n)
         IN  /\ IsFrame(f) /\ ~Finishing(f) /\ f.resume = resume /\ f.base = n
             /\ FrameOK(fns, f) /\ Finds(fns, f, n)
<1> DEFINE f == Frame(fn, resume, n)
<1>1. IsFrame(f) /\ ~Finishing(f) /\ f.resume = resume
  BY NewFrame
<1>2. f.fn = fn /\ f.ip = 1 /\ f.base = n /\ f.try = <<>>
  BY DEF Frame
<1> HIDE DEF f
<1>3. Expects(fns[fn], 1, <<>>, 0)
  BY DEF Verified
<1>4. EntriesOK(fns[fn], n, <<>>) /\ Blocks(<<>>) = <<>>
  BY NoEntries
<1>5. FrameOK(fns, f)
  BY <1>1, <1>2, <1>3, <1>4 DEF FrameOK, Expects
<1>6. Finds(fns, f, n)
  <2>1. n - n = 0 /\ n >= n /\ DOMAIN <<>> = {}
    OBVIOUS
  <2>2. Holds(f, n)
    BY <1>2, <2>1 DEF Holds
  <2> QED BY <1>1, <1>2, <1>3, <1>4, <2>1, <2>2 DEF Finds, Stands, Expects
<1> QED BY <1>1, <1>2, <1>5, <1>6 DEF f

\* The frames after the top one has moved.
LEMMA WithNewTop ==
  ASSUME IInv, CInv, ctl # "done", NEW g, NewTop(g)
  PROVE  LET fs == WithLast(frames, g)
         IN  /\ Struct(fs, native) /\ Matched(fs, native) /\ Standing(Fns, fs, native)
             /\ Last(fs) = g
<1> DEFINE fs == WithLast(frames, g)
<1>1. Struct(frames, native) /\ Matched(frames, native) /\ Standing(Fns, frames, native)
  BY TopIs DEF CInv
<1>2. IsFrame(g) /\ FrameOK(Fns, g) /\ g.resume = Last(frames).resume /\ g.base = Last(frames).base
  BY DEF NewTop, Top
<1>3. Struct(fs, native) /\ Last(fs) = g /\ Tops(fs) = Tops(frames)
  BY <1>1, <1>2, Replace
<1>4. Standing(Fns, fs, native)
  BY <1>1, <1>2, StandingReplace
<1> HIDE DEF fs
<1>5. Matched(fs, native)
  BY <1>1, <1>3 DEF Matched
<1> QED BY <1>3, <1>4, <1>5 DEF fs

\* The top frame, now g, has made call c with the operands stk below it.
CallReady(g, stk, c) ==
  /\ NewTop(g) /\ IsSeq(stk) /\ Len(stk) >= Top.base /\ Awaits(Fns, g, Len(stk))
  /\ c.by = "instr" => IsSeq(c.args) /\ Repeats(Fns, g, Len(stk), c.args)
  /\ Finishing(g) <=> Finishing(Top)

\* The call parks or not.
Parks(c, r) ==
  \/ UNCHANGED <<pause, awaited, waits>>
  \/ /\ pause' = "Parked" /\ awaited' = "acquire" /\ waits' \in 0 .. MaxWaits
     /\ c.callee \in Builtins /\ r.kind = "return"
  \/ /\ pause' = "ParkedInject" /\ Injects(awaited') /\ waits' = waits
     /\ r.kind = "return" /\ ~Finishing(Top)

LEMMA AtOnceCode ==
  ASSUME IInv, CInv, ctl = "machine", NEW g, NEW stk, NEW c, CallReady(g, stk, c),
         NEW r, Ends(r), ReturnsAtOnce(WithLast(frames, g), stk, c, r), imported' = imported,
         Parks(c, r)
  PROVE  CInv'
<1>1. /\ Become(g) /\ stack' = stk /\ call' = c /\ ctl' = "returned" /\ flow' = r
      /\ UNCHANGED <<prog, depth, native>>
  BY DEF ReturnsAtOnce, Answer, Become
<1>2. NewTop(g) /\ Standing(Fns, frames, native)' /\ Top' = g /\ Fns' = Fns
  BY <1>1, TopReplaced DEF Fns, CallReady
<1>3. pause = "None" /\ awaited = None
  BY DEF CInv, PauseOK
<1>4. /\ waits' \in 0 .. MaxWaits /\ pause' \in {"None", "Parked", "ParkedInject", "YieldFuel"}
      /\ awaited' \in Builtins \cup {None}
  BY <1>3 DEF Parks, Injects, Builtins, CInv, Scalars
<1>5. Scalars'
  BY <1>1, <1>2, <1>4 DEF CInv, Scalars, Functions, Ends, FlowKinds, CallReady
<1>6. TopOK'
  <2>1. Holds(Top', Len(stack'))
    BY <1>1, <1>2, FindsHolds DEF CallReady
  <2>2. ReturnedOK(Len(stack))'
    BY <1>1, <1>2 DEF ReturnedOK, CallReady
  <2> QED BY <1>1, <2>1, <2>2 DEF TopOK
<1>7. PauseOK'
  BY <1>1, <1>2, <1>3 DEF PauseOK, Parks, CallReady
<1> QED BY <1>2, <1>5, <1>6, <1>7 DEF CInv

LEMMA EnterCode ==
  ASSUME IInv, CInv, ctl = "machine", pending_throw = None, NEW g, NEW stk, NEW c,
         CallReady(g, stk, c), NEW fn \in Functions, MayCall, NEW resume, NEW runs,
         Enter(WithLast(frames, g), stk, fn, resume, runs),
         \/ resume = "PushResult" /\ runs = native
         \/ resume = "TopLevel" /\ runs = Append(native, [what |-> "callback", call |-> c])
  PROVE  CInv'
<1> DEFINE fs == WithLast(frames, g)
           new == Frame(fn, resume, Len(stk))
           run == [what |-> "callback", call |-> c]
<1>1. /\ frames' = Append(fs, new) /\ stack' = stk /\ depth' = depth + 1 /\ native' = runs
      /\ ctl' = "machine"
      /\ UNCHANGED <<prog, flow, pause, pending_throw, awaited, waits, imported>>
  BY DEF Enter, Goto, pauseVars, libVars
<1>2. /\ Struct(fs, native) /\ Matched(fs, native) /\ Standing(Fns, fs, native)
      /\ Last(fs) = g
  BY WithNewTop DEF CallReady
<1>3. Len(stk) \in Nat /\ Len(stk) >= g.base /\ Awaits(Fns, g, Len(stk))
  BY SeqFacts DEF CallReady, NewTop
<1>4. /\ IsFrame(new) /\ ~Finishing(new) /\ new.resume = resume /\ new.base = Len(stk)
      /\ FrameOK(Fns, new) /\ Finds(Fns, new, Len(stk))
  <2>1. resume \in {"TopLevel", "PushResult"} /\ Verified(Fns) /\ fn \in DOMAIN Fns
    BY DEF CInv, Scalars, Functions, Fns
  <2> QED BY <1>3, <2>1, FreshFrame
<1>5. RunOK(Fns, run) /\ run.what # "import"
  BY DEF RunOK
<1> HIDE DEF fs, new, run
<1>6. Started(Fns, g, Len(stk), run.what = "import")
  BY <1>3, <1>5 DEF Started
<1>7. Standing(Fns, frames', native')
  <2>1. CASE resume = "PushResult" /\ runs = native
    <3>1. Standing(Fns, Append(fs, new), native)
      BY <1>2, <1>3, <1>4, <2>1, StandingPush
    <3> QED BY <1>1, <2>1, <3>1
  <2>2. CASE resume = "TopLevel" /\ runs = Append(native, run)
    <3>1. Standing(Fns, Append(fs, new), Append(native, run))
      BY <1>2, <1>3, <1>4, <1>5, <1>6, <2>2, StandingPush
    <3> QED BY <1>1, <2>2, <3>1
  <2> QED BY <2>1, <2>2 DEF run
<1>8. Top' = new /\ Fns' = Fns
  <2>1. Last(Append(fs, new)) = new
    BY <1>2, Push, <1>4, AppendFacts DEF Last, Struct
  <2> QED BY <1>1, <2>1 DEF Top, Fns
<1>9. Scalars'
  <2>1. depth' \in Nat /\ depth' <= MaxDepth
    BY <1>1, VMAssumption DEF CInv, Scalars, MayCall
  <2> QED BY <1>1, <1>8, <2>1 DEF CInv, Scalars, Functions, CallReady
<1>10. TopOK'
  BY <1>1, <1>4, <1>8, FindsHolds DEF TopOK
<1>11. PauseOK'
  BY <1>1 DEF CInv, PauseOK
<1> QED BY <1>7, <1>8, <1>9, <1>10, <1>11 DEF CInv

LEMMA StartCallCode ==
  ASSUME IInv, CInv, ctl = "machine", pending_throw = None, NEW g, NEW stk, NEW c,
         CallReady(g, stk, c), StartCall(WithLast(frames, g), stk, c)
  PROVE  CInv'
<1> DEFINE fs == WithLast(frames, g)
           run == [what |-> "callback", call |-> c]
<1> HIDE DEF fs, run
<1>1. CASE EnterFunction(fs, stk, c)
  <2>1. c.callee \in Functions /\ MayCall /\ Enter(fs, stk, c.callee, "PushResult", native)
    BY <1>1 DEF EnterFunction
  <2> QED BY <2>1, EnterCode DEF fs
<1>2. CASE CallBack(fs, stk, c)
  <2>1. /\ c.args[1] \in Functions /\ MayCall
        /\ Enter(fs, stk, c.args[1], "TopLevel", Append(native, run))
    BY <1>2 DEF CallBack, CallsBack, run
  <2> QED BY <2>1, EnterCode DEF fs, run
<1>3. ASSUME NEW r, Ends(r), ReturnsAtOnce(fs, stk, c, r), imported' = imported, Parks(c, r)
      PROVE  CInv'
  BY <1>3, AtOnceCode DEF fs
<1>4. CASE TooDeep(fs, stk, c)
  <2>1. /\ ReturnsAtOnce(fs, stk, c, Flow("throw", "too deep"))
        /\ UNCHANGED <<imported, pause, awaited, waits>>
    BY <1>4 DEF TooDeep, pauseVars, libVars
  <2> QED BY <1>3, <2>1, FlowEnds DEF Parks
<1>5. CASE NotCallable(fs, stk, c)
  <2>1. /\ ReturnsAtOnce(fs, stk, c, Flow("throw", "not callable"))
        /\ UNCHANGED <<imported, pause, awaited, waits>>
    BY <1>5 DEF NotCallable, pauseVars, libVars
  <2> QED BY <1>3, <2>1, FlowEnds DEF Parks
<1>6. CASE InPlace(fs, stk, c)
  <2>1. UNCHANGED <<imported, pause, awaited, waits>>
    BY <1>6 DEF InPlace, pauseVars
  <2>2. PICK r : Ends(r) /\ ReturnsAtOnce(fs, stk, c, r)
    <3>1. \A b \in Builtins \ {"each"} : Ends(Result(b))
      BY FlowEnds DEF Builtins, Result
    <3>2. Ends(Flow("throw", "refused"))
      BY FlowEnds
    <3> QED BY <1>6, <3>1, <3>2 DEF InPlace
  <2> QED BY <1>3, <2>1, <2>2 DEF Parks
<1>7. CASE ParkInject(fs, stk, c)
  <2>1. /\ ReturnsAtOnce(fs, stk, c, Undefined) /\ imported' = imported /\ waits' = waits
        /\ ~Finishing(Top) /\ pause' = "ParkedInject" /\ Injects(awaited')
    BY <1>7 DEF ParkInject, Refused, libVars, Injects, Blocking
  <2> QED BY <1>3, <2>1, FlowEnds DEF Parks
<1>8. CASE ParkRetry(fs, stk, c)
  <2>1. /\ ReturnsAtOnce(fs, stk, c, Undefined) /\ imported' = imported
        /\ pause' = "Parked" /\ awaited' = "acquire" /\ waits < MaxWaits /\ waits' = waits + 1
        /\ c.callee \in Builtins
    BY <1>8 DEF ParkRetry, libVars, Builtins
  <2>2. waits' \in 0 .. MaxWaits
    <3>1. waits \in 0 .. MaxWaits
      BY DEF CInv, Scalars
    <3> QED BY <2>1, <3>1, VMAssumption
  <2> QED BY <1>3, <2>1, <2>2, FlowEnds DEF Parks
<1> QED BY <1>1, <1>2, <1>4, <1>5, <1>6, <1>7, <1>8 DEF StartCall, fs

LEMMA CallInstrCode == IInv /\ CInv /\ CallInstr => CInv'
<1> SUFFICES ASSUME IInv, CInv, CallInstr PROVE CInv'
  OBVIOUS
<1> DEFINE code == Fns[Top.fn]
           L == Len(stack)
           n == Ins.n
           stk == Below(n)
           c == Site(Called(n), "instr")
           b == Blocks(Top.try)
<1>1. Running("Call") /\ StartCall(WithLast(frames, Advanced), stk, c)
  BY DEF CallInstr
<1>2. /\ ctl = "machine" /\ ctl # "done" /\ pending_throw = None /\ ~Finishing(Top)
      /\ n \in Nat /\ Ins.nest = b /\ Ins.height = L - Top.base
      /\ Ins = code[Top.ip] /\ Ins.height \in Nat
      /\ Spare(code, Top.ip, n + 1) /\ Expects(code, Top.ip + 1, Ins.nest, Ins.height - n)
      /\ EntriesOK(code, Top.base, Top.try) /\ Top.ip \in DOMAIN code
  BY <1>1, AtInstr, Promised
<1>3. IsSeq(stack) /\ L \in Nat /\ Top.base \in Nat /\ L >= Top.base
  BY <1>2, StackFacts, TopIs
<1>4. /\ IsSeq(stk) /\ Len(stk) = L - n - 1 /\ Len(stk) >= Top.base
      /\ IsSeq(Called(n).args) /\ Len(Called(n).args) = n
  <2>1. n + 1 <= Len(stack) - Top.base
    BY <1>2 DEF Spare
  <2> QED BY <1>2, <2>1, CalledFacts
<1>5. IsSeq(c.args) /\ Len(c.args) = n /\ c.by = "instr"
  BY <1>4 DEF Site
<1>6. Moved(Advanced, Top, Top.ip + 1, Top.try)
  BY <1>2, TopMoves
<1>7. FrameOK(Fns, Top) /\ Finds(Fns, Top, L)
  BY <1>2, TopIs DEF CInv, TopOK
<1>13. Holds(Top, Len(stk))
  <2>1. /\ code[Top.ip].nest = b /\ code[Top.ip].height \in Nat /\ n + 1 \in Nat
        /\ Spare(code, Top.ip, n + 1)
    BY <1>2
  <2>2. Len(stk) \in Int /\ Len(stk) - Top.base = code[Top.ip].height - (n + 1)
    <3>1. code[Top.ip].height = L - Top.base
      BY <1>2
    <3> HIDE DEF code, stk, n, L
    <3>2. L \in Nat /\ n \in Nat /\ Top.base \in Nat /\ Len(stk) = L - n - 1
      BY <1>2, <1>3, <1>4
    <3> QED BY <3>1, <3>2
  <2>3. EntriesOK(code, Top.base, Top.try)
    BY <1>2
  <2> HIDE DEF code, n, stk
  <2> QED BY <1>3, <2>1, <2>2, <2>3, Room
<1> HIDE DEF n, stk, c, b
<1>8. FrameOK(Fns, Advanced) /\ ~Finishing(Advanced)
  <2>1. Top.ip + 1 \in DOMAIN code
    BY <1>2 DEF Expects
  <2> QED BY <1>2, <1>6, <1>7, <2>1, Arrives
<1>9. NewTop(Advanced)
  BY <1>6, <1>8 DEF NewTop, Moved
<1>10. Awaits(Fns, Advanced, Len(stk))
  <2>1. Len(stk) + 1 - Top.base = L - Top.base - n
    BY <1>2, <1>3, <1>4
  <2>2. Expects(code, Top.ip + 1, b, Len(stk) + 1 - Top.base)
    BY <1>2, <2>1
  <2>3. Advanced.ip = Top.ip + 1 /\ Advanced.try = Top.try /\ Advanced.fn = Top.fn
        /\ Advanced.base = Top.base
    BY <1>6 DEF Moved
  <2>4. Holds(Advanced, Len(stk))
    BY <1>13, <2>3 DEF Holds
  <2> QED BY <1>8, <2>2, <2>3, <2>4 DEF Awaits, Stands, Expects, b
<1>11. Repeats(Fns, Advanced, Len(stk), c.args)
  <2> DEFINE back == [Advanced EXCEPT !.ip = Advanced.ip - 1]
  <2>1. IsFrame(Advanced) /\ Advanced.ip = Top.ip + 1 /\ Advanced.try = Top.try
    BY <1>6 DEF Moved
  <2>2. Moved(back, Advanced, Advanced.ip - 1, Advanced.try)
    BY <2>1, Moves
  <2>3. Top.ip \in Int
    <3>1. Top.fn \in DOMAIN Fns
      BY <1>7 DEF FrameOK
    <3>2. DOMAIN code = 1 .. Len(code)
      BY <3>1 DEF CInv, Scalars, Verified
    <3> QED BY <1>2, <3>2
  <2>4. Advanced.ip - 1 = Top.ip
    BY <2>1, <2>3
  <2> HIDE DEF back
  <2>5. Moved(back, Top, Top.ip, Top.try)
    BY <1>6, <2>1, <2>2, <2>4 DEF Moved
  <2>6. FrameOK(Fns, back) /\ ~Finishing(back)
    BY <1>2, <1>7, <2>5, Arrives
  <2>7. Len(stk) + 1 + Len(c.args) = L
    BY <1>2, <1>3, <1>4, <1>5
  <2>8. Finds(Fns, back, L)
    BY <1>2, <1>7, <2>5, <2>6 DEF Moved, Finds, Stands, Holds
  <2>9. Finds(Fns, back, Len(stk) + 1 + Len(c.args))
    BY <2>7, <2>8
  <2> QED BY <2>6, <2>9 DEF Repeats, back
<1>12. CallReady(Advanced, stk, c)
  BY <1>2, <1>4, <1>5, <1>8, <1>9, <1>10, <1>11 DEF CallReady
<1> QED BY <1>1, <1>2, <1>12, StartCallCode

LEMMA ConcatFacts ==
  ASSUME NEW s, IsSeq(s), NEW u, IsSeq(u)
  PROVE  IsSeq(s \o u) /\ Len(s \o u) = Len(s) + Len(u)
<1>1. PICK S, T : s \in Seq(S) /\ u \in Seq(T)
  BY DEF IsSeq
<1> DEFINE W == S \cup T
<1>2. s \in Seq(W) /\ u \in Seq(W)
  BY <1>1
<1> HIDE DEF W
<1> QED BY <1>2, ConcatProperties DEF IsSeq

\* A frame whose deferred calls are noted differently, or that keeps another error.
LEMMA Refinished ==
  ASSUME NEW fns, NEW f, IsFrame(f), FrameOK(fns, f), Finishing(f), NEW x
  PROVE  /\ LET g == [f EXCEPT !.finish.rest = x]
            IN  /\ SameKind(g, f) /\ FrameOK(fns, g) /\ g.base = f.base
                /\ \A n : Deferring(f, n) => Finds(fns, g, n) /\ Awaits(fns, g, n)
         /\ LET g == [f EXCEPT !.finish.err = x]
            IN  Ends(x) /\ x.kind = "throw" =>
                  /\ SameKind(g, f) /\ FrameOK(fns, g) /\ g.base = f.base
                  /\ \A n : Holds(f, n) => Finds(fns, g, n)
<1>1. SameKind([f EXCEPT !.finish.rest = x], f) /\ SameKind([f EXCEPT !.finish.err = x], f)
  BY Finish
<1>2. LET g == [f EXCEPT !.finish.rest = x]
      IN  /\ g.fn = f.fn /\ g.ip = f.ip /\ g.base = f.base /\ g.try = f.try
          /\ g.finish.result = f.finish.result /\ g.finish.err = f.finish.err
  BY DEF IsFrame
<1>3. LET g == [f EXCEPT !.finish.err = x]
      IN  /\ g.fn = f.fn /\ g.ip = f.ip /\ g.base = f.base /\ g.try = f.try
          /\ g.finish.result = f.finish.result /\ g.finish.err = x
  BY DEF IsFrame
<1>4. ASSUME NEW g, SameKind(g, f), g.fn = f.fn, g.ip = f.ip, g.base = f.base, g.try = f.try,
             g.finish.result = f.finish.result
      PROVE  /\ g.finish.err = f.finish.err =>
                  FrameOK(fns, g) /\ \A n : Deferring(f, n) => Finds(fns, g, n) /\ Awaits(fns, g, n)
             /\ Ends(g.finish.err) /\ g.finish.err.kind = "throw" =>
                  FrameOK(fns, g) /\ \A n : Holds(f, n) => Finds(fns, g, n)
  <2>1. Finishing(g) /\ g.resume = f.resume
    BY <1>4 DEF SameKind
  <2>2. ASSUME g.finish.err = f.finish.err
        PROVE  FrameOK(fns, g) /\ \A n : Deferring(f, n) => Finds(fns, g, n) /\ Awaits(fns, g, n)
    BY <1>4, <2>1, <2>2 DEF FrameOK, Finds, Awaits, Deferring, Holds
  <2>3. ASSUME Ends(g.finish.err), g.finish.err.kind = "throw"
        PROVE  FrameOK(fns, g) /\ \A n : Holds(f, n) => Finds(fns, g, n)
    <3>1. g.finish.err # NoFlow
      BY <2>3, EndsSome
    <3> QED BY <1>4, <2>1, <2>3, <3>1 DEF FrameOK, Finds, Deferring, Holds
  <2> QED BY <2>2, <2>3
<1> QED BY <1>1, <1>2, <1>3, <1>4

LEMMA NextDeferCode == IInv /\ CInv /\ NextDefer => CInv'
<1> SUFFICES ASSUME IInv, CInv, NextDefer PROVE CInv'
  OBVIOUS
<1>1. ctl = "machine" /\ ctl # "done" /\ pending_throw = None /\ Finishing(Top)
  BY DEF NextDefer
<1>2. PICK x, d :
        StartCall(WithLast(frames, [Top EXCEPT !.finish.rest = x]), stack, Site(d, "defer"))
  BY DEF NextDefer
<1> DEFINE g == [Top EXCEPT !.finish.rest = x]
           c == Site(d, "defer")
<1>3. IsFrame(Top) /\ FrameOK(Fns, Top) /\ Deferring(Top, Len(stack)) /\ Len(stack) >= Top.base
  BY <1>1, TopIs DEF CInv, TopOK, Finds
<1>4. SameKind(g, Top) /\ FrameOK(Fns, g) /\ g.base = Top.base /\ Awaits(Fns, g, Len(stack))
  BY <1>1, <1>3, Refinished
<1>5. c.by # "instr"
  BY DEF Site
<1> HIDE DEF g, c
<1>6. CallReady(g, stack, c)
  BY <1>3, <1>4, <1>5 DEF CallReady, NewTop, SameKind, CInv, Scalars
<1>7. StartCall(WithLast(frames, g), stack, c)
  BY <1>2 DEF g, c
<1> QED BY <1>1, <1>6, <1>7, StartCallCode

\* A returned call leaves the top frame and the operands so that the next step finds
\* what it expects.
LEMMA SettledCode ==
  ASSUME IInv, CInv, ctl = "returned",
         frames' = frames \/ \E g : NewTop(g) /\ Become(g),
         IsSeq(stack'), Holds(Last(frames'), Len(stack')),
         UNCHANGED <<prog, depth, native, pause, awaited, waits, imported, pending_throw>>,
         flow' = IF ctl' = "event" THEN flow ELSE NoFlow,
         \/ ctl' = "yield" /\ Finds(Fns, Last(frames'), Len(stack'))
              /\ (Injects(awaited) => stack' # <<>>)
         \/ ctl' = "machine" /\ Finds(Fns, Last(frames'), Len(stack'))
              /\ pause = "None" /\ awaited = None
         \/ ctl' = "event" /\ flow.kind = "throw" /\ pause = "None" /\ awaited = None
  PROVE  CInv'
<1>1. Standing(Fns, frames', native') /\ Fns' = Fns /\ Top'.base = Top.base
  <2>1. CASE frames' = frames
    BY <2>1 DEF CInv, Fns, Top
  <2>2. CASE \E g : NewTop(g) /\ Become(g)
    BY <2>2, TopReplaced DEF Fns, NewTop
  <2> QED BY <2>1, <2>2
<1>2. Ends(flow)
  BY DEF CInv, TopOK, ReturnedOK
<1>3. Scalars'
  BY <1>1, <1>2 DEF CInv, Scalars, Functions, Ends, FlowKinds, NoFlow, Flow
<1>4. TopOK'
  <2>1. ctl' = "event" =>
          Travels(Fns'[Top'.fn], flow', Blocks(Top'.try), Len(stack') - Top'.base)
    BY <1>2, EndsTravels
  <2> QED BY <1>1, <2>1 DEF TopOK, Top
<1>5. PauseOK'
  BY DEF PauseOK
<1>6. Standing(Fns, frames, native)'
  BY <1>1
<1> QED BY <1>3, <1>4, <1>5, <1>6 DEF CInv

LEMMA PutBackCode ==
  ASSUME IInv, CInv, Returned, pause = "Parked"
  PROVE  CInv'
<1>1. /\ ctl = "returned" /\ ctl # "done" /\ flow.kind = "return" /\ awaited = "acquire"
      /\ call.callee \in Builtins /\ Awaits(Fns, Top, Len(stack))
      /\ call.by = "instr" <=> ~Finishing(Top)
      /\ call.by = "instr" => IsSeq(call.args) /\ Repeats(Fns, Top, Len(stack), call.args)
  BY DEF Returned, CInv, TopOK, ReturnedOK, PauseOK, IInv, EventOK
<1>2. PutBack /\ ctl' = "yield" /\ flow' = NoFlow
      /\ UNCHANGED <<prog, depth, native, pause, awaited, waits, imported, pending_throw>>
  BY <1>1 DEF Returned, PutBack, pauseVars, libVars
<1>3. IsFrame(Top) /\ FrameOK(Fns, Top) /\ IsSeq(stack) /\ Len(stack) \in Nat
      /\ Len(stack) >= Top.base /\ Top.base \in Nat
  BY <1>1, TopIs, StackFacts
<1>4. ~Injects(awaited)
  BY <1>1 DEF Injects
<1>5. CASE call.by = "instr"
  <2> DEFINE g == [Top EXCEPT !.ip = @ - 1]
             stk == (stack \o <<call.callee>>) \o call.args
  <2>1. Become(g) /\ stack' = stk
    BY <1>2, <1>5 DEF PutBack
  <2>2. IsSeq(stk) /\ Len(stk) = Len(stack) + 1 + Len(call.args)
    <3> DEFINE one == <<call.callee>>
               s == stack \o one
    <3>1. IsSeq(one) /\ Len(one) = 1
      <4>1. one \in Seq({call.callee})
        OBVIOUS
      <4> QED BY <4>1 DEF IsSeq
    <3> HIDE DEF one
    <3>2. IsSeq(s) /\ Len(s) = Len(stack) + 1
      BY <1>3, <3>1, ConcatFacts
    <3> HIDE DEF s
    <3>3. IsSeq(s \o call.args) /\ Len(s \o call.args) = Len(s) + Len(call.args)
      BY <1>1, <1>5, <3>2, ConcatFacts
    <3> QED BY <3>2, <3>3 DEF s, one
  <2>3. FrameOK(Fns, g) /\ Finds(Fns, g, Len(stack) + 1 + Len(call.args))
    BY <1>1, <1>5 DEF Repeats
  <2>4. Moved(g, Top, Top.ip - 1, Top.try)
    BY <1>3, Moves
  <2> HIDE DEF g, stk
  <2>5. NewTop(g)
    BY <2>3, <2>4 DEF NewTop, Moved
  <2>6. Last(frames') = g
    BY <1>1, <1>2, <2>1, <2>5, TopReplaced DEF Top
  <2>8. /\ Finds(Fns, Last(frames'), Len(stack')) /\ IsSeq(stack')
        /\ Holds(Last(frames'), Len(stack'))
    <3>1. Len(stack') = Len(stack) + 1 + Len(call.args)
      BY <2>1, <2>2
    <3>2. Finds(Fns, Last(frames'), Len(stack'))
      BY <2>3, <2>6, <3>1
    <3> QED BY <2>1, <2>2, <3>2, FindsHolds
  <2> QED BY <1>1, <1>2, <1>4, <2>1, <2>5, <2>8, SettledCode
<1>6. CASE call.by # "instr"
  <2>1. PICK x : Become([Top EXCEPT !.finish.rest = x]) /\ stack' = stack
    BY <1>2, <1>6 DEF PutBack
  <2>2. Finishing(Top) /\ Deferring(Top, Len(stack))
    BY <1>1, <1>6 DEF Awaits
  <2> DEFINE g == [Top EXCEPT !.finish.rest = x]
  <2>3. SameKind(g, Top) /\ FrameOK(Fns, g) /\ g.base = Top.base /\ Finds(Fns, g, Len(stack))
    BY <1>3, <2>2, Refinished
  <2> HIDE DEF g
  <2>4. NewTop(g) /\ Become(g)
    BY <2>1, <2>3 DEF NewTop, SameKind, g
  <2>5. Last(frames') = g
    BY <1>1, <1>2, <2>4, TopReplaced DEF Top
  <2>6. Holds(Last(frames'), Len(stack'))
    BY <2>1, <2>3, <2>5, FindsHolds
  <2> QED BY <1>1, <1>2, <1>3, <1>4, <2>1, <2>3, <2>4, <2>5, <2>6, SettledCode
<1> QED BY <1>5, <1>6

LEMMA ReturnedCode == IInv /\ CInv /\ Returned => CInv'
<1> SUFFICES ASSUME IInv, CInv, Returned, pause # "Parked" PROVE CInv'
  BY PutBackCode
<1>1. /\ ctl = "returned" /\ ctl # "done" /\ Ends(flow)
      /\ flow.kind = "return" => Awaits(Fns, Top, Len(stack))
      /\ call.by = "instr" <=> ~Finishing(Top)
      /\ \/ pause = "None" /\ awaited = None
         \/ pause = "ParkedInject" /\ flow.kind = "return" /\ ~Finishing(Top)
      /\ UNCHANGED <<prog, depth, native, pause, awaited, waits, imported, pending_throw>>
      /\ flow' = IF ctl' = "event" THEN flow ELSE NoFlow
  BY DEF Returned, CInv, TopOK, ReturnedOK, PauseOK, IInv, EventOK, pauseVars, libVars
<1>2. IsFrame(Top) /\ FrameOK(Fns, Top) /\ IsSeq(stack) /\ Len(stack) \in Nat
      /\ Len(stack) >= Top.base /\ Top.base \in Nat /\ Holds(Top, Len(stack))
  BY <1>1, TopIs, StackFacts
<1>3. CASE ToCaller /\ call.by = "instr"
  <2>1. ~Finishing(Top) /\ frames' = frames /\ Last(frames') = Top
    BY <1>1, <1>3 DEF ToCaller, Top
  <2>2. CASE flow.kind = "return"
    <3>1. stack' = Append(stack, flow.val)
          /\ ctl' = IF pause = "ParkedInject" THEN "yield" ELSE "machine"
      BY <1>3, <2>2 DEF ToCaller
    <3>2. IsSeq(stack') /\ Len(stack') = Len(stack) + 1 /\ stack' # <<>>
      BY <1>2, <3>1, AppendFacts
    <3>3. Finds(Fns, Top, Len(stack'))
      <4>1. Stands(Fns, Top, Len(stack) + 1 - Top.base)
        BY <1>1, <2>1, <2>2 DEF Awaits
      <4>2. Holds(Top, Len(stack'))
        BY <1>2, <3>2, HoldsMore
      <4>3. Len(stack') - Top.base = Len(stack) + 1 - Top.base
        BY <1>2, <3>2
      <4>4. Stands(Fns, Top, Len(stack') - Top.base)
        BY <4>1, <4>3, Zenon
      <4> QED BY <2>1, <4>2, <4>4 DEF Finds
    <3>4. Holds(Last(frames'), Len(stack'))
      BY <2>1, <3>3, FindsHolds
    <3>5. \/ ctl' = "yield"
          \/ ctl' = "machine" /\ pause = "None" /\ awaited = None
      BY <1>1, <3>1
    <3> QED BY <1>1, <2>1, <3>2, <3>3, <3>4, <3>5, SettledCode
  <2>3. CASE flow.kind # "return"
    <3>1. ctl' = "event" /\ stack' = stack /\ flow.kind = "throw"
      BY <1>1, <1>3, <2>3 DEF ToCaller, Ends
    <3> QED BY <1>1, <1>2, <2>1, <2>3, <3>1, SettledCode
  <2> QED BY <2>2, <2>3
<1>4. CASE ToFinish /\ call.by # "instr"
  <2>1. Finishing(Top) /\ pause = "None" /\ awaited = None /\ ctl' = "machine" /\ stack' = stack
    BY <1>1, <1>4 DEF ToFinish
  <2>2. CASE flow.kind = "return"
    <3>1. frames' = frames /\ Last(frames') = Top
      BY <1>4, <2>2 DEF ToFinish, Top
    <3>2. Finds(Fns, Top, Len(stack))
      BY <1>1, <2>1, <2>2 DEF Awaits, Finds
    <3>3. Holds(Last(frames'), Len(stack'))
      BY <1>2, <2>1, <3>1
    <3> QED BY <1>1, <1>2, <2>1, <3>1, <3>2, <3>3, SettledCode
  <2>3. CASE flow.kind # "return"
    <3> DEFINE g == [Top EXCEPT !.finish.err = flow]
    <3>1. Become(g) /\ flow.kind = "throw"
      BY <1>1, <1>4, <2>3 DEF ToFinish, Become, Ends
    <3>2. SameKind(g, Top) /\ FrameOK(Fns, g) /\ g.base = Top.base /\ Finds(Fns, g, Len(stack))
      BY <1>1, <1>2, <2>1, <3>1, Refinished
    <3> HIDE DEF g
    <3>3. NewTop(g)
      BY <3>2 DEF NewTop, SameKind
    <3>4. Last(frames') = g
      BY <1>1, <3>1, <3>3, TopReplaced DEF Top
    <3>5. Holds(Last(frames'), Len(stack'))
      BY <2>1, <3>2, <3>4, FindsHolds
    <3> QED BY <1>1, <1>2, <2>1, <3>1, <3>2, <3>3, <3>4, <3>5, SettledCode
  <2> QED BY <2>2, <2>3
<1> QED BY <1>3, <1>4 DEF Returned

-----------------------------------------------------------------------------
(* Results delivered.                                                        *)

\* A frame's result reaches the frame below; new is that frame, or it with an error noted.
LEMMA DeliveredCode ==
  ASSUME IInv, CInv, ctl = "deliver", NEW fs, NEW runs, Standing(Fns, fs, runs),
         frames' = fs, native' = runs, IsSeq(stack'), Holds(Last(fs), Len(stack')),
         depth' \in Nat, depth' <= MaxDepth, imported' \subseteq Functions,
         UNCHANGED <<prog, pause, awaited, waits>>,
         \/ ctl' = "machine" /\ flow' = NoFlow /\ Finds(Fns, Last(fs), Len(stack'))
         \/ ctl' = "event" /\ flow' = flow /\ flow.kind = "throw"
         \/ ctl' = "returned" /\ flow' = flow
            /\ (flow.kind = "return" => Awaits(Fns, Last(fs), Len(stack')))
  PROVE  CInv'
<1>1. Fns' = Fns /\ Top' = Last(fs)
  BY DEF Fns, Top
<1>2. Ends(flow) /\ pause = "None" /\ awaited = None
  BY DEF CInv, TopOK, PauseOK
<1>3. Scalars'
  BY <1>1, <1>2 DEF CInv, Scalars, Functions, Ends, FlowKinds, NoFlow, Flow
<1>4. TopOK'
  <2>1. ctl' = "event" =>
          Travels(Fns'[Top'.fn], flow', Blocks(Top'.try), Len(stack') - Top'.base)
    BY <1>2, EndsTravels
  <2>2. ctl' = "returned" => ReturnedOK(Len(stack))'
    BY <1>1, <1>2 DEF ReturnedOK
  <2> QED BY <1>1, <2>1, <2>2 DEF TopOK
<1>5. PauseOK'
  BY <1>2 DEF PauseOK
<1>6. Standing(Fns, frames, native)'
  BY <1>1
<1> QED BY <1>3, <1>4, <1>5, <1>6 DEF CInv

\* What is under the top frame when it delivers.
LEMMA UnderFacts ==
  ASSUME IInv, CInv, ctl = "deliver", Len(frames) > 1
  PROVE  /\ IsSeq(stack) /\ Len(stack) \in Nat /\ Last(Front(frames)).base \in Nat
         /\ Len(stack) >= Last(Front(frames)).base
         /\ IsFrame(Last(Front(frames))) /\ FrameOK(Fns, Last(Front(frames)))
         /\ Holds(Last(Front(frames)), Len(stack))
         /\ flow.kind = "return" => Len(stack) = Top.base
<1> DEFINE t == Front(frames)
<1>1. Struct(frames, native) /\ Standing(Fns, frames, native)
  BY TopIs DEF CInv
<1>2. /\ IsSeq(frames) /\ frames # <<>> /\ Len(frames) \in Nat /\ DOMAIN frames = 1 .. Len(frames)
  BY <1>1, SeqFacts DEF Struct
<1>3. Last(t) = frames[Len(frames) - 1]
  <2>1. Len(t) = Len(frames) - 1 /\ \A i \in 1 .. Len(frames) - 1 : t[i] = frames[i]
    BY <1>2, FrontFacts
  <2>2. Len(frames) - 1 \in 1 .. Len(frames) - 1
    BY <1>2
  <2> QED BY <2>1, <2>2 DEF Last
<1>4. Len(frames) - 1 \in DOMAIN frames /\ Len(frames) \in DOMAIN frames
      /\ Len(frames) - 1 <= Len(frames)
  BY <1>2
<1>5. IsFrame(Last(t)) /\ FrameOK(Fns, Last(t)) /\ Last(t).base \in Nat
  BY <1>1, <1>3, <1>4 DEF Struct, Standing, FrameOK
<1>6. Last(t).base <= Top.base
  BY <1>1, <1>3, <1>4 DEF Standing, Bases, Top, Last
<1>7. IsSeq(stack) /\ Len(stack) \in Nat /\ Top.base \in Nat /\ Len(stack) >= Top.base
  BY StackFacts, TopIs
<1>8. Len(stack) >= Last(t).base
  <2>1. \A k, m, n \in Nat : k <= m /\ n >= m => n >= k
    OBVIOUS
  <2> QED BY <1>5, <1>6, <1>7, <2>1, Zenon
<1>9. flow.kind = "return" => Len(stack) = Top.base
  BY DEF CInv, TopOK
<1>10. Holds(Last(t), Len(stack))
  <2>1. Len(frames) \in 2 .. Len(frames)
    BY <1>2
  <2>2. PICK isImport : Started(Fns, Last(t), Top.base, isImport)
    BY <1>1, <1>3, <2>1 DEF Standing, Chain, Top, Last
  <2>3. Holds(Last(t), Top.base)
    BY <2>2, FindsHolds DEF Started
  <2> HIDE DEF t
  <2>4. Top.base <= Len(stack)
    BY <1>7
  <2> QED BY <1>5, <1>7, <2>3, <2>4, HoldsMore
<1> QED BY <1>5, <1>7, <1>8, <1>9, <1>10

LEMMA DeliverToFrameCode == IInv /\ CInv /\ DeliverToFrame => CInv'
<1> SUFFICES ASSUME IInv, CInv, DeliverToFrame PROVE CInv'
  OBVIOUS
<1> DEFINE under == Front(frames)
           caller == Last(under)
           L == Len(stack)
<1>1. /\ ctl = "deliver" /\ ctl # "done" /\ Top.resume = "PushResult"
      /\ UNCHANGED <<prog, depth, native, pause, awaited, waits, imported>>
  BY DEF DeliverToFrame, pauseVars, libVars
<1>2. Struct(frames, native) /\ Matched(frames, native) /\ Standing(Fns, frames, native)
      /\ Ends(flow)
  BY <1>1, TopIs DEF CInv, TopOK
<1>3. Len(frames) > 1
  <2>1. IsSeq(frames) /\ frames # <<>> /\ frames[1].resume = "TopLevel"
    BY <1>2 DEF Struct
  <2>2. Len(frames) \in Nat /\ Len(frames) > 0
    BY <2>1, SeqFacts
  <2>3. Len(frames) # 1
    BY <1>1, <2>1 DEF Top, Last
  <2>4. \A n \in Nat : n > 0 /\ n # 1 => n > 1
    OBVIOUS
  <2> QED BY <2>2, <2>3, <2>4, Zenon
<1>4. /\ IsSeq(stack) /\ L \in Nat /\ caller.base \in Nat /\ L >= caller.base
      /\ IsFrame(caller) /\ FrameOK(Fns, caller) /\ Holds(caller, L)
      /\ flow.kind = "return" => L = Top.base
  BY <1>1, <1>3, UnderFacts
<1>5. Struct(under, native)
  BY <1>1, <1>2, Pop DEF Top
<1>6. Standing(Fns, under, native) /\ Awaits(Fns, caller, Top.base)
  BY <1>1, <1>2, <1>3, StandingPop DEF Top
<1>7. depth' \in Nat /\ depth' <= MaxDepth /\ imported' \subseteq Functions
  BY <1>1 DEF CInv, Scalars
<1> HIDE DEF under
<1>8. CASE Finishing(caller) /\ flow.kind = "throw"
  <2> DEFINE g == [caller EXCEPT !.finish.err = flow]
  <2>1. /\ frames' = WithLast(under, g) /\ ctl' = "machine" /\ flow' = NoFlow /\ stack' = stack
    BY <1>8 DEF DeliverToFrame, under
  <2>2. SameKind(g, caller) /\ FrameOK(Fns, g) /\ g.base = caller.base /\ Finds(Fns, g, L)
    BY <1>2, <1>4, <1>8, Refinished
  <2> HIDE DEF g
  <2>3. Standing(Fns, WithLast(under, g), native)
    BY <1>5, <1>6, <2>2, StandingReplace DEF SameKind
  <2>4. Last(WithLast(under, g)) = g
    BY <1>5, WithLastFacts DEF Struct
  <2>5. Holds(Last(WithLast(under, g)), Len(stack'))
    BY <2>1, <2>2, <2>4, FindsHolds
  <2> HIDE DEF caller
  <2> QED BY <1>1, <1>4, <1>7, <2>1, <2>2, <2>3, <2>4, <2>5, DeliveredCode
<1>9. CASE Finishing(caller) /\ flow.kind # "throw"
  <2>1. frames' = under /\ ctl' = "machine" /\ flow' = NoFlow /\ stack' = stack
    BY <1>9 DEF DeliverToFrame, under
  <2>2. flow.kind = "return"
    BY <1>2, <1>9 DEF Ends
  <2>3. Finds(Fns, caller, L)
    BY <1>4, <1>6, <1>9, <2>2 DEF Awaits, Finds
  <2> QED BY <1>1, <1>4, <1>6, <1>7, <2>1, <2>3, DeliveredCode
<1>10. CASE ~Finishing(caller) /\ flow.kind = "return"
  <2>1. /\ frames' = under /\ stack' = Append(stack, flow.val) /\ ctl' = "machine"
        /\ flow' = NoFlow
    BY <1>10 DEF DeliverToFrame, under
  <2>2. IsSeq(stack') /\ Len(stack') = L + 1
    BY <1>4, <2>1, AppendFacts
  <2>3. Stands(Fns, caller, (L + 1) - caller.base)
    <3>1. Stands(Fns, caller, L + 1 - caller.base)
      BY <1>4, <1>6, <1>10 DEF Awaits
    <3>2. L + 1 - caller.base = (L + 1) - caller.base
      BY <1>4
    <3> QED BY <3>1, <3>2
  <2>4. Holds(caller, L + 1)
    BY <1>4, HoldsMore
  <2>5. Finds(Fns, caller, L + 1)
    <3>1. ~Finishing(caller)
      BY <1>10
    <3> HIDE DEF caller, L
    <3> QED BY <2>3, <2>4, <3>1 DEF Finds
  <2>6. Finds(Fns, caller, Len(stack')) /\ Holds(caller, Len(stack'))
    BY <2>2, <2>4, <2>5
  <2> QED BY <1>1, <1>6, <1>7, <2>1, <2>2, <2>6, DeliveredCode
<1>11. CASE ~Finishing(caller) /\ flow.kind # "return"
  <2>1. frames' = under /\ ctl' = "event" /\ flow' = flow /\ stack' = stack
    BY <1>11 DEF DeliverToFrame, under
  <2>2. flow.kind = "throw"
    BY <1>2, <1>11 DEF Ends
  <2> QED BY <1>1, <1>4, <1>6, <1>7, <2>1, <2>2, DeliveredCode
<1> QED BY <1>8, <1>9, <1>10, <1>11

LEMMA DeliverToRunCode == IInv /\ CInv /\ DeliverToRun => CInv'
<1> SUFFICES ASSUME IInv, CInv, DeliverToRun PROVE CInv'
  OBVIOUS
<1> DEFINE run == Last(native)
           under == Front(frames)
<1>1. /\ ctl = "deliver" /\ ctl # "done" /\ Top.resume = "TopLevel" /\ native # <<>>
      /\ UNCHANGED <<prog, stack, pause, awaited, waits>>
      /\ frames' = under /\ native' = Front(native) /\ EndNested(run, flow)
  BY DEF DeliverToRun, pauseVars, EndNested
<1>2. Struct(frames, native) /\ Matched(frames, native) /\ Standing(Fns, frames, native)
      /\ Ends(flow)
  BY <1>1, TopIs DEF CInv, TopOK
<1>3. Len(frames) > 1
  <2>1. PICK b \in [1 .. Len(native) -> 2 .. Len(frames)] : TRUE
    BY <1>2 DEF Struct, Linked
  <2>2. Len(native) \in Nat /\ Len(native) > 0 /\ Len(frames) \in Nat
    BY <1>1, <1>2, SeqFacts DEF Struct
  <2>3. b[1] \in 2 .. Len(frames)
    BY <2>1, <2>2
  <2> QED BY <2>2, <2>3
<1>4. /\ IsSeq(stack) /\ Holds(Last(under), Len(stack))
      /\ flow.kind = "return" => Len(stack) = Top.base
  BY <1>1, <1>3, UnderFacts
<1>5. /\ Standing(Fns, under, Front(native)) /\ RunOK(Fns, run)
      /\ Started(Fns, Last(under), Top.base, run.what = "import")
  BY <1>1, <1>2, <1>3, StandingPop DEF Top
<1>6. depth \in Nat /\ depth <= MaxDepth /\ imported \subseteq Functions
  BY DEF CInv, Scalars
<1>7. depth' \in Nat
  <2>1. IInv'
    BY DeliverToRunInv
  <2>2. ctl' # "done"
    BY <1>1 DEF EndNested, Answer
  <2> QED BY <2>1, <2>2, DepthIsNat
<1> HIDE DEF under, run
<1>8. CASE run.what = "callback"
  <2>1. /\ depth' = depth - 1 /\ imported' = imported /\ ctl' = "returned" /\ flow' = flow
    BY <1>1, <1>8 DEF EndNested, Answer
  <2>2. depth' <= MaxDepth
    BY <1>6, <2>1, VMAssumption
  <2>3. Awaits(Fns, Last(under), Top.base)
    BY <1>5, <1>8 DEF Started
  <2>4. flow.kind = "return" => Awaits(Fns, Last(under), Len(stack))
    BY <1>4, <2>3
  <2> QED BY <1>1, <1>4, <1>5, <1>6, <1>7, <2>1, <2>2, <2>4, DeliveredCode
<1>9. CASE run.what # "callback"
  <2>1. /\ depth' = depth
        /\ imported' = IF flow.kind = "return" THEN imported \cup {run.call.callee} ELSE imported
        /\ \/ flow.kind = "return" /\ ctl' = "machine" /\ flow' = NoFlow
           \/ flow.kind # "return" /\ ctl' = "event" /\ flow' = flow
    BY <1>1, <1>9 DEF EndNested
  <2>2. run.what = "import"
    BY <1>5, <1>9 DEF RunOK
  <2>3. run.call.callee \in Functions /\ Finds(Fns, Last(under), Top.base)
    BY <1>5, <2>2 DEF RunOK, Started, Functions, Fns
  <2>4. imported' \subseteq Functions
    BY <1>6, <2>1, <2>3
  <2>5. flow.kind = "return" => Finds(Fns, Last(under), Len(stack))
    BY <1>4, <2>3
  <2>6. flow.kind # "return" => flow.kind = "throw"
    BY <1>2 DEF Ends
  <2> QED BY <1>1, <1>4, <1>5, <1>6, <1>7, <2>1, <2>4, <2>5, <2>6, DeliveredCode
<1> QED BY <1>8, <1>9

-----------------------------------------------------------------------------
(* Imports and slices.                                                       *)

LEMMA EndProgramCode == IInv /\ CInv /\ EndProgram => CInv'
<1> SUFFICES ASSUME IInv, CInv, EndProgram PROVE CInv'
  OBVIOUS
<1>1. /\ ctl = "deliver" /\ frames' = <<>> /\ ctl' = "done"
      /\ UNCHANGED <<prog, stack, depth, native, pause, awaited, waits, imported, flow>>
  BY DEF EndProgram, pauseVars, libVars
<1>2. Scalars'
  BY <1>1 DEF CInv, Scalars, Functions, Fns
<1> QED BY <1>1, <1>2 DEF CInv

LEMMA ImportModuleCode == IInv /\ CInv /\ ImportModule => CInv'
<1> SUFFICES ASSUME IInv, CInv, ImportModule PROVE CInv'
  OBVIOUS
<1> DEFINE code == Fns[Top.fn]
           L == Len(stack)
           b == Blocks(Top.try)
<1>1. Running("Import")
  BY DEF ImportModule
<1>2. /\ ctl = "machine" /\ ctl # "done" /\ pending_throw = None /\ ~Finishing(Top)
      /\ Ins.val \in DOMAIN Fns /\ Expects(code, Top.ip + 1, b, L - Top.base)
      /\ EntriesOK(code, Top.base, Top.try) /\ pause = "None" /\ awaited = None
  BY <1>1, AtInstr, Promised
<1>3. IsSeq(stack) /\ L \in Nat /\ Top.base \in Nat /\ L >= Top.base /\ FrameOK(Fns, Top)
      /\ Holds(Top, L)
  BY <1>2, StackFacts, TopIs
<1>4. Moved(Advanced, Top, Top.ip + 1, Top.try)
  BY <1>2, TopMoves
<1>5. FrameOK(Fns, Advanced) /\ ~Finishing(Advanced) /\ Finds(Fns, Advanced, L)
  <2>1. Top.ip + 1 \in DOMAIN code
    BY <1>2 DEF Expects
  <2> QED BY <1>2, <1>3, <1>4, <2>1, Arrives
<1>6. NewTop(Advanced)
  BY <1>4, <1>5 DEF NewTop, Moved
<1>7. CASE Local(Advanced, stack)
  BY <1>1, <1>2, <1>3, <1>4, <1>7, Goes
<1>8. CASE RaiseEvent(Advanced, stack, Flow("throw", "cycle"))
  <2> DEFINE ev == Flow("throw", "cycle")
  <2>1. Ends(ev) /\ ev.kind = "throw"
    BY FlowEnds
  <2> HIDE DEF ev
  <2>2. Travels(Fns[Advanced.fn], ev, Blocks(Advanced.try), L - Advanced.base)
    BY <2>1, EndsTravels
  <2>3. Holds(Advanced, L)
    BY <1>3, <1>4 DEF Moved, Holds
  <2> QED BY <1>2, <1>3, <1>6, <1>8, <2>2, <2>3, EventCode DEF ev
<1>9. ASSUME NEW fs, NEW new, NEW run,
             fs = WithLast(frames, Advanced), new = Frame(Ins.val, "TopLevel", Len(stack)),
             run = [what |-> "import", call |-> [NoCall EXCEPT !.callee = Ins.val]],
             frames' = Append(fs, new), native' = Append(native, run),
             UNCHANGED <<prog, stack, depth, pauseVars, libVars, ctlVars>>
      PROVE  CInv'
  <2>1. /\ Struct(fs, native) /\ Matched(fs, native) /\ Standing(Fns, fs, native)
        /\ Last(fs) = Advanced
    BY <1>2, <1>6, <1>9, WithNewTop
  <2>2. /\ IsFrame(new) /\ ~Finishing(new) /\ new.resume = "TopLevel" /\ new.base = L
        /\ FrameOK(Fns, new) /\ Finds(Fns, new, L)
    <3>1. Verified(Fns)
      BY DEF CInv, Scalars
    <3> QED BY <1>2, <1>3, <1>9, <3>1, FreshFrame
  <2>3. RunOK(Fns, run) /\ run.what = "import"
    <3>1. run.what = "import" /\ run.call.callee = Ins.val
      BY <1>9 DEF NoCall
    <3> QED BY <1>2, <3>1 DEF RunOK
  <2>4. Started(Fns, Advanced, L, run.what = "import")
    BY <1>5, <2>3 DEF Started
  <2>5. Advanced.base = Top.base
    BY <1>4 DEF Moved
  <2>6. Standing(Fns, Append(fs, new), Append(native, run))
    BY <1>3, <2>1, <2>2, <2>3, <2>4, <2>5, StandingPush
  <2>7. Last(Append(fs, new)) = new
    BY <2>1, AppendFacts DEF Last, Struct
  <2>8. Standing(Fns, frames, native)' /\ Top' = new /\ Fns' = Fns
    <3>1. Standing(Fns, frames', native')
      BY <1>9, <2>6
    <3>2. Fns' = Fns
      BY <1>9 DEF Fns
    <3> QED BY <1>9, <2>7, <3>1, <3>2 DEF Top
  <2>9. UNCHANGED <<prog, stack, depth, pause, pending_throw, awaited, waits, imported, ctl, flow>>
    BY <1>9 DEF pauseVars, libVars, ctlVars
  <2>10. Scalars'
    BY <1>2, <2>8, <2>9 DEF CInv, Scalars, Functions
  <2>11. TopOK'
    BY <1>2, <1>3, <2>2, <2>8, <2>9, FindsHolds DEF TopOK
  <2>12. PauseOK'
    BY <1>2, <2>9 DEF PauseOK
  <2> QED BY <2>8, <2>10, <2>11, <2>12 DEF CInv
<1> QED BY <1>7, <1>8, <1>9 DEF ImportModule

\* A step between slices leaves the frames alone.
LEMMA SliceCode ==
  IInv /\ CInv /\ NestedRunsEnd /\ (OutOfFuel \/ Yield \/ NextSlice \/ DeliverError) => CInv'
<1> SUFFICES ASSUME IInv, CInv, NestedRunsEnd,
                    OutOfFuel \/ Yield \/ NextSlice \/ DeliverError
             PROVE  CInv'
  OBVIOUS
<1>1. /\ ctl \in {"machine", "yield", "paused"} /\ ctl # "done"
      /\ UNCHANGED <<prog, frames, depth, native, imported, waits>>
  BY DEF OutOfFuel, Yield, NextSlice, DeliverError, NestedRunsEnd, Goto, frameVars, pauseVars,
         libVars
<1>2. Fns' = Fns /\ Top' = Top
  BY <1>1 DEF Fns, Top
<1>3. Standing(Fns, frames, native)'
  BY <1>1, <1>2 DEF CInv
<1>4. /\ IsSeq(stack) /\ Len(stack) \in Nat /\ Top.base \in Nat /\ Len(stack) >= Top.base
      /\ Holds(Top, Len(stack))
  BY <1>1, StackFacts, TopIs
<1>5. ~Injects(None)
  BY VMAssumption DEF Injects, Builtins
<1>6. CASE OutOfFuel
  <2>1. /\ ctl = "machine" /\ pending_throw = None /\ ctl' = "yield" /\ pause' = "YieldFuel"
        /\ UNCHANGED <<stack, flow, awaited>>
    BY <1>6 DEF OutOfFuel, Goto, frameVars
  <2>2. Finds(Fns, Top, Len(stack)) /\ awaited = None
    BY <1>1, <2>1 DEF CInv, TopOK, PauseOK
  <2>3. Scalars'
    BY <1>1, <1>2, <2>1 DEF CInv, Scalars, Functions
  <2>4. TopOK'
    BY <1>2, <1>4, <2>1, <2>2 DEF TopOK
  <2>5. PauseOK'
    BY <1>5, <2>1, <2>2 DEF PauseOK
  <2> QED BY <1>3, <2>3, <2>4, <2>5 DEF CInv
<1>7. CASE Yield
  <2>1. /\ ctl = "yield" /\ ctl' = "paused" /\ UNCHANGED <<stack, flow, pause, awaited>>
    BY <1>7 DEF Yield, NestedRunsEnd, Goto, pauseVars
  <2>2. Scalars'
    BY <1>1, <1>2, <2>1 DEF CInv, Scalars, Functions
  <2>3. TopOK'
    BY <1>1, <1>2, <2>1 DEF CInv, TopOK
  <2>4. PauseOK'
    BY <1>1, <2>1 DEF CInv, PauseOK
  <2> QED BY <1>3, <2>2, <2>3, <2>4 DEF CInv
<1>8. CASE NextSlice
  <2>1. /\ ctl = "paused" /\ ctl' = "machine" /\ pause' = "None" /\ awaited' = None
        /\ flow' = flow
        /\ stack' = IF awaited \in {"recv", "read"} THEN WithLast(stack, Result(awaited).val)
                    ELSE stack
    BY <1>8 DEF NextSlice, Goto
  <2>2. Finds(Fns, Top, Len(stack)) /\ (Injects(awaited) => stack # <<>>)
    BY <1>1, <2>1 DEF CInv, TopOK, PauseOK
  <2>3. IsSeq(stack') /\ Len(stack') = Len(stack)
    <3>1. CASE awaited \in {"recv", "read"}
      <4>1. stack # <<>>
        BY <2>2, <3>1 DEF Injects
      <4> QED BY <1>4, <2>1, <3>1, <4>1, WithLastFacts
    <3>2. CASE awaited \notin {"recv", "read"}
      BY <1>4, <2>1, <3>2
    <3> QED BY <3>1, <3>2
  <2>4. Scalars'
    BY <1>1, <1>2, <2>1, <2>3 DEF CInv, Scalars, Functions
  <2>5. TopOK'
    BY <1>2, <1>4, <2>1, <2>2, <2>3 DEF TopOK
  <2>6. PauseOK'
    BY <2>1 DEF PauseOK
  <2> QED BY <1>3, <2>4, <2>5, <2>6 DEF CInv
<1>9. CASE DeliverError
  <2> DEFINE ev == Flow("throw", pending_throw)
  <2>1. /\ ctl = "machine" /\ ctl' = "event" /\ flow' = ev /\ UNCHANGED <<stack, pause, awaited>>
    BY <1>9 DEF DeliverError, Raise, frameVars
  <2>2. Ends(ev) /\ ev.kind = "throw"
    BY FlowEnds
  <2> HIDE DEF ev
  <2>3. Scalars'
    BY <1>1, <1>2, <2>1, <2>2 DEF CInv, Scalars, Functions, Ends, FlowKinds
  <2>4. TopOK'
    <3>1. Travels(Fns[Top.fn], ev, Blocks(Top.try), Len(stack) - Top.base)
      BY <2>2, EndsTravels
    <3> QED BY <1>2, <1>4, <2>1, <2>2, <3>1 DEF TopOK
  <2>5. PauseOK'
    BY <1>1, <2>1 DEF CInv, PauseOK
  <2> QED BY <1>3, <2>3, <2>4, <2>5 DEF CInv
<1> QED BY <1>6, <1>7, <1>8, <1>9

LEMMA StutterCode == CInv /\ UNCHANGED vars => CInv'
<1> SUFFICES ASSUME CInv, UNCHANGED vars PROVE CInv'
  OBVIOUS
<1>1. UNCHANGED <<prog, frames, stack, depth, native, pause, pending_throw, imported, ctl, flow,
                  call, awaited, waits>>
  BY DEF vars, frameVars, pauseVars, libVars, ctlVars
<1>2. Fns' = Fns /\ Top' = Top
  BY <1>1 DEF Fns, Top
<1>3. Scalars'
  BY <1>1, <1>2 DEF CInv, Scalars, Functions
<1>4. CASE ctl = "done"
  BY <1>1, <1>3, <1>4 DEF CInv
<1>5. CASE ctl # "done"
  <2>1. Standing(Fns, frames, native)'
    BY <1>1, <1>2, <1>5 DEF CInv
  <2>2. TopOK'
    BY <1>1, <1>2, <1>5 DEF CInv, TopOK, ReturnedOK
  <2>3. PauseOK'
    BY <1>1, <1>2, <1>5 DEF CInv, PauseOK
  <2> QED BY <1>3, <2>1, <2>2, <2>3 DEF CInv
<1> QED BY <1>4, <1>5

-----------------------------------------------------------------------------
(* The theorems about verified code.                                         *)

LEMMA InitiallyCode == Init /\ CodeIsVerified => CInv
<1> SUFFICES ASSUME Init, CodeIsVerified PROVE CInv
  OBVIOUS
<1> DEFINE main == Frame("main", "TopLevel", 0)
<1>1. /\ prog \in Programs /\ frames = <<main>> /\ stack = <<>> /\ depth = 0 /\ native = <<>>
      /\ pause = "None" /\ awaited = None /\ waits = 0 /\ imported = {}
      /\ ctl = "machine" /\ flow = NoFlow
  BY DEF Init
<1>2. Verified(Fns) /\ "main" \in DOMAIN Fns
  BY <1>1, VMAssumption DEF CodeIsVerified, VerifiedPrograms, Fns
<1>3. FrameOK(Fns, main) /\ Finds(Fns, main, 0) /\ main.base = 0
  BY <1>2, FreshFrame
<1> HIDE DEF main
<1>4. Len(frames) = 1 /\ DOMAIN frames = 1 .. 1 /\ frames[1] = main /\ Top = main
  BY <1>1 DEF Top, Last
<1>5. IsSeq(stack) /\ Len(stack) = 0 /\ DOMAIN native = 1 .. 0
  <2>1. <<>> \in Seq({})
    OBVIOUS
  <2> QED BY <1>1, <2>1 DEF IsSeq
<1>6. Standing(Fns, frames, native)
  <2>1. \A i \in DOMAIN frames : FrameOK(Fns, frames[i])
    BY <1>3, <1>4
  <2>2. Chain(Fns, frames, native)
    BY <1>4 DEF Chain
  <2>3. Bases(frames)
    BY <1>3, <1>4 DEF Bases
  <2>4. \A i \in DOMAIN native : RunOK(Fns, native[i])
    BY <1>5
  <2> QED BY <2>1, <2>2, <2>3, <2>4 DEF Standing
<1>7. Scalars
  BY <1>1, <1>2, <1>5, VMAssumption DEF Scalars, NoFlow, Flow, FlowKinds
<1>8. TopOK
  BY <1>1, <1>3, <1>4, <1>5, FindsHolds DEF TopOK
<1>9. PauseOK
  BY <1>1 DEF PauseOK
<1> QED BY <1>6, <1>7, <1>8, <1>9 DEF CInv

LEMMA InductiveCode == IInv /\ CInv /\ NestedRunsEnd /\ [Next]_vars => CInv'
<1> SUFFICES ASSUME IInv, CInv, NestedRunsEnd, [Next]_vars PROVE CInv'
  OBVIOUS
<1>1. CASE Execute
  BY <1>1, DataCode, DeferCallCode, PushTryCode, BlockEndCode, ExitFinallyCode, EventsCode,
     CallInstrCode, NextDeferCode, FinishedCode, ReturnedCode, TakeEventCode, FinishJumpCode,
     EndFrameCode, DeliverToFrameCode, DeliverToRunCode, EndProgramCode, ImportModuleCode,
     SliceCode DEF Execute
<1>2. CASE OutOfFuel \/ NextSlice
  BY <1>2, SliceCode
<1>3. CASE Terminated \/ UNCHANGED vars
  BY <1>3, StutterCode DEF Terminated
<1> QED BY <1>1, <1>2, <1>3 DEF Next

LEMMA InvarianceCode == Spec /\ CodeIsVerified /\ []NestedRunsEnd => [](IInv /\ CInv)
<1>1. Init /\ CodeIsVerified => IInv /\ CInv
  BY Initially, InitiallyCode
<1>2. IInv /\ CInv /\ NestedRunsEnd /\ [Next]_vars => (IInv /\ CInv)'
  BY Inductive, InductiveCode
<1> QED BY <1>1, <1>2, PTL DEF Spec

\* What CInv says of each frame.
LEMMA FrameFacts ==
  ASSUME IInv, CInv, NEW i \in DOMAIN frames
  PROVE  /\ ctl # "done" /\ FrameOK(Fns, frames[i]) /\ frames[i].base <= Len(stack)
         /\ ctl \in {"machine", "paused"} /\ ~Finishing(frames[i])
              /\ (i = Len(frames) => pending_throw = None)
              => Fns[frames[i].fn][frames[i].ip].nest = Blocks(frames[i].try)
<1>1. ctl # "done"
  <2>1. CASE ctl = "done"
    <3>1. frames = <<>>
      BY <2>1 DEF CInv, Scalars
    <3>2. DOMAIN frames = {}
      BY <3>1
    <3> QED BY <3>2
  <2> QED BY <2>1
<1>2. Struct(frames, native) /\ Standing(Fns, frames, native) /\ Len(stack) >= Top.base
      /\ Len(stack) \in Nat
  BY <1>1, TopIs DEF CInv
<1>3. IsSeq(frames) /\ Len(frames) \in Nat /\ DOMAIN frames = 1 .. Len(frames)
  BY <1>2, SeqFacts DEF Struct
<1>4. FrameOK(Fns, frames[i])
  BY <1>2 DEF Standing
<1>5. frames[i].base <= Len(stack)
  <2>1. i \in DOMAIN frames /\ Len(frames) \in DOMAIN frames /\ i <= Len(frames)
    BY <1>3
  <2>2. frames[i].base <= Top.base
    BY <1>2, <2>1 DEF Standing, Bases, Top, Last
  <2>3. frames[i].base \in Nat /\ Top.base \in Nat
    BY <1>1, <1>4, TopIs DEF FrameOK
  <2>4. \A k, m, n \in Nat : k <= m /\ n >= m => k <= n
    OBVIOUS
  <2> QED BY <1>2, <2>2, <2>3, <2>4, Zenon
<1>6. ASSUME ctl \in {"machine", "paused"}, ~Finishing(frames[i]),
             i = Len(frames) => pending_throw = None
      PROVE  Fns[frames[i].fn][frames[i].ip].nest = Blocks(frames[i].try)
  <2>1. CASE i = Len(frames)
    <3>1. frames[i] = Top
      BY <2>1 DEF Top, Last
    <3>2. Finds(Fns, Top, Len(stack))
      BY <1>1, <1>6, <2>1 DEF CInv, TopOK
    <3> QED BY <1>6, <3>1, <3>2 DEF Finds, Stands
  <2>2. CASE i # Len(frames)
    <3>1. i + 1 \in 2 .. Len(frames) /\ i + 1 - 1 = i
      BY <1>3, <2>2
    <3>2. PICK n, isImport : Started(Fns, frames[i + 1 - 1], n, isImport)
      BY <1>2, <3>1 DEF Standing, Chain
    <3>3. Started(Fns, frames[i], n, isImport)
      BY <3>1, <3>2
    <3> QED BY <1>6, <3>3 DEF Started, Finds, Awaits, Stands
  <2> QED BY <2>1, <2>2
<1> QED BY <1>1, <1>4, <1>5, <1>6

\* In verified code every frame stands at an instruction of its function, above no
\* more operands than there are, and the depth stays within max_call_depth, as long
\* as no nested run is left by a Yield (compiler.rs promises it of its code, vm.rs
\* indexes code and stack without checks).
THEOREM VerifiedCodeStaysWell == Spec /\ CodeIsVerified /\ []NestedRunsEnd => []TypeOK
<1>1. ASSUME IInv, CInv PROVE TypeOK
  <2>1. \A i \in DOMAIN frames :
          /\ frames[i].fn \in Functions
          /\ frames[i].ip \in DOMAIN Code[prog][frames[i].fn]
          /\ frames[i].resume \in {"TopLevel", "PushResult"}
          /\ frames[i].base \in 0 .. Len(stack)
    <3> TAKE i \in DOMAIN frames
    <3>1. FrameOK(Fns, frames[i]) /\ frames[i].base <= Len(stack)
      BY <1>1, FrameFacts
    <3>2. frames[i].base \in Nat /\ Len(stack) \in Nat
      BY <1>1, <3>1, SeqFacts DEF FrameOK, CInv, Scalars
    <3>3. frames[i].base \in 0 .. Len(stack)
      BY <3>1, <3>2
    <3> QED BY <3>1, <3>3 DEF FrameOK, Functions, Fns
  <2>2. ctl \in {"event", "deliver", "returned"} => flow # NoFlow
    BY <1>1 DEF IInv, EventOK
  <2>3. depth \in 0 .. MaxDepth
    BY <1>1, VMAssumption DEF CInv, Scalars
  <2> QED BY <1>1, <2>1, <2>2, <2>3 DEF CInv, Scalars, TypeOK
<1> QED BY <1>1, InvarianceCode, PTL

\* In verified code the try entries of every frame are the try blocks its next
\* instruction stands in, whichever way control came there (vm.rs:
\* dispatch_event_parts, TryBodyEnd, CatchEnd, ExitFinally, LeaveLoop).
THEOREM TryEntriesFollowCode ==
  Spec /\ CodeIsVerified /\ []NestedRunsEnd => []TryEntriesMatchCode
<1>1. ASSUME IInv, CInv PROVE TryEntriesMatchCode
  <2>1. \A i \in DOMAIN frames :
          ctl \in {"machine", "paused"} /\ ~Finishing(frames[i])
            /\ (i = Len(frames) => pending_throw = None)
            => Fns[frames[i].fn][frames[i].ip].nest = Blocks(frames[i].try)
    BY <1>1, FrameFacts
  <2> QED BY <2>1, Zenon DEF TryEntriesMatchCode, Fns
<1> QED BY <1>1, InvarianceCode, PTL

\* A function of verified code that returns leaves nothing on the operand stack, and
\* every try statement goes back to the operands that the code around it has there,
\* the value of a switch it stands in among them (vm.rs: deliver_frame_result, the
\* truncate to snapshot).  Code with a return in a top-level switch is not verified,
\* and for it this is false (run VM_switch_return).
THEOREM OperandsStayBalanced ==
  Spec /\ CodeIsVerified /\ []NestedRunsEnd => []OperandsBalanced
<1>1. ASSUME IInv, CInv PROVE OperandsBalanced
  <2>1. ctl = "deliver" /\ flow.kind = "return" => Len(stack) = Top.base
    BY <1>1 DEF CInv, TopOK
  <2>2. ASSUME NEW i \in DOMAIN frames, NEW j \in DOMAIN frames[i].try
        PROVE  LET te == frames[i].try[j]
               IN  te.snapshot = frames[i].base + Code[prog][frames[i].fn][te.at].height
    <3>1. FrameOK(Fns, frames[i])
      BY <1>1, FrameFacts
    <3> QED BY <3>1 DEF FrameOK, EntriesOK, EntryOK, Fns
  <2> QED BY <2>1, <2>2 DEF OperandsBalanced
<1> QED BY <1>1, InvarianceCode, PTL
=============================================================================
