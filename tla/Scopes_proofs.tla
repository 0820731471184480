---------------------------- MODULE Scopes_proofs ----------------------------
(***************************************************************************)
(* Theorems about Scopes for any set of names and any bounds: a name reads *)
(* and writes the variable it stands for, unless a function had captured   *)
(* it before a function inside it did, and variables do not share a slot.  *)
(*                                                                         *)
(* That names are right is not inductive.  A closure's captured variables  *)
(* are found through lists that are built for each function on its own     *)
(* copy of the scopes and carried back when it is complete, so the         *)
(* invariant says what each entry of each list stands for (ScMeanings: one *)
(* map M from functions and their indices to variables), that the lists of *)
(* a copy extend those it was copied from (ScGrown), and which scopes each *)
(* compiler owns (ScNested, ScHomes).  M is found anew at every step that  *)
(* captures; it never changes where it was defined.                        *)
(***************************************************************************)
EXTENDS Scopes, Integers, SequenceTheorems, NaturalsInduction, WellFoundedInduction, TLAPS

\* The bounds are natural numbers.
Assumptions == {MaxFunctions, MaxBlocks} \subseteq Nat

-----------------------------------------------------------------------------
(* The compiler's scopes.                                                  *)

\* A set of natural numbers up to a bound has a largest and a smallest member.
LEMMA ScMin ==
  ASSUME NEW S, S \subseteq Nat, S # {}
  PROVE  Min(S) \in S /\ \A m \in S : Min(S) <= m
<1> DEFINE R == OpToRel(<, Nat)
<1>1. IsWellFoundedOn(R, Nat)
  BY NatLessThanWellFounded
<1>2. \A x, y \in Nat : y < x => <<y, x>> \in R
  BY DEF OpToRel
<1> HIDE DEF R
<1>3. PICK x \in S : \A y \in S : ~ (<<y, x>> \in R)
  BY <1>1, WFMin
<1>4. \A y \in S : ~ (y < x)
  <2>1. S \subseteq Nat /\ x \in Nat
    OBVIOUS
  <2> QED BY <1>2, <1>3, <2>1, Zenon
<1>5. \A y \in S : x <= y
  <2>1. \A y \in S : x \in Nat /\ y \in Nat
    OBVIOUS
  <2> QED BY <1>4, <2>1
<1> QED BY <1>5, Zenon DEF Min

LEMMA ScMax ==
  ASSUME NEW n \in Nat, NEW S, S \subseteq 0 .. n, S # {}
  PROVE  Max(S) \in S /\ \A m \in S : m <= Max(S)
<1> DEFINE Bounds == {b \in 0 .. n : \A m \in S : m <= b}
<1>1. Bounds \subseteq Nat /\ n \in Bounds
  OBVIOUS
<1>2. Min(Bounds) \in Bounds /\ \A c \in Bounds : Min(Bounds) <= c
  BY <1>1, ScMin
<1>3. PICK b \in 0 .. n : (\A m \in S : m <= b) /\ \A c \in 0 .. n : (\A m \in S : m <= c) => b <= c
  BY <1>2
<1>4. b \in S
  <2> SUFFICES ASSUME b \notin S PROVE FALSE
    OBVIOUS
  <2>1. \A m \in S : m <= b - 1
    BY <1>3
  <2>2. b > 0
    <3>1. PICK m \in S : m \in 0 .. n /\ m <= b - 1
      BY <2>1
    <3> QED BY <3>1
  <2>3. b - 1 \in 0 .. n
    BY <2>2
  <2> QED BY <1>3, <2>1, <2>3
<1>5. \A m \in S : b >= m
  BY <1>3
<1>6. Max(S) \in S /\ \A m \in S : Max(S) >= m
  BY <1>4, <1>5, Zenon DEF Max
<1> QED BY <1>6

\* A sequence is as long as its domain says.
LEMMA ScLen ==
  ASSUME NEW T, NEW s \in Seq(T), NEW n \in Nat, DOMAIN s = 1 .. n
  PROVE  Len(s) = n
<1>1. Len(s) \in Nat /\ 1 .. Len(s) = 1 .. n
  BY LenProperties
<1>2. \A a, b \in Nat : 1 .. a = 1 .. b => a = b
  <2> SUFFICES ASSUME NEW a \in Nat, NEW b \in Nat, 1 .. a = 1 .. b, a < b \/ b < a PROVE FALSE
    OBVIOUS
  <2>1. CASE a < b
    <3>1. b \in 1 .. b /\ b \notin 1 .. a
      BY <2>1
    <3> QED BY <3>1
  <2>2. CASE b < a
    <3>1. a \in 1 .. a /\ a \notin 1 .. b
      BY <2>2
    <3> QED BY <3>1
  <2> QED BY <2>1, <2>2
<1> QED BY <1>1, <1>2

LEMMA ScFront ==
  ASSUME NEW T, NEW s \in Seq(T), s # <<>>
  PROVE  /\ Front(s) \in Seq(T) /\ Len(Front(s)) = Len(s) - 1 /\ Len(s) \in Nat \ {0}
         /\ Last(s) \in T
         /\ \A i \in 1 .. (Len(s) - 1) : Front(s)[i] = s[i]
<1>1. Len(s) \in Nat \ {0}
  BY EmptySeq, LenProperties
<1>2. 1 \in 1 .. Len(s) /\ Len(s) - 1 \in 0 .. Len(s) /\ Len(s) \in 1 .. Len(s)
  BY <1>1
<1>3. ASSUME NEW k \in Nat, k <= Len(s)
      PROVE  SubSeq(s, 1, k) \in Seq(T) /\ Len(SubSeq(s, 1, k)) = k
             /\ \A i \in 1 .. k : SubSeq(s, 1, k)[i] = s[i]
  <2>1. \A i \in 1 .. k : s[i] \in T
    BY <1>1, <1>3, ElementOfSeq
  <2>2. /\ SubSeq(s, 1, k) \in Seq(T)
        /\ Len(SubSeq(s, 1, k)) = IF 1 <= k THEN k - 1 + 1 ELSE 0
        /\ \A i \in 1 .. (k - 1 + 1) : SubSeq(s, 1, k)[i] = s[1 + i - 1]
    BY <2>1, SubSeqProperties
  <2> QED BY <2>2
<1>4. s[Len(s)] \in T
  BY <1>2, ElementOfSeq
<1>5. Len(s) - 1 \in Nat /\ Len(s) - 1 <= Len(s)
  BY <1>1
<1> QED BY <1>1, <1>3, <1>4, <1>5 DEF Front, Last

LEMMA ScAppend ==
  ASSUME NEW T, NEW s \in Seq(T), NEW e \in T
  PROVE  /\ Append(s, e) \in Seq(T) /\ Len(Append(s, e)) = Len(s) + 1 /\ Len(s) \in Nat
         /\ \A i \in 1 .. Len(s) : Append(s, e)[i] = s[i]
         /\ Append(s, e)[Len(s) + 1] = e
BY AppendProperties, LenProperties

LEMMA ScWithLast ==
  ASSUME NEW T, NEW s \in Seq(T), s # <<>>, NEW e \in T
  PROVE  /\ WithLast(s, e) \in Seq(T) /\ Len(WithLast(s, e)) = Len(s)
         /\ \A i \in 1 .. (Len(s) - 1) : WithLast(s, e)[i] = s[i]
         /\ WithLast(s, e)[Len(s)] = e
BY ScFront, ScAppend DEF WithLast

ScNames == UNION {[D -> Nat] : D \in SUBSET Names}

LEMMA ScPut ==
  ASSUME NEW f \in ScNames, NEW x \in Names, NEW v \in Nat
  PROVE  /\ Put(f, x, v) \in ScNames /\ DOMAIN Put(f, x, v) = DOMAIN f \cup {x}
         /\ Put(f, x, v)[x] = v /\ \A y \in DOMAIN f : y # x => Put(f, x, v)[y] = f[y]
<1>1. PICK D \in SUBSET Names : f \in [D -> Nat]
  BY DEF ScNames
<1>2. Put(f, x, v) \in [D \cup {x} -> Nat]
  BY <1>1 DEF Put
<1>3. D \cup {x} \in SUBSET Names
  OBVIOUS
<1>4. Put(f, x, v) \in ScNames
  BY <1>2, <1>3, Zenon DEF ScNames
<1> QED BY <1>1, <1>2, <1>4 DEF Put

\* A function defined by recursion along 1 .. n exists; there is one only.
ScFollows(c, b, G, n) == c[0] = b /\ \A k \in 1 .. n : c[k] = G[<<k, c[k - 1]>>]

LEMMA ScRecursion ==
  ASSUME NEW n \in Nat, NEW V, NEW b \in V, NEW G \in [(1 .. n) \X V -> V]
  PROVE  \E c \in [0 .. n -> V] : ScFollows(c, b, G, n)
<1> DEFINE Upto(m) == \E c \in [0 .. m -> V] : c[0] = b /\ \A k \in 1 .. m : c[k] = G[<<k, c[k - 1]>>]
           Bad == {m \in 0 .. n : ~ Upto(m)}
<1>1. Upto(0)
  <2>1. [k \in 0 .. 0 |-> b] \in [0 .. 0 -> V]
    OBVIOUS
  <2>2. [k \in 0 .. 0 |-> b][0] = b /\ \A k \in 1 .. 0 : FALSE
    OBVIOUS
  <2> QED BY <2>1, <2>2
<1>2. ASSUME NEW m \in 1 .. n, Upto(m - 1) PROVE Upto(m)
  <2>1. PICK c \in [0 .. (m - 1) -> V] : c[0] = b /\ \A k \in 1 .. (m - 1) : c[k] = G[<<k, c[k - 1]>>]
    BY <1>2
  <2>2. m - 1 \in 0 .. (m - 1) /\ m \in Nat /\ \A k \in 1 .. m : k - 1 \in 0 .. (m - 1) /\ (k # m => k \in 1 .. (m - 1))
    OBVIOUS
  <2>3. <<m, c[m - 1]>> \in (1 .. n) \X V
    BY <2>1, <2>2
  <2> DEFINE e == G[<<m, c[m - 1]>>]
             d == [k \in 0 .. m |-> IF k = m THEN e ELSE c[k]]
  <2>4. e \in V
    BY <2>3
  <2> HIDE DEF e
  <2>5. \A k \in 0 .. m : k # m => k \in 0 .. (m - 1) /\ c[k] \in V
    BY <2>2, <2>1
  <2>6. d \in [0 .. m -> V]
    BY <2>4, <2>5
  <2>7. d[0] = b
    BY <2>1, <2>2
  <2>8. ASSUME NEW k \in 1 .. m PROVE d[k] = G[<<k, d[k - 1]>>]
    <3>1. d[k - 1] = c[k - 1]
      BY <2>2
    <3>2. CASE k = m
      <4>1. d[k] = e
        BY <3>2
      <4>2. e = G[<<k, d[k - 1]>>]
        BY <3>1, <3>2, Zenon DEF e
      <4> QED BY <4>1, <4>2
    <3>3. CASE k # m
      BY <3>1, <3>3, <2>1, <2>2
    <3> QED BY <3>2, <3>3
  <2> HIDE DEF d
  <2> QED BY <2>6, <2>7, <2>8
<1> HIDE DEF Upto
<1>3. Bad = {}
  <2> SUFFICES ASSUME Bad # {} PROVE FALSE
    OBVIOUS
  <2>1. Bad \subseteq Nat
    OBVIOUS
  <2>2. Min(Bad) \in Bad /\ \A m \in Bad : Min(Bad) <= m
    BY <2>1, ScMin
  <2>3. PICK m \in Bad : \A j \in Bad : m <= j
    BY <2>2
  <2>4. m \in 0 .. n /\ ~ Upto(m) /\ m # 0
    BY <1>1, <2>3
  <2>5. m - 1 \in 0 .. n /\ ~ (m <= m - 1)
    BY <2>4
  <2>6. Upto(m - 1)
    BY <2>3, <2>5
  <2> QED BY <1>2, <2>4, <2>6
<1>4. Upto(n)
  BY <1>3
<1> QED BY <1>4, Zenon DEF Upto, ScFollows

\* What Merged adds up to, entry by entry.
ScMerge(outer, sub, list, k) ==
  IF k = 0 THEN outer
  ELSE IF \E j \in DOMAIN outer : outer[j].name = sub[k].name THEN list[k - 1]
  ELSE Append(list[k - 1], sub[k])
ScMergeList(outer, sub) ==
  CHOOSE list : list = [k \in 0 .. Len(sub) |-> ScMerge(outer, sub, list, k)]

LEMMA ScMergedIs == \A outer, sub : Merged(outer, sub) = ScMergeList(outer, sub)[Len(sub)]
BY DEF Merged, ScMergeList, ScMerge

LEMMA ScMergeListIs ==
  ASSUME NEW E, NEW outer \in Seq(E), NEW sub \in Seq(E)
  PROVE  /\ ScMergeList(outer, sub) \in [0 .. Len(sub) -> Seq(E)]
         /\ \A k \in 0 .. Len(sub) :
              ScMergeList(outer, sub)[k] = ScMerge(outer, sub, ScMergeList(outer, sub), k)
<1> DEFINE n == Len(sub)
           V == Seq(E)
           Add(k, v) == IF \E j \in DOMAIN outer : outer[j].name = sub[k].name THEN v ELSE Append(v, sub[k])
           G == [p \in (1 .. n) \X V |-> Add(p[1], p[2])]
<1>1. n \in Nat /\ outer \in V /\ \A k \in 1 .. n : sub[k] \in E
  BY LenProperties, ElementOfSeq
<1>2. \A k \in 1 .. n, v \in V : Add(k, v) \in V
  <2> SUFFICES ASSUME NEW k \in 1 .. n, NEW v \in V PROVE Add(k, v) \in V
    OBVIOUS
  <2>1. Append(v, sub[k]) \in V
    BY <1>1, AppendProperties
  <2> QED BY <2>1
<1> HIDE DEF Add, n, V
<1>3. G \in [(1 .. n) \X V -> V] /\ \A k \in 1 .. n, v \in V : G[<<k, v>>] = Add(k, v)
  BY <1>2
<1> HIDE DEF G
<1>4. PICK c \in [0 .. n -> V] : c[0] = outer /\ \A k \in 1 .. n : c[k] = G[<<k, c[k - 1]>>]
  <2>1. n \in Nat /\ outer \in V /\ G \in [(1 .. n) \X V -> V]
    BY <1>1, <1>3
  <2>2. \E c \in [0 .. n -> V] : ScFollows(c, outer, G, n)
    BY <2>1, ScRecursion, Zenon
  <2> QED BY <2>2, Zenon DEF ScFollows
<1>5. \A k \in 0 .. n : c[k] = ScMerge(outer, sub, c, k)
  <2> SUFFICES ASSUME NEW k \in 0 .. n, k # 0 PROVE c[k] = Add(k, c[k - 1])
    BY <1>4 DEF ScMerge, Add
  <2>1. k \in 1 .. n /\ k - 1 \in 0 .. n
    BY <1>1
  <2> QED BY <1>3, <1>4, <2>1
<1> DEFINE P(list) == list = [k \in 0 .. n |-> ScMerge(outer, sub, list, k)]
<1>6. P(c)
  <2>1. DOMAIN c = 0 .. n
    OBVIOUS
  <2> QED BY <1>5, <2>1
<1>7. ScMergeList(outer, sub) = CHOOSE list : P(list)
  BY DEF ScMergeList, n
<1>8. P(CHOOSE list : P(list))
  <2> HIDE DEF P
  <2> QED BY <1>6, Zenon
<1> DEFINE d == ScMergeList(outer, sub)
<1>9. d = [k \in 0 .. n |-> ScMerge(outer, sub, d, k)]
  BY <1>7, <1>8
<1> HIDE DEF d
<1>10. \A k \in 0 .. n : d[k] = ScMerge(outer, sub, d, k)
  BY <1>9
<1>11. \A k \in 0 .. n : d[k] = c[k]
  <2> DEFINE Bad == {k \in 0 .. n : d[k] # c[k]}
  <2> SUFFICES ASSUME Bad # {} PROVE FALSE
    OBVIOUS
  <2>1. Bad \subseteq Nat
    OBVIOUS
  <2>2. Min(Bad) \in Bad /\ \A m \in Bad : Min(Bad) <= m
    BY <2>1, ScMin
  <2>3. PICK k \in Bad : \A j \in Bad : k <= j
    BY <2>2
  <2>4. k \in 0 .. n /\ d[k] # c[k]
    BY <2>3
  <2>5. k # 0
    BY <2>4, <1>10, <1>5 DEF ScMerge
  <2>6. k - 1 \in 0 .. n /\ ~ (k <= k - 1)
    BY <2>4, <2>5, <1>1
  <2>7. d[k - 1] = c[k - 1]
    BY <2>3, <2>6
  <2> QED BY <2>4, <2>7, <1>10, <1>5 DEF ScMerge
<1>12. DOMAIN d = 0 .. n
  BY <1>9
<1>13. d \in [0 .. n -> V]
  <2>1. d = [k \in 0 .. n |-> d[k]]
    BY <1>9
  <2>2. \A k \in 0 .. n : d[k] \in V
    BY <1>11
  <2> QED BY <2>1, <2>2
<1> QED BY <1>13, <1>10 DEF d, n, V

LEMMA ScMergedType ==
  ASSUME NEW E, NEW outer \in Seq(E), NEW sub \in Seq(E)
  PROVE  Merged(outer, sub) \in Seq(E)
<1>1. Len(sub) \in 0 .. Len(sub)
  BY LenProperties
<1>2. ScMergeList(outer, sub) \in [0 .. Len(sub) -> Seq(E)]
  BY ScMergeListIs, Zenon
<1> QED BY <1>1, <1>2, ScMergedIs

\* A copy that has grown, and captures no name twice, is what the scope becomes.
LEMMA ScMergedGrown ==
  ASSUME NEW E, NEW outer \in Seq(E), NEW sub \in Seq(E),
         Len(outer) <= Len(sub), \A k \in 1 .. Len(outer) : sub[k] = outer[k],
         \A j, k \in 1 .. Len(sub) : sub[j].name = sub[k].name => j = k
  PROVE  Merged(outer, sub) = sub
<1> DEFINE n == Len(sub)
           m == Len(outer)
           d == ScMergeList(outer, sub)
           Is(k) == /\ Len(d[k]) = IF k <= m THEN m ELSE k
                    /\ \A i \in 1 .. Len(d[k]) : d[k][i] = sub[i]
           Bad == {k \in 0 .. n : ~ Is(k)}
<1>1. /\ n \in Nat /\ m \in Nat /\ m <= n /\ DOMAIN outer = 1 .. m
      /\ d \in [0 .. n -> Seq(E)] /\ \A k \in 1 .. n : sub[k] \in E
  BY LenProperties, ElementOfSeq, ScMergeListIs
<1>2. \A k \in 0 .. n : d[k] = ScMerge(outer, sub, d, k)
  <2> HIDE DEF n, m
  <2> QED BY ScMergeListIs DEF n
<1> HIDE DEF d, n, m
<1>3. Is(0)
  <2>1. d[0] = outer
    BY <1>1, <1>2 DEF ScMerge
  <2> QED BY <2>1, <1>1 DEF m
<1>4. ASSUME NEW k \in 1 .. n, Is(k - 1) PROVE Is(k)
  <2>1. k - 1 \in 0 .. n /\ k \in 0 .. n /\ k # 0 /\ d[k - 1] \in Seq(E) /\ sub[k] \in E
    BY <1>1
  <2>2. d[k] = IF \E j \in 1 .. m : outer[j].name = sub[k].name THEN d[k - 1] ELSE Append(d[k - 1], sub[k])
    BY <1>1, <1>2, <2>1 DEF ScMerge
  <2>3. (\E j \in 1 .. m : outer[j].name = sub[k].name) <=> k <= m
    <3>1. ASSUME k <= m PROVE \E j \in 1 .. m : outer[j].name = sub[k].name
      <4>1. k \in 1 .. m /\ sub[k] = outer[k]
        BY <3>1, <1>1 DEF m
      <4> QED BY <4>1
    <3>2. ASSUME NEW j \in 1 .. m, outer[j].name = sub[k].name PROVE k <= m
      <4>1. j \in 1 .. n /\ sub[j] = outer[j]
        BY <1>1 DEF m
      <4>2. j = k
        BY <4>1, <3>2 DEF n
      <4> QED BY <4>2
    <3> QED BY <3>1, <3>2
  <2>4. CASE k <= m
    <3>1. d[k] = d[k - 1] /\ k - 1 <= m
      BY <2>2, <2>3, <2>4, <1>1
    <3> QED BY <3>1, <1>4, <2>4
  <2>5. CASE ~ (k <= m)
    <3>1. d[k] = Append(d[k - 1], sub[k])
      BY <2>2, <2>3, <2>5
    <3>2. Len(d[k - 1]) = k - 1
      BY <1>4, <2>5, <1>1
    <3>3. Len(d[k]) = k /\ d[k][k] = sub[k] /\ \A i \in 1 .. (k - 1) : d[k][i] = d[k - 1][i]
      <4>1. /\ Len(Append(d[k - 1], sub[k])) = Len(d[k - 1]) + 1
            /\ Append(d[k - 1], sub[k])[Len(d[k - 1]) + 1] = sub[k]
            /\ \A i \in 1 .. Len(d[k - 1]) : Append(d[k - 1], sub[k])[i] = d[k - 1][i]
        BY <2>1, ScAppend
      <4>2. k - 1 + 1 = k
        OBVIOUS
      <4> QED BY <4>1, <4>2, <3>1, <3>2
    <3>4. \A i \in 1 .. (k - 1) : d[k - 1][i] = sub[i]
      BY <3>2, <1>4
    <3>5. \A i \in 1 .. k : i = k \/ i \in 1 .. (k - 1)
      OBVIOUS
    <3> QED BY <3>3, <3>4, <3>5, <2>5
  <2> QED BY <2>4, <2>5
<1> HIDE DEF Is
<1>5. Bad = {}
  <2> SUFFICES ASSUME Bad # {} PROVE FALSE
    OBVIOUS
  <2>1. Bad \subseteq Nat
    BY <1>1
  <2>2. Min(Bad) \in Bad /\ \A k \in Bad : Min(Bad) <= k
    BY <2>1, ScMin
  <2>3. PICK k \in Bad : \A j \in Bad : k <= j
    BY <2>2
  <2>4. k \in 0 .. n /\ ~ Is(k) /\ k # 0
    BY <1>3, <2>3
  <2>5. k \in 1 .. n /\ k - 1 \in 0 .. n /\ ~ (k <= k - 1)
    BY <2>4, <1>1
  <2>6. Is(k - 1)
    BY <2>3, <2>5
  <2> QED BY <1>4, <2>4, <2>5, <2>6
<1>6. n \in 0 .. n /\ d[n] \in Seq(E)
  BY <1>1
<1>7. Len(d[n]) = n /\ \A i \in 1 .. n : d[n][i] = sub[i]
  <2>1. Is(n)
    BY <1>5, <1>6
  <2>2. Len(d[n]) = n
    BY <2>1, <1>1 DEF Is
  <2> QED BY <2>1, <2>2 DEF Is
<1>8. d[n] = sub
  BY <1>6, <1>7, SeqEqual DEF n
<1> QED BY <1>8, ScMergedIs DEF d, n

-----------------------------------------------------------------------------
(* The invariant.                                                          *)

ScEntries   == [name : Names, is_local : BOOLEAN, index : Nat]
ScScopes    == [slots : ScNames, free_vars : Seq(ScEntries), is_function : BOOLEAN]
ScCompilers == [fn : Nat, scopes : Seq(ScScopes), func_local_count : Nat]
ScSources   == [is_local : BOOLEAN, index : Nat]
ScReferences ==
  [fn : Nat, kind : {"Local", "Free", "Global"}, index : Nat, name : Names, meant : Nat]

ScTypes ==
  /\ compilers \in Seq(ScCompilers) /\ compilers # <<>>
  /\ sources \in Seq(Seq(ScSources)) /\ parent \in Seq(Nat)
  /\ Len(sources) = Len(parent) /\ Len(parent) <= MaxFunctions
  /\ \A f \in 1 .. Len(parent) : parent[f] < f
  /\ env \in Seq(ScNames) /\ home \in Seq(Nat \X Nat) /\ looked_up \subseteq ScReferences
  /\ blocks \in 0 .. MaxBlocks /\ repeated \in BOOLEAN

\* The first of a compiler's own scopes, the others being copies: its function's.
ScFirst(c) == IF c = 1 THEN 1 ELSE Len(compilers[c - 1].scopes) + 1

ScNested ==
  /\ compilers[1].fn = 0
  /\ \A c \in 2 .. Len(compilers) :
       /\ compilers[c].fn \in 1 .. Len(parent)
       /\ parent[compilers[c].fn] = compilers[c - 1].fn
  /\ \A c, d \in 1 .. Len(compilers) : c < d =>
       /\ compilers[c].fn < compilers[d].fn
       /\ Len(compilers[c].scopes) < Len(compilers[d].scopes)
       /\ \A i \in 1 .. Len(compilers[c].scopes) :
            compilers[c].scopes[i].slots = compilers[d].scopes[i].slots
  /\ \A c \in 1 .. Len(compilers) : \A i \in 1 .. Len(compilers[c].scopes) :
       compilers[c].scopes[i].is_function <=> \E d \in 2 .. c : i = ScFirst(d)

\* The language's scopes are the compilers', and a variable is where its slot is.
ScHomes ==
  /\ Len(env) = Len(scopes)
  /\ \A c \in 1 .. Len(compilers) : \A i \in ScFirst(c) .. Len(compilers[c].scopes) :
       /\ DOMAIN env[i] = DOMAIN compilers[c].scopes[i].slots
       /\ \A x \in DOMAIN env[i] :
            /\ env[i][x] \in 1 .. Len(home)
            /\ home[env[i][x]] = <<compilers[c].fn, compilers[c].scopes[i].slots[x]>>
  /\ \A v \in 1 .. Len(home) :
       /\ home[v][1] \in 0 .. Len(parent)
       /\ \A c \in 1 .. Len(compilers) :
            home[v][1] = compilers[c].fn => home[v][2] < compilers[c].func_local_count
  /\ SlotsAreOwn

ScLookedUp ==
  \A r \in looked_up :
    /\ r.fn \in 0 .. Len(parent) /\ r.meant \in 0 .. Len(home)
    /\ r.kind = "Global" => r.meant = 0
    /\ r.kind = "Local" => r.meant # 0 /\ home[r.meant] = <<r.fn, r.index>>

\* No name is captured twice, and a copy has what it was copied from, and more.
ScGrown ==
  /\ \A c \in 1 .. Len(compilers) : \A i \in 1 .. Len(compilers[c].scopes) :
       \A j, k \in 1 .. Len(compilers[c].scopes[i].free_vars) :
         compilers[c].scopes[i].free_vars[j].name = compilers[c].scopes[i].free_vars[k].name => j = k
  /\ \A c, d \in 1 .. Len(compilers) : c < d => \A i \in 1 .. Len(compilers[c].scopes) :
       /\ Len(compilers[c].scopes[i].free_vars) <= Len(compilers[d].scopes[i].free_vars)
       /\ \A k \in 1 .. Len(compilers[c].scopes[i].free_vars) :
            compilers[d].scopes[i].free_vars[k] = compilers[c].scopes[i].free_vars[k]

\* The innermost declaration of x below scope b.
ScInnermost(envs, i, x, b) ==
  i \in 1 .. (b - 1) /\ x \in DOMAIN envs[i] /\ \A j \in (i + 1) .. (b - 1) : x \notin DOMAIN envs[j]

\* Capture k of function f is a slot of the function around it, or a capture of it, of
\* the same variable.  M says which variable a capture is.
ScLinked(M, around, place, f, k, entry) ==
  IF entry.is_local THEN place[M[<<f, k>>]] = <<around, entry.index>>
  ELSE <<around, entry.index>> \in DOMAIN M /\ M[<<around, entry.index>>] = M[<<f, k>>]

\* The captures of a function under way are the innermost variables of their names.
ScCapturing(M, around, place, f, list, envs, b) ==
  /\ \A k \in Nat : <<f, k>> \in DOMAIN M <=> k < Len(list)
  /\ \A k \in 1 .. Len(list) :
       /\ ScLinked(M, around, place, f, k - 1, list[k])
       /\ \E i \in 1 .. (b - 1) :
            ScInnermost(envs, i, list[k].name, b) /\ M[<<f, k - 1>>] = envs[i][list[k].name]
ScUnderWay(M, c) ==
  ScCapturing(M, parent[compilers[c].fn], home, compilers[c].fn, scopes[ScFirst(c)].free_vars,
              env, ScFirst(c))

ScComplete(M, f) ==
  /\ \A k \in Nat : <<f, k>> \in DOMAIN M <=> k < Len(sources[f])
  /\ \A k \in 1 .. Len(sources[f]) : ScLinked(M, parent[f], home, f, k - 1, sources[f][k])

ScMeanings(M) ==
  /\ \A p \in DOMAIN M : p \in (1 .. Len(parent)) \X Nat /\ M[p] \in 1 .. Len(home)
  /\ \A c \in 2 .. Len(compilers) : ScUnderWay(M, c)
  /\ \A f \in 1 .. Len(parent) :
       (\A c \in 1 .. Len(compilers) : compilers[c].fn # f) => ScComplete(M, f)
  /\ \A r \in looked_up : r.kind = "Free" =>
       <<r.fn, r.index>> \in DOMAIN M /\ M[<<r.fn, r.index>>] = r.meant

ScIInv ==
  /\ ScTypes /\ ScNested /\ ScHomes /\ ScLookedUp
  /\ ~repeated => ScGrown /\ \E M : ScMeanings(M)

LEMMA ScInit == Assumptions /\ Init => ScIInv
<1> SUFFICES ASSUME Assumptions, Init PROVE ScIInv
  OBVIOUS
<1>1. /\ compilers = <<[fn |-> 0, scopes |-> <<>>, func_local_count |-> 0]>>
      /\ Len(compilers) = 1 /\ compilers[1] = [fn |-> 0, scopes |-> <<>>, func_local_count |-> 0]
      /\ compilers[1].fn = 0 /\ compilers[1].scopes = <<>> /\ Len(compilers[1].scopes) = 0
      /\ sources = <<>> /\ parent = <<>> /\ Len(parent) = 0 /\ env = <<>> /\ home = <<>>
      /\ Len(env) = 0 /\ Len(home) = 0 /\ looked_up = {} /\ blocks = 0 /\ repeated = FALSE
  BY DEF Init, Compiler
<1>2. ScTypes
  <2>1. compilers[1] \in ScCompilers
    BY <1>1 DEF ScCompilers
  <2>2. compilers \in Seq(ScCompilers) /\ compilers # <<>>
    BY <1>1, <2>1
  <2>3. sources \in Seq(Seq(ScSources)) /\ parent \in Seq(Nat) /\ Len(sources) = Len(parent)
    BY <1>1
  <2>4. env \in Seq(ScNames) /\ home \in Seq(Nat \X Nat)
    BY <1>1
  <2>5. Len(parent) <= MaxFunctions /\ blocks \in 0 .. MaxBlocks
    BY <1>1 DEF Assumptions
  <2>6. \A f \in 1 .. Len(parent) : parent[f] < f
    BY <1>1
  <2> QED BY <1>1, <2>2, <2>3, <2>4, <2>5, <2>6 DEF ScTypes
<1>3. ScNested
  BY <1>1 DEF ScNested
<1>4. ScHomes
  BY <1>1 DEF ScHomes, SlotsAreOwn, scopes, Now, Last, ScFirst
<1>5. ScLookedUp
  BY <1>1 DEF ScLookedUp
<1>6. ScGrown
  BY <1>1 DEF ScGrown
<1>7. ScMeanings(<<>>)
  BY <1>1 DEF ScMeanings
<1> QED BY <1>2, <1>3, <1>4, <1>5, <1>6, <1>7 DEF ScIInv

-----------------------------------------------------------------------------
(* Where the compilers stand.                                              *)

LEMMA ScNow ==
  ASSUME ScTypes
  PROVE  /\ Len(compilers) \in Nat \ {0}
         /\ \A c \in 1 .. Len(compilers) :
              /\ compilers[c] \in ScCompilers /\ compilers[c].fn \in Nat
              /\ compilers[c].func_local_count \in Nat
              /\ compilers[c].scopes \in Seq(ScScopes) /\ Len(compilers[c].scopes) \in Nat
              /\ ScFirst(c) \in Nat \ {0}
              /\ \A i \in 1 .. Len(compilers[c].scopes) :
                   /\ compilers[c].scopes[i] \in ScScopes
                   /\ compilers[c].scopes[i].free_vars \in Seq(ScEntries)
                   /\ Len(compilers[c].scopes[i].free_vars) \in Nat
         /\ Now = compilers[Len(compilers)] /\ scopes = compilers[Len(compilers)].scopes
         /\ Now \in ScCompilers /\ scopes \in Seq(ScScopes) /\ Len(scopes) \in Nat
<1>1. Len(compilers) \in Nat \ {0} /\ \A c \in 1 .. Len(compilers) : compilers[c] \in ScCompilers
  BY EmptySeq, LenProperties, ElementOfSeq DEF ScTypes
<1>2. ASSUME NEW c \in 1 .. Len(compilers)
      PROVE  /\ compilers[c].fn \in Nat /\ compilers[c].func_local_count \in Nat
             /\ compilers[c].scopes \in Seq(ScScopes) /\ Len(compilers[c].scopes) \in Nat
  <2>1. compilers[c] \in ScCompilers
    BY <1>1
  <2> QED BY <2>1, LenProperties DEF ScCompilers
<1>3. ASSUME NEW c \in 1 .. Len(compilers) PROVE ScFirst(c) \in Nat \ {0}
  <2>1. CASE c = 1
    BY <2>1 DEF ScFirst
  <2>2. CASE c # 1
    <3>1. c - 1 \in 1 .. Len(compilers)
      BY <2>2, <1>1
    <3>2. Len(compilers[c - 1].scopes) \in Nat
      BY <3>1, <1>2
    <3> QED BY <3>2, <2>2 DEF ScFirst
  <2> QED BY <2>1, <2>2
<1>4. ASSUME NEW c \in 1 .. Len(compilers), NEW i \in 1 .. Len(compilers[c].scopes)
      PROVE  /\ compilers[c].scopes[i] \in ScScopes
             /\ compilers[c].scopes[i].free_vars \in Seq(ScEntries)
             /\ Len(compilers[c].scopes[i].free_vars) \in Nat
  <2>1. compilers[c].scopes[i] \in ScScopes
    BY <1>2, ElementOfSeq
  <2> QED BY <2>1, LenProperties DEF ScScopes
<1>5. Now = compilers[Len(compilers)] /\ scopes = compilers[Len(compilers)].scopes
  BY DEF Now, scopes, Last
<1>6. Len(compilers) \in 1 .. Len(compilers)
  BY <1>1
<1> QED BY <1>1, <1>2, <1>3, <1>4, <1>5, <1>6

LEMMA ScPair ==
  ASSUME ScNested, NEW c \in 1 .. Len(compilers), NEW d \in 1 .. Len(compilers), c < d
  PROVE  /\ compilers[c].fn < compilers[d].fn
         /\ Len(compilers[c].scopes) < Len(compilers[d].scopes)
         /\ \A i \in 1 .. Len(compilers[c].scopes) :
              compilers[c].scopes[i].slots = compilers[d].scopes[i].slots
BY Zenon DEF ScNested

LEMMA ScParent ==
  ASSUME ScNested, NEW c \in 2 .. Len(compilers)
  PROVE  compilers[c].fn \in 1 .. Len(parent) /\ parent[compilers[c].fn] = compilers[c - 1].fn
BY Zenon DEF ScNested

LEMMA ScFunction ==
  ASSUME ScNested, NEW c \in 1 .. Len(compilers), NEW i \in 1 .. Len(compilers[c].scopes)
  PROVE  compilers[c].scopes[i].is_function <=> \E d \in 2 .. c : i = ScFirst(d)
BY Zenon DEF ScNested

\* A scope that a compiler works on: its own, the last of them, or a copy.
LEMMA ScPositions ==
  ASSUME ScTypes, ScNested
  PROVE  /\ \A c \in 2 .. Len(compilers) :
              /\ c - 1 \in 1 .. Len(compilers)
              /\ ScFirst(c) = Len(compilers[c - 1].scopes) + 1
              /\ ScFirst(c) <= Len(compilers[c].scopes)
         /\ ScFirst(1) = 1
         /\ \A c, d \in 1 .. Len(compilers) : c < d =>
              Len(compilers[c].scopes) < ScFirst(d) /\ ScFirst(c) <= ScFirst(d)
         /\ \A c \in 1 .. Len(compilers) : \A d \in 1 .. c : ScFirst(d) <= Len(compilers[c].scopes) + 1
<1>1. \A c \in 1 .. Len(compilers) : Len(compilers[c].scopes) \in Nat /\ ScFirst(c) \in Nat \ {0}
  BY ScNow
<1>2. Len(compilers) \in Nat \ {0}
  BY ScNow
<1>3. ASSUME NEW c \in 2 .. Len(compilers)
      PROVE  /\ c - 1 \in 1 .. Len(compilers) /\ c \in 1 .. Len(compilers)
             /\ ScFirst(c) = Len(compilers[c - 1].scopes) + 1
             /\ ScFirst(c) <= Len(compilers[c].scopes)
  <2>1. c - 1 \in 1 .. Len(compilers) /\ c \in 1 .. Len(compilers) /\ c - 1 < c /\ c # 1
    BY <1>2
  <2>2. Len(compilers[c - 1].scopes) < Len(compilers[c].scopes)
    BY <2>1 DEF ScNested
  <2>3. ScFirst(c) = Len(compilers[c - 1].scopes) + 1
    BY <2>1 DEF ScFirst
  <2> QED BY <2>1, <2>2, <2>3, <1>1
<1>4. ScFirst(1) = 1
  BY DEF ScFirst
<1>5. ASSUME NEW c \in 1 .. Len(compilers), NEW d \in 1 .. Len(compilers), c < d
      PROVE  Len(compilers[c].scopes) < ScFirst(d)
  <2>1. d \in 2 .. Len(compilers)
    BY <1>5
  <2>2. d - 1 \in 1 .. Len(compilers) /\ (c = d - 1 \/ c < d - 1)
    BY <2>1, <1>3, <1>5
  <2>3. Len(compilers[c].scopes) <= Len(compilers[d - 1].scopes)
    <3>1. CASE c = d - 1
      BY <3>1, <1>1
    <3>2. CASE c < d - 1
      <4>1. Len(compilers[c].scopes) < Len(compilers[d - 1].scopes)
        BY <3>2, <2>2, ScPair, Zenon
      <4> QED BY <4>1, <2>2, <1>1
    <3> QED BY <2>2, <3>1, <3>2
  <2> QED BY <2>1, <2>2, <2>3, <1>1, <1>3
<1>6. ASSUME NEW c \in 1 .. Len(compilers) PROVE ScFirst(c) <= Len(compilers[c].scopes) + 1
  <2>1. CASE c = 1
    BY <2>1, <1>1, <1>4
  <2>2. CASE c \in 2 .. Len(compilers)
    BY <2>2, <1>1, <1>3
  <2> QED BY <2>1, <2>2, <1>2
<1>7. ASSUME NEW c \in 1 .. Len(compilers), NEW d \in 1 .. Len(compilers), c < d
      PROVE  ScFirst(c) <= ScFirst(d)
  <2>1. Len(compilers[c].scopes) < ScFirst(d)
    BY <1>5, <1>7
  <2>2. ScFirst(c) <= Len(compilers[c].scopes) + 1
    BY <1>6
  <2> QED BY <2>1, <2>2, <1>1
<1>8. ASSUME NEW c \in 1 .. Len(compilers), NEW d \in 1 .. c
      PROVE  ScFirst(d) <= Len(compilers[c].scopes) + 1
  <2>1. d \in 1 .. Len(compilers) /\ (d = c \/ d < c)
    BY <1>2
  <2>2. Len(compilers[d].scopes) <= Len(compilers[c].scopes)
    <3>1. CASE d = c
      BY <3>1, <1>1
    <3>2. CASE d < c
      <4>1. Len(compilers[d].scopes) < Len(compilers[c].scopes)
        BY <3>2, <2>1, ScPair
      <4> QED BY <4>1, <2>1, <1>1
    <3> QED BY <2>1, <3>1, <3>2
  <2> QED BY <2>1, <2>2, <1>1, <1>6
<1> QED BY <1>3, <1>4, <1>5, <1>7, <1>8

-----------------------------------------------------------------------------
(* Steps that change the innermost compiler only.                          *)

ScBecomes(e) ==
  /\ e \in ScCompilers /\ e.fn = Now.fn /\ compilers' = WithLast(compilers, e)
  /\ UNCHANGED <<parent, sources>>
  /\ Len(compilers) > 1 => ScFirst(Len(compilers)) <= Len(e.scopes)
  /\ \A i \in 1 .. Len(e.scopes) :
       /\ e.scopes[i].is_function <=> i \in 1 .. Len(scopes) /\ scopes[i].is_function
       /\ i < ScFirst(Len(compilers)) => e.scopes[i].slots = scopes[i].slots
  /\ env' \in Seq(ScNames) /\ Len(env') = Len(e.scopes)
  /\ \A i \in 1 .. (ScFirst(Len(compilers)) - 1) : env'[i] = env[i]
  /\ home' \in Seq(Nat \X Nat) /\ Len(home) <= Len(home')
  /\ \A v \in 1 .. Len(home) : home'[v] = home[v]
  /\ looked_up' \subseteq ScReferences /\ blocks' \in 0 .. MaxBlocks /\ repeated' \in BOOLEAN
  /\ ~repeated' => ~repeated

LEMMA ScBecome ==
  ASSUME ScTypes, NEW e, ScBecomes(e)
  PROVE  /\ ScTypes' /\ Len(compilers') = Len(compilers)
         /\ \A c \in 1 .. (Len(compilers) - 1) : compilers'[c] = compilers[c]
         /\ compilers'[Len(compilers)] = e /\ scopes' = e.scopes
         /\ \A c \in 1 .. Len(compilers) : ScFirst(c)' = ScFirst(c) /\ compilers'[c].fn = compilers[c].fn
<1>0. compilers' = WithLast(compilers, e)
  BY DEF ScBecomes
<1>1. compilers \in Seq(ScCompilers) /\ compilers # <<>> /\ e \in ScCompilers
  BY DEF ScTypes, ScBecomes
<1>a. /\ WithLast(compilers, e) \in Seq(ScCompilers)
      /\ Len(WithLast(compilers, e)) = Len(compilers)
      /\ \A c \in 1 .. (Len(compilers) - 1) : WithLast(compilers, e)[c] = compilers[c]
      /\ WithLast(compilers, e)[Len(compilers)] = e
  BY <1>1, ScWithLast
<1>2. /\ compilers' \in Seq(ScCompilers) /\ Len(compilers') = Len(compilers)
      /\ \A c \in 1 .. (Len(compilers) - 1) : compilers'[c] = compilers[c]
      /\ compilers'[Len(compilers)] = e
  BY <1>0, <1>a, Zenon
<1>3. Len(compilers) \in Nat \ {0} /\ Now = compilers[Len(compilers)]
  BY ScNow
<1>4. scopes' = e.scopes
  BY <1>2 DEF scopes, Now, Last
<1>5. ASSUME NEW c \in 1 .. Len(compilers)
      PROVE  ScFirst(c)' = ScFirst(c) /\ compilers'[c].fn = compilers[c].fn
  <2>1. compilers'[c].fn = compilers[c].fn
    <3>1. CASE c = Len(compilers)
      BY <3>1, <1>2, <1>3 DEF ScBecomes
    <3>2. CASE c # Len(compilers)
      BY <3>2, <1>2, <1>3
    <3> QED BY <3>1, <3>2
  <2>2. c # 1 => c - 1 \in 1 .. (Len(compilers) - 1)
    BY <1>3
  <2>3. ScFirst(c)' = ScFirst(c)
    BY <1>2, <2>2 DEF ScFirst
  <2> QED BY <2>1, <2>3
<1>6. ScTypes'
  <2>1. compilers' # <<>>
    BY <1>2, <1>3, EmptySeq
  <2>2. parent' = parent /\ sources' = sources
    BY DEF ScBecomes
  <2> QED BY <1>2, <2>1, <2>2 DEF ScTypes, ScBecomes
<1> QED BY <1>2, <1>4, <1>5, <1>6

LEMMA ScBecomeNested ==
  ASSUME ScTypes, ScNested, NEW e, ScBecomes(e)
  PROVE  ScNested'
<1> DEFINE n == Len(compilers)
<1>1. /\ n \in Nat \ {0} /\ Now = compilers[n] /\ scopes = compilers[n].scopes
      /\ \A c \in 1 .. n : Len(compilers[c].scopes) \in Nat /\ ScFirst(c) \in Nat \ {0}
  BY ScNow
<1>2. /\ Len(compilers') = n /\ \A c \in 1 .. (n - 1) : compilers'[c] = compilers[c]
      /\ compilers'[n] = e
      /\ \A c \in 1 .. n : ScFirst(c)' = ScFirst(c) /\ compilers'[c].fn = compilers[c].fn
  BY ScBecome
<1>3. /\ \A c \in 2 .. n : /\ c - 1 \in 1 .. n
                           /\ ScFirst(c) = Len(compilers[c - 1].scopes) + 1
                           /\ ScFirst(c) <= Len(compilers[c].scopes)
      /\ \A c, d \in 1 .. n : c < d => Len(compilers[c].scopes) < ScFirst(d)
      /\ \A d \in 1 .. n : ScFirst(d) <= Len(scopes) + 1
  BY ScPositions, <1>1
<1>4. /\ n > 1 => ScFirst(n) <= Len(e.scopes)
      /\ \A i \in 1 .. Len(e.scopes) :
           /\ e.scopes[i].is_function <=> i \in 1 .. Len(scopes) /\ scopes[i].is_function
           /\ i < ScFirst(n) => e.scopes[i].slots = scopes[i].slots
      /\ parent' = parent /\ Len(e.scopes) \in Nat
  BY LenProperties DEF ScBecomes, ScCompilers
<1> HIDE DEF n
<1>5. compilers'[1].fn = 0
  BY <1>1, <1>2 DEF ScNested
<1>6. ASSUME NEW c \in 2 .. n
      PROVE  compilers'[c].fn \in 1 .. Len(parent') /\ parent'[compilers'[c].fn] = compilers'[c - 1].fn
  <2>1. compilers[c].fn \in 1 .. Len(parent) /\ parent[compilers[c].fn] = compilers[c - 1].fn
    BY ScParent DEF n
  <2>2. compilers'[c].fn = compilers[c].fn /\ compilers'[c - 1].fn = compilers[c - 1].fn
    BY <1>1, <1>2, <1>3
  <2> QED BY <2>1, <2>2, <1>4
<1>7. ASSUME NEW c \in 1 .. n, NEW d \in 1 .. n, c < d
      PROVE  /\ compilers'[c].fn < compilers'[d].fn
             /\ Len(compilers'[c].scopes) < Len(compilers'[d].scopes)
             /\ \A i \in 1 .. Len(compilers'[c].scopes) :
                  compilers'[c].scopes[i].slots = compilers'[d].scopes[i].slots
  <2>1. /\ compilers[c].fn < compilers[d].fn
        /\ Len(compilers[c].scopes) < Len(compilers[d].scopes)
        /\ \A i \in 1 .. Len(compilers[c].scopes) :
             compilers[c].scopes[i].slots = compilers[d].scopes[i].slots
    BY <1>7, ScPair DEF n
  <2>2. c \in 1 .. (n - 1) /\ compilers'[c] = compilers[c] /\ Len(compilers[c].scopes) < ScFirst(d)
    BY <1>1, <1>2, <1>3, <1>7
  <2>3. CASE d # n
    <3>1. d \in 1 .. (n - 1)
      BY <2>3, <1>1
    <3>2. compilers'[d] = compilers[d]
      BY <3>1, <1>2
    <3> QED BY <2>1, <2>2, <3>2, Zenon
  <2>4. CASE d = n
    <3>1. Len(compilers[c].scopes) < Len(e.scopes)
      BY <1>1, <1>4, <1>7, <2>2, <2>4
    <3>2. ASSUME NEW i \in 1 .. Len(compilers[c].scopes)
          PROVE  compilers[c].scopes[i].slots = e.scopes[i].slots
      <4>1. i \in 1 .. Len(e.scopes) /\ i < ScFirst(n)
        BY <3>1, <2>2, <2>4, <1>1, <1>4
      <4> QED BY <4>1, <1>4, <1>1, <2>1, <2>4
    <3> QED BY <2>1, <2>2, <2>4, <3>1, <3>2, <1>2
  <2> QED BY <2>3, <2>4
<1>8. ASSUME NEW c \in 1 .. n, NEW i \in 1 .. Len(compilers'[c].scopes)
      PROVE  compilers'[c].scopes[i].is_function <=> \E d \in 2 .. c : i = ScFirst(d)'
  <2>0. \A d \in 2 .. c : d \in 1 .. n /\ ScFirst(d)' = ScFirst(d)
    BY <1>1, <1>2
  <2>1. CASE c # n
    <3>1. compilers'[c] = compilers[c]
      BY <2>1, <1>1, <1>2
    <3>2. compilers[c].scopes[i].is_function <=> \E d \in 2 .. c : i = ScFirst(d)
      BY <3>1, ScFunction DEF n
    <3> QED BY <2>0, <3>1, <3>2
  <2>2. CASE c = n
    <3>1. i \in 1 .. Len(e.scopes) /\ compilers'[c].scopes = e.scopes
      BY <2>2, <1>2
    <3>2. CASE i \in 1 .. Len(scopes)
      <4>1. scopes[i].is_function <=> \E d \in 2 .. n : i = ScFirst(d)
        <5>1. n \in 1 .. n /\ i \in 1 .. Len(compilers[n].scopes)
          BY <3>2, <1>1
        <5> QED BY <5>1, <1>1, ScFunction DEF n
      <4> QED BY <2>0, <2>2, <3>1, <3>2, <4>1, <1>4
    <3>3. CASE i \notin 1 .. Len(scopes)
      <4>1. ~ e.scopes[i].is_function
        BY <3>1, <3>3, <1>4
      <4>2. \A d \in 2 .. n : ScFirst(d) <= Len(scopes) /\ ScFirst(d) \in Nat \ {0}
        <5> SUFFICES ASSUME NEW d \in 2 .. n PROVE ScFirst(d) <= Len(scopes) /\ ScFirst(d) \in Nat \ {0}
          OBVIOUS
        <5>1. d \in 1 .. n /\ ScFirst(d) \in Nat \ {0} /\ ScFirst(d) <= Len(compilers[d].scopes)
          BY <1>1, <1>3
        <5>2. Len(compilers[d].scopes) <= Len(scopes)
          <6>1. CASE d = n
            BY <6>1, <1>1
          <6>2. CASE d < n
            <7>1. n \in 1 .. n
              BY <1>1
            <7>2. Len(compilers[d].scopes) < Len(compilers[n].scopes)
              BY <5>1, <6>2, <7>1, ScPair DEF n
            <7> QED BY <7>1, <7>2, <5>1, <1>1
          <6> QED BY <5>1, <6>1, <6>2, <1>1
        <5> QED BY <5>1, <5>2, <1>1
      <4>3. ~ \E d \in 2 .. n : i = ScFirst(d)
        BY <4>2, <3>1, <3>3, <1>4, <1>1
      <4> QED BY <2>0, <2>2, <3>1, <4>1, <4>3
    <3> QED BY <3>2, <3>3
  <2> QED BY <2>1, <2>2
<1> QED BY <1>2, <1>5, <1>6, <1>7, <1>8 DEF ScNested

\* The scopes that others are copies of, or that have copies, keep their captures.
ScCapturesKept(e) ==
  \A i \in 1 .. Len(e.scopes) :
    e.scopes[i].free_vars = IF i \in 1 .. Len(scopes) THEN scopes[i].free_vars ELSE <<>>

LEMMA ScDistinct ==
  ASSUME ScGrown, NEW c \in 1 .. Len(compilers), NEW i \in 1 .. Len(compilers[c].scopes),
         NEW j \in 1 .. Len(compilers[c].scopes[i].free_vars),
         NEW k \in 1 .. Len(compilers[c].scopes[i].free_vars),
         compilers[c].scopes[i].free_vars[j].name = compilers[c].scopes[i].free_vars[k].name
  PROVE  j = k
BY DEF ScGrown

LEMMA ScLonger ==
  ASSUME ScGrown, NEW c \in 1 .. Len(compilers), NEW d \in 1 .. Len(compilers), c < d,
         NEW i \in 1 .. Len(compilers[c].scopes)
  PROVE  /\ Len(compilers[c].scopes[i].free_vars) <= Len(compilers[d].scopes[i].free_vars)
         /\ \A k \in 1 .. Len(compilers[c].scopes[i].free_vars) :
              compilers[d].scopes[i].free_vars[k] = compilers[c].scopes[i].free_vars[k]
<1>1. \A k \in 1 .. Len(compilers[c].scopes) :
         /\ Len(compilers[c].scopes[k].free_vars) <= Len(compilers[d].scopes[k].free_vars)
         /\ \A m \in 1 .. Len(compilers[c].scopes[k].free_vars) :
              compilers[d].scopes[k].free_vars[m] = compilers[c].scopes[k].free_vars[m]
  BY Zenon DEF ScGrown
<1> QED BY <1>1, Zenon

LEMMA ScBecomeGrown ==
  ASSUME ScTypes, ScNested, ScGrown, NEW e, ScBecomes(e), ScCapturesKept(e)
  PROVE  ScGrown'
<1> DEFINE n == Len(compilers)
<1>1. /\ n \in Nat \ {0} /\ scopes = compilers[n].scopes
      /\ \A c \in 1 .. n : Len(compilers[c].scopes) \in Nat /\ ScFirst(c) \in Nat \ {0}
  BY ScNow
<1>2. /\ Len(compilers') = n /\ \A c \in 1 .. (n - 1) : compilers'[c] = compilers[c]
      /\ compilers'[n] = e
  BY ScBecome
<1>3. \A c, d \in 1 .. n : c < d => Len(compilers[c].scopes) < ScFirst(d)
  BY ScPositions
<1>4. /\ n > 1 => ScFirst(n) <= Len(e.scopes)
      /\ Len(e.scopes) \in Nat
  BY LenProperties DEF ScBecomes, ScCompilers
<1>5. \A i \in 1 .. Len(e.scopes) :
        e.scopes[i].free_vars = IF i \in 1 .. Len(scopes) THEN scopes[i].free_vars ELSE <<>>
  BY DEF ScCapturesKept
<1> HIDE DEF n
<1>6. ASSUME NEW c \in 1 .. n, NEW i \in 1 .. Len(compilers'[c].scopes),
             NEW j \in 1 .. Len(compilers'[c].scopes[i].free_vars),
             NEW k \in 1 .. Len(compilers'[c].scopes[i].free_vars),
             compilers'[c].scopes[i].free_vars[j].name = compilers'[c].scopes[i].free_vars[k].name
      PROVE  j = k
  <2>1. CASE c # n
    <3>1. compilers'[c] = compilers[c]
      BY <2>1, <1>1, <1>2
    <3> QED BY <3>1, <1>6, ScDistinct DEF n
  <2>2. CASE c = n
    <3>1. i \in 1 .. Len(e.scopes) /\ compilers'[c].scopes[i].free_vars = e.scopes[i].free_vars
      BY <2>2, <1>2
    <3>2. i \in 1 .. Len(scopes) /\ e.scopes[i].free_vars = scopes[i].free_vars
      <4>1. Len(<<>>) = 0
        OBVIOUS
      <4>2. e.scopes[i].free_vars # <<>>
        BY <3>1, <4>1
      <4> QED BY <3>1, <4>2, <1>5
    <3>3. n \in 1 .. Len(compilers) /\ i \in 1 .. Len(compilers[n].scopes)
      BY <3>2, <1>1 DEF n
    <3>4. compilers'[c].scopes[i].free_vars = compilers[n].scopes[i].free_vars
      BY <3>1, <3>2, <1>1
    <3>5. /\ j \in 1 .. Len(compilers[n].scopes[i].free_vars)
          /\ k \in 1 .. Len(compilers[n].scopes[i].free_vars)
          /\ compilers[n].scopes[i].free_vars[j].name = compilers[n].scopes[i].free_vars[k].name
      BY <3>4, <1>6
    <3> QED BY <3>3, <3>5, ScDistinct
  <2> QED BY <2>1, <2>2
<1>7. ASSUME NEW c \in 1 .. n, NEW d \in 1 .. n, c < d, NEW i \in 1 .. Len(compilers'[c].scopes)
      PROVE  /\ Len(compilers'[c].scopes[i].free_vars) <= Len(compilers'[d].scopes[i].free_vars)
             /\ \A k \in 1 .. Len(compilers'[c].scopes[i].free_vars) :
                  compilers'[d].scopes[i].free_vars[k] = compilers'[c].scopes[i].free_vars[k]
  <2>1. compilers'[c] = compilers[c]
    BY <1>1, <1>2, <1>7
  <2>2. /\ Len(compilers[c].scopes[i].free_vars) <= Len(compilers[d].scopes[i].free_vars)
        /\ \A k \in 1 .. Len(compilers[c].scopes[i].free_vars) :
             compilers[d].scopes[i].free_vars[k] = compilers[c].scopes[i].free_vars[k]
    <3>1. i \in 1 .. Len(compilers[c].scopes)
      BY <2>1
    <3> QED BY <1>7, <3>1, ScLonger DEF n
  <2>3. compilers'[d].scopes[i].free_vars = compilers[d].scopes[i].free_vars
    <3>1. CASE d # n
      BY <3>1, <1>1, <1>2
    <3>2. CASE d = n
      <4>1. Len(compilers[c].scopes) < ScFirst(n) /\ n > 1 /\ i \in 1 .. Len(compilers[c].scopes)
        BY <3>2, <1>1, <1>3, <1>7, <2>1
      <4>2. i \in 1 .. Len(e.scopes)
        BY <4>1, <1>1, <1>4
      <4>3. i \in 1 .. Len(scopes)
        <5>1. n \in 1 .. n /\ c < n
          BY <1>1, <1>7, <3>2
        <5>2. Len(compilers[c].scopes) < Len(compilers[n].scopes)
          BY <5>1, ScPair DEF n
        <5> QED BY <5>2, <4>1, <1>1
      <4> QED BY <4>2, <4>3, <3>2, <1>1, <1>2, <1>5
    <3> QED BY <3>1, <3>2
  <2> QED BY <2>1, <2>2, <2>3
<1> QED BY <1>2, <1>6, <1>7 DEF ScGrown

LEMMA ScHome ==
  ASSUME ScHomes, NEW c \in 1 .. Len(compilers), NEW i \in ScFirst(c) .. Len(compilers[c].scopes)
  PROVE  /\ DOMAIN env[i] = DOMAIN compilers[c].scopes[i].slots
         /\ \A x \in DOMAIN env[i] :
              /\ env[i][x] \in 1 .. Len(home)
              /\ home[env[i][x]] = <<compilers[c].fn, compilers[c].scopes[i].slots[x]>>
BY DEF ScHomes

LEMMA ScBecomeHomes ==
  ASSUME ScTypes, ScNested, ScHomes, NEW e, ScBecomes(e),
         \A i \in ScFirst(Len(compilers)) .. Len(e.scopes) :
           /\ DOMAIN env'[i] = DOMAIN e.scopes[i].slots
           /\ \A x \in DOMAIN env'[i] :
                /\ env'[i][x] \in 1 .. Len(home')
                /\ home'[env'[i][x]] = <<Now.fn, e.scopes[i].slots[x]>>,
         \A v \in 1 .. Len(home') :
           /\ v \in 1 .. Len(home) \/ home'[v][1] = Now.fn
           /\ home'[v][1] = Now.fn => home'[v][2] < e.func_local_count,
         SlotsAreOwn'
  PROVE  ScHomes'
<1> DEFINE n == Len(compilers)
<1>1. /\ n \in Nat \ {0} /\ Now = compilers[n] /\ scopes = compilers[n].scopes
      /\ \A c \in 1 .. n : Len(compilers[c].scopes) \in Nat /\ ScFirst(c) \in Nat \ {0}
      /\ \A c \in 1 .. n : compilers[c].fn \in Nat
  BY ScNow
<1>2. /\ Len(compilers') = n /\ \A c \in 1 .. (n - 1) : compilers'[c] = compilers[c]
      /\ compilers'[n] = e /\ scopes' = e.scopes
      /\ \A c \in 1 .. n : ScFirst(c)' = ScFirst(c) /\ compilers'[c].fn = compilers[c].fn
  BY ScBecome
<1>3. \A c, d \in 1 .. n : c < d => Len(compilers[c].scopes) < ScFirst(d)
  BY ScPositions
<1>4. /\ \A i \in 1 .. (ScFirst(n) - 1) : env'[i] = env[i]
      /\ \A v \in 1 .. Len(home) : home'[v] = home[v]
      /\ Len(env') = Len(e.scopes) /\ parent' = parent
      /\ Len(home) \in Nat /\ Len(home') \in Nat /\ Len(home) <= Len(home')
  BY LenProperties DEF ScBecomes, ScTypes
<1>5. \A c \in 1 .. n : c # n => compilers[c].fn # Now.fn
  <2> SUFFICES ASSUME NEW c \in 1 .. n, c # n PROVE compilers[c].fn # Now.fn
    OBVIOUS
  <2>1. n \in 1 .. n /\ c < n
    BY <1>1
  <2>2. compilers[c].fn < compilers[n].fn
    BY <2>1, ScPair
  <2> QED BY <1>1, <2>1, <2>2
<1> HIDE DEF n
<1>6. ASSUME NEW c \in 1 .. n, NEW i \in ScFirst(c) .. Len(compilers'[c].scopes)
      PROVE  /\ DOMAIN env'[i] = DOMAIN compilers'[c].scopes[i].slots
             /\ \A x \in DOMAIN env'[i] :
                  /\ env'[i][x] \in 1 .. Len(home')
                  /\ home'[env'[i][x]] = <<compilers'[c].fn, compilers'[c].scopes[i].slots[x]>>
  <2>1. CASE c # n
    <3>1. compilers'[c] = compilers[c] /\ n \in 1 .. n /\ c < n
      BY <2>1, <1>1, <1>2
    <3>2. i \in ScFirst(c) .. Len(compilers[c].scopes)
      BY <3>1
    <3>3. i \in 1 .. (ScFirst(n) - 1)
      BY <3>1, <3>2, <1>1, <1>3
    <3>4. /\ DOMAIN env[i] = DOMAIN compilers[c].scopes[i].slots
          /\ \A x \in DOMAIN env[i] :
               /\ env[i][x] \in 1 .. Len(home)
               /\ home[env[i][x]] = <<compilers[c].fn, compilers[c].scopes[i].slots[x]>>
      BY <3>2, ScHome DEF n
    <3>5. env'[i] = env[i]
      BY <3>3, <1>4
    <3>6. \A x \in DOMAIN env[i] : env[i][x] \in 1 .. Len(home') /\ home'[env[i][x]] = home[env[i][x]]
      BY <3>4, <1>4
    <3> QED BY <3>1, <3>4, <3>5, <3>6
  <2>2. CASE c = n
    BY <2>2, <1>1, <1>2 DEF n
  <2> QED BY <2>1, <2>2
<1>7. ASSUME NEW v \in 1 .. Len(home')
      PROVE  /\ home'[v][1] \in 0 .. Len(parent')
             /\ \A c \in 1 .. n : home'[v][1] = compilers'[c].fn => home'[v][2] < compilers'[c].func_local_count
  <2>1. Now.fn \in 0 .. Len(parent)
    <3>1. CASE n = 1
      <4>1. Now.fn = 0 /\ Len(parent) \in Nat
        BY <3>1, <1>1, LenProperties DEF ScNested, ScTypes
      <4> QED BY <4>1
    <3>2. CASE n # 1
      <4>0. n \in Nat \ {0}
        BY <1>1
      <4>1. n \in 2 .. n
        BY <4>0, <3>2
      <4>2. compilers[n].fn \in 1 .. Len(parent)
        BY <4>1, ScParent DEF n
      <4> QED BY <4>2, <1>1
    <3> QED BY <3>1, <3>2
  <2>2. CASE v \in 1 .. Len(home)
    <3>1. home'[v] = home[v]
      BY <2>2, <1>4
    <3>2. /\ home[v][1] \in 0 .. Len(parent)
          /\ \A c \in 1 .. n : home[v][1] = compilers[c].fn => home[v][2] < compilers[c].func_local_count
      BY <2>2 DEF ScHomes, n
    <3>3. ASSUME NEW c \in 1 .. n, home'[v][1] = compilers'[c].fn
          PROVE  home'[v][2] < compilers'[c].func_local_count
      <4>1. CASE c # n
        <5>0. n \in Nat \ {0}
          BY <1>1
        <5>1. c \in 1 .. (n - 1)
          BY <4>1, <5>0
        <5>2. compilers'[c] = compilers[c]
          BY <5>1, <1>2
        <5> QED BY <5>2, <3>1, <3>2, <3>3
      <4>2. CASE c = n
        <5>1. home'[v][1] = Now.fn
          BY <4>2, <3>3, <1>1, <1>2
        <5> QED BY <5>1, <4>2, <1>2
      <4> QED BY <4>1, <4>2
    <3> QED BY <3>1, <3>2, <3>3, <1>4
  <2>3. CASE v \notin 1 .. Len(home)
    <3>1. home'[v][1] = Now.fn /\ home'[v][2] < e.func_local_count
      BY <2>3
    <3>2. ASSUME NEW c \in 1 .. n, home'[v][1] = compilers'[c].fn
          PROVE  home'[v][2] < compilers'[c].func_local_count
      <4>1. c = n
        BY <3>1, <3>2, <1>2, <1>5
      <4> QED BY <4>1, <3>1, <1>2
    <3> QED BY <3>1, <3>2, <2>1, <1>4
  <2> QED BY <2>2, <2>3
<1>8. ASSUME NEW c \in 1 .. n, NEW i \in ScFirst(c)' .. Len(compilers'[c].scopes)
      PROVE  i \in ScFirst(c) .. Len(compilers'[c].scopes)
  BY <1>2
<1> QED BY <1>2, <1>4, <1>6, <1>7, <1>8 DEF ScHomes

LEMMA ScLinkedKept ==
  ASSUME NEW M, NEW around, NEW place, NEW place2, NEW f, NEW k, NEW entry,
         ScLinked(M, around, place, f, k, entry), place2[M[<<f, k>>]] = place[M[<<f, k>>]]
  PROVE  ScLinked(M, around, place2, f, k, entry)
BY DEF ScLinked

LEMMA ScCapturingKept ==
  ASSUME NEW M, NEW around, NEW place, NEW place2, NEW f, NEW E, NEW list \in Seq(E), NEW envs, NEW envs2,
         NEW b \in Nat, ScCapturing(M, around, place, f, list, envs, b),
         \A p \in DOMAIN M : place2[M[p]] = place[M[p]], \A i \in 1 .. (b - 1) : envs2[i] = envs[i]
  PROVE  ScCapturing(M, around, place2, f, list, envs2, b)
<1>1. Len(list) \in Nat
  BY LenProperties
<1>2. /\ \A k \in Nat : <<f, k>> \in DOMAIN M <=> k < Len(list)
      /\ \A k \in 1 .. Len(list) :
           /\ ScLinked(M, around, place, f, k - 1, list[k])
           /\ \E i \in 1 .. (b - 1) :
                ScInnermost(envs, i, list[k].name, b) /\ M[<<f, k - 1>>] = envs[i][list[k].name]
  BY Zenon DEF ScCapturing
<1>3. ASSUME NEW k \in 1 .. Len(list)
      PROVE  /\ ScLinked(M, around, place2, f, k - 1, list[k])
             /\ \E i \in 1 .. (b - 1) :
                  ScInnermost(envs2, i, list[k].name, b) /\ M[<<f, k - 1>>] = envs2[i][list[k].name]
  <2>1. k - 1 \in Nat /\ k - 1 < Len(list)
    BY <1>1
  <2>2. <<f, k - 1>> \in DOMAIN M
    BY <1>2, <2>1
  <2>3. ScLinked(M, around, place2, f, k - 1, list[k])
    BY <1>2, <2>2, ScLinkedKept
  <2>4. PICK i \in 1 .. (b - 1) :
          ScInnermost(envs, i, list[k].name, b) /\ M[<<f, k - 1>>] = envs[i][list[k].name]
    BY <1>2
  <2>5. \A j \in (i + 1) .. (b - 1) : j \in 1 .. (b - 1)
    OBVIOUS
  <2>6. ScInnermost(envs2, i, list[k].name, b)
    BY <2>4, <2>5 DEF ScInnermost
  <2> QED BY <2>3, <2>4, <2>6
<1> QED BY <1>2, <1>3 DEF ScCapturing

LEMMA ScBecomeMeanings ==
  ASSUME ScTypes, ScNested, ScHomes, NEW e, ScBecomes(e), ScCapturesKept(e),
         NEW M, ScMeanings(M),
         \A r \in looked_up' : r \in looked_up \/
           (r.kind = "Free" => <<r.fn, r.index>> \in DOMAIN M /\ M[<<r.fn, r.index>>] = r.meant)
  PROVE  ScMeanings(M)'
<1> DEFINE n == Len(compilers)
<1>1. /\ n \in Nat \ {0} /\ Now = compilers[n] /\ scopes = compilers[n].scopes
      /\ \A c \in 1 .. n : Len(compilers[c].scopes) \in Nat /\ ScFirst(c) \in Nat \ {0}
  BY ScNow
<1>2. /\ Len(compilers') = n /\ scopes' = e.scopes
      /\ \A c \in 1 .. n : ScFirst(c)' = ScFirst(c) /\ compilers'[c].fn = compilers[c].fn
  BY ScBecome
<1>3. /\ \A c \in 2 .. n : ScFirst(c) <= Len(compilers[c].scopes)
      /\ \A c, d \in 1 .. n : c < d => Len(compilers[c].scopes) < ScFirst(d)
      /\ \A c, d \in 1 .. n : c < d => ScFirst(c) <= ScFirst(d)
  BY ScPositions
<1>4. /\ \A i \in 1 .. (ScFirst(n) - 1) : env'[i] = env[i]
      /\ \A v \in 1 .. Len(home) : home'[v] = home[v]
      /\ Len(env') = Len(e.scopes) /\ parent' = parent /\ sources' = sources
      /\ Len(home) \in Nat /\ Len(home') \in Nat /\ Len(home) <= Len(home')
      /\ n > 1 => ScFirst(n) <= Len(e.scopes)
      /\ Len(e.scopes) \in Nat /\ Len(env) \in Nat /\ Len(env) = Len(scopes)
  BY LenProperties DEF ScBecomes, ScTypes, ScCompilers, ScHomes
<1>5. /\ \A p \in DOMAIN M : p \in (1 .. Len(parent)) \X Nat /\ M[p] \in 1 .. Len(home)
      /\ \A c \in 2 .. n : ScUnderWay(M, c)
      /\ \A f \in 1 .. Len(parent) :
           (\A c \in 1 .. n : compilers[c].fn # f) => ScComplete(M, f)
      /\ \A r \in looked_up : r.kind = "Free" =>
           <<r.fn, r.index>> \in DOMAIN M /\ M[<<r.fn, r.index>>] = r.meant
  BY DEF ScMeanings
<1> HIDE DEF n
<1>6. \A p \in DOMAIN M : M[p] \in 1 .. Len(home') /\ home'[M[p]] = home[M[p]]
  BY <1>4, <1>5
<1>7. ASSUME NEW c \in 2 .. n PROVE ScUnderWay(M, c)'
  <2>1. c \in 1 .. n /\ ScFirst(c)' = ScFirst(c) /\ compilers'[c].fn = compilers[c].fn
    BY <1>1, <1>2
  <2>2. n > 1 /\ n \in 2 .. n /\ n \in 1 .. n
    BY <1>1
  <2>3. ScFirst(c) \in Nat \ {0} /\ ScFirst(n) \in Nat \ {0} /\ ScFirst(c) <= ScFirst(n)
    <3>1. c = n \/ c < n
      BY <1>1
    <3> QED BY <1>1, <1>3, <2>1, <2>2, <3>1
  <2>4. ScFirst(c) \in 1 .. Len(e.scopes) /\ ScFirst(c) \in 1 .. Len(scopes)
    BY <1>1, <1>3, <1>4, <2>2, <2>3
  <2>5. scopes'[ScFirst(c)].free_vars = scopes[ScFirst(c)].free_vars
    BY <2>4, <1>2 DEF ScCapturesKept
  <2>6. scopes[ScFirst(c)].free_vars \in Seq(ScEntries)
    <3>1. n \in 1 .. Len(compilers)
      BY <2>2 DEF n
    <3>2. ScFirst(c) \in 1 .. Len(compilers[n].scopes)
      BY <2>4, <1>1
    <3>3. compilers[n].scopes[ScFirst(c)].free_vars \in Seq(ScEntries)
      BY <3>1, <3>2, ScNow
    <3> QED BY <3>3, <1>1
  <2>7. ScCapturing(M, parent[compilers[c].fn], home, compilers[c].fn, scopes[ScFirst(c)].free_vars,
                    env, ScFirst(c))
    BY <1>5, Zenon DEF ScUnderWay
  <2>8. \A i \in 1 .. (ScFirst(c) - 1) : env'[i] = env[i]
    BY <2>3, <1>4
  <2>9. ScCapturing(M, parent[compilers[c].fn], home', compilers[c].fn, scopes[ScFirst(c)].free_vars,
                    env', ScFirst(c))
    BY <2>3, <2>6, <2>7, <2>8, <1>6, ScCapturingKept
  <2>10. ScCapturing(M, parent'[compilers'[c].fn], home', compilers'[c].fn,
                     scopes'[ScFirst(c)'].free_vars, env', ScFirst(c)')
    BY <2>9, <2>1, <2>5, <1>4
  <2> QED BY <2>10, Zenon DEF ScUnderWay
<1>8. ASSUME NEW f \in 1 .. Len(parent), \A c \in 1 .. n : compilers'[c].fn # f
      PROVE  ScComplete(M, f)'
  <2>1. \A c \in 1 .. n : compilers[c].fn # f
    BY <1>2, <1>8
  <2>2. ScComplete(M, f)
    BY <2>1, <1>5
  <2>3. f \in DOMAIN sources /\ Len(sources[f]) \in Nat
    BY LenProperties, ElementOfSeq DEF ScTypes
  <2>4. ASSUME NEW k \in 1 .. Len(sources[f]) PROVE ScLinked(M, parent[f], home', f, k - 1, sources[f][k])
    <3>1. k - 1 \in Nat /\ k - 1 < Len(sources[f])
      BY <2>3
    <3>2. <<f, k - 1>> \in DOMAIN M
      BY <3>1, <2>2 DEF ScComplete
    <3> QED BY <3>2, <1>6, <2>2, ScLinkedKept DEF ScComplete
  <2> QED BY <2>2, <2>4, <1>4 DEF ScComplete
<1>9. \A r \in looked_up' : r.kind = "Free" =>
        <<r.fn, r.index>> \in DOMAIN M /\ M[<<r.fn, r.index>>] = r.meant
  BY <1>5
<1>10. \A p \in DOMAIN M : p \in (1 .. Len(parent')) \X Nat /\ M[p] \in 1 .. Len(home')
  BY <1>4, <1>5, <1>6
<1> QED BY <1>2, <1>4, <1>7, <1>8, <1>9, <1>10 DEF ScMeanings

\* A step that changes the innermost compiler and captures nothing.
LEMMA ScBecomeInv ==
  ASSUME ScIInv, NEW e, ScBecomes(e), ScCapturesKept(e),
         \A i \in ScFirst(Len(compilers)) .. Len(e.scopes) :
           /\ DOMAIN env'[i] = DOMAIN e.scopes[i].slots
           /\ \A x \in DOMAIN env'[i] :
                /\ env'[i][x] \in 1 .. Len(home')
                /\ home'[env'[i][x]] = <<Now.fn, e.scopes[i].slots[x]>>,
         \A v \in 1 .. Len(home') :
           /\ v \in 1 .. Len(home) \/ home'[v][1] = Now.fn
           /\ home'[v][1] = Now.fn => home'[v][2] < e.func_local_count,
         SlotsAreOwn', ScLookedUp',
         \A M : ScMeanings(M) => \A r \in looked_up' : r \in looked_up \/
           (r.kind = "Free" => <<r.fn, r.index>> \in DOMAIN M /\ M[<<r.fn, r.index>>] = r.meant)
  PROVE  ScIInv'
<1>1. ScTypes /\ ScNested /\ ScHomes /\ (~repeated => ScGrown /\ \E M : ScMeanings(M))
  BY Zenon DEF ScIInv
<1>2. ScTypes'
  BY <1>1, ScBecome
<1>3. ScNested'
  BY <1>1, ScBecomeNested
<1>4. ScHomes'
  BY <1>1, ScBecomeHomes
<1>5. ASSUME ~repeated' PROVE ScGrown' /\ \E M : ScMeanings(M)'
  <2>1. ~repeated
    BY <1>5 DEF ScBecomes
  <2>2. ScGrown /\ \E M : ScMeanings(M)
    BY <1>1, <2>1
  <2>3. ScGrown'
    BY <1>1, <2>2, ScBecomeGrown
  <2>4. PICK M : ScMeanings(M)
    BY <2>2
  <2>5. ScMeanings(M)'
    <3>1. \A r \in looked_up' : r \in looked_up \/
            (r.kind = "Free" => <<r.fn, r.index>> \in DOMAIN M /\ M[<<r.fn, r.index>>] = r.meant)
      BY <2>4
    <3> QED BY <1>1, <2>4, <3>1, ScBecomeMeanings
  <2> QED BY <2>3, <2>5
<1> QED BY <1>2, <1>3, <1>4, <1>5, Zenon DEF ScIInv

LEMMA ScLookedUpKept ==
  ASSUME ScTypes, ScLookedUp, looked_up' = looked_up,
         Len(parent) <= Len(parent'), Len(parent') \in Nat, Len(home) <= Len(home'), Len(home') \in Nat,
         \A v \in 1 .. Len(home) : home'[v] = home[v]
  PROVE  ScLookedUp'
<1>1. Len(parent) \in Nat /\ Len(home) \in Nat
  BY LenProperties DEF ScTypes
<1>2. ASSUME NEW r \in looked_up
      PROVE  /\ r.fn \in 0 .. Len(parent') /\ r.meant \in 0 .. Len(home')
             /\ r.kind = "Global" => r.meant = 0
             /\ r.kind = "Local" => r.meant # 0 /\ home'[r.meant] = <<r.fn, r.index>>
  <2>1. /\ r.fn \in 0 .. Len(parent) /\ r.meant \in 0 .. Len(home)
        /\ r.kind = "Global" => r.meant = 0
        /\ r.kind = "Local" => r.meant # 0 /\ home[r.meant] = <<r.fn, r.index>>
    BY DEF ScLookedUp
  <2>2. r.meant # 0 => home'[r.meant] = home[r.meant]
    BY <2>1
  <2> QED BY <1>1, <2>1, <2>2
<1> QED BY <1>2 DEF ScLookedUp

LEMMA ScOpenBlock == Assumptions /\ ScIInv /\ OpenBlock => ScIInv'
<1> SUFFICES ASSUME Assumptions, ScIInv, OpenBlock PROVE ScIInv'
  OBVIOUS
<1> DEFINE n == Len(compilers)
           block == Scope(FALSE)
           e == [Now EXCEPT !.scopes = Append(@, block)]
<1>1. ScTypes /\ ScNested /\ ScHomes /\ ScLookedUp
  BY Zenon DEF ScIInv
<1>2. /\ n \in 1 .. n /\ Now = compilers[n] /\ Now \in ScCompilers /\ scopes \in Seq(ScScopes)
      /\ scopes = Now.scopes /\ Len(scopes) \in Nat /\ ScFirst(n) \in Nat \ {0}
      /\ scopes = compilers[n].scopes
  BY <1>1, ScNow
<1>3. /\ compilers' = WithLast(compilers, e) /\ env' = Append(env, Nothing)
      /\ blocks < MaxBlocks /\ blocks' = blocks + 1
      /\ UNCHANGED <<sources, parent, home, looked_up, repeated>>
  BY Zenon DEF OpenBlock, Become
<1>4. Nothing \in ScNames /\ DOMAIN Nothing = {} /\ block \in ScScopes
      /\ block.slots = Nothing /\ block.free_vars = <<>> /\ ~ block.is_function
  <2>1. Nothing \in [{} -> Nat] /\ {} \in SUBSET Names /\ DOMAIN Nothing = {}
    BY DEF Nothing
  <2>2. Nothing \in ScNames
    BY <2>1, Zenon DEF ScNames
  <2>3. <<>> \in Seq(ScEntries)
    OBVIOUS
  <2> HIDE DEF Nothing
  <2> QED BY <2>1, <2>2, <2>3 DEF Scope, ScScopes
<1> HIDE DEF block
<1>5. /\ Append(scopes, block) \in Seq(ScScopes)
      /\ Len(Append(scopes, block)) = Len(scopes) + 1
      /\ \A i \in 1 .. Len(scopes) : Append(scopes, block)[i] = scopes[i]
      /\ Append(scopes, block)[Len(scopes) + 1] = block
  <2>1. scopes \in Seq(ScScopes) /\ block \in ScScopes
    BY <1>2, <1>4
  <2> QED BY <2>1, ScAppend
<1>6. /\ e \in ScCompilers /\ e.fn = Now.fn /\ e.func_local_count = Now.func_local_count
      /\ e.scopes = Append(scopes, block)
  BY <1>2, <1>5 DEF ScCompilers
<1>7. env \in Seq(ScNames) /\ Len(env) = Len(scopes) /\ Len(home) \in Nat /\ home \in Seq(Nat \X Nat)
  BY <1>1, LenProperties DEF ScTypes, ScHomes
<1>8. /\ env' \in Seq(ScNames) /\ Len(env') = Len(scopes) + 1
      /\ \A i \in 1 .. Len(scopes) : env'[i] = env[i]
      /\ env'[Len(scopes) + 1] = Nothing
  BY <1>3, <1>4, <1>7, ScAppend
<1>9. ScFirst(n) <= Len(scopes) + 1
  BY <1>1, <1>2, ScPositions
<1>10. n > 1 => ScFirst(n) <= Len(scopes)
  <2>1. n > 1 => n \in 2 .. n
    BY <1>2
  <2> QED BY <1>1, <1>2, <2>1, ScPositions
<1> HIDE DEF n, e
<1>11. ScBecomes(e)
  <2>1. blocks' \in 0 .. MaxBlocks /\ looked_up' \subseteq ScReferences /\ repeated' \in BOOLEAN
    <3>1. MaxBlocks \in Nat /\ blocks \in 0 .. MaxBlocks /\ looked_up \subseteq ScReferences /\ repeated \in BOOLEAN
      BY <1>1 DEF ScTypes, Assumptions
    <3>2. blocks + 1 \in 0 .. MaxBlocks
      BY <3>1, <1>3
    <3> QED BY <3>1, <3>2, <1>3
  <2>2. \A i \in 1 .. Len(e.scopes) :
       /\ e.scopes[i].is_function <=> i \in 1 .. Len(scopes) /\ scopes[i].is_function
       /\ i < ScFirst(Len(compilers)) => e.scopes[i].slots = scopes[i].slots
    <3> SUFFICES ASSUME NEW i \in 1 .. (Len(scopes) + 1)
                 PROVE  /\ e.scopes[i].is_function <=> i \in 1 .. Len(scopes) /\ scopes[i].is_function
                        /\ i < ScFirst(n) => e.scopes[i].slots = scopes[i].slots
      BY <1>5, <1>6 DEF n
    <3>1. CASE i \in 1 .. Len(scopes)
      BY <3>1, <1>5, <1>6
    <3>2. CASE i = Len(scopes) + 1
      <4>1. e.scopes[i] = block /\ i \notin 1 .. Len(scopes) /\ ~ (i < ScFirst(n))
        BY <3>2, <1>2, <1>5, <1>6, <1>9
      <4>2. ~ e.scopes[i].is_function
        BY <4>1, <1>4
      <4> QED BY <4>1, <4>2
    <3> QED BY <3>1, <3>2, <1>2
  <2>3. Len(compilers) > 1 => ScFirst(Len(compilers)) <= Len(e.scopes)
    BY <1>2, <1>5, <1>6, <1>10 DEF n
  <2>4. \A i \in 1 .. (ScFirst(Len(compilers)) - 1) : env'[i] = env[i]
    BY <1>2, <1>8, <1>9 DEF n
  <2>5. Len(env') = Len(e.scopes) /\ Len(home) <= Len(home') /\ home' = home
    BY <1>3, <1>5, <1>6, <1>7, <1>8
  <2> QED BY <1>3, <1>6, <1>7, <1>8, <2>1, <2>2, <2>3, <2>4, <2>5 DEF ScBecomes
<1>12. ScCapturesKept(e)
  <2> SUFFICES ASSUME NEW i \in 1 .. (Len(scopes) + 1)
               PROVE  e.scopes[i].free_vars = IF i \in 1 .. Len(scopes) THEN scopes[i].free_vars ELSE <<>>
    BY <1>5, <1>6 DEF ScCapturesKept
  <2>1. CASE i \in 1 .. Len(scopes)
    BY <2>1, <1>5, <1>6
  <2>2. CASE i = Len(scopes) + 1
    BY <2>2, <1>2, <1>4, <1>5, <1>6
  <2> QED BY <2>1, <2>2, <1>2
<1>13. ASSUME NEW i \in ScFirst(Len(compilers)) .. Len(e.scopes)
       PROVE  /\ DOMAIN env'[i] = DOMAIN e.scopes[i].slots
              /\ \A x \in DOMAIN env'[i] :
                   /\ env'[i][x] \in 1 .. Len(home')
                   /\ home'[env'[i][x]] = <<Now.fn, e.scopes[i].slots[x]>>
  <2>1. i \in ScFirst(n) .. (Len(scopes) + 1)
    BY <1>5, <1>6 DEF n
  <2>2. CASE i = Len(scopes) + 1
    BY <2>2, <1>4, <1>5, <1>6, <1>8
  <2>3. CASE i # Len(scopes) + 1
    <3>1. i \in ScFirst(n) .. Len(compilers[n].scopes) /\ i \in 1 .. Len(scopes)
      BY <2>1, <2>3, <1>2
    <3>2. /\ DOMAIN env[i] = DOMAIN compilers[n].scopes[i].slots
          /\ \A x \in DOMAIN env[i] :
               /\ env[i][x] \in 1 .. Len(home)
               /\ home[env[i][x]] = <<compilers[n].fn, compilers[n].scopes[i].slots[x]>>
      BY <1>1, <1>2, <3>1, ScHome DEF n
    <3>3. env'[i] = env[i] /\ e.scopes[i] = compilers[n].scopes[i]
      BY <3>1, <1>2, <1>5, <1>6, <1>8
    <3> QED BY <3>2, <3>3, <1>2, <1>3
  <2> QED BY <2>2, <2>3
<1>14. ASSUME NEW v \in 1 .. Len(home')
       PROVE  /\ v \in 1 .. Len(home) \/ home'[v][1] = Now.fn
              /\ home'[v][1] = Now.fn => home'[v][2] < e.func_local_count
  BY <1>1, <1>2, <1>3, <1>6 DEF ScHomes, n
<1>15. SlotsAreOwn'
  BY <1>1, <1>3 DEF ScHomes, SlotsAreOwn
<1>16. ScLookedUp'
  <2>1. parent \in Seq(Nat) /\ Len(parent) \in Nat
    BY <1>1, LenProperties DEF ScTypes
  <2> QED BY <1>1, <1>3, <1>7, <2>1, ScLookedUpKept
<1>17. looked_up' = looked_up
  BY <1>3
<1> QED BY <1>11, <1>12, <1>13, <1>14, <1>15, <1>16, <1>17, ScBecomeInv

LEMMA ScCloseBlock == ScIInv /\ CloseBlock => ScIInv'
<1> SUFFICES ASSUME ScIInv, CloseBlock PROVE ScIInv'
  OBVIOUS
<1> DEFINE n == Len(compilers)
           e == [Now EXCEPT !.scopes = Front(@)]
<1>1. ScTypes /\ ScNested /\ ScHomes /\ ScLookedUp
  BY Zenon DEF ScIInv
<1>2. /\ n \in 1 .. n /\ Now = compilers[n] /\ Now \in ScCompilers /\ scopes \in Seq(ScScopes)
      /\ scopes = Now.scopes /\ Len(scopes) \in Nat /\ ScFirst(n) \in Nat \ {0}
      /\ scopes = compilers[n].scopes
  BY <1>1, ScNow
<1>3. /\ scopes # <<>> /\ ~ Last(scopes).is_function
      /\ compilers' = WithLast(compilers, e) /\ env' = Front(env)
      /\ UNCHANGED <<sources, parent, home, looked_up, blocks, repeated>>
  BY Zenon DEF CloseBlock, Become, pop_scope, scopes
<1>4. /\ Front(scopes) \in Seq(ScScopes) /\ Len(Front(scopes)) = Len(scopes) - 1
      /\ Len(scopes) \in Nat \ {0}
      /\ \A i \in 1 .. (Len(scopes) - 1) : Front(scopes)[i] = scopes[i]
  BY <1>2, <1>3, ScFront
<1>5. /\ e \in ScCompilers /\ e.fn = Now.fn /\ e.func_local_count = Now.func_local_count
      /\ e.scopes = Front(scopes)
  BY <1>2, <1>4 DEF ScCompilers
<1>6. env \in Seq(ScNames) /\ Len(env) = Len(scopes) /\ Len(home) \in Nat /\ home \in Seq(Nat \X Nat)
  BY <1>1, LenProperties DEF ScTypes, ScHomes
<1>7. /\ env' \in Seq(ScNames) /\ Len(env') = Len(scopes) - 1
      /\ \A i \in 1 .. (Len(scopes) - 1) : env'[i] = env[i]
  <2>1. env # <<>>
    BY <1>4, <1>6, EmptySeq
  <2>2. /\ Front(env) \in Seq(ScNames) /\ Len(Front(env)) = Len(env) - 1
        /\ \A i \in 1 .. (Len(env) - 1) : Front(env)[i] = env[i]
    BY <1>6, <2>1, ScFront
  <2> QED BY <2>2, <1>3, <1>6
<1>8. n > 1 => ScFirst(n) <= Len(scopes) - 1
  <2> SUFFICES ASSUME n > 1 PROVE ScFirst(n) <= Len(scopes) - 1
    OBVIOUS
  <2>1. n \in 2 .. n
    BY <1>2
  <2>2. ScFirst(n) <= Len(scopes)
    BY <1>1, <1>2, <2>1, ScPositions
  <2>3. ScFirst(n) # Len(scopes)
    <3>1. ScFirst(n) \in 1 .. Len(compilers[n].scopes)
      BY <1>2, <2>2
    <3>2. compilers[n].scopes[ScFirst(n)].is_function
      BY <1>1, <1>2, <2>1, <3>1, ScFunction
    <3> QED BY <3>2, <1>2, <1>3 DEF Last
  <2> QED BY <1>2, <2>2, <2>3
<1>9. ScFirst(n) <= Len(scopes)
  <2>1. n = 1 => ScFirst(n) = 1
    BY DEF ScFirst
  <2>2. ScFirst(n) \in Nat /\ Len(scopes) \in Nat \ {0} /\ n \in Nat \ {0}
    BY <1>2, <1>4
  <2> HIDE DEF n
  <2> QED BY <1>8, <2>1, <2>2
<1> HIDE DEF n, e
<1>11. ScBecomes(e)
  <2>1. blocks' \in 0 .. MaxBlocks /\ looked_up' \subseteq ScReferences /\ repeated' \in BOOLEAN
    BY <1>1, <1>3 DEF ScTypes
  <2>2. \A i \in 1 .. Len(e.scopes) :
       /\ e.scopes[i].is_function <=> i \in 1 .. Len(scopes) /\ scopes[i].is_function
       /\ i < ScFirst(Len(compilers)) => e.scopes[i].slots = scopes[i].slots
    BY <1>4, <1>5
  <2>3. Len(compilers) > 1 => ScFirst(Len(compilers)) <= Len(e.scopes)
    BY <1>4, <1>5, <1>8 DEF n
  <2>4. \A i \in 1 .. (ScFirst(Len(compilers)) - 1) : env'[i] = env[i]
    BY <1>2, <1>7, <1>9 DEF n
  <2>5. Len(env') = Len(e.scopes) /\ Len(home) <= Len(home') /\ home' = home
    BY <1>3, <1>4, <1>5, <1>6, <1>7
  <2> QED BY <1>3, <1>5, <1>6, <1>7, <2>1, <2>2, <2>3, <2>4, <2>5 DEF ScBecomes
<1>12. ScCapturesKept(e)
  BY <1>4, <1>5 DEF ScCapturesKept
<1>13. ASSUME NEW i \in ScFirst(Len(compilers)) .. Len(e.scopes)
       PROVE  /\ DOMAIN env'[i] = DOMAIN e.scopes[i].slots
              /\ \A x \in DOMAIN env'[i] :
                   /\ env'[i][x] \in 1 .. Len(home')
                   /\ home'[env'[i][x]] = <<Now.fn, e.scopes[i].slots[x]>>
  <2>1. i \in ScFirst(n) .. Len(compilers[n].scopes) /\ i \in 1 .. (Len(scopes) - 1)
    BY <1>2, <1>4, <1>5 DEF n
  <2>2. /\ DOMAIN env[i] = DOMAIN compilers[n].scopes[i].slots
        /\ \A x \in DOMAIN env[i] :
             /\ env[i][x] \in 1 .. Len(home)
             /\ home[env[i][x]] = <<compilers[n].fn, compilers[n].scopes[i].slots[x]>>
    BY <1>1, <1>2, <2>1, ScHome DEF n
  <2>3. env'[i] = env[i] /\ e.scopes[i] = compilers[n].scopes[i]
    BY <2>1, <1>2, <1>4, <1>5, <1>7
  <2> QED BY <2>2, <2>3, <1>2, <1>3
<1>14. ASSUME NEW v \in 1 .. Len(home')
       PROVE  /\ v \in 1 .. Len(home) \/ home'[v][1] = Now.fn
              /\ home'[v][1] = Now.fn => home'[v][2] < e.func_local_count
  BY <1>1, <1>2, <1>3, <1>5 DEF ScHomes, n
<1>15. SlotsAreOwn'
  BY <1>1, <1>3 DEF ScHomes, SlotsAreOwn
<1>16. ScLookedUp'
  <2>1. parent \in Seq(Nat) /\ Len(parent) \in Nat
    BY <1>1, LenProperties DEF ScTypes
  <2> QED BY <1>1, <1>3, <1>6, <2>1, ScLookedUpKept
<1>17. looked_up' = looked_up
  BY <1>3
<1> QED BY <1>11, <1>12, <1>13, <1>14, <1>15, <1>16, <1>17, ScBecomeInv

LEMMA ScDeclare == ASSUME NEW x \in Names PROVE ScIInv /\ Declare(x) => ScIInv'
<1> SUFFICES ASSUME ScIInv, Declare(x) PROVE ScIInv'
  OBVIOUS
<1> DEFINE n == Len(compilers)
           slot == Now.func_local_count
           top == [Last(scopes) EXCEPT !.slots = Put(@, x, slot)]
           e == declare_local(x)
<1>1. ScTypes /\ ScNested /\ ScHomes /\ ScLookedUp
  BY Zenon DEF ScIInv
<1>2. /\ n \in 1 .. n /\ Now = compilers[n] /\ Now \in ScCompilers /\ scopes \in Seq(ScScopes)
      /\ scopes = Now.scopes /\ Len(scopes) \in Nat /\ ScFirst(n) \in Nat \ {0}
      /\ scopes = compilers[n].scopes /\ slot \in Nat /\ Now.fn \in Nat
  <2>1. Now.fn = compilers[n].fn /\ Now.func_local_count = compilers[n].func_local_count
    BY <1>1, ScNow
  <2> QED BY <1>1, <2>1, ScNow
<1>3. /\ scopes # <<>> /\ x \notin DOMAIN Last(scopes).slots
      /\ compilers' = WithLast(compilers, e) /\ env' = WithLast(env, Put(Last(env), x, Len(home) + 1))
      /\ home' = Append(home, <<Now.fn, slot>>)
      /\ UNCHANGED <<sources, parent, looked_up, blocks, repeated>>
  BY Zenon DEF Declare, Become
<1>4. /\ Last(scopes) = scopes[Len(scopes)] /\ Last(scopes) \in ScScopes /\ Last(scopes).slots \in ScNames
      /\ Len(scopes) \in Nat \ {0}
  <2>1. Len(scopes) \in Nat \ {0} /\ Last(scopes) \in ScScopes
    BY <1>2, <1>3, ScFront
  <2>2. Last(scopes).slots \in ScNames
    BY <2>1 DEF ScScopes
  <2> QED BY <2>1, <2>2 DEF Last
<1>5. /\ Put(Last(scopes).slots, x, slot) \in ScNames
      /\ DOMAIN Put(Last(scopes).slots, x, slot) = DOMAIN Last(scopes).slots \cup {x}
      /\ Put(Last(scopes).slots, x, slot)[x] = slot
      /\ \A y \in DOMAIN Last(scopes).slots : y # x =>
           Put(Last(scopes).slots, x, slot)[y] = Last(scopes).slots[y]
  <2> DEFINE f == Last(scopes).slots
  <2>1. f \in ScNames /\ slot \in Nat
    BY <1>2, <1>4
  <2> HIDE DEF f, slot, top, e
  <2>2. /\ Put(f, x, slot) \in ScNames /\ DOMAIN Put(f, x, slot) = DOMAIN f \cup {x}
        /\ Put(f, x, slot)[x] = slot
        /\ \A y \in DOMAIN f : y # x => Put(f, x, slot)[y] = f[y]
    BY <2>1, ScPut, Zenon
  <2> QED BY <2>2 DEF f
<1>6. /\ top \in ScScopes /\ top.slots = Put(Last(scopes).slots, x, slot)
      /\ top.free_vars = Last(scopes).free_vars /\ (top.is_function <=> Last(scopes).is_function)
  BY <1>4, <1>5 DEF ScScopes
<1>7. e.scopes = WithLast(scopes, top) /\ e.fn = Now.fn /\ e.func_local_count = slot + 1
      /\ e = [[Now EXCEPT !.scopes = WithLast(scopes, top)] EXCEPT !.func_local_count = slot + 1]
  <2>1. e = [Now EXCEPT !.scopes = WithLast(Now.scopes, top), !.func_local_count = Now.func_local_count + 1]
    BY DEF declare_local
  <2> HIDE DEF e, top
  <2>2. Now \in ScCompilers
    BY <1>2
  <2> QED BY <2>1, <2>2, <1>2 DEF ScCompilers
<1> HIDE DEF e, top, slot
<1>8. /\ WithLast(scopes, top) \in Seq(ScScopes) /\ Len(WithLast(scopes, top)) = Len(scopes)
      /\ \A i \in 1 .. (Len(scopes) - 1) : WithLast(scopes, top)[i] = scopes[i]
      /\ WithLast(scopes, top)[Len(scopes)] = top
  <2>1. scopes \in Seq(ScScopes) /\ scopes # <<>> /\ top \in ScScopes
    BY <1>2, <1>3, <1>6
  <2> QED BY <2>1, ScWithLast
<1>9. e \in ScCompilers
  <2>1. Now \in ScCompilers /\ slot + 1 \in Nat /\ WithLast(scopes, top) \in Seq(ScScopes)
    BY <1>2, <1>8
  <2> QED BY <2>1, <1>7 DEF ScCompilers
<1>10. env \in Seq(ScNames) /\ Len(env) = Len(scopes) /\ Len(home) \in Nat /\ home \in Seq(Nat \X Nat)
  BY <1>1, LenProperties DEF ScTypes, ScHomes
<1>11. /\ env' \in Seq(ScNames) /\ Len(env') = Len(scopes)
       /\ \A i \in 1 .. (Len(scopes) - 1) : env'[i] = env[i]
       /\ DOMAIN env'[Len(scopes)] = DOMAIN env[Len(scopes)] \cup {x}
       /\ env'[Len(scopes)][x] = Len(home) + 1
       /\ \A y \in DOMAIN env[Len(scopes)] : y # x => env'[Len(scopes)][y] = env[Len(scopes)][y]
  <2>1. env # <<>>
    BY <1>4, <1>10, EmptySeq
  <2>2. Last(env) \in ScNames /\ Last(env) = env[Len(scopes)] /\ Len(home) + 1 \in Nat
    BY <1>10, <2>1, ScFront DEF Last
  <2> DEFINE new == Put(Last(env), x, Len(home) + 1)
  <2>3. /\ new \in ScNames /\ DOMAIN new = DOMAIN Last(env) \cup {x}
        /\ new[x] = Len(home) + 1 /\ \A y \in DOMAIN Last(env) : y # x => new[y] = Last(env)[y]
    <3>1. \A v \in Nat :
            /\ Put(Last(env), x, v) \in ScNames /\ DOMAIN Put(Last(env), x, v) = DOMAIN Last(env) \cup {x}
            /\ Put(Last(env), x, v)[x] = v
            /\ \A y \in DOMAIN Last(env) : y # x => Put(Last(env), x, v)[y] = Last(env)[y]
      BY <2>2, ScPut, Zenon
    <3> QED BY <2>2, <3>1, Zenon DEF new
  <2> HIDE DEF new
  <2>4. /\ WithLast(env, new) \in Seq(ScNames) /\ Len(WithLast(env, new)) = Len(env)
        /\ \A i \in 1 .. (Len(env) - 1) : WithLast(env, new)[i] = env[i]
        /\ WithLast(env, new)[Len(env)] = new
    <3>1. env \in Seq(ScNames) /\ new \in ScNames
      BY <1>10, <2>3
    <3> QED BY <2>1, <3>1, ScWithLast
  <2>5. env' = WithLast(env, new)
    BY <1>3 DEF new
  <2> QED BY <2>2, <2>3, <2>4, <2>5, <1>10
<1>12. /\ home' \in Seq(Nat \X Nat) /\ Len(home') = Len(home) + 1
       /\ \A v \in 1 .. Len(home) : home'[v] = home[v]
       /\ home'[Len(home) + 1] = <<Now.fn, slot>>
  <2>1. <<Now.fn, slot>> \in Nat \X Nat
    BY <1>2
  <2> QED BY <1>3, <1>10, <2>1, ScAppend
<1>13. n > 1 => ScFirst(n) <= Len(scopes)
  <2>1. n > 1 => n \in 2 .. n
    BY <1>2
  <2> QED BY <1>1, <1>2, <2>1, ScPositions
<1>14. ScFirst(n) <= Len(scopes)
  <2>1. n = 1 => ScFirst(n) = 1
    BY DEF ScFirst
  <2>2. ScFirst(n) \in Nat /\ Len(scopes) \in Nat \ {0} /\ n \in Nat \ {0}
    BY <1>2, <1>4
  <2> HIDE DEF n
  <2> QED BY <1>13, <2>1, <2>2
<1> HIDE DEF n
<1>15. ScBecomes(e)
  <2>1. blocks' \in 0 .. MaxBlocks /\ looked_up' \subseteq ScReferences /\ repeated' \in BOOLEAN
    BY <1>1, <1>3 DEF ScTypes
  <2>2. \A i \in 1 .. Len(e.scopes) :
       /\ e.scopes[i].is_function <=> i \in 1 .. Len(scopes) /\ scopes[i].is_function
       /\ i < ScFirst(Len(compilers)) => e.scopes[i].slots = scopes[i].slots
    <3> SUFFICES ASSUME NEW i \in 1 .. Len(scopes)
                 PROVE  /\ e.scopes[i].is_function <=> i \in 1 .. Len(scopes) /\ scopes[i].is_function
                        /\ i < ScFirst(n) => e.scopes[i].slots = scopes[i].slots
      BY <1>7, <1>8 DEF n
    <3>1. CASE i = Len(scopes)
      <4>1. e.scopes[i] = top /\ scopes[i] = Last(scopes) /\ ~ (i < ScFirst(n))
        BY <3>1, <1>2, <1>4, <1>7, <1>8, <1>14
      <4> QED BY <4>1, <1>6
    <3>2. CASE i # Len(scopes)
      <4>1. i \in 1 .. (Len(scopes) - 1)
        BY <3>2, <1>2
      <4>2. e.scopes[i] = scopes[i]
        BY <4>1, <1>7, <1>8
      <4> QED BY <4>2
    <3> QED BY <3>1, <3>2
  <2>3. Len(compilers) > 1 => ScFirst(Len(compilers)) <= Len(e.scopes)
    BY <1>7, <1>8, <1>13 DEF n
  <2>4. \A i \in 1 .. (ScFirst(Len(compilers)) - 1) : env'[i] = env[i]
    BY <1>2, <1>11, <1>14 DEF n
  <2>5. Len(env') = Len(e.scopes) /\ Len(home) <= Len(home')
    BY <1>7, <1>8, <1>10, <1>11, <1>12
  <2> QED BY <1>3, <1>7, <1>9, <1>11, <1>12, <2>1, <2>2, <2>3, <2>4, <2>5 DEF ScBecomes
<1>16. ScCapturesKept(e)
  <2> SUFFICES ASSUME NEW i \in 1 .. Len(scopes) PROVE e.scopes[i].free_vars = scopes[i].free_vars
    BY <1>7, <1>8 DEF ScCapturesKept
  <2>1. CASE i = Len(scopes)
    BY <2>1, <1>4, <1>6, <1>7, <1>8
  <2>2. CASE i # Len(scopes)
    <3>1. i \in 1 .. (Len(scopes) - 1)
      BY <2>2, <1>2
    <3> QED BY <3>1, <1>7, <1>8
  <2> QED BY <2>1, <2>2
<1>17. /\ \A i \in ScFirst(n) .. Len(scopes) :
            /\ DOMAIN env[i] = DOMAIN scopes[i].slots
            /\ \A y \in DOMAIN env[i] :
                 /\ env[i][y] \in 1 .. Len(home)
                 /\ home[env[i][y]] = <<Now.fn, scopes[i].slots[y]>>
       /\ \A v \in 1 .. Len(home) : home[v][1] = Now.fn => home[v][2] < slot
  <2>1. \A v \in 1 .. Len(home) : home[v][1] = compilers[n].fn => home[v][2] < compilers[n].func_local_count
    BY <1>1, <1>2 DEF ScHomes, n
  <2>2. Len(compilers) \in 1 .. Len(compilers)
    BY <1>2 DEF n
  <2>3. ASSUME NEW i \in ScFirst(n) .. Len(compilers[n].scopes)
        PROVE  /\ DOMAIN env[i] = DOMAIN compilers[n].scopes[i].slots
               /\ \A y \in DOMAIN env[i] :
                    /\ env[i][y] \in 1 .. Len(home)
                    /\ home[env[i][y]] = <<compilers[n].fn, compilers[n].scopes[i].slots[y]>>
    BY <1>1, <2>2, ScHome DEF n
  <2> QED BY <2>1, <2>3, <1>2 DEF slot
<1>18. ASSUME NEW i \in ScFirst(Len(compilers)) .. Len(e.scopes)
       PROVE  /\ DOMAIN env'[i] = DOMAIN e.scopes[i].slots
              /\ \A y \in DOMAIN env'[i] :
                   /\ env'[i][y] \in 1 .. Len(home')
                   /\ home'[env'[i][y]] = <<Now.fn, e.scopes[i].slots[y]>>
  <2>1. i \in ScFirst(n) .. Len(scopes)
    BY <1>7, <1>8 DEF n
  <2>2. /\ DOMAIN env[i] = DOMAIN scopes[i].slots
        /\ \A y \in DOMAIN env[i] :
             /\ env[i][y] \in 1 .. Len(home)
             /\ home[env[i][y]] = <<Now.fn, scopes[i].slots[y]>>
    BY <2>1, <1>17
  <2>3. \A v \in 1 .. Len(home) : v \in 1 .. Len(home') /\ home'[v] = home[v]
    BY <1>10, <1>12
  <2>4. CASE i = Len(scopes)
    <3>1. /\ DOMAIN env'[i] = DOMAIN env[i] \cup {x} /\ env'[i][x] = Len(home) + 1
          /\ \A y \in DOMAIN env[i] : y # x => env'[i][y] = env[i][y]
      BY <2>4, <1>11
    <3>2. /\ DOMAIN e.scopes[i].slots = DOMAIN scopes[i].slots \cup {x} /\ e.scopes[i].slots[x] = slot
          /\ \A y \in DOMAIN scopes[i].slots : y # x => e.scopes[i].slots[y] = scopes[i].slots[y]
      BY <2>4, <1>4, <1>5, <1>6, <1>7, <1>8
    <3>3. Len(home) + 1 \in 1 .. Len(home')
      BY <1>10, <1>12
    <3>4. ASSUME NEW y \in DOMAIN env'[i]
          PROVE  /\ env'[i][y] \in 1 .. Len(home')
                 /\ home'[env'[i][y]] = <<Now.fn, e.scopes[i].slots[y]>>
      <4>1. CASE y = x
        BY <4>1, <3>1, <3>2, <3>3, <1>12
      <4>2. CASE y # x
        BY <4>2, <3>1, <3>2, <2>2, <2>3
      <4> QED BY <4>1, <4>2
    <3> QED BY <3>1, <3>2, <3>4, <2>2
  <2>5. CASE i # Len(scopes)
    <3>1. i \in 1 .. (Len(scopes) - 1)
      BY <2>1, <2>5, <1>2
    <3>2. env'[i] = env[i] /\ e.scopes[i] = scopes[i]
      BY <3>1, <1>7, <1>8, <1>11
    <3> QED BY <3>2, <2>2, <2>3
  <2> QED BY <2>4, <2>5
<1>19. ASSUME NEW v \in 1 .. Len(home')
       PROVE  /\ v \in 1 .. Len(home) \/ home'[v][1] = Now.fn
              /\ home'[v][1] = Now.fn => home'[v][2] < e.func_local_count
  <2>1. CASE v \in 1 .. Len(home)
    <3>1. home[v] \in Nat \X Nat
      BY <2>1, <1>10, ElementOfSeq
    <3>2. home[v][2] \in Nat /\ home'[v] = home[v]
      BY <2>1, <3>1, <1>12
    <3> QED BY <3>2, <2>1, <1>2, <1>7, <1>17
  <2>2. CASE v = Len(home) + 1
    BY <2>2, <1>2, <1>7, <1>12
  <2> QED BY <2>1, <2>2, <1>10, <1>12
<1>20. SlotsAreOwn'
  <2>1. ASSUME NEW v \in 1 .. Len(home) PROVE home[v] # <<Now.fn, slot>>
    <3>1. home[v][2] \in Nat
      <4>1. home[v] \in Nat \X Nat
        BY <1>10, ElementOfSeq
      <4> QED BY <4>1
    <3>2. home[v][1] = Now.fn => home[v][2] < slot
      BY <1>17
    <3> HIDE DEF slot
    <3> QED BY <3>1, <3>2, <1>2
  <2>2. \A i, j \in 1 .. Len(home) : home[i] = home[j] => i = j
    <3>1. DOMAIN home = 1 .. Len(home)
      BY <1>10
    <3>2. SlotsAreOwn
      BY <1>1, Zenon DEF ScHomes
    <3> QED BY <3>1, <3>2, Zenon DEF SlotsAreOwn
  <2>3. \A i \in 1 .. (Len(home) + 1) : i \in 1 .. Len(home) \/ i = Len(home) + 1
    BY <1>10
  <2>4. \A i, j \in 1 .. (Len(home) + 1) : home'[i] = home'[j] => i = j
    BY <2>1, <2>2, <2>3, <1>12
  <2> QED BY <2>4, <1>12 DEF SlotsAreOwn
<1>21. ScLookedUp'
  <2>1. parent \in Seq(Nat) /\ Len(parent) \in Nat
    BY <1>1, LenProperties DEF ScTypes
  <2>2. Len(home') \in Nat /\ Len(home) <= Len(home')
    BY <1>10, <1>12
  <2> QED BY <1>1, <1>3, <1>12, <2>1, <2>2, ScLookedUpKept
<1>22. looked_up' = looked_up
  BY <1>3
<1> QED BY <1>15, <1>16, <1>18, <1>19, <1>20, <1>21, <1>22, ScBecomeInv

-----------------------------------------------------------------------------
(* Names looked up.                                                        *)

\* A scope of the innermost compiler, copy or not, is one compiler's own.
LEMMA ScOwner ==
  ASSUME ScTypes, ScNested, NEW i \in 1 .. Len(scopes)
  PROVE  \E c \in 1 .. Len(compilers) : i \in ScFirst(c) .. Len(compilers[c].scopes)
<1> DEFINE n == Len(compilers)
           S == {c \in 1 .. n : i <= Len(compilers[c].scopes)}
<1>1. /\ n \in 1 .. n /\ scopes = compilers[n].scopes
      /\ \A c \in 1 .. n : Len(compilers[c].scopes) \in Nat /\ ScFirst(c) \in Nat \ {0}
  BY ScNow
<1>2. n \in S /\ S \subseteq Nat
  BY <1>1
<1>3. Min(S) \in S /\ \A d \in S : Min(S) <= d
  BY <1>2, ScMin
<1>4. PICK c \in S : \A d \in S : c <= d
  BY <1>3
<1>5. ScFirst(c) <= i
  <2>1. CASE c = 1
    BY <2>1, ScPositions
  <2>2. CASE c # 1
    <3>1. c \in 2 .. n /\ c - 1 \in 1 .. n /\ ~ (c <= c - 1)
      BY <2>2
    <3>2. c - 1 \notin S
      BY <1>4, <3>1
    <3>3. ScFirst(c) = Len(compilers[c - 1].scopes) + 1
      BY <3>1, ScPositions
    <3> QED BY <3>1, <3>2, <3>3, <1>1
  <2> QED BY <2>1, <2>2
<1>6. i \in ScFirst(c) .. Len(compilers[c].scopes)
  BY <1>1, <1>4, <1>5
<1> QED BY <1>4, <1>6

LEMMA ScScope ==
  ASSUME ScTypes, ScNested, ScHomes, NEW i \in 1 .. Len(scopes)
  PROVE  /\ DOMAIN env[i] = DOMAIN scopes[i].slots
         /\ \A x \in DOMAIN env[i] :
              /\ env[i][x] \in 1 .. Len(home)
              /\ \E c \in 1 .. Len(compilers) :
                   /\ i \in ScFirst(c) .. Len(compilers[c].scopes)
                   /\ home[env[i][x]] = <<compilers[c].fn, scopes[i].slots[x]>>
<1>1. PICK c \in 1 .. Len(compilers) : i \in ScFirst(c) .. Len(compilers[c].scopes)
  BY ScOwner
<1>2. /\ DOMAIN env[i] = DOMAIN compilers[c].scopes[i].slots
      /\ \A x \in DOMAIN env[i] :
           /\ env[i][x] \in 1 .. Len(home)
           /\ home[env[i][x]] = <<compilers[c].fn, compilers[c].scopes[i].slots[x]>>
  BY <1>1, ScHome
<1>3. compilers[c].scopes[i].slots = scopes[i].slots
  <2>1. Len(compilers) \in 1 .. Len(compilers) /\ scopes = compilers[Len(compilers)].scopes
    BY ScNow
  <2>2. ScFirst(c) \in Nat \ {0}
    BY ScNow
  <2>3. i \in 1 .. Len(compilers[c].scopes)
    BY <1>1, <2>2
  <2>4. CASE c = Len(compilers)
    BY <2>4, <2>1
  <2>5. CASE c # Len(compilers)
    <3>1. c < Len(compilers)
      BY <2>1, <2>5
    <3>2. compilers[c].scopes[i].slots = compilers[Len(compilers)].scopes[i].slots
      BY <2>1, <2>3, <3>1, ScPair
    <3> QED BY <2>1, <3>2
  <2> QED BY <2>4, <2>5
<1> QED BY <1>1, <1>2, <1>3

LEMMA ScCurrent ==
  ASSUME ScTypes, ScNested
  PROVE  /\ FunctionScopes = {ScFirst(d) : d \in 2 .. Len(compilers)}
         /\ cur_func_idx = IF Len(compilers) = 1 THEN 0 ELSE ScFirst(Len(compilers))
<1> DEFINE n == Len(compilers)
<1>1. /\ n \in Nat \ {0} /\ n \in 1 .. n /\ scopes = compilers[n].scopes /\ Len(scopes) \in Nat
      /\ DOMAIN scopes = 1 .. Len(scopes)
      /\ \A c \in 1 .. n : Len(compilers[c].scopes) \in Nat /\ ScFirst(c) \in Nat \ {0}
  BY ScNow, LenProperties
<1> HIDE DEF n
<1>2. \A d \in 2 .. n : d \in 1 .. n /\ ScFirst(d) \in 1 .. Len(scopes) /\ ScFirst(d) <= ScFirst(n)
  <2> SUFFICES ASSUME NEW d \in 2 .. n PROVE d \in 1 .. n /\ ScFirst(d) \in 1 .. Len(scopes) /\ ScFirst(d) <= ScFirst(n)
    OBVIOUS
  <2>1. d \in 1 .. n /\ n \in 2 .. n /\ (d = n \/ d < n)
    BY <1>1
  <2>2. ScFirst(n) <= Len(compilers[n].scopes)
    BY <2>1, ScPositions DEF n
  <2>3. d < n => ScFirst(d) <= ScFirst(n)
    BY <1>1, <2>1, ScPositions DEF n
  <2> QED BY <1>1, <2>1, <2>2, <2>3
<1>3. \A i \in 1 .. Len(scopes) : scopes[i].is_function <=> \E d \in 2 .. n : i = ScFirst(d)
  <2>1. n \in 1 .. Len(compilers)
    BY <1>1 DEF n
  <2>2. ASSUME NEW i \in 1 .. Len(compilers[n].scopes)
        PROVE  compilers[n].scopes[i].is_function <=> \E d \in 2 .. n : i = ScFirst(d)
    BY <2>1, ScFunction
  <2> QED BY <1>1, <2>2
<1>4. FunctionScopes = {ScFirst(d) : d \in 2 .. n}
  BY <1>1, <1>2, <1>3 DEF FunctionScopes
<1>5. FunctionScopes \cup {0} \subseteq 0 .. Len(scopes)
  BY <1>1, <1>2, <1>4
<1>6. cur_func_idx \in FunctionScopes \cup {0} /\ \A m \in FunctionScopes \cup {0} : m <= cur_func_idx
  <2>1. FunctionScopes \cup {0} # {}
    OBVIOUS
  <2> QED BY <1>1, <1>5, <2>1, ScMax DEF cur_func_idx
<1>7. cur_func_idx = IF n = 1 THEN 0 ELSE ScFirst(n)
  <2>1. CASE n = 1
    BY <2>1, <1>4, <1>6
  <2>2. CASE n # 1
    <3>1. n \in 2 .. n
      BY <2>2, <1>1
    <3>2. ScFirst(n) \in FunctionScopes /\ ScFirst(n) \in Nat \ {0}
      BY <3>1, <1>1, <1>4
    <3>3. ScFirst(n) <= cur_func_idx
      BY <3>2, <1>6
    <3>4. cur_func_idx # 0 /\ cur_func_idx \in Nat
      BY <3>2, <3>3, <1>5, <1>6
    <3>5. cur_func_idx <= ScFirst(n)
      BY <3>4, <1>2, <1>4, <1>6
    <3> QED BY <2>2, <3>2, <3>3, <3>4, <3>5
  <2> QED BY <2>1, <2>2
<1> QED BY <1>4, <1>7 DEF n

\* What a name stands for: the innermost variable of that name.
ScStandsFor(x) == IF Declaring(x) = {} THEN 0 ELSE env[Max(Declaring(x))][x]

LEMMA ScDeclared ==
  ASSUME ScTypes, ScNested, ScHomes, NEW x \in Names
  PROVE  /\ Declaring(x) \subseteq 1 .. Len(scopes) /\ Len(scopes) \in Nat
         /\ \A i \in 1 .. Len(scopes) : i \in Declaring(x) <=> x \in DOMAIN env[i]
         /\ Declaring(x) # {} =>
              Max(Declaring(x)) \in Declaring(x) /\ \A i \in Declaring(x) : i <= Max(Declaring(x))
         /\ \A kind, index : Reference(x, kind, index) =
              [fn |-> Now.fn, kind |-> kind, index |-> index, name |-> x, meant |-> ScStandsFor(x)]
         /\ ScStandsFor(x) \in 0 .. Len(home)
<1>1. DOMAIN scopes = 1 .. Len(scopes) /\ Len(scopes) \in Nat
  BY ScNow, LenProperties
<1>2. DOMAIN env = 1 .. Len(scopes)
  BY LenProperties DEF ScTypes, ScHomes
<1>3. \A i \in 1 .. Len(scopes) : DOMAIN env[i] = DOMAIN scopes[i].slots
  BY ScScope
<1>4. Declaring(x) = {j \in DOMAIN env : x \in DOMAIN env[j]}
  BY <1>1, <1>2, <1>3 DEF Declaring
<1>5. Declaring(x) \subseteq 1 .. Len(scopes)
  BY <1>2, <1>4
<1> DEFINE S == Declaring(x)
<1>6. S # {} => Max(S) \in S /\ \A i \in S : i <= Max(S)
  <2> HIDE DEF S
  <2>1. S \subseteq 0 .. Len(scopes)
    BY <1>5 DEF S
  <2> QED BY <1>1, <2>1, ScMax
<1>7. Max({0} \cup S) = IF S = {} THEN 0 ELSE Max(S)
  <2>1. S \subseteq 1 .. Len(scopes)
    BY <1>5
  <2> HIDE DEF S
  <2>2. {0} \cup S \subseteq 0 .. Len(scopes) /\ {0} \cup S # {}
    BY <2>1, <1>1
  <2>3. Max({0} \cup S) \in {0} \cup S /\ \A i \in {0} \cup S : i <= Max({0} \cup S)
    BY <1>1, <2>2, ScMax
  <2>4. CASE S = {}
    BY <2>3, <2>4
  <2>5. CASE S # {}
    <3> DEFINE a == Max({0} \cup S)
               b == Max(S)
    <3>1. a \in {0} \cup S /\ (\A i \in {0} \cup S : i <= a) /\ b \in S /\ \A i \in S : i <= b
      BY <2>3, <2>5, <1>6
    <3> HIDE DEF a, b
    <3>2. a = b
      <4>1. b \in 1 .. Len(scopes) /\ b <= a
        BY <3>1, <2>1
      <4>2. a \in 0 .. Len(scopes) /\ a # 0
        BY <4>1, <3>1, <2>2, <1>1
      <4>3. a <= b
        BY <3>1, <4>2
      <4> QED BY <4>1, <4>2, <4>3
    <3> QED BY <3>2, <2>5 DEF a, b
  <2> QED BY <2>4, <2>5
<1>8. (LET i == Max({0} \cup {j \in DOMAIN env : x \in DOMAIN env[j]})
       IN  IF i = 0 THEN 0 ELSE env[i][x]) = ScStandsFor(x)
  <2>1. Max({0} \cup {j \in DOMAIN env : x \in DOMAIN env[j]}) = IF S = {} THEN 0 ELSE Max(S)
    BY <1>4, <1>7
  <2>2. S # {} => Max(S) # 0
    BY <1>5, <1>6
  <2> QED BY <2>1, <2>2 DEF ScStandsFor
<1>9. \A kind, index : Reference(x, kind, index) =
        [fn |-> Now.fn, kind |-> kind, index |-> index, name |-> x, meant |-> ScStandsFor(x)]
  BY <1>8 DEF Reference
<1>10. ScStandsFor(x) \in 0 .. Len(home)
  <2>1. Len(home) \in Nat
    BY LenProperties DEF ScTypes
  <2>2. CASE Declaring(x) = {}
    BY <2>1, <2>2 DEF ScStandsFor
  <2>3. CASE Declaring(x) # {}
    <3>1. Max(Declaring(x)) \in Declaring(x)
      BY <2>3, <1>6
    <3> DEFINE i == Max(Declaring(x))
    <3>2. i \in 1 .. Len(scopes) /\ x \in DOMAIN env[i]
      BY <3>1, <1>4, <1>5
    <3> HIDE DEF i
    <3>3. env[i][x] \in 1 .. Len(home)
      BY <3>2, ScScope
    <3> QED BY <2>1, <2>3, <3>3 DEF ScStandsFor, i
  <2> QED BY <2>2, <2>3
<1> QED BY <1>1, <1>2, <1>4, <1>5, <1>6, <1>9, <1>10

LEMMA ScNowFn == ASSUME ScTypes, ScNested PROVE Now.fn \in 0 .. Len(parent)
<1> DEFINE n == Len(compilers)
<1>1. n \in Nat \ {0} /\ Now = compilers[n]
  BY ScNow
<1> HIDE DEF n
<1>2. CASE n = 1
  <2>1. Now.fn = 0 /\ Len(parent) \in Nat
    BY <1>1, <1>2, LenProperties DEF ScNested, ScTypes
  <2> QED BY <2>1
<1>3. CASE n # 1
  <2>1. n \in 2 .. n
    BY <1>1, <1>3
  <2>2. compilers[n].fn \in 1 .. Len(parent)
    BY <2>1, ScParent DEF n
  <2> QED BY <2>2, <1>1
<1> QED BY <1>2, <1>3

\* A name looked up, with nothing captured for it.
LEMMA ScResolve ==
  ASSUME ScIInv, NEW x \in Names, NEW kind \in {"Local", "Free", "Global"}, NEW index \in Nat,
         LookedUp(x, kind, index),
         UNCHANGED <<compilers, sources, parent, env, home, blocks, repeated>>,
         kind = "Global" => ScStandsFor(x) = 0,
         kind = "Local" => ScStandsFor(x) # 0 /\ home[ScStandsFor(x)] = <<Now.fn, index>>,
         kind = "Free" => \A M : ScMeanings(M) =>
           <<Now.fn, index>> \in DOMAIN M /\ M[<<Now.fn, index>>] = ScStandsFor(x)
  PROVE  ScIInv'
<1> DEFINE n == Len(compilers)
           new == [fn |-> Now.fn, kind |-> kind, index |-> index, name |-> x, meant |-> ScStandsFor(x)]
<1>1. ScTypes /\ ScNested /\ ScHomes /\ ScLookedUp
  BY Zenon DEF ScIInv
<1>2. /\ n \in 1 .. n /\ Now = compilers[n] /\ Now \in ScCompilers /\ scopes \in Seq(ScScopes)
      /\ scopes = Now.scopes /\ Len(scopes) \in Nat /\ ScFirst(n) \in Nat \ {0}
      /\ scopes = compilers[n].scopes /\ Now.fn \in Nat
  <2>1. Now.fn = compilers[n].fn
    BY <1>1, ScNow
  <2> QED BY <1>1, <2>1, ScNow
<1>3. ScStandsFor(x) \in 0 .. Len(home) /\ Len(home) \in Nat
  <2>1. ScStandsFor(x) \in 0 .. Len(home)
    BY <1>1, ScDeclared
  <2> QED BY <1>1, <2>1, LenProperties DEF ScTypes
<1>4. looked_up' = looked_up \cup {new}
  <2>1. Reference(x, kind, index) = new
    BY <1>1, ScDeclared
  <2> QED BY <2>1 DEF LookedUp
<1>5. new \in ScReferences
  BY <1>2, <1>3 DEF ScReferences
<1>6. /\ new.fn = Now.fn /\ new.kind = kind /\ new.index = index /\ new.meant = ScStandsFor(x)
  OBVIOUS
<1> HIDE DEF new
<1>7. compilers' = WithLast(compilers, Now)
  <2>1. compilers \in Seq(ScCompilers) /\ compilers # <<>> /\ Now \in ScCompilers
    BY <1>1, <1>2 DEF ScTypes
  <2>2. /\ WithLast(compilers, Now) \in Seq(ScCompilers) /\ Len(WithLast(compilers, Now)) = Len(compilers)
        /\ \A i \in 1 .. (Len(compilers) - 1) : WithLast(compilers, Now)[i] = compilers[i]
        /\ WithLast(compilers, Now)[Len(compilers)] = Now
    BY <2>1, ScWithLast
  <2>3. \A i \in 1 .. n : WithLast(compilers, Now)[i] = compilers[i]
    <3>1. \A i \in 1 .. n : i = n \/ i \in 1 .. (n - 1)
      BY <1>2
    <3> QED BY <3>1, <2>2, <1>2
  <2>4. WithLast(compilers, Now) = compilers
    BY <2>1, <2>2, <2>3, SeqEqual
  <2> QED BY <2>4
<1> HIDE DEF n
<1>8. ScFirst(n) <= Len(scopes) + 1 /\ (n > 1 => ScFirst(n) <= Len(scopes))
  <2>1. n > 1 => n \in 2 .. n
    BY <1>2
  <2> QED BY <1>1, <1>2, <2>1, ScPositions DEF n
<1>9. env \in Seq(ScNames) /\ Len(env) = Len(scopes) /\ home \in Seq(Nat \X Nat)
  BY <1>1 DEF ScTypes, ScHomes
<1>10. ScBecomes(Now)
  <2>1. blocks' \in 0 .. MaxBlocks /\ looked_up' \subseteq ScReferences /\ repeated' \in BOOLEAN
    BY <1>1, <1>4, <1>5 DEF ScTypes
  <2>2. Len(compilers) > 1 => ScFirst(Len(compilers)) <= Len(Now.scopes)
    BY <1>2, <1>8 DEF n
  <2>3. \A i \in 1 .. Len(Now.scopes) :
          /\ Now.scopes[i].is_function <=> i \in 1 .. Len(scopes) /\ scopes[i].is_function
          /\ i < ScFirst(Len(compilers)) => Now.scopes[i].slots = scopes[i].slots
    BY <1>2
  <2>4. Now \in ScCompilers /\ Len(env') = Len(Now.scopes) /\ env' = env /\ home' = home
    BY <1>2, <1>9
  <2>5. UNCHANGED <<parent, sources>> /\ (~repeated' => ~repeated)
    OBVIOUS
  <2>6. /\ env' \in Seq(ScNames) /\ home' \in Seq(Nat \X Nat) /\ Len(home) <= Len(home')
        /\ \A i \in 1 .. (ScFirst(Len(compilers)) - 1) : env'[i] = env[i]
        /\ \A v \in 1 .. Len(home) : home'[v] = home[v]
    BY <1>3, <1>9, <2>4
  <2> QED BY <1>7, <2>1, <2>2, <2>3, <2>4, <2>5, <2>6, Zenon DEF ScBecomes
<1>11. ScCapturesKept(Now)
  BY <1>2 DEF ScCapturesKept
<1>12. ASSUME NEW i \in ScFirst(Len(compilers)) .. Len(Now.scopes)
       PROVE  /\ DOMAIN env'[i] = DOMAIN Now.scopes[i].slots
              /\ \A y \in DOMAIN env'[i] :
                   /\ env'[i][y] \in 1 .. Len(home')
                   /\ home'[env'[i][y]] = <<Now.fn, Now.scopes[i].slots[y]>>
  <2>1. i \in ScFirst(n) .. Len(compilers[n].scopes) /\ n \in 1 .. Len(compilers)
    BY <1>2 DEF n
  <2>2. /\ DOMAIN env[i] = DOMAIN compilers[n].scopes[i].slots
        /\ \A y \in DOMAIN env[i] :
             /\ env[i][y] \in 1 .. Len(home)
             /\ home[env[i][y]] = <<compilers[n].fn, compilers[n].scopes[i].slots[y]>>
    BY <1>1, <2>1, ScHome
  <2> QED BY <2>2, <1>2
<1>13. ASSUME NEW v \in 1 .. Len(home')
       PROVE  /\ v \in 1 .. Len(home) \/ home'[v][1] = Now.fn
              /\ home'[v][1] = Now.fn => home'[v][2] < Now.func_local_count
  BY <1>1, <1>2 DEF ScHomes, n
<1>14. SlotsAreOwn'
  BY <1>1 DEF ScHomes, SlotsAreOwn
<1>15. ScLookedUp'
  <2>1. new.fn \in 0 .. Len(parent)
    BY <1>1, <1>6, ScNowFn
  <2> QED BY <1>1, <1>3, <1>4, <1>6, <2>1 DEF ScLookedUp
<1>16. ASSUME NEW M, ScMeanings(M)
       PROVE  \A r \in looked_up' : r \in looked_up \/
                (r.kind = "Free" => <<r.fn, r.index>> \in DOMAIN M /\ M[<<r.fn, r.index>>] = r.meant)
  <2>1. kind = "Free" => <<Now.fn, index>> \in DOMAIN M /\ M[<<Now.fn, index>>] = ScStandsFor(x)
    BY <1>16
  <2> QED BY <2>1, <1>4, <1>6
<1> QED BY <1>10, <1>11, <1>12, <1>13, <1>14, <1>15, <1>16, ScBecomeInv

LEMMA ScSlot ==
  ASSUME ScTypes, NEW i \in 1 .. Len(scopes), NEW x \in DOMAIN scopes[i].slots
  PROVE  scopes[i].slots[x] \in Nat
<1>1. scopes[i] \in ScScopes
  BY ScNow, ElementOfSeq
<1>2. scopes[i].slots \in ScNames
  BY <1>1 DEF ScScopes
<1>3. PICK D \in SUBSET Names : scopes[i].slots \in [D -> Nat]
  BY <1>2, Zenon DEF ScNames
<1> QED BY <1>3

LEMMA ScResolveLocal ==
  ASSUME ScIInv, NEW x \in Names, ResolveLocal(x),
         UNCHANGED <<sources, parent, env, home, blocks>>
  PROVE  ScIInv'
<1> DEFINE R == resolve_local(x)
           i == Max(Declaring(x))
           n == Len(compilers)
<1>1. ScTypes /\ ScNested /\ ScHomes
  BY Zenon DEF ScIInv
<1>2. /\ Declaring(x) \subseteq 1 .. Len(scopes) /\ Len(scopes) \in Nat
      /\ \A j \in 1 .. Len(scopes) : j \in Declaring(x) <=> x \in DOMAIN env[j]
      /\ Declaring(x) # {} => i \in Declaring(x) /\ \A j \in Declaring(x) : j <= i
  BY <1>1, ScDeclared
<1>3. /\ R # {} /\ LookedUp(x, "Local", SlotIn(Max(R), x)) /\ UNCHANGED <<compilers, repeated>>
  BY Zenon DEF ResolveLocal
<1>4. R = {j \in Declaring(x) : j >= cur_func_idx}
  BY DEF resolve_local
<1>5. cur_func_idx = (IF n = 1 THEN 0 ELSE ScFirst(n)) /\ n \in 1 .. n /\ ScFirst(n) \in Nat \ {0}
      /\ ScFirst(1) = 1 /\ scopes = compilers[n].scopes /\ Now = compilers[n]
  BY <1>1, ScCurrent, ScNow, ScPositions
<1> HIDE DEF R, i, n
<1>6. Max(R) \in R /\ \A j \in R : j <= Max(R)
  <2>1. R \subseteq 0 .. Len(scopes)
    BY <1>2, <1>4
  <2> QED BY <1>2, <1>3, <2>1, ScMax
<1>7. Max(R) = i /\ i \in R /\ i \in Declaring(x)
  <2>1. Max(R) \in Declaring(x) /\ Max(R) >= cur_func_idx /\ cur_func_idx \in Nat
    BY <1>4, <1>5, <1>6
  <2>2. i \in Declaring(x) /\ Max(R) <= i
    BY <1>2, <2>1
  <2>3. i \in Nat /\ Max(R) \in Nat
    BY <1>2, <2>1, <2>2
  <2>4. i \in R
    BY <1>4, <2>1, <2>2, <2>3
  <2>5. i <= Max(R)
    BY <1>6, <2>4
  <2> QED BY <2>2, <2>3, <2>4, <2>5
<1>8. i \in ScFirst(n) .. Len(compilers[n].scopes) /\ x \in DOMAIN env[i] /\ i \in 1 .. Len(scopes)
  BY <1>2, <1>4, <1>5, <1>7
<1>9. /\ DOMAIN env[i] = DOMAIN compilers[n].scopes[i].slots
      /\ env[i][x] \in 1 .. Len(home)
      /\ home[env[i][x]] = <<compilers[n].fn, compilers[n].scopes[i].slots[x]>>
  <2>1. n \in 1 .. Len(compilers)
    BY <1>5 DEF n
  <2> QED BY <1>1, <1>8, <2>1, ScHome
<1>10. ScStandsFor(x) = env[i][x]
  BY <1>7 DEF ScStandsFor, i
<1>11. SlotIn(Max(R), x) = scopes[i].slots[x]
  BY <1>7 DEF SlotIn
<1>12. SlotIn(Max(R), x) \in Nat
  BY <1>1, <1>5, <1>8, <1>9, <1>11, ScSlot
<1>13. ScStandsFor(x) # 0 /\ home[ScStandsFor(x)] = <<Now.fn, SlotIn(Max(R), x)>>
  BY <1>5, <1>9, <1>10, <1>11
<1> DEFINE index == SlotIn(Max(R), x)
           kind == "Local"
<1> HIDE DEF index
<1>14. LookedUp(x, kind, index) /\ index \in Nat /\ ScStandsFor(x) # 0 /\ home[ScStandsFor(x)] = <<Now.fn, index>>
  BY <1>3, <1>12, <1>13 DEF index
<1> QED BY <1>3, <1>14, ScResolve

LEMMA ScResolveGlobal ==
  ASSUME ScIInv, NEW x \in Names, ResolveGlobal(x),
         UNCHANGED <<sources, parent, env, home, blocks>>
  PROVE  ScIInv'
<1>1. Declaring(x) = {} /\ LookedUp(x, "Global", 0) /\ UNCHANGED <<compilers, repeated>>
  BY Zenon DEF ResolveGlobal
<1>2. ScStandsFor(x) = 0
  BY <1>1 DEF ScStandsFor
<1> QED BY <1>1, <1>2, ScResolve

\* The innermost declaration below a function's scope is what the name stands for in it,
\* when the function has none of its own.
LEMMA ScInnermostIs ==
  ASSUME ScTypes, ScNested, ScHomes, NEW x \in Names, NEW b \in 1 .. Len(scopes),
         \A j \in Declaring(x) : j < b, NEW i, ScInnermost(env, i, x, b)
  PROVE  Declaring(x) # {} /\ i = Max(Declaring(x)) /\ ScStandsFor(x) = env[i][x]
<1>1. /\ Declaring(x) \subseteq 1 .. Len(scopes) /\ Len(scopes) \in Nat
      /\ \A j \in 1 .. Len(scopes) : j \in Declaring(x) <=> x \in DOMAIN env[j]
      /\ Declaring(x) # {} =>
           Max(Declaring(x)) \in Declaring(x) /\ \A j \in Declaring(x) : j <= Max(Declaring(x))
  BY ScDeclared
<1>2. i \in 1 .. (b - 1) /\ x \in DOMAIN env[i] /\ \A j \in (i + 1) .. (b - 1) : x \notin DOMAIN env[j]
  BY DEF ScInnermost
<1>3. i \in Declaring(x)
  BY <1>1, <1>2
<1> DEFINE a == Max(Declaring(x))
<1>4. a \in Declaring(x) /\ i <= a /\ a < b /\ a \in 1 .. Len(scopes) /\ x \in DOMAIN env[a]
  BY <1>1, <1>3
<1> HIDE DEF a
<1>5. ~ (a \in (i + 1) .. (b - 1))
  BY <1>2, <1>4
<1>6. a = i
  BY <1>2, <1>4, <1>5
<1> QED BY <1>3, <1>6 DEF a, ScStandsFor

LEMMA ScResolveCaptured ==
  ASSUME ScIInv, NEW x \in Names, ResolveCaptured(x),
         UNCHANGED <<sources, parent, env, home, blocks>>
  PROVE  ScIInv'
<1> DEFINE n == Len(compilers)
           b == ScFirst(n)
           list == scopes[b].free_vars
           K == {k \in DOMAIN list : list[k].name = x}
<1>1. ScTypes /\ ScNested /\ ScHomes
  BY Zenon DEF ScIInv
<1>2. /\ resolve_local(x) = {} /\ cur_func_idx # 0 /\ Captures(cur_func_idx, x)
      /\ LookedUp(x, "Free", CaptureOf(cur_func_idx, x)) /\ UNCHANGED <<compilers, repeated>>
  BY Zenon DEF ResolveCaptured
<1>3. cur_func_idx = b /\ n \in 2 .. n /\ n \in 1 .. Len(compilers) /\ n \in 2 .. Len(compilers)
  <2>1. cur_func_idx = (IF n = 1 THEN 0 ELSE b) /\ n \in Nat \ {0}
    BY <1>1, ScCurrent, ScNow
  <2>2. cur_func_idx = b /\ n # 1
    BY <1>2, <2>1
  <2> HIDE DEF n, b
  <2>3. n \in 2 .. n
    BY <2>1, <2>2
  <2> QED BY <2>2, <2>3 DEF n
<1>4. b \in 1 .. Len(scopes) /\ scopes = compilers[n].scopes /\ Now = compilers[n] /\ b \in Nat \ {0}
  <2>1. scopes = compilers[n].scopes /\ b \in Nat \ {0} /\ Now = compilers[n]
    BY <1>1, <1>3, ScNow
  <2>2. b <= Len(compilers[n].scopes)
    BY <1>1, <1>3, ScPositions
  <2> QED BY <2>1, <2>2, <1>1, ScNow
<1>5. list \in Seq(ScEntries) /\ Len(list) \in Nat /\ DOMAIN list = 1 .. Len(list)
  <2>1. compilers[n].scopes[b].free_vars \in Seq(ScEntries)
    BY <1>1, <1>3, <1>4, ScNow
  <2> QED BY <2>1, <1>4, LenProperties
<1>6. K # {} /\ K \subseteq Nat /\ CaptureOf(cur_func_idx, x) = Min(K) - 1
  BY <1>2, <1>3, <1>5 DEF Captures, CaptureOf
<1>7. Min(K) \in K
  BY <1>6, ScMin
<1> DEFINE k == Min(K)
           index == k - 1
<1>8. k \in 1 .. Len(list) /\ list[k].name = x
  BY <1>5, <1>7
<1> HIDE DEF k, K
<1>9. index \in Nat /\ index < Len(list)
  BY <1>5, <1>8
<1>10. \A j \in Declaring(x) : j < b
  <2>1. Declaring(x) \subseteq 1 .. Len(scopes)
    BY <1>1, ScDeclared
  <2>2. {j \in Declaring(x) : j >= b} = {}
    BY <1>2, <1>3 DEF resolve_local
  <2> QED BY <2>1, <2>2, <1>4
<1>11. ASSUME NEW M, ScMeanings(M)
       PROVE  <<Now.fn, index>> \in DOMAIN M /\ M[<<Now.fn, index>>] = ScStandsFor(x)
  <2>1. ScUnderWay(M, n)
    BY <1>3, <1>11 DEF ScMeanings
  <2>2. ScCapturing(M, parent[compilers[n].fn], home, compilers[n].fn, list, env, b)
    BY <2>1, Zenon DEF ScUnderWay
  <2> HIDE DEF list, b, n
  <2>3. /\ \A m \in Nat : <<compilers[n].fn, m>> \in DOMAIN M <=> m < Len(list)
        /\ \A m \in 1 .. Len(list) : \E i \in 1 .. (b - 1) :
             ScInnermost(env, i, list[m].name, b) /\ M[<<compilers[n].fn, m - 1>>] = env[i][list[m].name]
    BY <2>2, Zenon DEF ScCapturing
  <2>4. PICK i \in 1 .. (b - 1) : ScInnermost(env, i, x, b) /\ M[<<compilers[n].fn, k - 1>>] = env[i][x]
    BY <2>3, <1>8
  <2>5. ScStandsFor(x) = env[i][x]
    BY <1>1, <1>4, <1>10, <2>4, ScInnermostIs
  <2> QED BY <2>3, <2>4, <2>5, <1>4, <1>9
<1> HIDE DEF index
<1>12. LookedUp(x, "Free", index)
  BY <1>2, <1>6 DEF index, k
<1> QED BY <1>2, <1>9, <1>11, <1>12, ScResolve

-----------------------------------------------------------------------------
(* Variables captured.                                                     *)

\* The compilers, outermost first, that x is captured through.
ScReached(x) == {c \in 2 .. Len(compilers) : ScFirst(c) > decl_idx(x)}
ScCaptures(x) ==
  /\ resolve_local(x) = {} /\ cur_func_idx # 0
  /\ \E i \in Declaring(x) : i < cur_func_idx

LEMMA ScDeclIdx ==
  ASSUME ScTypes, ScNested, ScHomes, NEW x \in Names, ScCaptures(x)
  PROVE  /\ Len(compilers) \in 2 .. Len(compilers) /\ cur_func_idx = ScFirst(Len(compilers))
         /\ ScFirst(Len(compilers)) \in 1 .. Len(scopes)
         /\ decl_idx(x) \in 1 .. (ScFirst(Len(compilers)) - 1) /\ decl_idx(x) \in 1 .. Len(scopes)
         /\ x \in DOMAIN scopes[decl_idx(x)].slots /\ x \in DOMAIN env[decl_idx(x)]
         /\ ScStandsFor(x) = env[decl_idx(x)][x] /\ ScStandsFor(x) \in 1 .. Len(home)
         /\ \A j \in (decl_idx(x) + 1) .. Len(scopes) : x \notin DOMAIN env[j]
<1> DEFINE n == Len(compilers)
           b == ScFirst(n)
           D == {i \in Declaring(x) : i < cur_func_idx}
<1>1. cur_func_idx = (IF n = 1 THEN 0 ELSE b) /\ n \in Nat \ {0}
  BY ScCurrent, ScNow
<1>2. cur_func_idx = b /\ n # 1
  BY <1>1 DEF ScCaptures
<1>3. n \in 2 .. n /\ b \in Nat /\ b <= Len(scopes)
  <2> HIDE DEF n
  <2>1. n \in 2 .. n /\ n \in 1 .. n
    BY <1>1, <1>2
  <2> QED BY <2>1, ScNow, ScPositions DEF n
<1>4. /\ Declaring(x) \subseteq 1 .. Len(scopes) /\ Len(scopes) \in Nat
      /\ \A i \in 1 .. Len(scopes) : i \in Declaring(x) <=> x \in DOMAIN env[i]
      /\ Declaring(x) # {} =>
           Max(Declaring(x)) \in Declaring(x) /\ \A i \in Declaring(x) : i <= Max(Declaring(x))
  BY ScDeclared
<1> HIDE DEF n, b
<1>5. D = Declaring(x) /\ D # {} /\ D \subseteq 1 .. (b - 1)
  <2>1. {i \in Declaring(x) : i >= b} = {}
    BY <1>2 DEF ScCaptures, resolve_local
  <2>2. \A i \in Declaring(x) : i \in 1 .. (b - 1)
    BY <2>1, <1>3, <1>4
  <2> QED BY <2>2, <1>2, <1>3, <1>4 DEF ScCaptures
<1> DEFINE d == decl_idx(x)
<1>6. d = Max(D)
  BY DEF decl_idx
<1> HIDE DEF d, D
<1>7. d \in Declaring(x) /\ (\A i \in Declaring(x) : i <= d) /\ d \in 1 .. (b - 1) /\ d = Max(Declaring(x))
  <2>1. d = Max(Declaring(x)) /\ Declaring(x) # {} /\ Declaring(x) \subseteq 1 .. (b - 1)
    BY <1>5, <1>6
  <2> QED BY <1>4, <2>1
<1>8. d \in 1 .. Len(scopes) /\ x \in DOMAIN env[d]
  BY <1>4, <1>7
<1>9. ScStandsFor(x) = env[d][x]
  BY <1>7 DEF ScStandsFor
<1>10. DOMAIN env[d] = DOMAIN scopes[d].slots /\ env[d][x] \in 1 .. Len(home)
  BY <1>8, ScScope
<1>11. \A j \in (d + 1) .. Len(scopes) : x \notin DOMAIN env[j]
  <2>1. \A j \in (d + 1) .. Len(scopes) : j \in 1 .. Len(scopes) /\ ~ (j <= d)
    BY <1>8
  <2> QED BY <2>1, <1>4, <1>7
<1>12. b \in 1 .. Len(scopes)
  BY <1>3, <1>4, <1>7
<1> QED BY <1>2, <1>3, <1>7, <1>8, <1>9, <1>10, <1>11, <1>12 DEF d, b, n

LEMMA ScThrough ==
  ASSUME ScTypes, ScNested, ScHomes, NEW x \in Names, ScCaptures(x)
  PROVE  /\ Between(x) = {ScFirst(c) : c \in ScReached(x)}
         /\ \A c, d \in 2 .. Len(compilers) : c < d => ScFirst(c) < ScFirst(d)
         /\ \A c \in 2 .. Len(compilers) : ScFirst(c) \in Between(x) => c \in ScReached(x)
         /\ Len(compilers) \in ScReached(x)
<1> DEFINE n == Len(compilers)
<1>1. n \in 2 .. n /\ decl_idx(x) \in 1 .. (ScFirst(n) - 1)
  BY ScDeclIdx
<1>2. \A c \in 1 .. n : Len(compilers[c].scopes) \in Nat /\ ScFirst(c) \in Nat \ {0}
  BY ScNow
<1>3. Between(x) = {ScFirst(c) : c \in ScReached(x)}
  <2>1. FunctionScopes = {ScFirst(d) : d \in 2 .. n}
    BY ScCurrent
  <2> QED BY <2>1 DEF Between, ScReached
<1>4. ASSUME NEW c \in 2 .. n, NEW d \in 2 .. n, c < d PROVE ScFirst(c) < ScFirst(d)
  <2>1. c \in 1 .. n /\ d \in 1 .. n
    OBVIOUS
  <2>2. Len(compilers[c].scopes) < ScFirst(d) /\ ScFirst(c) <= Len(compilers[c].scopes)
    BY <2>1, <1>4, ScPositions
  <2> QED BY <1>2, <2>1, <2>2
<1> HIDE DEF n
<1>5. ASSUME NEW c \in 2 .. n, ScFirst(c) \in Between(x) PROVE c \in ScReached(x)
  <2>1. PICK d \in ScReached(x) : ScFirst(c) = ScFirst(d)
    BY <1>3, <1>5
  <2> QED BY <2>1 DEF ScReached, n
<1>6. n \in ScReached(x)
  <2>1. n \in 1 .. n
    BY <1>1
  <2>2. ScFirst(n) \in Nat
    BY <1>2, <2>1
  <2> QED BY <1>1, <2>2 DEF ScReached, n
<1> QED BY <1>3, <1>4, <1>5, <1>6 DEF n

\* What the function of compiler c takes x from.
LEMMA ScEntry ==
  ASSUME ScTypes, ScNested, ScHomes, NEW x \in Names, ScCaptures(x), NEW c \in ScReached(x)
  PROVE  /\ FreeVarEntry(x, ScFirst(c)) \in ScEntries
         /\ FreeVarEntry(x, ScFirst(c)).name = x
         /\ c - 1 \in ScReached(x) =>
              /\ ~ FreeVarEntry(x, ScFirst(c)).is_local
              /\ FreeVarEntry(x, ScFirst(c)).index = Len(scopes[ScFirst(c - 1)].free_vars)
         /\ c - 1 \notin ScReached(x) =>
              /\ FreeVarEntry(x, ScFirst(c)).is_local
              /\ home[ScStandsFor(x)] = <<compilers[c - 1].fn, FreeVarEntry(x, ScFirst(c)).index>>
<1> DEFINE n == Len(compilers)
           d == decl_idx(x)
           around == {m \in Between(x) : m < ScFirst(c)}
           entry == FreeVarEntry(x, ScFirst(c))
<1>1. /\ c \in 2 .. n /\ ScFirst(c) > d /\ d \in 1 .. (ScFirst(n) - 1) /\ n \in 2 .. n
      /\ d \in 1 .. Len(scopes) /\ x \in DOMAIN scopes[d].slots
      /\ ScStandsFor(x) = env[d][x] /\ x \in DOMAIN env[d]
  BY ScDeclIdx DEF ScReached
<1>2. /\ scopes = compilers[n].scopes /\ Len(scopes) \in Nat
      /\ \A a \in 1 .. n : Len(compilers[a].scopes) \in Nat /\ ScFirst(a) \in Nat \ {0}
  BY ScNow
<1>3. /\ Between(x) = {ScFirst(a) : a \in ScReached(x)}
      /\ \A a, e \in 2 .. n : a < e => ScFirst(a) < ScFirst(e)
  BY ScThrough
<1>4. \A a \in ScReached(x) : a \in 2 .. n /\ a \in 1 .. n /\ ScFirst(a) > d
  BY DEF ScReached
<1>5. entry = IF around = {} THEN [name |-> x, is_local |-> TRUE, index |-> SlotIn(d, x)]
              ELSE [name |-> x, is_local |-> FALSE, index |-> Len(scopes[Max(around)].free_vars)]
  BY DEF FreeVarEntry
<1> HIDE DEF n, d, entry
<1>6. ASSUME c - 1 \in ScReached(x)
      PROVE  /\ entry \in ScEntries /\ entry.name = x /\ ~ entry.is_local
             /\ entry.index = Len(scopes[ScFirst(c - 1)].free_vars)
  <2>1. c - 1 \in 2 .. n /\ c - 1 \in 1 .. n /\ c - 1 < c
    BY <1>1, <1>4, <1>6
  <2>2. ScFirst(c - 1) \in around
    BY <1>1, <1>3, <1>6, <2>1
  <2>3. \A m \in around : m <= ScFirst(c - 1) /\ m \in Nat
    <3> SUFFICES ASSUME NEW m \in around PROVE m <= ScFirst(c - 1) /\ m \in Nat
      OBVIOUS
    <3>1. PICK a \in ScReached(x) : m = ScFirst(a)
      BY <1>3
    <3>2. a \in 2 .. n /\ a \in 1 .. n /\ ScFirst(a) < ScFirst(c)
      BY <3>1, <1>4
    <3>3. ~ (c <= a)
      <4>1. ScFirst(a) \in Nat /\ ScFirst(c) \in Nat
        BY <3>2, <1>1, <1>2
      <4>2. c < a => ScFirst(c) < ScFirst(a)
        BY <3>2, <1>1, <1>3
      <4>3. c # a
        BY <3>2, <4>1
      <4> QED BY <4>1, <4>2, <4>3, <3>2, <1>1
    <3>4. a = c - 1 \/ a < c - 1
      BY <3>2, <3>3, <1>1
    <3>5. ScFirst(a) \in Nat /\ ScFirst(c - 1) \in Nat
      BY <3>2, <2>1, <1>2
    <3>6. a < c - 1 => ScFirst(a) < ScFirst(c - 1)
      BY <3>2, <2>1, <1>3
    <3> QED BY <3>1, <3>4, <3>5, <3>6
  <2>4. Max(around) = ScFirst(c - 1)
    <3>1. ScFirst(c - 1) \in 1 .. Len(scopes) /\ ScFirst(c - 1) \in Nat
      <4>1. ScFirst(c - 1) <= Len(compilers[c - 1].scopes)
        BY <2>1, ScPositions DEF n
      <4>2. Len(compilers[c - 1].scopes) < ScFirst(n)
        BY <2>1, <1>1, ScPositions DEF n
      <4>3. ScFirst(n) <= Len(scopes)
        BY <1>1, <1>2, ScPositions DEF n
      <4>4. n \in 1 .. n
        BY <1>1
      <4> QED BY <4>1, <4>2, <4>3, <4>4, <2>1, <1>2
    <3>2. around \subseteq 0 .. ScFirst(c - 1) /\ around # {}
      BY <2>2, <2>3
    <3> HIDE DEF around
    <3>3. Max(around) \in around /\ \A m \in around : m <= Max(around)
      BY <3>1, <3>2, ScMax
    <3> QED BY <2>2, <2>3, <3>1, <3>3
  <2>5. scopes[ScFirst(c - 1)].free_vars \in Seq(ScEntries)
    <3>1. ScFirst(c - 1) \in 1 .. Len(compilers[n].scopes)
      <4>1. ScFirst(c - 1) <= Len(compilers[c - 1].scopes)
        BY <2>1, ScPositions DEF n
      <4>2. n \in 1 .. Len(compilers) /\ c - 1 < n /\ c - 1 \in 1 .. Len(compilers)
        BY <1>1, <2>1 DEF n
      <4>3. Len(compilers[c - 1].scopes) < Len(compilers[n].scopes)
        BY <4>2, ScPair
      <4> QED BY <4>1, <4>2, <4>3, <2>1, <1>2 DEF n
    <3>2. n \in 1 .. Len(compilers)
      BY <1>1 DEF n
    <3> QED BY <3>1, <3>2, <1>2, ScNow
  <2>6. entry = [name |-> x, is_local |-> FALSE, index |-> Len(scopes[ScFirst(c - 1)].free_vars)]
    BY <1>5, <2>2, <2>4
  <2>7. Len(scopes[ScFirst(c - 1)].free_vars) \in Nat
    BY <2>5, LenProperties
  <2> QED BY <2>6, <2>7 DEF ScEntries
<1>7. ASSUME c - 1 \notin ScReached(x)
      PROVE  /\ entry \in ScEntries /\ entry.name = x /\ entry.is_local
             /\ home[ScStandsFor(x)] = <<compilers[c - 1].fn, entry.index>>
  <2>1. c - 1 \in 1 .. n /\ c \in 1 .. n /\ c - 1 < c
    BY <1>1
  <2>2. ScFirst(c - 1) <= d
    <3>1. CASE c - 1 = 1
      <4>1. ScFirst(c - 1) = 1
        BY <3>1, ScPositions
      <4> QED BY <4>1, <1>1
    <3>2. CASE c - 1 # 1
      <4>1. c - 1 \in 2 .. n
        BY <3>2, <2>1
      <4>2. ~ (ScFirst(c - 1) > d)
        BY <4>1, <1>7 DEF ScReached, n, d
      <4> QED BY <4>2, <2>1, <1>1, <1>2
    <3> QED BY <3>1, <3>2
  <2>3. around = {}
    <3> SUFFICES ASSUME NEW m \in around PROVE FALSE
      OBVIOUS
    <3>1. PICK a \in ScReached(x) : m = ScFirst(a)
      BY <1>3
    <3>2. a \in 2 .. n /\ a \in 1 .. n /\ ScFirst(a) < ScFirst(c) /\ ScFirst(a) > d
      BY <3>1, <1>4
    <3>3. ScFirst(a) \in Nat /\ ScFirst(c) \in Nat /\ ScFirst(c - 1) \in Nat
      BY <3>2, <2>1, <1>2
    <3>4. ~ (c < a) /\ c # a
      BY <3>2, <3>3, <1>1, <1>3
    <3>5. a # c - 1
      BY <1>7
    <3>6. a < c - 1 /\ c - 1 \in 2 .. n
      BY <3>2, <3>4, <3>5, <2>1
    <3>7. ScFirst(a) < ScFirst(c - 1)
      BY <3>2, <3>6, <1>3
    <3> QED BY <3>2, <3>3, <3>7, <2>2, <1>1
  <2>4. ScFirst(c) = Len(compilers[c - 1].scopes) + 1
    BY <1>1, ScPositions DEF n
  <2>5. d \in ScFirst(c - 1) .. Len(compilers[c - 1].scopes)
    BY <2>1, <2>2, <2>4, <1>1, <1>2
  <2>6. /\ DOMAIN env[d] = DOMAIN compilers[c - 1].scopes[d].slots
        /\ home[env[d][x]] = <<compilers[c - 1].fn, compilers[c - 1].scopes[d].slots[x]>>
    <3>1. c - 1 \in 1 .. Len(compilers)
      BY <2>1 DEF n
    <3> QED BY <2>5, <3>1, <1>1, ScHome
  <2>7. compilers[c - 1].scopes[d].slots = scopes[d].slots
    <3>1. c - 1 \in 1 .. Len(compilers) /\ n \in 1 .. Len(compilers) /\ c - 1 < n
      BY <1>1 DEF n
    <3>2. d \in 1 .. Len(compilers[c - 1].scopes)
      BY <2>1, <2>5, <1>1, <1>2
    <3>3. compilers[c - 1].scopes[d].slots = compilers[n].scopes[d].slots
      BY <3>1, <3>2, ScPair
    <3> QED BY <3>3, <1>2
  <2>8. SlotIn(d, x) \in Nat
    BY <1>1, ScSlot DEF SlotIn
  <2>9. entry = [name |-> x, is_local |-> TRUE, index |-> SlotIn(d, x)]
    BY <1>5, <2>3
  <2>10. entry \in ScEntries /\ entry.name = x /\ entry.is_local /\ entry.index = SlotIn(d, x)
    BY <2>8, <2>9 DEF ScEntries
  <2> QED BY <2>6, <2>7, <2>10, <1>1 DEF SlotIn
<1> QED BY <1>6, <1>7 DEF entry

\* The compiler that has captured x.
ScTaken(x) == [Now EXCEPT !.scopes = Capturing(x)]

LEMMA ScTakenIs ==
  ASSUME ScTypes, ScNested, ScHomes, NEW x \in Names, ScCaptures(x)
  PROVE  /\ ScTaken(x) \in ScCompilers /\ ScTaken(x).fn = Now.fn
         /\ ScTaken(x).func_local_count = Now.func_local_count
         /\ ScTaken(x).scopes \in Seq(ScScopes) /\ Len(ScTaken(x).scopes) = Len(scopes)
         /\ \A i \in 1 .. Len(scopes) :
              /\ ScTaken(x).scopes[i].slots = scopes[i].slots
              /\ ScTaken(x).scopes[i].is_function <=> scopes[i].is_function
              /\ i \notin Between(x) => ScTaken(x).scopes[i].free_vars = scopes[i].free_vars
              /\ i \in Between(x) =>
                   ScTaken(x).scopes[i].free_vars = Append(scopes[i].free_vars, FreeVarEntry(x, i))
<1> DEFINE L == Len(scopes)
           e == ScTaken(x)
<1>1. /\ scopes \in Seq(ScScopes) /\ L \in Nat /\ DOMAIN scopes = 1 .. L
      /\ Now \in ScCompilers /\ scopes = Now.scopes /\ \A i \in 1 .. L : scopes[i] \in ScScopes
  BY ScNow, LenProperties, ElementOfSeq DEF scopes
<1>2. ASSUME NEW i \in Between(x) PROVE FreeVarEntry(x, i) \in ScEntries
  <2>1. PICK c \in ScReached(x) : i = ScFirst(c)
    BY ScThrough
  <2> QED BY <2>1, ScEntry
<1> DEFINE Now2(i) == IF i \in Between(x) THEN [scopes[i] EXCEPT !.free_vars = Append(@, FreeVarEntry(x, i))]
                      ELSE scopes[i]
<1>3. ASSUME NEW i \in 1 .. L
      PROVE  /\ Now2(i) \in ScScopes /\ Now2(i).slots = scopes[i].slots
             /\ Now2(i).is_function <=> scopes[i].is_function
             /\ i \notin Between(x) => Now2(i).free_vars = scopes[i].free_vars
             /\ i \in Between(x) => Now2(i).free_vars = Append(scopes[i].free_vars, FreeVarEntry(x, i))
  <2>1. scopes[i] \in ScScopes /\ scopes[i].free_vars \in Seq(ScEntries)
    BY <1>1 DEF ScScopes
  <2>2. CASE i \in Between(x)
    <3>1. Append(scopes[i].free_vars, FreeVarEntry(x, i)) \in Seq(ScEntries)
      BY <2>1, <2>2, <1>2, ScAppend
    <3> QED BY <2>1, <2>2, <3>1 DEF ScScopes
  <2>3. CASE i \notin Between(x)
    BY <2>1, <2>3
  <2> QED BY <2>2, <2>3
<1>4. Capturing(x) = [i \in 1 .. L |-> Now2(i)]
  BY <1>1 DEF Capturing
<1> HIDE DEF Now2, L
<1>5. /\ Capturing(x) \in Seq(ScScopes) /\ Len(Capturing(x)) = L
      /\ \A i \in 1 .. L : Capturing(x)[i] = Now2(i)
  <2>1. Capturing(x) \in [1 .. L -> ScScopes]
    BY <1>3, <1>4
  <2>2. Capturing(x) \in Seq(ScScopes)
    BY <1>1, <2>1, SeqDef
  <2>3. DOMAIN Capturing(x) = 1 .. L
    BY <1>4
  <2>4. Len(Capturing(x)) = L
    BY <1>1, <2>2, <2>3, ScLen
  <2> QED BY <2>2, <2>4, <1>4
<1>6. /\ e \in ScCompilers /\ e.fn = Now.fn /\ e.func_local_count = Now.func_local_count
      /\ e.scopes = Capturing(x)
  BY <1>1, <1>5 DEF ScCompilers, ScTaken
<1> HIDE DEF e
<1> QED BY <1>3, <1>5, <1>6 DEF e, L

LEMMA ScTakenBecomes ==
  ASSUME ScIInv, NEW x \in Names, ScCaptures(x), compilers' = WithLast(compilers, ScTaken(x)),
         UNCHANGED <<sources, parent, env, home, blocks>>,
         looked_up' \subseteq ScReferences, repeated' \in BOOLEAN, ~repeated' => ~repeated
  PROVE  ScBecomes(ScTaken(x)) /\ ScTypes' /\ ScNested' /\ ScHomes'
<1> DEFINE n == Len(compilers)
           e == ScTaken(x)
<1>1. ScTypes /\ ScNested /\ ScHomes
  BY Zenon DEF ScIInv
<1>2. /\ e \in ScCompilers /\ e.fn = Now.fn
      /\ e.func_local_count = Now.func_local_count
      /\ e.scopes \in Seq(ScScopes) /\ Len(e.scopes) = Len(scopes)
      /\ \A i \in 1 .. Len(scopes) :
           /\ e.scopes[i].slots = scopes[i].slots
           /\ e.scopes[i].is_function <=> scopes[i].is_function
  BY <1>1, ScTakenIs
<1> HIDE DEF e
<1>3. env \in Seq(ScNames) /\ Len(env) = Len(scopes) /\ home \in Seq(Nat \X Nat) /\ Len(home) \in Nat
      /\ blocks \in 0 .. MaxBlocks
  BY <1>1, LenProperties DEF ScTypes, ScHomes
<1>4. /\ n \in 1 .. n /\ Now = compilers[n] /\ Len(scopes) \in Nat /\ scopes = compilers[n].scopes
  BY <1>1, ScNow
<1>5. ScFirst(Len(compilers)) \in 1 .. Len(scopes)
  BY <1>1, ScDeclIdx
<1>6. ScBecomes(e)
  <2>1. e \in ScCompilers /\ e.fn = Now.fn /\ compilers' = WithLast(compilers, e) /\ UNCHANGED <<parent, sources>>
    BY <1>2 DEF e
  <2>2. Len(compilers) > 1 => ScFirst(Len(compilers)) <= Len(e.scopes)
    BY <1>2, <1>4, <1>5
  <2>3. \A i \in 1 .. Len(e.scopes) :
          /\ e.scopes[i].is_function <=> i \in 1 .. Len(scopes) /\ scopes[i].is_function
          /\ i < ScFirst(Len(compilers)) => e.scopes[i].slots = scopes[i].slots
    BY <1>2
  <2>4. /\ env' \in Seq(ScNames) /\ Len(env') = Len(e.scopes)
        /\ \A i \in 1 .. (ScFirst(Len(compilers)) - 1) : env'[i] = env[i]
        /\ home' \in Seq(Nat \X Nat) /\ Len(home) <= Len(home') /\ blocks' \in 0 .. MaxBlocks
        /\ \A v \in 1 .. Len(home) : home'[v] = home[v]
    BY <1>2, <1>3
  <2> QED BY <2>1, <2>2, <2>3, <2>4, Zenon DEF ScBecomes
<1>7. ASSUME NEW i \in ScFirst(Len(compilers)) .. Len(e.scopes)
      PROVE  /\ DOMAIN env'[i] = DOMAIN e.scopes[i].slots
             /\ \A y \in DOMAIN env'[i] :
                  /\ env'[i][y] \in 1 .. Len(home')
                  /\ home'[env'[i][y]] = <<Now.fn, e.scopes[i].slots[y]>>
  <2>1. i \in ScFirst(n) .. Len(compilers[n].scopes) /\ n \in 1 .. Len(compilers) /\ i \in 1 .. Len(scopes)
    BY <1>2, <1>4, <1>5
  <2>2. /\ DOMAIN env[i] = DOMAIN compilers[n].scopes[i].slots
        /\ \A y \in DOMAIN env[i] :
             /\ env[i][y] \in 1 .. Len(home)
             /\ home[env[i][y]] = <<compilers[n].fn, compilers[n].scopes[i].slots[y]>>
    BY <1>1, <2>1, ScHome
  <2>3. e.scopes[i].slots = compilers[n].scopes[i].slots
    BY <2>1, <1>2, <1>4
  <2> QED BY <2>2, <2>3, <1>4
<1>8. ASSUME NEW v \in 1 .. Len(home')
      PROVE  /\ v \in 1 .. Len(home) \/ home'[v][1] = Now.fn
             /\ home'[v][1] = Now.fn => home'[v][2] < e.func_local_count
  BY <1>1, <1>2, <1>4 DEF ScHomes
<1>9. SlotsAreOwn'
  BY <1>1 DEF ScHomes, SlotsAreOwn
<1>10. ScTypes' /\ ScNested'
  BY <1>1, <1>6, ScBecome, ScBecomeNested
<1>11. ScHomes'
  BY <1>1, <1>6, <1>7, <1>8, <1>9, ScBecomeHomes
<1> QED BY <1>6, <1>10, <1>11 DEF e

LEMMA ScTakenGrown ==
  ASSUME ScTypes, ScNested, ScHomes, ScGrown, NEW x \in Names, ScCaptures(x), ScBecomes(ScTaken(x)),
         \A m \in Between(x) : ~ Captures(m, x)
  PROVE  ScGrown'
<1> DEFINE n == Len(compilers)
           e == ScTaken(x)
<1>1. /\ n \in 1 .. n /\ scopes = compilers[n].scopes /\ Len(scopes) \in Nat /\ n \in Nat
      /\ \A c \in 1 .. n : Len(compilers[c].scopes) \in Nat
  BY ScNow
<1>2. /\ Len(compilers') = n /\ \A c \in 1 .. (n - 1) : compilers'[c] = compilers[c]
      /\ compilers'[n] = e
  BY ScBecome
<1>3. /\ Len(e.scopes) = Len(scopes)
      /\ \A i \in 1 .. Len(scopes) :
           /\ i \notin Between(x) => e.scopes[i].free_vars = scopes[i].free_vars
           /\ i \in Between(x) => e.scopes[i].free_vars = Append(scopes[i].free_vars, FreeVarEntry(x, i))
  BY ScTakenIs
<1> HIDE DEF e, n
<1>4. ASSUME NEW i \in 1 .. Len(scopes)
      PROVE  /\ scopes[i].free_vars \in Seq(ScEntries) /\ Len(scopes[i].free_vars) \in Nat
             /\ Len(scopes[i].free_vars) <= Len(e.scopes[i].free_vars)
             /\ \A k \in 1 .. Len(scopes[i].free_vars) : e.scopes[i].free_vars[k] = scopes[i].free_vars[k]
             /\ \A j, k \in 1 .. Len(e.scopes[i].free_vars) :
                  e.scopes[i].free_vars[j].name = e.scopes[i].free_vars[k].name => j = k
  <2> DEFINE list == scopes[i].free_vars
  <2>1. list \in Seq(ScEntries) /\ Len(list) \in Nat /\ DOMAIN list = 1 .. Len(list)
    <3>1. n \in 1 .. Len(compilers) /\ i \in 1 .. Len(compilers[n].scopes)
      BY <1>1 DEF n
    <3>2. compilers[n].scopes[i].free_vars \in Seq(ScEntries)
      BY <3>1, ScNow
    <3> QED BY <3>2, <1>1, LenProperties
  <2>2. \A j, k \in 1 .. Len(list) : list[j].name = list[k].name => j = k
    <3>1. n \in 1 .. Len(compilers) /\ i \in 1 .. Len(compilers[n].scopes)
      BY <1>1 DEF n
    <3>2. \A j, k \in 1 .. Len(compilers[n].scopes[i].free_vars) :
            compilers[n].scopes[i].free_vars[j].name = compilers[n].scopes[i].free_vars[k].name => j = k
      BY <3>1, ScDistinct
    <3> QED BY <3>2, <1>1
  <2>3. CASE i \notin Between(x)
    <3>1. e.scopes[i].free_vars = list
      BY <2>3, <1>3
    <3>2. Len(list) <= Len(list)
      BY <2>1
    <3> QED BY <2>1, <2>2, <3>1, <3>2, Zenon
  <2>4. CASE i \in Between(x)
    <3> DEFINE entry == FreeVarEntry(x, i)
    <3>1. entry \in ScEntries /\ entry.name = x
      <4>1. PICK c \in ScReached(x) : i = ScFirst(c)
        BY <2>4, ScThrough
      <4> QED BY <4>1, ScEntry
    <3>2. \A k \in 1 .. Len(list) : list[k].name # x
      BY <2>1, <2>4 DEF Captures
    <3>3. e.scopes[i].free_vars = Append(list, entry)
      BY <2>4, <1>3
    <3> HIDE DEF entry, list
    <3>4. /\ Len(Append(list, entry)) = Len(list) + 1
          /\ \A k \in 1 .. Len(list) : Append(list, entry)[k] = list[k]
          /\ Append(list, entry)[Len(list) + 1] = entry
      BY <2>1, <3>1, ScAppend
    <3>5. \A k \in 1 .. (Len(list) + 1) : k \in 1 .. Len(list) \/ k = Len(list) + 1
      BY <2>1
    <3>6. \A j, k \in 1 .. (Len(list) + 1) :
            Append(list, entry)[j].name = Append(list, entry)[k].name => j = k
      BY <2>2, <3>1, <3>2, <3>4, <3>5
    <3> QED BY <2>1, <3>3, <3>4, <3>6 DEF list
  <2> QED BY <2>3, <2>4
<1>5. ASSUME NEW c \in 1 .. n, NEW i \in 1 .. Len(compilers'[c].scopes),
             NEW j \in 1 .. Len(compilers'[c].scopes[i].free_vars),
             NEW k \in 1 .. Len(compilers'[c].scopes[i].free_vars),
             compilers'[c].scopes[i].free_vars[j].name = compilers'[c].scopes[i].free_vars[k].name
      PROVE  j = k
  <2>1. CASE c # n
    <3>1. c \in 1 .. (n - 1)
      BY <2>1, <1>1
    <3>2. compilers'[c] = compilers[c]
      BY <3>1, <1>2
    <3> QED BY <3>2, <1>5, ScDistinct DEF n
  <2>2. CASE c = n
    BY <2>2, <1>2, <1>3, <1>4, <1>5
  <2> QED BY <2>1, <2>2
<1>6. ASSUME NEW c \in 1 .. n, NEW d \in 1 .. n, c < d, NEW i \in 1 .. Len(compilers'[c].scopes)
      PROVE  /\ Len(compilers'[c].scopes[i].free_vars) <= Len(compilers'[d].scopes[i].free_vars)
             /\ \A k \in 1 .. Len(compilers'[c].scopes[i].free_vars) :
                  compilers'[d].scopes[i].free_vars[k] = compilers'[c].scopes[i].free_vars[k]
  <2>1. c \in 1 .. (n - 1) /\ compilers'[c] = compilers[c] /\ i \in 1 .. Len(compilers[c].scopes)
    <3>1. c \in 1 .. (n - 1)
      BY <1>1, <1>6
    <3> QED BY <3>1, <1>2
  <2>2. /\ Len(compilers[c].scopes[i].free_vars) <= Len(compilers[d].scopes[i].free_vars)
        /\ \A k \in 1 .. Len(compilers[c].scopes[i].free_vars) :
             compilers[d].scopes[i].free_vars[k] = compilers[c].scopes[i].free_vars[k]
    BY <1>6, <2>1, ScLonger DEF n
  <2>3. Len(compilers[c].scopes[i].free_vars) \in Nat
    BY <2>1, ScNow DEF n
  <2>4. CASE d # n
    <3>1. d \in 1 .. (n - 1)
      BY <2>4, <1>1
    <3>2. compilers'[d] = compilers[d]
      BY <3>1, <1>2
    <3> QED BY <2>1, <2>2, <3>2
  <2>5. CASE d = n
    <3>1. Len(compilers[c].scopes) < Len(compilers[n].scopes)
      BY <1>1, <1>6, <2>5, ScPair DEF n
    <3>2. i \in 1 .. Len(scopes)
      BY <3>1, <2>1, <1>1
    <3>3. compilers'[d].scopes[i].free_vars = e.scopes[i].free_vars
      BY <2>5, <1>2
    <3>4. compilers[d].scopes[i].free_vars = scopes[i].free_vars
      BY <2>5, <1>1
    <3>5. /\ Len(scopes[i].free_vars) \in Nat
          /\ Len(scopes[i].free_vars) <= Len(e.scopes[i].free_vars)
          /\ \A k \in 1 .. Len(scopes[i].free_vars) : e.scopes[i].free_vars[k] = scopes[i].free_vars[k]
      BY <3>2, <1>4
    <3>6. Len(e.scopes[i].free_vars) \in Nat
      <4>1. e.scopes[i].free_vars \in Seq(ScEntries)
        <5>1. e.scopes \in Seq(ScScopes) /\ i \in 1 .. Len(e.scopes)
          BY <3>2, <1>3, ScTakenIs DEF e
        <5>2. e.scopes[i] \in ScScopes
          BY <5>1, ElementOfSeq
        <5> QED BY <5>2 DEF ScScopes
      <4> QED BY <4>1, LenProperties
    <3>7. Len(compilers[c].scopes[i].free_vars) <= Len(e.scopes[i].free_vars)
      <4> DEFINE was == Len(compilers[c].scopes[i].free_vars)
                 mine == Len(scopes[i].free_vars)
                 new == Len(e.scopes[i].free_vars)
      <4>1. was <= mine
        BY <2>2, <3>4
      <4>2. was \in Nat /\ mine \in Nat /\ new \in Nat /\ mine <= new
        BY <2>3, <3>5, <3>6
      <4> HIDE DEF was, mine, new
      <4>3. was <= new
        BY <4>1, <4>2
      <4> QED BY <4>3 DEF was, new
    <3>8. \A k \in 1 .. Len(compilers[c].scopes[i].free_vars) :
            e.scopes[i].free_vars[k] = compilers[c].scopes[i].free_vars[k]
      <4>1. \A k \in 1 .. Len(compilers[c].scopes[i].free_vars) : k \in 1 .. Len(scopes[i].free_vars)
        BY <2>2, <2>3, <3>4, <3>5
      <4>2. \A k \in 1 .. Len(compilers[c].scopes[i].free_vars) :
              scopes[i].free_vars[k] = compilers[c].scopes[i].free_vars[k]
        BY <2>2, <3>4, Zenon
      <4> QED BY <4>1, <4>2, <3>5, Zenon
    <3> QED BY <2>1, <3>3, <3>7, <3>8, Zenon
  <2> QED BY <2>4, <2>5
<1> QED BY <1>2, <1>5, <1>6 DEF ScGrown

\* Captures are added; what the others stand for does not change.
ScMore(M, M2) == DOMAIN M \subseteq DOMAIN M2 /\ \A p \in DOMAIN M : M2[p] = M[p]

LEMMA ScLinkedMore ==
  ASSUME NEW M, NEW M2, ScMore(M, M2), NEW around, NEW place, NEW f, NEW k, NEW entry,
         ScLinked(M, around, place, f, k, entry), <<f, k>> \in DOMAIN M
  PROVE  ScLinked(M2, around, place, f, k, entry)
BY DEF ScLinked, ScMore

LEMMA ScCapturingMore ==
  ASSUME NEW M, NEW M2, ScMore(M, M2), NEW around, NEW place, NEW f, NEW E, NEW list \in Seq(E), NEW envs,
         NEW b, ScCapturing(M, around, place, f, list, envs, b),
         \A k \in Nat : <<f, k>> \in DOMAIN M2 => <<f, k>> \in DOMAIN M
  PROVE  ScCapturing(M2, around, place, f, list, envs, b)
<1>1. Len(list) \in Nat
  BY LenProperties
<1>2. /\ \A k \in Nat : <<f, k>> \in DOMAIN M <=> k < Len(list)
      /\ \A k \in 1 .. Len(list) :
           /\ ScLinked(M, around, place, f, k - 1, list[k])
           /\ \E i \in 1 .. (b - 1) :
                ScInnermost(envs, i, list[k].name, b) /\ M[<<f, k - 1>>] = envs[i][list[k].name]
  BY Zenon DEF ScCapturing
<1>3. \A k \in Nat : <<f, k>> \in DOMAIN M2 <=> k < Len(list)
  BY <1>2 DEF ScMore
<1>4. ASSUME NEW k \in 1 .. Len(list)
      PROVE  /\ ScLinked(M2, around, place, f, k - 1, list[k])
             /\ \E i \in 1 .. (b - 1) :
                  ScInnermost(envs, i, list[k].name, b) /\ M2[<<f, k - 1>>] = envs[i][list[k].name]
  <2>1. k - 1 \in Nat /\ k - 1 < Len(list)
    BY <1>1
  <2>2. <<f, k - 1>> \in DOMAIN M
    BY <1>2, <2>1
  <2>3. ScLinked(M2, around, place, f, k - 1, list[k])
    BY <1>2, <2>2, ScLinkedMore
  <2>4. M2[<<f, k - 1>>] = M[<<f, k - 1>>]
    BY <2>2 DEF ScMore
  <2> QED BY <1>2, <2>3, <2>4
<1> QED BY <1>3, <1>4 DEF ScCapturing

LEMMA ScCapturingAppend ==
  ASSUME NEW M, NEW M2, ScMore(M, M2), NEW around, NEW place, NEW f, NEW E, NEW list \in Seq(E), NEW envs,
         NEW b, ScCapturing(M, around, place, f, list, envs, b), NEW entry \in E,
         \A k \in Nat : <<f, k>> \in DOMAIN M2 <=> <<f, k>> \in DOMAIN M \/ k = Len(list),
         ScLinked(M2, around, place, f, Len(list), entry),
         NEW d \in 1 .. (b - 1), ScInnermost(envs, d, entry.name, b),
         M2[<<f, Len(list)>>] = envs[d][entry.name]
  PROVE  ScCapturing(M2, around, place, f, Append(list, entry), envs, b)
<1>1. Len(list) \in Nat
  BY LenProperties
<1>2. /\ \A k \in Nat : <<f, k>> \in DOMAIN M <=> k < Len(list)
      /\ \A k \in 1 .. Len(list) :
           /\ ScLinked(M, around, place, f, k - 1, list[k])
           /\ \E i \in 1 .. (b - 1) :
                ScInnermost(envs, i, list[k].name, b) /\ M[<<f, k - 1>>] = envs[i][list[k].name]
  BY Zenon DEF ScCapturing
<1> DEFINE new == Append(list, entry)
<1>3. /\ Len(new) = Len(list) + 1 /\ \A k \in 1 .. Len(list) : new[k] = list[k]
      /\ new[Len(list) + 1] = entry
  BY ScAppend
<1> HIDE DEF new
<1>4. \A k \in Nat : <<f, k>> \in DOMAIN M2 <=> k < Len(new)
  <2> SUFFICES ASSUME NEW k \in Nat PROVE (k < Len(list) \/ k = Len(list)) <=> k < Len(list) + 1
    BY <1>2, <1>3
  <2> QED BY <1>1
<1>5. ASSUME NEW k \in 1 .. Len(new)
      PROVE  /\ ScLinked(M2, around, place, f, k - 1, new[k])
             /\ \E i \in 1 .. (b - 1) :
                  ScInnermost(envs, i, new[k].name, b) /\ M2[<<f, k - 1>>] = envs[i][new[k].name]
  <2>1. CASE k \in 1 .. Len(list)
    <3>1. k - 1 \in Nat /\ k - 1 < Len(list)
      BY <1>1, <2>1
    <3>2. <<f, k - 1>> \in DOMAIN M
      BY <1>2, <3>1
    <3>3. ScLinked(M2, around, place, f, k - 1, list[k])
      BY <1>2, <2>1, <3>2, ScLinkedMore
    <3>4. M2[<<f, k - 1>>] = M[<<f, k - 1>>]
      BY <3>2 DEF ScMore
    <3> QED BY <1>2, <1>3, <2>1, <3>3, <3>4
  <2>2. CASE k = Len(list) + 1
    <3>1. new[k] = entry /\ k - 1 = Len(list)
      BY <2>2, <1>1, <1>3
    <3> QED BY <3>1
  <2>3. k \in 1 .. Len(list) \/ k = Len(list) + 1
    BY <1>1, <1>3
  <2> QED BY <2>1, <2>2, <2>3
<1> QED BY <1>4, <1>5 DEF ScCapturing, new

LEMMA ScTakenMeanings ==
  ASSUME ScTypes, ScNested, ScHomes, NEW x \in Names, ScCaptures(x), ScBecomes(ScTaken(x)),
         UNCHANGED <<env, home>>, NEW M, ScMeanings(M),
         \A r \in looked_up' : r \in looked_up \/
           /\ r.fn = Now.fn /\ r.index = Len(scopes[ScFirst(Len(compilers))].free_vars)
           /\ r.meant = ScStandsFor(x)
  PROVE  \E M2 : ScMeanings(M2)'
<1> DEFINE n == Len(compilers)
           e == ScTaken(x)
           v == ScStandsFor(x)
           CC == ScReached(x)
           fn(c) == compilers[c].fn
           list(c) == scopes[ScFirst(c)].free_vars
           P == {<<fn(c), Len(list(c))>> : c \in CC}
           Next2 == [p \in DOMAIN M \cup P |-> IF p \in DOMAIN M THEN M[p] ELSE v]
<1>1. /\ n \in Nat \ {0} /\ Now = compilers[n] /\ scopes = compilers[n].scopes /\ Len(scopes) \in Nat
      /\ \A c \in 1 .. n : Len(compilers[c].scopes) \in Nat /\ ScFirst(c) \in Nat \ {0} /\ fn(c) \in Nat
  BY ScNow
<1>2. /\ Len(compilers') = n /\ scopes' = e.scopes
      /\ \A c \in 1 .. n : ScFirst(c)' = ScFirst(c) /\ compilers'[c].fn = fn(c)
  BY ScBecome
<1>3. /\ Len(e.scopes) = Len(scopes)
      /\ \A i \in 1 .. Len(scopes) :
           /\ i \notin Between(x) => e.scopes[i].free_vars = scopes[i].free_vars
           /\ i \in Between(x) => e.scopes[i].free_vars = Append(scopes[i].free_vars, FreeVarEntry(x, i))
  BY ScTakenIs
<1>4. /\ n \in 2 .. n /\ decl_idx(x) \in 1 .. Len(scopes)
      /\ x \in DOMAIN env[decl_idx(x)] /\ v = env[decl_idx(x)][x] /\ v \in 1 .. Len(home)
      /\ \A j \in (decl_idx(x) + 1) .. Len(scopes) : x \notin DOMAIN env[j]
  BY ScDeclIdx
<1>5. /\ Between(x) = {ScFirst(c) : c \in CC} /\ n \in CC
      /\ \A c \in 2 .. n : ScFirst(c) \in Between(x) => c \in CC
  BY ScThrough
<1>6. /\ \A p \in DOMAIN M : p \in (1 .. Len(parent)) \X Nat /\ M[p] \in 1 .. Len(home)
      /\ \A c \in 2 .. n : ScUnderWay(M, c)
      /\ \A f \in 1 .. Len(parent) :
           (\A c \in 1 .. n : compilers[c].fn # f) => ScComplete(M, f)
      /\ \A r \in looked_up : r.kind = "Free" =>
           <<r.fn, r.index>> \in DOMAIN M /\ M[<<r.fn, r.index>>] = r.meant
  BY DEF ScMeanings
<1>7. \A c \in CC : c \in 2 .. n /\ c \in 1 .. n /\ ScFirst(c) > decl_idx(x)
  BY DEF ScReached
<1>8. ASSUME NEW c \in 2 .. n
      PROVE  /\ list(c) \in Seq(ScEntries) /\ Len(list(c)) \in Nat /\ ScFirst(c) \in 1 .. Len(scopes)
             /\ \A k \in Nat : <<fn(c), k>> \in DOMAIN M <=> k < Len(list(c))
             /\ ScCapturing(M, parent[fn(c)], home, fn(c), list(c), env, ScFirst(c))
             /\ fn(c) \in 1 .. Len(parent) /\ parent[fn(c)] = fn(c - 1)
  <2>1. c \in 1 .. Len(compilers) /\ n \in 1 .. Len(compilers)
    BY <1>1
  <2>2. ScFirst(c) \in 1 .. Len(scopes)
    <3>1. c = n \/ c < n
      BY <1>1
    <3>2. ScFirst(c) <= Len(compilers[c].scopes)
      BY ScPositions
    <3>3. c < n => Len(compilers[c].scopes) < Len(compilers[n].scopes)
      BY <2>1, ScPair
    <3> QED BY <3>1, <3>2, <3>3, <2>1, <1>1
  <2>3. scopes[ScFirst(c)].free_vars \in Seq(ScEntries)
    <3>1. ScFirst(c) \in 1 .. Len(compilers[n].scopes)
      BY <2>2, <1>1
    <3>2. compilers[n].scopes[ScFirst(c)].free_vars \in Seq(ScEntries)
      BY <2>1, <3>1, ScNow
    <3> QED BY <3>2, <1>1
  <2>4. ScCapturing(M, parent[fn(c)], home, fn(c), list(c), env, ScFirst(c))
    BY <1>6, Zenon DEF ScUnderWay
  <2>5. \A k \in Nat : <<fn(c), k>> \in DOMAIN M <=> k < Len(list(c))
    BY <2>4, Zenon DEF ScCapturing
  <2>6. fn(c) \in 1 .. Len(parent) /\ parent[fn(c)] = fn(c - 1)
    BY ScParent
  <2> QED BY <2>2, <2>3, <2>4, <2>5, <2>6, LenProperties
<1>9. \A c, d \in 1 .. n : fn(c) = fn(d) => c = d
  <2> TAKE c, d \in 1 .. n
  <2>0. fn(c) \in Nat /\ fn(d) \in Nat /\ c \in Nat /\ d \in Nat
    BY <1>1
  <2>1. c < d => fn(c) < fn(d)
    BY ScPair
  <2>2. d < c => fn(d) < fn(c)
    BY ScPair
  <2> HIDE DEF fn
  <2> QED BY <2>0, <2>1, <2>2
<1> HIDE DEF n, e, v
<1>10. \A c \in CC : <<fn(c), Len(list(c))>> \notin DOMAIN M
  <2> SUFFICES ASSUME NEW c \in CC PROVE <<fn(c), Len(list(c))>> \notin DOMAIN M
    OBVIOUS
  <2>1. Len(list(c)) \in Nat /\ \A k \in Nat : <<fn(c), k>> \in DOMAIN M <=> k < Len(list(c))
    BY <1>7, <1>8
  <2> HIDE DEF fn, list
  <2>2. ~ (Len(list(c)) < Len(list(c)))
    BY <2>1
  <2> QED BY <2>1, <2>2
<1> HIDE DEF fn, list, CC
<1>11. PICK M2 : ScMore(M, M2) /\ DOMAIN M2 = DOMAIN M \cup P /\ \A p \in P : M2[p] = v
  <2>1. \A p \in P : p \notin DOMAIN M
    BY <1>10
  <2> HIDE DEF P
  <2>2. ScMore(M, Next2) /\ DOMAIN Next2 = DOMAIN M \cup P /\ \A p \in P : Next2[p] = v
    BY <2>1 DEF ScMore
  <2> HIDE DEF Next2
  <2> QED BY <2>2
<1> HIDE DEF Next2
<1>12. \A p \in DOMAIN M2 : p \in (1 .. Len(parent)) \X Nat /\ M2[p] \in 1 .. Len(home)
  <2>1. \A p \in P : p \in (1 .. Len(parent)) \X Nat
    BY <1>7, <1>8
  <2> HIDE DEF P
  <2> QED BY <2>1, <1>4, <1>6, <1>11 DEF ScMore
<1>13. \A c \in CC : <<fn(c), Len(list(c))>> \in P
  OBVIOUS
<1>14. ASSUME NEW c \in 2 .. n, NEW k, <<fn(c), k>> \in P PROVE c \in CC /\ k = Len(list(c))
  <2>1. PICK d \in CC : <<fn(c), k>> = <<fn(d), Len(list(d))>>
    BY <1>14
  <2>2. c \in 1 .. n /\ d \in 1 .. n /\ fn(c) = fn(d) /\ k = Len(list(d))
    BY <2>1, <1>7
  <2>3. c = d
    BY <2>2, <1>9
  <2> QED BY <2>2, <2>3
<1>15. ASSUME NEW c \in 2 .. n PROVE ScUnderWay(M2, c)'
  <2>1. /\ list(c) \in Seq(ScEntries) /\ Len(list(c)) \in Nat /\ ScFirst(c) \in 1 .. Len(scopes)
        /\ \A k \in Nat : <<fn(c), k>> \in DOMAIN M <=> k < Len(list(c))
        /\ ScCapturing(M, parent[fn(c)], home, fn(c), list(c), env, ScFirst(c))
        /\ fn(c) \in 1 .. Len(parent) /\ parent[fn(c)] = fn(c - 1)
    BY <1>8
  <2>2. c \in 1 .. n /\ c - 1 \in 1 .. n
    BY <1>1
  <2> DEFINE new == e.scopes[ScFirst(c)].free_vars
             b == ScFirst(c)
  <2>3. ScCapturing(M2, parent[fn(c)], home, fn(c), new, env, b)
    <3>1. CASE c \notin CC
      <4>1. b \notin Between(x)
        BY <3>1, <1>5
      <4>2. new = list(c)
        BY <4>1, <2>1, <1>3 DEF list
      <4>3. \A k \in Nat : <<fn(c), k>> \in DOMAIN M2 => <<fn(c), k>> \in DOMAIN M
        BY <3>1, <1>11, <1>14
      <4> HIDE DEF new, b, P
      <4>4. ScCapturing(M, parent[fn(c)], home, fn(c), list(c), env, b)
        BY <2>1 DEF b
      <4>5. ScCapturing(M2, parent[fn(c)], home, fn(c), list(c), env, b)
        BY <4>3, <4>4, <2>1, <1>11, ScCapturingMore
      <4> QED BY <4>2, <4>5
    <3>2. CASE c \in CC
      <4> DEFINE entry == FreeVarEntry(x, b)
      <4>1. new = Append(list(c), entry)
        <5>1. b \in Between(x) /\ b \in 1 .. Len(scopes)
          BY <3>2, <1>5, <2>1
        <5> QED BY <5>1, <1>3 DEF list
      <4>2. /\ entry \in ScEntries /\ entry.name = x
            /\ c - 1 \in CC => ~ entry.is_local /\ entry.index = Len(list(c - 1))
            /\ c - 1 \notin CC => entry.is_local /\ home[v] = <<fn(c - 1), entry.index>>
        BY <3>2, ScEntry DEF CC, v, fn, list
      <4> HIDE DEF entry, new, b
      <4>3. <<fn(c), Len(list(c))>> \in DOMAIN M2 /\ M2[<<fn(c), Len(list(c))>>] = v
        BY <3>2, <1>11, <1>13
      <4>4. ScLinked(M2, parent[fn(c)], home, fn(c), Len(list(c)), entry)
        <5>1. CASE c - 1 \in CC
          <6>1. <<fn(c - 1), Len(list(c - 1))>> \in DOMAIN M2 /\ M2[<<fn(c - 1), Len(list(c - 1))>>] = v
            BY <5>1, <1>11, <1>13
          <6> QED BY <5>1, <6>1, <4>2, <4>3, <2>1 DEF ScLinked
        <5>2. CASE c - 1 \notin CC
          BY <5>2, <4>2, <4>3, <2>1 DEF ScLinked
        <5> QED BY <5>1, <5>2
      <4>5. \A k \in Nat : <<fn(c), k>> \in DOMAIN M2 <=> <<fn(c), k>> \in DOMAIN M \/ k = Len(list(c))
        BY <4>3, <1>11, <1>14
      <4>6. decl_idx(x) \in 1 .. (b - 1) /\ ScInnermost(env, decl_idx(x), x, b)
        <5>1. b > decl_idx(x) /\ b \in 1 .. Len(scopes)
          BY <3>2, <1>7, <2>1 DEF b
        <5>2. \A j \in (decl_idx(x) + 1) .. (b - 1) : j \in (decl_idx(x) + 1) .. Len(scopes)
          BY <5>1, <1>1, <1>4
        <5>3. decl_idx(x) \in 1 .. (b - 1)
          BY <5>1, <1>4
        <5> QED BY <5>2, <5>3, <1>4 DEF ScInnermost
      <4>7. M2[<<fn(c), Len(list(c))>>] = env[decl_idx(x)][entry.name] /\ ScInnermost(env, decl_idx(x), entry.name, b)
        BY <4>2, <4>3, <4>6, <1>4
      <4>8. ScCapturing(M, parent[fn(c)], home, fn(c), list(c), env, b)
        BY <2>1 DEF b
      <4> HIDE DEF P
      <4>9. ScCapturing(M2, parent[fn(c)], home, fn(c), Append(list(c), entry), env, b)
        BY <4>2, <4>4, <4>5, <4>6, <4>7, <4>8, <2>1, <1>11, ScCapturingAppend
      <4> QED BY <4>1, <4>9
    <3> QED BY <3>1, <3>2
  <2>4. parent' = parent
    BY DEF ScBecomes
  <2>5. /\ compilers'[c].fn = fn(c) /\ ScFirst(c)' = b /\ scopes'[ScFirst(c)'].free_vars = new
        /\ parent'[compilers'[c].fn] = parent[fn(c)]
    BY <1>2, <2>2, <2>4
  <2> HIDE DEF new, b
  <2>6. ScCapturing(M2, parent'[compilers'[c].fn], home', compilers'[c].fn, scopes'[ScFirst(c)'].free_vars,
                    env', ScFirst(c)')
    BY <2>3, <2>5
  <2> QED BY <2>6, Zenon DEF ScUnderWay
<1>16. ASSUME NEW f \in 1 .. Len(parent), \A c \in 1 .. n : compilers'[c].fn # f
       PROVE  ScComplete(M2, f)'
  <2>1. \A c \in 1 .. n : fn(c) # f
    BY <1>2, <1>16
  <2>2. ScComplete(M, f)
    BY <2>1, <1>6 DEF fn
  <2>3. f \in DOMAIN sources /\ Len(sources[f]) \in Nat
    BY LenProperties, ElementOfSeq DEF ScTypes
  <2>4. \A k : <<f, k>> \notin P
    BY <2>1, <1>7
  <2>5. /\ \A k \in Nat : <<f, k>> \in DOMAIN M <=> k < Len(sources[f])
        /\ \A k \in 1 .. Len(sources[f]) : ScLinked(M, parent[f], home, f, k - 1, sources[f][k])
    BY <2>2, Zenon DEF ScComplete
  <2>6. \A k \in Nat : <<f, k>> \in DOMAIN M2 <=> k < Len(sources[f])
    BY <2>4, <2>5, <1>11
  <2>7. ASSUME NEW k \in 1 .. Len(sources[f]) PROVE ScLinked(M2, parent[f], home, f, k - 1, sources[f][k])
    <3>1. k - 1 \in Nat /\ k - 1 < Len(sources[f])
      BY <2>3
    <3>2. <<f, k - 1>> \in DOMAIN M
      BY <3>1, <2>5
    <3> QED BY <3>2, <2>5, <1>11, ScLinkedMore
  <2>8. parent' = parent /\ sources' = sources
    BY DEF ScBecomes
  <2> QED BY <2>6, <2>7, <2>8 DEF ScComplete
<1>17. ASSUME NEW r \in looked_up', r.kind = "Free"
       PROVE  <<r.fn, r.index>> \in DOMAIN M2 /\ M2[<<r.fn, r.index>>] = r.meant
  <2>1. CASE r \in looked_up
    BY <2>1, <1>6, <1>11, <1>17 DEF ScMore
  <2>2. CASE r \notin looked_up
    <3>1. r.fn = fn(n) /\ r.index = Len(list(n)) /\ r.meant = v
      BY <2>2, <1>1 DEF fn, list, v, n
    <3>2. <<fn(n), Len(list(n))>> \in P
      BY <1>5, <1>13
    <3> QED BY <3>1, <3>2, <1>11
  <2> QED BY <2>1, <2>2
<1>18. parent' = parent
  BY DEF ScBecomes
<1>19. ScMeanings(M2)'
  BY <1>2, <1>12, <1>15, <1>16, <1>17, <1>18 DEF ScMeanings
<1> QED BY <1>19

LEMMA ScResolveFree ==
  ASSUME ScIInv, NEW x \in Names, ResolveFree(x),
         UNCHANGED <<sources, parent, env, home, blocks>>
  PROVE  ScIInv'
<1> DEFINE n == Len(compilers)
           index == Len(scopes[ScFirst(n)].free_vars)
           new == [fn |-> Now.fn, kind |-> "Free", index |-> index, name |-> x, meant |-> ScStandsFor(x)]
<1>1. /\ ScTypes /\ ScNested /\ ScHomes /\ ScLookedUp
      /\ ~repeated => ScGrown /\ \E M : ScMeanings(M)
  BY Zenon DEF ScIInv
<1>2. /\ ScCaptures(x) /\ compilers' = WithLast(compilers, ScTaken(x))
      /\ LookedUp(x, "Free", Len(scopes[cur_func_idx].free_vars))
      /\ repeated' = (repeated \/ \E m \in Between(x) : Captures(m, x))
  BY Zenon DEF ResolveFree, ScCaptures, Become, ScTaken
<1>3. cur_func_idx = ScFirst(n) /\ n \in 2 .. n /\ ScFirst(n) \in 1 .. Len(scopes)
  BY <1>1, <1>2, ScDeclIdx
<1>4. index \in Nat /\ Now.fn \in Nat /\ Now.fn \in 0 .. Len(parent)
  <2>1. n \in 1 .. Len(compilers) /\ scopes = compilers[n].scopes /\ Now = compilers[n]
    BY <1>1, <1>3, ScNow
  <2>2. ScFirst(n) \in 1 .. Len(compilers[n].scopes)
    BY <1>3, <2>1
  <2>3. Len(compilers[n].scopes[ScFirst(n)].free_vars) \in Nat /\ compilers[n].fn \in Nat
    BY <1>1, <2>1, <2>2, ScNow
  <2> QED BY <1>1, <2>1, <2>3, ScNowFn
<1>5. looked_up' = looked_up \cup {new}
  BY <1>1, <1>2, <1>3, ScDeclared DEF LookedUp
<1>6. ScStandsFor(x) \in 0 .. Len(home) /\ Len(home) \in Nat
  <2>1. ScStandsFor(x) \in 0 .. Len(home)
    BY <1>1, ScDeclared
  <2> QED BY <1>1, <2>1, LenProperties DEF ScTypes
<1>7. /\ new \in ScReferences /\ new.fn = Now.fn /\ new.kind = "Free" /\ new.index = index
      /\ new.meant = ScStandsFor(x)
  BY <1>4, <1>6 DEF ScReferences
<1> HIDE DEF new, index, n
<1>8. looked_up' \subseteq ScReferences /\ repeated' \in BOOLEAN /\ (~repeated' => ~repeated)
  BY <1>1, <1>2, <1>5, <1>7 DEF ScTypes
<1>9. ScBecomes(ScTaken(x)) /\ ScTypes' /\ ScNested' /\ ScHomes'
  BY <1>2, <1>8, ScTakenBecomes
<1>10. ScLookedUp'
  BY <1>1, <1>4, <1>5, <1>6, <1>7 DEF ScLookedUp
<1>11. ASSUME ~repeated' PROVE ScGrown' /\ \E M : ScMeanings(M)'
  <2>1. ScGrown /\ (\E M : ScMeanings(M)) /\ \A m \in Between(x) : ~ Captures(m, x)
    BY <1>1, <1>2, <1>8, <1>11
  <2>2. ScGrown'
    BY <1>1, <1>2, <1>9, <2>1, ScTakenGrown
  <2>3. PICK M : ScMeanings(M)
    BY <2>1
  <2>4. \A r \in looked_up' : r \in looked_up \/
          /\ r.fn = Now.fn /\ r.index = Len(scopes[ScFirst(Len(compilers))].free_vars)
          /\ r.meant = ScStandsFor(x)
    BY <1>5, <1>7 DEF index, n
  <2>5. \E M2 : ScMeanings(M2)'
    BY <1>1, <1>2, <1>9, <2>3, <2>4, ScTakenMeanings
  <2> QED BY <2>2, <2>5
<1> QED BY <1>9, <1>10, <1>11, Zenon DEF ScIInv

LEMMA ScLookUp == ASSUME NEW x \in Names PROVE ScIInv /\ LookUp(x) => ScIInv'
<1> SUFFICES ASSUME ScIInv, LookUp(x) PROVE ScIInv'
  OBVIOUS
<1>1. /\ ResolveLocal(x) \/ ResolveCaptured(x) \/ ResolveFree(x) \/ ResolveGlobal(x)
      /\ UNCHANGED <<sources, parent, env, home, blocks>>
  BY Zenon DEF LookUp
<1>2. CASE ResolveLocal(x)
  BY <1>1, <1>2, ScResolveLocal
<1>3. CASE ResolveCaptured(x)
  BY <1>1, <1>3, ScResolveCaptured
<1>4. CASE ResolveFree(x)
  BY <1>1, <1>4, ScResolveFree
<1>5. CASE ResolveGlobal(x)
  BY <1>1, <1>5, ScResolveGlobal
<1> QED BY <1>1, <1>2, <1>3, <1>4, <1>5

-----------------------------------------------------------------------------
(* Functions.                                                              *)

LEMMA ScFns ==
  ASSUME ScTypes, ScNested, NEW c \in 1 .. Len(compilers)
  PROVE  compilers[c].fn \in 0 .. Len(parent)
<1>1. CASE c = 1
  BY <1>1, LenProperties DEF ScNested, ScTypes
<1>2. CASE c # 1
  <2>1. c \in 2 .. Len(compilers)
    BY <1>2
  <2>2. compilers[c].fn \in 1 .. Len(parent)
    BY <2>1, ScParent
  <2> QED BY <2>2
<1> QED BY <1>1, <1>2

LEMMA ScOpenFunction == Assumptions /\ ScIInv /\ OpenFunction => ScIInv'
<1> SUFFICES ASSUME Assumptions, ScIInv, OpenFunction PROVE ScIInv'
  OBVIOUS
<1>0. PICK n : n = Len(compilers)
  OBVIOUS
<1> DEFINE L == Len(scopes)
           F == Len(parent) + 1
           body == Scope(TRUE)
           inner == Append(scopes, body)
           e == Compiler(F, inner)
<1>1. /\ ScTypes /\ ScNested /\ ScHomes /\ ScLookedUp
      /\ ~repeated => ScGrown /\ \E M : ScMeanings(M)
  BY Zenon DEF ScIInv
<1>2. /\ n \in Nat \ {0} /\ n \in 1 .. n /\ Now = compilers[n] /\ scopes \in Seq(ScScopes)
      /\ L \in Nat /\ scopes = compilers[n].scopes /\ Now.fn \in 0 .. Len(parent)
      /\ \A c \in 1 .. n : Len(compilers[c].scopes) \in Nat /\ ScFirst(c) \in Nat \ {0}
                           /\ compilers[c].fn \in 0 .. Len(parent)
      /\ Len(parent) \in Nat
  <2>1. \A c \in 1 .. n : compilers[c].fn \in 0 .. Len(parent)
    BY <1>1, ScFns, <1>0
  <2>2. Len(parent) \in Nat
    BY <1>1, LenProperties DEF ScTypes
  <2> QED BY <1>1, <2>1, <2>2, ScNow, ScNowFn, <1>0
<1>3. /\ Len(parent) < MaxFunctions
      /\ compilers' = Append(compilers, e) /\ parent' = Append(parent, Now.fn)
      /\ sources' = Append(sources, <<>>) /\ env' = Append(env, Nothing)
      /\ UNCHANGED <<home, looked_up, blocks, repeated>>
  BY Zenon DEF OpenFunction
<1>4. Nothing \in ScNames /\ DOMAIN Nothing = {} /\ body \in ScScopes
      /\ body.slots = Nothing /\ body.free_vars = <<>> /\ body.is_function
  <2>1. Nothing \in [{} -> Nat] /\ {} \in SUBSET Names /\ DOMAIN Nothing = {}
    BY DEF Nothing
  <2>2. Nothing \in ScNames
    BY <2>1, Zenon DEF ScNames
  <2>3. <<>> \in Seq(ScEntries)
    OBVIOUS
  <2> HIDE DEF Nothing
  <2> QED BY <2>1, <2>2, <2>3 DEF Scope, ScScopes
<1> HIDE DEF body
<1>5. /\ inner \in Seq(ScScopes) /\ Len(inner) = L + 1
      /\ \A i \in 1 .. L : inner[i] = scopes[i]
      /\ inner[L + 1] = body
  BY <1>2, <1>4, ScAppend, <1>0
<1> HIDE DEF inner
<1>6. e \in ScCompilers /\ e.fn = F /\ e.scopes = inner /\ e.func_local_count = 0
  BY <1>2, <1>5 DEF ScCompilers, Compiler
<1> HIDE DEF e
<1>7. /\ compilers' \in Seq(ScCompilers) /\ Len(compilers') = n + 1
      /\ \A c \in 1 .. n : compilers'[c] = compilers[c]
      /\ compilers'[n + 1] = e /\ compilers' # <<>> /\ scopes' = inner
  <2>1. compilers \in Seq(ScCompilers)
    BY <1>1 DEF ScTypes
  <2>2. /\ compilers' \in Seq(ScCompilers) /\ Len(compilers') = n + 1
        /\ \A c \in 1 .. n : compilers'[c] = compilers[c]
        /\ compilers'[n + 1] = e
    BY <2>1, <1>3, <1>6, ScAppend, <1>0
  <2>3. compilers' # <<>>
    BY <2>2, <1>2, EmptySeq
  <2>4. scopes' = inner
    BY <2>2, <1>6 DEF scopes, Now, Last
  <2> QED BY <2>2, <2>3, <2>4
<1>8. /\ parent' \in Seq(Nat) /\ Len(parent') = F /\ parent'[F] = Now.fn
      /\ \A f \in 1 .. Len(parent) : parent'[f] = parent[f]
  <2>1. parent \in Seq(Nat) /\ Now.fn \in Nat
    BY <1>1, <1>2 DEF ScTypes
  <2> QED BY <2>1, <1>3, ScAppend, <1>0
<1>9. /\ sources' \in Seq(Seq(ScSources)) /\ Len(sources') = F /\ sources'[F] = <<>>
      /\ Len(sources) = Len(parent)
      /\ \A f \in 1 .. Len(parent) : sources'[f] = sources[f]
  <2>1. sources \in Seq(Seq(ScSources)) /\ Len(sources) = Len(parent) /\ <<>> \in Seq(ScSources)
    BY <1>1 DEF ScTypes
  <2> QED BY <2>1, <1>3, ScAppend, <1>0
<1>10. /\ env' \in Seq(ScNames) /\ Len(env') = L + 1 /\ env'[L + 1] = Nothing
       /\ \A i \in 1 .. L : env'[i] = env[i]
  <2>1. env \in Seq(ScNames) /\ Len(env) = L
    BY <1>1 DEF ScTypes, ScHomes
  <2>2. env' = Append(env, Nothing) /\ Nothing \in ScNames
    BY <1>3, <1>4
  <2> QED BY <2>1, <2>2, ScAppend
<1>11. /\ \A c \in 1 .. n : ScFirst(c)' = ScFirst(c) /\ ScFirst(c) <= L + 1
       /\ ScFirst(n + 1)' = L + 1
       /\ \A c \in 2 .. n : ScFirst(c) <= L
       /\ \A c \in 1 .. n : Len(compilers[c].scopes) <= L
  <2>1. ASSUME NEW c \in 1 .. n PROVE ScFirst(c)' = ScFirst(c)
    <3>1. c # 1 => c - 1 \in 1 .. n
      BY <1>2
    <3> QED BY <3>1, <1>7 DEF ScFirst
  <2>2. ScFirst(n + 1)' = L + 1
    <3>1. n + 1 # 1 /\ (n + 1) - 1 = n
      BY <1>2
    <3> QED BY <3>1, <1>2, <1>7 DEF ScFirst
  <2>3. ASSUME NEW c \in 1 .. n PROVE Len(compilers[c].scopes) <= L
    <3>1. CASE c = n
      BY <3>1, <1>2
    <3>2. CASE c # n
      <4>1. c < n
        BY <3>2, <1>2
      <4>2. Len(compilers[c].scopes) < Len(compilers[n].scopes)
        <5>1. c \in 1 .. Len(compilers) /\ n \in 1 .. Len(compilers)
          BY <1>0, <1>2
        <5> QED BY <4>1, <5>1, <1>1, ScPair, Zenon
      <4>3. L = Len(compilers[n].scopes) /\ L \in Nat /\ Len(compilers[c].scopes) \in Nat
        BY <1>2
      <4> HIDE DEF L
      <4> QED BY <4>2, <4>3
    <3> QED BY <3>1, <3>2
  <2>4. ASSUME NEW c \in 1 .. n PROVE ScFirst(c) <= L + 1
    BY <1>1, <1>2, ScPositions, <1>0
  <2>5. ASSUME NEW c \in 2 .. n PROVE ScFirst(c) <= L
    <3>1. c \in 1 .. n
      OBVIOUS
    <3>2. ScFirst(c) <= Len(compilers[c].scopes)
      BY <1>1, ScPositions, <1>0
    <3> QED BY <3>1, <3>2, <2>3, <1>2
  <2> QED BY <2>1, <2>2, <2>3, <2>4, <2>5
<1> HIDE DEF L, F
<1>12. F \in Nat \ {0} /\ F = Len(parent) + 1
  BY <1>2 DEF F
<1>13. ScTypes'
  <2>1. Len(parent') <= MaxFunctions
    BY <1>2, <1>3, <1>8, <1>12 DEF Assumptions
  <2>2. \A f \in 1 .. Len(parent') : parent'[f] < f
    <3> SUFFICES ASSUME NEW f \in 1 .. F PROVE parent'[f] < f
      BY <1>8
    <3>1. CASE f = F
      BY <3>1, <1>2, <1>8, <1>12
    <3>2. CASE f # F
      <4>1. f \in 1 .. Len(parent)
        BY <3>2, <1>2, <1>12
      <4> QED BY <4>1, <1>1, <1>8 DEF ScTypes
    <3> QED BY <3>1, <3>2
  <2>3. home' \in Seq(Nat \X Nat) /\ looked_up' \subseteq ScReferences /\ blocks' \in 0 .. MaxBlocks
        /\ repeated' \in BOOLEAN
    BY <1>1, <1>3 DEF ScTypes
  <2> QED BY <1>7, <1>8, <1>9, <1>10, <2>1, <2>2, <2>3 DEF ScTypes
<1>14. \A c \in 1 .. (n + 1) : c \in 1 .. n \/ c = n + 1
  BY <1>2
<1>15. ScNested'
  <2>1. compilers'[1].fn = 0
    <3>1. 1 \in 1 .. n
      BY <1>2
    <3> QED BY <3>1, <1>1, <1>7 DEF ScNested
  <2>2. ASSUME NEW c \in 2 .. (n + 1)
        PROVE  compilers'[c].fn \in 1 .. Len(parent') /\ parent'[compilers'[c].fn] = compilers'[c - 1].fn
    <3>1. CASE c = n + 1
      <4>1. c - 1 = n /\ n \in 1 .. n
        BY <3>1, <1>2
      <4> QED BY <4>1, <3>1, <1>2, <1>6, <1>7, <1>8, <1>12
    <3>2. CASE c # n + 1
      <4>1. c \in 2 .. n /\ c \in 1 .. n /\ c - 1 \in 1 .. n
        BY <3>2, <1>2
      <4>2. compilers[c].fn \in 1 .. Len(parent) /\ parent[compilers[c].fn] = compilers[c - 1].fn
        BY <4>1, <1>1, ScParent, <1>0
      <4>3. compilers'[c] = compilers[c] /\ compilers'[c - 1] = compilers[c - 1]
        BY <4>1, <1>7
      <4>4. parent'[compilers[c].fn] = parent[compilers[c].fn] /\ compilers[c].fn \in 1 .. Len(parent')
        <5>1. parent'[compilers[c].fn] = parent[compilers[c].fn]
          BY <4>2, <1>8, Zenon
        <5>2. Len(parent) \in Nat /\ Len(parent') = Len(parent) + 1
          BY <1>2, <1>8, <1>12
        <5>3. compilers[c].fn \in 1 .. Len(parent')
          BY <4>2, <5>2
        <5> QED BY <5>1, <5>3
      <4>5. compilers'[c].fn = compilers[c].fn /\ compilers'[c - 1].fn = compilers[c - 1].fn
        BY <4>3
      <4>6. compilers'[c].fn \in 1 .. Len(parent')
        BY <4>4, <4>5
      <4>7. parent'[compilers'[c].fn] = parent'[compilers[c].fn]
        BY <4>5, Zenon
      <4> QED BY <4>2, <4>4, <4>5, <4>6, <4>7, Zenon
    <3> QED BY <3>1, <3>2
  <2>3. ASSUME NEW c \in 1 .. (n + 1), NEW d \in 1 .. (n + 1), c < d
        PROVE  /\ compilers'[c].fn < compilers'[d].fn
               /\ Len(compilers'[c].scopes) < Len(compilers'[d].scopes)
               /\ \A i \in 1 .. Len(compilers'[c].scopes) :
                    compilers'[c].scopes[i].slots = compilers'[d].scopes[i].slots
    <3>1. c \in 1 .. n /\ compilers'[c] = compilers[c]
      BY <2>3, <1>2, <1>7
    <3>2. CASE d = n + 1
      <4>1. compilers'[d].fn = F /\ compilers'[d].scopes = inner /\ Len(inner) = L + 1
        BY <3>2, <1>5, <1>6, <1>7
      <4>2. Len(compilers[c].scopes) \in Nat /\ L \in Nat /\ Len(compilers[c].scopes) <= L
            /\ compilers[c].fn \in 0 .. Len(parent)
        BY <3>1, <1>2, <1>11
      <4>3. ASSUME NEW i \in 1 .. Len(compilers[c].scopes)
            PROVE  compilers[c].scopes[i].slots = inner[i].slots
        <5>1. i \in 1 .. L /\ inner[i] = scopes[i]
          BY <4>2, <1>5
        <5>2. compilers[c].scopes[i].slots = compilers[n].scopes[i].slots
          <6>1. CASE c = n
            BY <6>1
          <6>2. CASE c # n
            <7>1. c < n /\ c \in 1 .. Len(compilers) /\ n \in 1 .. Len(compilers)
              BY <6>2, <3>1, <1>2, <1>0
            <7> QED BY <7>1, <1>1, ScPair, Zenon
          <6> QED BY <6>1, <6>2
        <5> QED BY <5>1, <5>2, <1>2
      <4>4. compilers[c].fn < F /\ Len(compilers[c].scopes) < L + 1
        BY <4>2, <1>12
      <4> QED BY <3>1, <4>1, <4>3, <4>4, Zenon
    <3>3. CASE d # n + 1
      <4>1. d \in 1 .. n /\ compilers'[d] = compilers[d]
        BY <3>3, <1>7, <1>14
      <4>2. /\ compilers[c].fn < compilers[d].fn
            /\ Len(compilers[c].scopes) < Len(compilers[d].scopes)
            /\ \A i \in 1 .. Len(compilers[c].scopes) :
                 compilers[c].scopes[i].slots = compilers[d].scopes[i].slots
        <5>1. c \in 1 .. Len(compilers) /\ d \in 1 .. Len(compilers)
          BY <3>1, <4>1, <1>0
        <5> QED BY <2>3, <5>1, <1>1, ScPair, Zenon
      <4> QED BY <3>1, <4>1, <4>2, Zenon
    <3> QED BY <3>2, <3>3
  <2>4. ASSUME NEW c \in 1 .. (n + 1), NEW i \in 1 .. Len(compilers'[c].scopes)
        PROVE  compilers'[c].scopes[i].is_function <=> \E d \in 2 .. c : i = ScFirst(d)'
    <3>1. CASE c = n + 1
      <4>1. compilers'[c].scopes = inner /\ Len(inner) = L + 1
        BY <3>1, <1>5, <1>6, <1>7
      <4>2. CASE i = L + 1
        <5>1. compilers'[c].scopes[i].is_function
          BY <4>1, <4>2, <1>4, <1>5
        <5>2. n + 1 \in 2 .. c /\ i = ScFirst(n + 1)'
          BY <3>1, <4>2, <1>2, <1>11
        <5> QED BY <5>1, <5>2
      <4>3. CASE i # L + 1
        <5>1. i \in 1 .. L
          BY <4>1, <4>3, <1>2
        <5>2. compilers'[c].scopes[i] = scopes[i]
          BY <4>1, <5>1, <1>5
        <5>3. scopes[i].is_function <=> \E d \in 2 .. n : i = ScFirst(d)
          <6>1. n \in 1 .. Len(compilers) /\ i \in 1 .. Len(compilers[n].scopes)
            BY <5>1, <1>2, <1>0 DEF L
          <6>2. compilers[n].scopes[i].is_function <=> \E d \in 2 .. n : i = ScFirst(d)
            BY <6>1, <1>1, ScFunction
          <6> QED BY <6>2, <1>2
        <5>4. \A d \in 2 .. n : d \in 1 .. n /\ ScFirst(d)' = ScFirst(d)
          BY <1>11
        <5>5. \A d \in 2 .. c : d \in 2 .. n \/ d = n + 1
          BY <3>1, <1>2
        <5>6. \A d \in 2 .. n : d \in 2 .. c
          BY <3>1, <1>2
        <5> QED BY <5>2, <5>3, <5>4, <5>5, <5>6, <4>3, <1>11
      <4> QED BY <4>2, <4>3
    <3>2. CASE c # n + 1
      <4>1. c \in 1 .. n /\ compilers'[c] = compilers[c]
        BY <3>2, <1>7, <1>14
      <4>2. compilers[c].scopes[i].is_function <=> \E d \in 2 .. c : i = ScFirst(d)
        BY <4>1, <1>1, ScFunction, <1>0
      <4>3. \A d \in 2 .. c : ScFirst(d)' = ScFirst(d)
        <5>1. \A d \in 2 .. c : d \in 1 .. n
          BY <4>1, <1>2
        <5> QED BY <5>1, <1>11
      <4> QED BY <4>1, <4>2, <4>3
    <3> QED BY <3>1, <3>2
  <2> QED BY <1>7, <2>1, <2>2, <2>3, <2>4 DEF ScNested
<1>16. ScHomes'
  <2>1. ASSUME NEW c \in 1 .. (n + 1), NEW i \in ScFirst(c)' .. Len(compilers'[c].scopes)
        PROVE  /\ DOMAIN env'[i] = DOMAIN compilers'[c].scopes[i].slots
               /\ \A x \in DOMAIN env'[i] :
                    /\ env'[i][x] \in 1 .. Len(home)
                    /\ home[env'[i][x]] = <<compilers'[c].fn, compilers'[c].scopes[i].slots[x]>>
    <3>1. CASE c = n + 1
      <4>1. compilers'[c].scopes = inner /\ Len(inner) = L + 1 /\ ScFirst(c)' = L + 1
        BY <3>1, <1>5, <1>6, <1>7, <1>11
      <4>2. i = L + 1
        BY <4>1, <1>2
      <4> QED BY <4>1, <4>2, <1>4, <1>5, <1>10
    <3>2. CASE c # n + 1
      <4>1. c \in 1 .. n /\ compilers'[c] = compilers[c] /\ ScFirst(c)' = ScFirst(c)
        BY <3>2, <1>7, <1>11, <1>14
      <4>2. i \in ScFirst(c) .. Len(compilers[c].scopes)
        BY <4>1
      <4>3. /\ DOMAIN env[i] = DOMAIN compilers[c].scopes[i].slots
            /\ \A x \in DOMAIN env[i] :
                 /\ env[i][x] \in 1 .. Len(home)
                 /\ home[env[i][x]] = <<compilers[c].fn, compilers[c].scopes[i].slots[x]>>
        BY <4>1, <4>2, <1>1, ScHome, <1>0
      <4>4. i \in 1 .. L /\ env'[i] = env[i]
        <5>1. ScFirst(c) \in Nat \ {0} /\ Len(compilers[c].scopes) \in Nat /\ Len(compilers[c].scopes) <= L
          BY <4>1, <1>2, <1>11
        <5>2. i \in 1 .. L
          BY <5>1, <4>2, <1>2
        <5> QED BY <5>2, <1>10
      <4> QED BY <4>1, <4>3, <4>4
    <3> QED BY <3>1, <3>2
  <2>2. ASSUME NEW v \in 1 .. Len(home)
        PROVE  /\ home[v][1] \in 0 .. Len(parent')
               /\ \A c \in 1 .. (n + 1) :
                    home[v][1] = compilers'[c].fn => home[v][2] < compilers'[c].func_local_count
    <3>1. /\ home[v][1] \in 0 .. Len(parent)
          /\ \A c \in 1 .. n : home[v][1] = compilers[c].fn => home[v][2] < compilers[c].func_local_count
      BY <1>1, <1>0 DEF ScHomes
    <3>2. home[v][1] # compilers'[n + 1].fn
      BY <3>1, <1>2, <1>6, <1>7, <1>12
    <3>3. home[v][1] \in 0 .. Len(parent')
      BY <3>1, <1>2, <1>8, <1>12
    <3> QED BY <3>1, <3>2, <3>3, <1>7, <1>14
  <2>3. SlotsAreOwn' /\ home' = home
    BY <1>1, <1>3 DEF ScHomes, SlotsAreOwn
  <2>4. Len(env') = Len(scopes')
    BY <1>5, <1>7, <1>10
  <2> QED BY <1>7, <2>1, <2>2, <2>3, <2>4 DEF ScHomes
<1>17. ScLookedUp'
  <2>1. Len(home) \in Nat
    BY <1>1, LenProperties DEF ScTypes
  <2>2. Len(parent) <= Len(parent') /\ Len(parent') \in Nat
    BY <1>2, <1>8, <1>12
  <2> QED BY <1>1, <1>3, <2>1, <2>2, ScLookedUpKept
<1>18. ASSUME ScGrown PROVE ScGrown'
  <2>1. \A i \in 1 .. (L + 1) : i \in 1 .. L \/ i = L + 1
    BY <1>2
  <2>2. ASSUME NEW c \in 1 .. (n + 1), NEW i \in 1 .. Len(compilers'[c].scopes),
               NEW j \in 1 .. Len(compilers'[c].scopes[i].free_vars),
               NEW k \in 1 .. Len(compilers'[c].scopes[i].free_vars),
               compilers'[c].scopes[i].free_vars[j].name = compilers'[c].scopes[i].free_vars[k].name
        PROVE  j = k
    <3>1. CASE c = n + 1
      <4>1. compilers'[c].scopes = inner /\ Len(inner) = L + 1
        BY <3>1, <1>5, <1>6, <1>7
      <4>2. i # L + 1
        <5>1. Len(<<>>) = 0
          OBVIOUS
        <5> QED BY <5>1, <4>1, <1>4, <1>5
      <4>3. i \in 1 .. L
        BY <4>1, <4>2, <2>1
      <4>4. compilers'[c].scopes[i] = compilers[n].scopes[i]
        BY <4>1, <4>3, <1>2, <1>5
      <4>5. n \in 1 .. Len(compilers) /\ i \in 1 .. Len(compilers[n].scopes)
        BY <4>3, <1>2, <1>0 DEF L
      <4> QED BY <4>4, <4>5, <2>2, <1>18, ScDistinct
    <3>2. CASE c # n + 1
      <4>1. c \in 1 .. n /\ compilers'[c] = compilers[c]
        BY <3>2, <1>7, <1>14
      <4> QED BY <4>1, <2>2, <1>18, ScDistinct, <1>0
    <3> QED BY <3>1, <3>2
  <2>3. ASSUME NEW c \in 1 .. (n + 1), NEW d \in 1 .. (n + 1), c < d, NEW i \in 1 .. Len(compilers'[c].scopes)
        PROVE  /\ Len(compilers'[c].scopes[i].free_vars) <= Len(compilers'[d].scopes[i].free_vars)
               /\ \A k \in 1 .. Len(compilers'[c].scopes[i].free_vars) :
                    compilers'[d].scopes[i].free_vars[k] = compilers'[c].scopes[i].free_vars[k]
    <3>1. c \in 1 .. n /\ compilers'[c] = compilers[c] /\ i \in 1 .. Len(compilers[c].scopes)
      BY <2>3, <1>2, <1>7
    <3>2. ASSUME NEW a \in 1 .. n, c <= a
          PROVE  /\ Len(compilers[c].scopes[i].free_vars) <= Len(compilers[a].scopes[i].free_vars)
                 /\ \A k \in 1 .. Len(compilers[c].scopes[i].free_vars) :
                      compilers[a].scopes[i].free_vars[k] = compilers[c].scopes[i].free_vars[k]
      <4>1. CASE c = a
        <5>1. Len(compilers[c].scopes[i].free_vars) \in Nat
          BY <3>1, <1>1, ScNow, <1>0
        <5> QED BY <4>1, <5>1
      <4>2. CASE c # a
        <5>1. c < a
          BY <3>1, <3>2, <4>2
        <5> QED BY <3>1, <5>1, <1>18, ScLonger, <1>0
      <4> QED BY <4>1, <4>2
    <3>3. CASE d = n + 1
      <4>1. i \in 1 .. L
        <5>1. Len(compilers[c].scopes) \in Nat /\ Len(compilers[c].scopes) <= L
          BY <3>1, <1>2, <1>11
        <5> QED BY <5>1, <3>1, <1>2
      <4>2. compilers'[d].scopes[i] = compilers[n].scopes[i]
        BY <3>3, <4>1, <1>2, <1>5, <1>6, <1>7
      <4>3. n \in 1 .. n /\ c <= n
        BY <3>1, <1>2
      <4> QED BY <3>1, <3>2, <4>2, <4>3
    <3>4. CASE d # n + 1
      <4>1. d \in 1 .. n /\ compilers'[d] = compilers[d] /\ c <= d
        BY <3>4, <2>3, <1>7, <1>14
      <4> QED BY <3>1, <3>2, <4>1
    <3> QED BY <3>3, <3>4
  <2> QED BY <1>7, <2>2, <2>3 DEF ScGrown
<1>19. ASSUME NEW M, ScMeanings(M) PROVE ScMeanings(M)'
  <2>1. /\ \A p \in DOMAIN M : p \in (1 .. Len(parent)) \X Nat /\ M[p] \in 1 .. Len(home)
        /\ \A c \in 2 .. n : ScUnderWay(M, c)
        /\ \A f \in 1 .. Len(parent) :
             (\A c \in 1 .. n : compilers[c].fn # f) => ScComplete(M, f)
        /\ \A r \in looked_up : r.kind = "Free" =>
             <<r.fn, r.index>> \in DOMAIN M /\ M[<<r.fn, r.index>>] = r.meant
    BY <1>19, <1>0 DEF ScMeanings
  <2>2. ASSUME NEW c \in 2 .. n PROVE ScUnderWay(M, c)'
    <3>1. c \in 1 .. n /\ ScFirst(c) \in 1 .. L /\ ScFirst(c) \in Nat
      <4>1. c \in 1 .. n
        OBVIOUS
      <4>2. ScFirst(c) \in Nat \ {0} /\ ScFirst(c) <= L
        BY <4>1, <1>2, <1>11
      <4> QED BY <4>1, <4>2, <1>2
    <3>2. ScCapturing(M, parent[compilers[c].fn], home, compilers[c].fn, scopes[ScFirst(c)].free_vars,
                      env, ScFirst(c))
      BY <2>1, Zenon DEF ScUnderWay
    <3>3. scopes[ScFirst(c)].free_vars \in Seq(ScEntries)
      <4>1. n \in 1 .. Len(compilers) /\ ScFirst(c) \in 1 .. Len(compilers[n].scopes)
        BY <3>1, <1>2, <1>0 DEF L
      <4>2. compilers[n].scopes[ScFirst(c)].free_vars \in Seq(ScEntries)
        BY <4>1, <1>1, ScNow, <1>0
      <4> QED BY <4>2, <1>2
    <3>4. \A i \in 1 .. (ScFirst(c) - 1) : env'[i] = env[i]
      <4>1. \A i \in 1 .. (ScFirst(c) - 1) : i \in 1 .. L
        BY <3>1, <1>2
      <4> QED BY <4>1, <1>10
    <3>5. ScCapturing(M, parent[compilers[c].fn], home, compilers[c].fn, scopes[ScFirst(c)].free_vars,
                      env', ScFirst(c))
      BY <3>1, <3>2, <3>3, <3>4, ScCapturingKept
    <3>6. /\ compilers'[c] = compilers[c] /\ ScFirst(c)' = ScFirst(c)
          /\ parent'[compilers[c].fn] = parent[compilers[c].fn]
          /\ scopes'[ScFirst(c)] = scopes[ScFirst(c)]
      <4>1. compilers[c].fn \in 1 .. Len(parent)
        BY <1>1, ScParent, <1>0
      <4> QED BY <4>1, <3>1, <1>5, <1>7, <1>8, <1>11
    <3>7. ScCapturing(M, parent'[compilers'[c].fn], home', compilers'[c].fn, scopes'[ScFirst(c)'].free_vars,
                      env', ScFirst(c)')
      BY <3>5, <3>6, <1>3
    <3> QED BY <3>7, Zenon DEF ScUnderWay
  <2>3. ScUnderWay(M, n + 1)'
    <3>1. scopes'[ScFirst(n + 1)'].free_vars = <<>> /\ compilers'[n + 1].fn = F
      BY <1>4, <1>5, <1>6, <1>7, <1>11
    <3>2. \A k \in Nat : <<F, k>> \notin DOMAIN M
      <4> SUFFICES ASSUME NEW k \in Nat, <<F, k>> \in DOMAIN M PROVE FALSE
        OBVIOUS
      <4>1. <<F, k>> \in (1 .. Len(parent)) \X Nat
        BY <2>1
      <4>2. F \in 1 .. Len(parent)
        BY <4>1
      <4> QED BY <4>2, <1>2, <1>12
    <3>3. \A around, envs, b : ScCapturing(M, around, home', F, <<>>, envs, b)
      <4>1. Len(<<>>) = 0 /\ (\A k \in Nat : ~ (k < 0)) /\ 1 .. 0 = {}
        OBVIOUS
      <4> QED BY <3>2, <4>1 DEF ScCapturing
    <3>4. ScCapturing(M, parent'[compilers'[n + 1].fn], home', compilers'[n + 1].fn,
                      scopes'[ScFirst(n + 1)'].free_vars, env', ScFirst(n + 1)')
      BY <3>1, <3>3
    <3> QED BY <3>4, Zenon DEF ScUnderWay
  <2>4. ASSUME NEW f \in 1 .. Len(parent'), \A c \in 1 .. (n + 1) : compilers'[c].fn # f
        PROVE  ScComplete(M, f)'
    <3>1. n + 1 \in 1 .. (n + 1) /\ \A c \in 1 .. n : c \in 1 .. (n + 1)
      BY <1>2
    <3>2. f # F /\ \A c \in 1 .. n : compilers[c].fn # f
      BY <3>1, <2>4, <1>6, <1>7
    <3>3. f \in 1 .. Len(parent)
      BY <3>2, <1>2, <1>8, <1>12
    <3>4. ScComplete(M, f)
      BY <2>1, <3>2, <3>3
    <3>5. sources'[f] = sources[f] /\ parent'[f] = parent[f]
      BY <3>3, <1>8, <1>9
    <3> QED BY <3>4, <3>5, <1>3 DEF ScComplete
  <2>5. \A c \in 2 .. (n + 1) : c \in 2 .. n \/ c = n + 1
    BY <1>2
  <2>6. \A p \in DOMAIN M : p \in (1 .. Len(parent')) \X Nat /\ M[p] \in 1 .. Len(home')
    BY <2>1, <1>2, <1>3, <1>8, <1>12
  <2> QED BY <2>1, <2>2, <2>3, <2>4, <2>5, <2>6, <1>3, <1>7 DEF ScMeanings
<1>20. ~repeated' => ScGrown' /\ \E M : ScMeanings(M)'
  <2> SUFFICES ASSUME ~repeated' PROVE ScGrown' /\ \E M : ScMeanings(M)'
    OBVIOUS
  <2>1. ScGrown /\ \E M : ScMeanings(M)
    BY <1>1, <1>3
  <2>2. PICK M : ScMeanings(M)
    BY <2>1
  <2>3. ScMeanings(M)'
    BY <2>2, <1>19
  <2> QED BY <2>1, <2>3, <1>18
<1> QED BY <1>13, <1>15, <1>16, <1>17, <1>20, Zenon DEF ScIInv

LEMMA ScCarriedBack ==
  ASSUME NEW outer \in Seq(ScScopes), NEW sub \in Seq(ScScopes), Len(outer) <= Len(sub)
  PROVE  /\ CarriedBack(outer, sub) \in Seq(ScScopes) /\ Len(CarriedBack(outer, sub)) = Len(outer)
         /\ \A i \in 1 .. Len(outer) :
              /\ CarriedBack(outer, sub)[i].slots = outer[i].slots
              /\ CarriedBack(outer, sub)[i].is_function <=> outer[i].is_function
              /\ CarriedBack(outer, sub)[i].free_vars = Merged(outer[i].free_vars, sub[i].free_vars)
<1> DEFINE L == Len(outer)
           new(i) == [outer[i] EXCEPT !.free_vars = Merged(@, sub[i].free_vars)]
<1>1. L \in Nat /\ DOMAIN outer = 1 .. L /\ Len(sub) \in Nat
  BY LenProperties
<1>2. ASSUME NEW i \in 1 .. L
      PROVE  /\ new(i) \in ScScopes /\ new(i).slots = outer[i].slots
             /\ new(i).is_function <=> outer[i].is_function
             /\ new(i).free_vars = Merged(outer[i].free_vars, sub[i].free_vars)
  <2>1. i \in 1 .. Len(outer) /\ i \in 1 .. Len(sub)
    BY <1>1
  <2>2. outer[i] \in ScScopes /\ sub[i] \in ScScopes
    BY <2>1, ElementOfSeq
  <2>3. outer[i].free_vars \in Seq(ScEntries) /\ sub[i].free_vars \in Seq(ScEntries)
    BY <2>2 DEF ScScopes
  <2>4. Merged(outer[i].free_vars, sub[i].free_vars) \in Seq(ScEntries)
    BY <2>3, ScMergedType
  <2> QED BY <2>2, <2>4 DEF ScScopes
<1>3. CarriedBack(outer, sub) = [i \in 1 .. L |-> new(i)]
  BY <1>1 DEF CarriedBack
<1> HIDE DEF new, L
<1>4. CarriedBack(outer, sub) \in Seq(ScScopes) /\ DOMAIN CarriedBack(outer, sub) = 1 .. L
  <2>1. CarriedBack(outer, sub) \in [1 .. L -> ScScopes]
    BY <1>2, <1>3
  <2> QED BY <1>1, <2>1, SeqDef
<1>5. Len(CarriedBack(outer, sub)) = L
  BY <1>1, <1>4, ScLen
<1> QED BY <1>2, <1>3, <1>4, <1>5 DEF L

\* Where the walk stands when a function ends.
LEMMA ScClosing ==
  ASSUME ScTypes, ScNested, Len(compilers) > 1, Last(scopes).is_function
  PROVE  /\ Len(compilers) \in 2 .. Len(compilers)
         /\ ScFirst(Len(compilers)) = Len(scopes) /\ Len(scopes) \in Nat \ {0} /\ scopes # <<>>
         /\ Len(compilers[Len(compilers) - 1].scopes) = Len(scopes) - 1
<1> DEFINE n == Len(compilers)
<1>1. /\ n \in Nat \ {0} /\ n > 1 /\ scopes = compilers[n].scopes /\ Len(scopes) \in Nat
      /\ \A c \in 1 .. n : Len(compilers[c].scopes) \in Nat /\ ScFirst(c) \in Nat \ {0}
  BY ScNow
<1> HIDE DEF n
<1>2. n \in 2 .. n /\ n \in 1 .. n /\ n \in 1 .. Len(compilers) /\ n \in 2 .. Len(compilers)
  <2>1. n \in 2 .. n /\ n \in 1 .. n
    BY <1>1
  <2> QED BY <2>1 DEF n
<1>3. ScFirst(n) <= Len(scopes) /\ ScFirst(n) = Len(compilers[n - 1].scopes) + 1
  BY <1>1, <1>2, ScPositions
<1>4. Len(scopes) \in 1 .. Len(compilers[n].scopes)
  BY <1>1, <1>2, <1>3
<1>5. PICK d \in 2 .. n : Len(scopes) = ScFirst(d)
  BY <1>1, <1>2, <1>4, ScFunction DEF Last
<1>6. d = n
  <2> SUFFICES ASSUME d < n PROVE FALSE
    BY <1>1
  <2>1. d \in 1 .. n /\ d \in 1 .. Len(compilers) /\ d \in 2 .. Len(compilers)
    BY DEF n
  <2>2. Len(compilers[d].scopes) < ScFirst(n) /\ ScFirst(d) <= Len(compilers[d].scopes)
    BY <2>1, <1>2, ScPositions
  <2>3. Len(compilers[d].scopes) \in Nat /\ ScFirst(n) \in Nat /\ Len(scopes) \in Nat
    BY <2>1, <1>1, <1>2
  <2> QED BY <2>2, <2>3, <1>3, <1>5
<1>7. Len(compilers[n - 1].scopes) \in Nat
  BY <1>1, <1>2
<1>8. Len(compilers[n - 1].scopes) = Len(scopes) - 1
  BY <1>1, <1>3, <1>5, <1>6, <1>7
<1>9. scopes # <<>>
  BY <1>1, <1>4, EmptySeq
<1> QED BY <1>1, <1>2, <1>4, <1>5, <1>6, <1>8, <1>9 DEF n

LEMMA ScLinkedSource ==
  ASSUME NEW M, NEW around, NEW place, NEW f, NEW k, NEW entry, NEW source,
         ScLinked(M, around, place, f, k, entry),
         source.is_local <=> entry.is_local, source.index = entry.index
  PROVE  ScLinked(M, around, place, f, k, source)
BY DEF ScLinked

LEMMA ScCloseFunction == ScIInv /\ CloseFunction => ScIInv'
<1> SUFFICES ASSUME ScIInv, CloseFunction PROVE ScIInv'
  OBVIOUS
<1>0. PICK n : n = Len(compilers)
  OBVIOUS
<1> DEFINE L == Len(scopes)
           f0 == Now.fn
           m == n - 1
           list == Last(scopes).free_vars
           around == compilers[m]
           back == CarriedBack(around.scopes, Front(scopes))
           e == [around EXCEPT !.scopes = back]
           taken == [k \in DOMAIN list |-> [is_local |-> list[k].is_local, index |-> list[k].index]]
<1>1. /\ ScTypes /\ ScNested /\ ScHomes /\ ScLookedUp
      /\ ~repeated => ScGrown /\ \E M : ScMeanings(M)
  BY Zenon DEF ScIInv
<1>2. /\ Len(compilers) > 1 /\ Last(scopes).is_function
      /\ sources' = [sources EXCEPT ![f0] = taken]
      /\ compilers' = WithLast(Front(compilers), e)
      /\ env' = Front(env)
      /\ UNCHANGED <<parent, home, looked_up, blocks, repeated>>
  BY <1>0, Zenon DEF CloseFunction
<1>3. /\ n \in 2 .. n /\ ScFirst(n) = L /\ L \in Nat \ {0} /\ scopes # <<>> /\ Len(around.scopes) = L - 1
  BY <1>0, <1>1, <1>2, ScClosing
<1>4. /\ m \in 1 .. n /\ n \in 1 .. n /\ m \in Nat \ {0} /\ m + 1 = n /\ n \in Nat
  BY <1>3
<1>5. /\ Now = compilers[n] /\ scopes = compilers[n].scopes /\ scopes \in Seq(ScScopes)
      /\ \A c \in 1 .. n : /\ compilers[c] \in ScCompilers /\ compilers[c].scopes \in Seq(ScScopes)
                           /\ Len(compilers[c].scopes) \in Nat /\ ScFirst(c) \in Nat \ {0}
  BY <1>0, <1>1, ScNow
<1>6. f0 \in 1 .. Len(parent) /\ f0 = compilers[n].fn
  <2>1. n \in 2 .. Len(compilers)
    BY <1>0, <1>3
  <2> QED BY <1>1, <1>5, <2>1, ScParent
<1>7. list \in Seq(ScEntries) /\ list = scopes[L].free_vars /\ DOMAIN list = 1 .. Len(list) /\ Len(list) \in Nat
  <2>1. n \in 1 .. Len(compilers) /\ L \in 1 .. Len(compilers[n].scopes)
    BY <1>0, <1>3, <1>4, <1>5
  <2>2. compilers[n].scopes[L].free_vars \in Seq(ScEntries)
    BY <2>1, <1>1, ScNow
  <2> QED BY <2>2, <1>5, LenProperties DEF Last
<1>8. /\ Front(scopes) \in Seq(ScScopes) /\ Len(Front(scopes)) = L - 1
      /\ \A i \in 1 .. (L - 1) : Front(scopes)[i] = scopes[i]
  BY <1>3, <1>5, ScFront
<1>9. /\ back \in Seq(ScScopes) /\ Len(back) = L - 1
      /\ \A i \in 1 .. (L - 1) :
           /\ back[i].slots = around.scopes[i].slots
           /\ back[i].is_function <=> around.scopes[i].is_function
           /\ back[i].free_vars = Merged(around.scopes[i].free_vars, scopes[i].free_vars)
  <2>1. around.scopes \in Seq(ScScopes) /\ Len(around.scopes) <= Len(Front(scopes))
    BY <1>3, <1>4, <1>5, <1>8
  <2>2. /\ back \in Seq(ScScopes) /\ Len(back) = Len(around.scopes)
        /\ \A i \in 1 .. Len(around.scopes) :
             /\ back[i].slots = around.scopes[i].slots
             /\ back[i].is_function <=> around.scopes[i].is_function
             /\ back[i].free_vars = Merged(around.scopes[i].free_vars, Front(scopes)[i].free_vars)
    BY <1>8, <2>1, ScCarriedBack
  <2> HIDE DEF back, around
  <2> QED BY <1>3, <1>8, <2>2
<1>10. around \in ScCompilers
  BY <1>4, <1>5
<1> HIDE DEF back
<1>11. e \in ScCompilers /\ e.fn = around.fn /\ e.scopes = back /\ e.func_local_count = around.func_local_count
  BY <1>9, <1>10 DEF ScCompilers
<1> HIDE DEF e
<1>12. /\ compilers' \in Seq(ScCompilers) /\ Len(compilers') = m
       /\ \A c \in 1 .. (m - 1) : compilers'[c] = compilers[c]
       /\ compilers'[m] = e /\ compilers' # <<>> /\ scopes' = back
  <2>1. compilers \in Seq(ScCompilers) /\ compilers # <<>>
    BY <1>1 DEF ScTypes
  <2> DEFINE front == Front(compilers)
  <2>2. /\ front \in Seq(ScCompilers) /\ Len(front) = m /\ \A c \in 1 .. m : front[c] = compilers[c]
    <3>1. /\ Front(compilers) \in Seq(ScCompilers) /\ Len(Front(compilers)) = Len(compilers) - 1
          /\ \A i \in 1 .. (Len(compilers) - 1) : Front(compilers)[i] = compilers[i]
      BY <2>1, ScFront
    <3> QED BY <3>1, <1>0
  <2> HIDE DEF front
  <2>3. front # <<>>
    BY <2>2, <1>4, EmptySeq
  <2>4. /\ WithLast(front, e) \in Seq(ScCompilers) /\ Len(WithLast(front, e)) = Len(front)
        /\ \A i \in 1 .. (Len(front) - 1) : WithLast(front, e)[i] = front[i]
        /\ WithLast(front, e)[Len(front)] = e
    BY <2>2, <2>3, <1>11, ScWithLast
  <2>5. compilers' = WithLast(front, e)
    BY <1>2 DEF front
  <2>6. \A c \in 1 .. (m - 1) : c \in 1 .. m
    BY <1>4
  <2>7. /\ compilers' \in Seq(ScCompilers) /\ Len(compilers') = m
        /\ \A c \in 1 .. (m - 1) : compilers'[c] = compilers[c]
        /\ compilers'[m] = e
    BY <2>2, <2>4, <2>5, <2>6
  <2>8. compilers' # <<>>
    BY <2>7, <1>4, EmptySeq
  <2>9. scopes' = back
    BY <2>7, <1>11 DEF scopes, Now, Last
  <2> QED BY <2>7, <2>8, <2>9
<1>13. /\ env' \in Seq(ScNames) /\ Len(env') = L - 1
       /\ \A i \in 1 .. (L - 1) : env'[i] = env[i]
  <2>1. env \in Seq(ScNames) /\ Len(env) = L
    BY <1>1 DEF ScTypes, ScHomes
  <2>2. env # <<>>
    BY <2>1, <1>3, EmptySeq
  <2>3. /\ Front(env) \in Seq(ScNames) /\ Len(Front(env)) = Len(env) - 1
        /\ \A i \in 1 .. (Len(env) - 1) : Front(env)[i] = env[i]
    BY <2>1, <2>2, ScFront
  <2> QED BY <2>1, <2>3, <1>2
<1>14. \A k \in 1 .. Len(list) : (taken[k].is_local <=> list[k].is_local) /\ taken[k].index = list[k].index
  <2> SUFFICES ASSUME NEW k \in 1 .. Len(list)
               PROVE  (taken[k].is_local <=> list[k].is_local) /\ taken[k].index = list[k].index
    OBVIOUS
  <2>1. list[k] \in ScEntries
    BY <1>7, ElementOfSeq
  <2>2. list[k].is_local \in BOOLEAN
    BY <2>1 DEF ScEntries
  <2>3. taken[k] = [is_local |-> list[k].is_local, index |-> list[k].index]
    BY <1>7
  <2> HIDE DEF list, taken
  <2> QED BY <2>2, <2>3
<1>15. taken \in Seq(ScSources) /\ Len(taken) = Len(list)
  <2>1. \A k \in 1 .. Len(list) : list[k] \in ScEntries
    BY <1>7, ElementOfSeq
  <2> HIDE DEF list
  <2>2. \A k \in 1 .. Len(list) : [is_local |-> list[k].is_local, index |-> list[k].index] \in ScSources
    BY <2>1 DEF ScEntries, ScSources
  <2>3. taken \in [1 .. Len(list) -> ScSources]
    BY <1>7, <2>2
  <2>4. taken \in Seq(ScSources) /\ DOMAIN taken = 1 .. Len(list)
    BY <2>3, <1>7, SeqDef
  <2> QED BY <2>4, <1>7, ScLen
<1> HIDE DEF taken
<1>16. /\ sources' \in Seq(Seq(ScSources)) /\ Len(sources') = Len(parent) /\ sources'[f0] = taken
       /\ \A f \in 1 .. Len(parent) : f # f0 => sources'[f] = sources[f]
  <2>1. sources \in Seq(Seq(ScSources)) /\ Len(sources) = Len(parent)
    BY <1>1 DEF ScTypes
  <2>2. f0 \in 1 .. Len(sources)
    BY <1>6, <2>1
  <2>3. sources' \in Seq(Seq(ScSources)) /\ Len(sources') = Len(sources)
    BY <2>1, <2>2, <1>2, <1>15, ExceptSeq
  <2>4. DOMAIN sources = 1 .. Len(sources)
    BY <2>1, LenProperties
  <2> HIDE DEF f0
  <2> QED BY <2>1, <2>2, <2>3, <2>4, <1>2
<1>17. /\ \A c \in 1 .. m : /\ c \in 1 .. n /\ ScFirst(c)' = ScFirst(c)
                            /\ compilers'[c].fn = compilers[c].fn
                            /\ compilers'[c].func_local_count = compilers[c].func_local_count
                            /\ Len(compilers'[c].scopes) = Len(compilers[c].scopes)
                            /\ Len(compilers[c].scopes) <= L - 1
                            /\ \A i \in 1 .. Len(compilers[c].scopes) :
                                 /\ compilers'[c].scopes[i].slots = compilers[c].scopes[i].slots
                                 /\ compilers'[c].scopes[i].is_function <=> compilers[c].scopes[i].is_function
  <2>1. ASSUME NEW c \in 1 .. m
        PROVE  /\ c \in 1 .. n /\ compilers'[c].fn = compilers[c].fn
               /\ compilers'[c].func_local_count = compilers[c].func_local_count
               /\ Len(compilers'[c].scopes) = Len(compilers[c].scopes)
               /\ Len(compilers[c].scopes) <= L - 1
               /\ \A i \in 1 .. Len(compilers[c].scopes) :
                    /\ compilers'[c].scopes[i].slots = compilers[c].scopes[i].slots
                    /\ compilers'[c].scopes[i].is_function <=> compilers[c].scopes[i].is_function
    <3>1. c \in 1 .. n /\ (c = m \/ c \in 1 .. (m - 1))
      BY <1>4
    <3>2. CASE c = m
      BY <3>1, <3>2, <1>3, <1>9, <1>11, <1>12
    <3>3. CASE c \in 1 .. (m - 1)
      <4>1. compilers'[c] = compilers[c]
        BY <3>3, <1>12
      <4>2. c < m /\ c \in 1 .. Len(compilers) /\ m \in 1 .. Len(compilers)
        BY <3>1, <3>3, <1>0, <1>4
      <4>3. Len(compilers[c].scopes) < Len(compilers[m].scopes)
        BY <4>2, <1>1, ScPair
      <4>4. Len(compilers[c].scopes) \in Nat /\ L - 1 \in Nat
        BY <3>1, <1>3, <1>5
      <4>5. Len(compilers[c].scopes) <= L - 1
        BY <4>3, <4>4, <1>3
      <4> QED BY <3>1, <4>1, <4>5
    <3> QED BY <3>1, <3>2, <3>3
  <2>2. ASSUME NEW c \in 1 .. m PROVE ScFirst(c)' = ScFirst(c)
    <3>1. c # 1 => c - 1 \in 1 .. m
      BY <1>4
    <3> QED BY <2>1, <3>1 DEF ScFirst
  <2> QED BY <2>1, <2>2
<1>18. \A c \in 1 .. m : c \in 1 .. Len(compilers)
  BY <1>0, <1>4
<1> HIDE DEF m, L, f0, list
<1>19. ScTypes'
  <2>1. Len(parent') = Len(parent)
    BY <1>2
  <2> QED BY <1>1, <1>2, <1>12, <1>13, <1>16, <2>1 DEF ScTypes
<1>20. ScNested'
  <2>1. compilers'[1].fn = 0
    <3>1. 1 \in 1 .. m
      BY <1>4
    <3> QED BY <3>1, <1>1, <1>17 DEF ScNested
  <2>2. ASSUME NEW c \in 2 .. m
        PROVE  compilers'[c].fn \in 1 .. Len(parent') /\ parent'[compilers'[c].fn] = compilers'[c - 1].fn
    <3>1. c \in 1 .. m /\ c - 1 \in 1 .. m /\ c \in 2 .. Len(compilers)
      BY <1>4, <1>18
    <3>2. compilers[c].fn \in 1 .. Len(parent) /\ parent[compilers[c].fn] = compilers[c - 1].fn
      BY <3>1, <1>1, ScParent
    <3> QED BY <3>1, <3>2, <1>2, <1>17
  <2>3. ASSUME NEW c \in 1 .. m, NEW d \in 1 .. m, c < d
        PROVE  /\ compilers'[c].fn < compilers'[d].fn
               /\ Len(compilers'[c].scopes) < Len(compilers'[d].scopes)
               /\ \A i \in 1 .. Len(compilers'[c].scopes) :
                    compilers'[c].scopes[i].slots = compilers'[d].scopes[i].slots
    <3>1. /\ compilers[c].fn < compilers[d].fn
          /\ Len(compilers[c].scopes) < Len(compilers[d].scopes)
          /\ \A i \in 1 .. Len(compilers[c].scopes) :
               compilers[c].scopes[i].slots = compilers[d].scopes[i].slots
      BY <2>3, <1>1, <1>18, ScPair
    <3>2. \A i \in 1 .. Len(compilers[c].scopes) : i \in 1 .. Len(compilers[d].scopes)
      <4>1. Len(compilers[c].scopes) \in Nat /\ Len(compilers[d].scopes) \in Nat
        BY <1>5, <1>17
      <4> QED BY <4>1, <3>1
    <3> QED BY <3>1, <3>2, <1>17
  <2>4. ASSUME NEW c \in 1 .. m, NEW i \in 1 .. Len(compilers'[c].scopes)
        PROVE  compilers'[c].scopes[i].is_function <=> \E d \in 2 .. c : i = ScFirst(d)'
    <3>1. i \in 1 .. Len(compilers[c].scopes)
      BY <1>17
    <3>2. compilers[c].scopes[i].is_function <=> \E d \in 2 .. c : i = ScFirst(d)
      BY <3>1, <1>1, <1>18, ScFunction
    <3>3. \A d \in 2 .. c : d \in 1 .. m
      BY <1>4
    <3> QED BY <3>1, <3>2, <3>3, <1>17
  <2> QED BY <1>12, <2>1, <2>2, <2>3, <2>4 DEF ScNested
<1>21. ScHomes'
  <2>1. ASSUME NEW c \in 1 .. m, NEW i \in ScFirst(c)' .. Len(compilers'[c].scopes)
        PROVE  /\ DOMAIN env'[i] = DOMAIN compilers'[c].scopes[i].slots
               /\ \A x \in DOMAIN env'[i] :
                    /\ env'[i][x] \in 1 .. Len(home)
                    /\ home[env'[i][x]] = <<compilers'[c].fn, compilers'[c].scopes[i].slots[x]>>
    <3>1. i \in ScFirst(c) .. Len(compilers[c].scopes) /\ c \in 1 .. Len(compilers)
      BY <1>17, <1>18
    <3>2. /\ DOMAIN env[i] = DOMAIN compilers[c].scopes[i].slots
          /\ \A x \in DOMAIN env[i] :
               /\ env[i][x] \in 1 .. Len(home)
               /\ home[env[i][x]] = <<compilers[c].fn, compilers[c].scopes[i].slots[x]>>
      BY <3>1, <1>1, ScHome
    <3>3. i \in 1 .. (L - 1) /\ i \in 1 .. Len(compilers[c].scopes)
      <4>1. ScFirst(c) \in Nat \ {0} /\ Len(compilers[c].scopes) \in Nat /\ Len(compilers[c].scopes) <= L - 1
        BY <1>5, <1>17
      <4> QED BY <4>1, <3>1, <1>3
    <3>4. env'[i] = env[i] /\ compilers'[c].scopes[i].slots = compilers[c].scopes[i].slots
          /\ compilers'[c].fn = compilers[c].fn
      BY <3>3, <1>13, <1>17
    <3> QED BY <3>2, <3>4
  <2>2. ASSUME NEW v \in 1 .. Len(home)
        PROVE  /\ home[v][1] \in 0 .. Len(parent)
               /\ \A c \in 1 .. m :
                    home[v][1] = compilers'[c].fn => home[v][2] < compilers'[c].func_local_count
    <3>1. /\ home[v][1] \in 0 .. Len(parent)
          /\ \A c \in 1 .. Len(compilers) :
               home[v][1] = compilers[c].fn => home[v][2] < compilers[c].func_local_count
      BY <1>1 DEF ScHomes
    <3> QED BY <3>1, <1>17, <1>18
  <2>3. SlotsAreOwn' /\ home' = home /\ parent' = parent
    BY <1>1, <1>2 DEF ScHomes, SlotsAreOwn
  <2>4. Len(env') = Len(scopes')
    BY <1>9, <1>12, <1>13
  <2> QED BY <1>12, <2>1, <2>2, <2>3, <2>4 DEF ScHomes
<1>22. ScLookedUp'
  <2>1. Len(home) \in Nat /\ Len(parent) \in Nat
    BY <1>1, LenProperties DEF ScTypes
  <2> QED BY <1>1, <1>2, <2>1, ScLookedUpKept
<1>23. ASSUME ScGrown, NEW i \in 1 .. (L - 1) PROVE back[i].free_vars = scopes[i].free_vars
  <2>1. m \in 1 .. Len(compilers) /\ n \in 1 .. Len(compilers) /\ m < n /\ i \in 1 .. Len(compilers[m].scopes)
    <3>1. Len(compilers[m].scopes) = L - 1
      BY <1>3
    <3> QED BY <3>1, <1>0, <1>4
  <2>2. i \in 1 .. Len(compilers[n].scopes)
    <3>1. Len(compilers[n].scopes) = L
      BY <1>5 DEF L
    <3> QED BY <3>1, <1>3
  <2> DEFINE mine == compilers[m].scopes[i].free_vars
             copy == compilers[n].scopes[i].free_vars
  <2>3. mine \in Seq(ScEntries) /\ copy \in Seq(ScEntries)
    BY <2>1, <2>2, <1>1, ScNow
  <2>4. Len(mine) <= Len(copy) /\ \A k \in 1 .. Len(mine) : copy[k] = mine[k]
    BY <2>1, <1>23, ScLonger
  <2>5. \A j, k \in 1 .. Len(copy) : copy[j].name = copy[k].name => j = k
    BY <2>1, <2>2, <1>23, ScDistinct
  <2> HIDE DEF mine, copy
  <2>6. Merged(mine, copy) = copy
    BY <2>3, <2>4, <2>5, ScMergedGrown
  <2> QED BY <2>6, <1>5, <1>9 DEF mine, copy
<1>24. ASSUME ScGrown PROVE ScGrown'
  <2>1. \A i \in 1 .. (L - 1) : compilers'[m].scopes[i].free_vars = compilers[n].scopes[i].free_vars
    BY <1>5, <1>11, <1>12, <1>23, <1>24
  <2>2. \A c \in 1 .. m : c = m \/ c \in 1 .. (m - 1)
    BY <1>4
  <2>3. n \in 1 .. Len(compilers) /\ \A i \in 1 .. (L - 1) : i \in 1 .. Len(compilers[n].scopes)
    <3>1. Len(compilers[n].scopes) = L
      BY <1>5 DEF L
    <3> QED BY <3>1, <1>0, <1>3, <1>4
  <2>4. ASSUME NEW c \in 1 .. m, NEW i \in 1 .. Len(compilers'[c].scopes),
               NEW j \in 1 .. Len(compilers'[c].scopes[i].free_vars),
               NEW k \in 1 .. Len(compilers'[c].scopes[i].free_vars),
               compilers'[c].scopes[i].free_vars[j].name = compilers'[c].scopes[i].free_vars[k].name
        PROVE  j = k
    <3>1. CASE c = m
      <4>1. i \in 1 .. (L - 1)
        BY <3>1, <1>9, <1>11, <1>12
      <4>2. compilers'[c].scopes[i].free_vars = compilers[n].scopes[i].free_vars
        BY <4>1, <3>1, <2>1
      <4> QED BY <4>1, <4>2, <2>3, <2>4, <1>24, ScDistinct
    <3>2. CASE c \in 1 .. (m - 1)
      <4>1. compilers'[c] = compilers[c]
        BY <3>2, <1>12
      <4> QED BY <4>1, <2>4, <1>18, <1>24, ScDistinct
    <3> QED BY <2>2, <3>1, <3>2
  <2>5. ASSUME NEW c \in 1 .. m, NEW d \in 1 .. m, c < d, NEW i \in 1 .. Len(compilers'[c].scopes)
        PROVE  /\ Len(compilers'[c].scopes[i].free_vars) <= Len(compilers'[d].scopes[i].free_vars)
               /\ \A k \in 1 .. Len(compilers'[c].scopes[i].free_vars) :
                    compilers'[d].scopes[i].free_vars[k] = compilers'[c].scopes[i].free_vars[k]
    <3>1. c \in 1 .. (m - 1)
      BY <2>5, <1>4
    <3>2. compilers'[c] = compilers[c] /\ i \in 1 .. Len(compilers[c].scopes)
      BY <3>1, <1>12
    <3>3. ASSUME NEW a \in 1 .. Len(compilers), c < a
          PROVE  /\ Len(compilers[c].scopes[i].free_vars) <= Len(compilers[a].scopes[i].free_vars)
                 /\ \A k \in 1 .. Len(compilers[c].scopes[i].free_vars) :
                      compilers[a].scopes[i].free_vars[k] = compilers[c].scopes[i].free_vars[k]
      BY <3>2, <3>3, <1>18, <1>24, ScLonger
    <3>4. CASE d = m
      <4>1. i \in 1 .. (L - 1)
        <5>1. Len(compilers[c].scopes) <= L - 1 /\ Len(compilers[c].scopes) \in Nat
          BY <1>5, <1>17
        <5> QED BY <5>1, <3>2, <1>3
      <4>2. c < n
        BY <1>4
      <4>3. compilers'[d].scopes[i].free_vars = compilers[n].scopes[i].free_vars
        BY <4>1, <3>4, <2>1
      <4> QED BY <4>2, <4>3, <3>2, <3>3, <2>3
    <3>5. CASE d \in 1 .. (m - 1)
      <4>1. compilers'[d] = compilers[d]
        BY <3>5, <1>12
      <4> QED BY <4>1, <2>5, <3>2, <3>3, <1>18
    <3> QED BY <2>2, <3>4, <3>5
  <2> QED BY <1>12, <2>4, <2>5 DEF ScGrown
<1>25. ASSUME ScGrown, NEW M, ScMeanings(M) PROVE ScMeanings(M)'
  <2>1. /\ \A p \in DOMAIN M : p \in (1 .. Len(parent)) \X Nat /\ M[p] \in 1 .. Len(home)
        /\ \A c \in 2 .. n : ScUnderWay(M, c)
        /\ \A f \in 1 .. Len(parent) :
             (\A c \in 1 .. n : compilers[c].fn # f) => ScComplete(M, f)
        /\ \A r \in looked_up : r.kind = "Free" =>
             <<r.fn, r.index>> \in DOMAIN M /\ M[<<r.fn, r.index>>] = r.meant
    BY <1>0, <1>25 DEF ScMeanings
  <2>2. ASSUME NEW c \in 2 .. m PROVE ScUnderWay(M, c)'
    <3>1. c \in 1 .. m /\ c \in 2 .. n
      BY <1>4
    <3>2. ScFirst(c) \in 1 .. (L - 1) /\ ScFirst(c) \in Nat
      <4>1. c \in 2 .. Len(compilers)
        BY <1>18
      <4>2. ScFirst(c) <= Len(compilers[c].scopes)
        BY <4>1, <1>1, ScPositions
      <4>3. Len(compilers[c].scopes) <= L - 1 /\ Len(compilers[c].scopes) \in Nat /\ ScFirst(c) \in Nat \ {0}
        BY <3>1, <1>5, <1>17
      <4> QED BY <4>2, <4>3, <1>3
    <3>3. ScCapturing(M, parent[compilers[c].fn], home, compilers[c].fn, scopes[ScFirst(c)].free_vars,
                      env, ScFirst(c))
      BY <2>1, <3>1, Zenon DEF ScUnderWay
    <3>4. scopes[ScFirst(c)].free_vars \in Seq(ScEntries)
      <4>1. n \in 1 .. Len(compilers) /\ ScFirst(c) \in 1 .. Len(compilers[n].scopes)
        BY <3>2, <1>0, <1>3, <1>4, <1>5 DEF L
      <4>2. compilers[n].scopes[ScFirst(c)].free_vars \in Seq(ScEntries)
        BY <4>1, <1>1, ScNow
      <4> QED BY <4>2, <1>5
    <3>5. \A i \in 1 .. (ScFirst(c) - 1) : env'[i] = env[i]
      <4>1. \A i \in 1 .. (ScFirst(c) - 1) : i \in 1 .. (L - 1)
        BY <3>2, <1>3
      <4> QED BY <4>1, <1>13
    <3>6. ScCapturing(M, parent[compilers[c].fn], home, compilers[c].fn, scopes[ScFirst(c)].free_vars,
                      env', ScFirst(c))
      BY <3>2, <3>3, <3>4, <3>5, ScCapturingKept
    <3>7. scopes'[ScFirst(c)].free_vars = scopes[ScFirst(c)].free_vars
      BY <3>2, <1>12, <1>23, <1>25
    <3>8. ScCapturing(M, parent'[compilers'[c].fn], home', compilers'[c].fn, scopes'[ScFirst(c)'].free_vars,
                      env', ScFirst(c)')
      BY <3>1, <3>6, <3>7, <1>2, <1>17
    <3> QED BY <3>8, Zenon DEF ScUnderWay
  <2>3. ASSUME NEW f, f = f0 PROVE ScComplete(M, f)'
    <3>1. ScUnderWay(M, n)
      BY <2>1, <1>3
    <3>2. ScCapturing(M, parent[f0], home, f0, list, env, ScFirst(n))
      BY <3>1, <1>3, <1>6, <1>7 DEF ScUnderWay
    <3>3. /\ \A k \in Nat : <<f0, k>> \in DOMAIN M <=> k < Len(list)
          /\ \A k \in 1 .. Len(list) : ScLinked(M, parent[f0], home, f0, k - 1, list[k])
      BY <3>2, Zenon DEF ScCapturing
    <3>4. ASSUME NEW k \in 1 .. Len(list) PROVE ScLinked(M, parent[f0], home, f0, k - 1, taken[k])
      BY <3>3, <1>14, ScLinkedSource
    <3>6. /\ \A k \in Nat : <<f, k>> \in DOMAIN M <=> k < Len(sources'[f])
          /\ \A k \in 1 .. Len(sources'[f]) : ScLinked(M, parent'[f], home', f, k - 1, sources'[f][k])
      BY <3>3, <3>4, <2>3, <1>2, <1>15, <1>16
    <3> QED BY <3>6, Zenon DEF ScComplete
  <2>4. ASSUME NEW f \in 1 .. Len(parent'), \A c \in 1 .. m : compilers'[c].fn # f
        PROVE  ScComplete(M, f)'
    <3>1. CASE f = f0
      BY <3>1, <2>3
    <3>2. CASE f # f0
      <4>1. \A c \in 1 .. n : c = n \/ c \in 1 .. m
        BY <1>4
      <4>2. \A c \in 1 .. n : compilers[c].fn # f
        BY <4>1, <3>2, <2>4, <1>6, <1>17
      <4>3. ScComplete(M, f) /\ f \in 1 .. Len(parent)
        BY <4>2, <2>1, <1>2
      <4>4. sources'[f] = sources[f]
        BY <4>3, <3>2, <1>16
      <4> QED BY <4>3, <4>4, <1>2 DEF ScComplete
    <3> QED BY <3>1, <3>2
  <2> QED BY <2>1, <2>2, <2>4, <1>2, <1>12 DEF ScMeanings
<1>26. ~repeated' => ScGrown' /\ \E M : ScMeanings(M)'
  <2> SUFFICES ASSUME ~repeated' PROVE ScGrown' /\ \E M : ScMeanings(M)'
    OBVIOUS
  <2>1. ScGrown /\ \E M : ScMeanings(M)
    BY <1>1, <1>2
  <2>2. PICK M : ScMeanings(M)
    BY <2>1
  <2>3. ScMeanings(M)'
    BY <2>1, <2>2, <1>25
  <2> QED BY <2>1, <2>3, <1>24
<1> QED BY <1>19, <1>20, <1>21, <1>22, <1>26, Zenon DEF ScIInv

LEMMA ScStep == Assumptions /\ ScIInv /\ [Next]_vars => ScIInv'
<1> SUFFICES ASSUME Assumptions, ScIInv, [Next]_vars PROVE ScIInv'
  OBVIOUS
<1>1. CASE \E x \in Names : Declare(x) \/ LookUp(x)
  <2>1. PICK x \in Names : Declare(x) \/ LookUp(x)
    BY <1>1
  <2> QED BY <2>1, ScDeclare, ScLookUp
<1>2. CASE OpenBlock
  BY <1>2, ScOpenBlock
<1>3. CASE CloseBlock
  BY <1>3, ScCloseBlock
<1>4. CASE OpenFunction
  BY <1>4, ScOpenFunction
<1>5. CASE CloseFunction
  BY <1>5, ScCloseFunction
<1>6. CASE UNCHANGED vars
  <2>1. /\ UNCHANGED compilers /\ UNCHANGED sources /\ UNCHANGED parent /\ UNCHANGED env
        /\ UNCHANGED home /\ UNCHANGED looked_up /\ UNCHANGED blocks /\ UNCHANGED repeated
    BY <1>6 DEF vars
  <2>2. scopes' = scopes
    BY <2>1 DEF scopes, Now, Last
  <2>3. ScTypes'
    BY <2>1 DEF ScIInv, ScTypes
  <2>4. \A c : ScFirst(c)' = ScFirst(c)
    BY <2>1 DEF ScFirst
  <2>5. ScNested'
    BY <2>1, <2>4 DEF ScIInv, ScNested
  <2>6. ScHomes'
    BY <2>1, <2>2, <2>4 DEF ScIInv, ScHomes, SlotsAreOwn
  <2>7. ScLookedUp'
    BY <2>1 DEF ScIInv, ScLookedUp
  <2>8. ~repeated' => ScGrown'
    <3>1. ScGrown' <=> ScGrown
      BY <2>1 DEF ScGrown
    <3>2. ~repeated => ScGrown
      BY Zenon DEF ScIInv
    <3> QED BY <2>1, <3>1, <3>2
  <2>9. ASSUME NEW M, ScMeanings(M) PROVE ScMeanings(M)'
    <3>1. \A c : ScUnderWay(M, c)' <=> ScUnderWay(M, c)
      BY <2>1, <2>2, <2>4 DEF ScUnderWay
    <3>2. \A f : ScComplete(M, f)' <=> ScComplete(M, f)
      BY <2>1 DEF ScComplete
    <3> QED BY <2>1, <2>9, <3>1, <3>2 DEF ScMeanings
  <2>10. ~repeated' => \E M : ScMeanings(M)'
    <3> SUFFICES ASSUME ~repeated' PROVE \E M : ScMeanings(M)'
      OBVIOUS
    <3>1. PICK M : ScMeanings(M)
      BY <2>1 DEF ScIInv
    <3> QED BY <3>1, <2>9
  <2> QED BY <2>3, <2>5, <2>6, <2>7, <2>8, <2>10, Zenon DEF ScIInv
<1> QED BY <1>1, <1>2, <1>3, <1>4, <1>5, <1>6, Zenon DEF Next

-----------------------------------------------------------------------------
(* What the closures find.                                                 *)

ScLook(g, f, index) ==
  IF f = 0 \/ index >= Len(sources[f]) THEN Missing
  ELSE IF sources[f][index + 1].is_local THEN <<parent[f], sources[f][index + 1].index>>
  ELSE g[<<parent[f], sources[f][index + 1].index>>]
ScRule(g) == g = [at \in (0 .. Len(parent)) \X Nat |-> ScLook(g, at[1], at[2])]

LEMMA ScRuleHolds == ASSUME NEW g, ScRule(g) PROVE ScRule(Captured)
<1>1. Captured = CHOOSE h : ScRule(h)
  BY DEF Captured, ScRule, ScLook
<1>2. ScRule(CHOOSE h : ScRule(h))
  BY Zenon
<1> QED BY <1>1, <1>2, Zenon

LEMMA ScRuleAt ==
  ASSUME NEW g, ScRule(g), NEW f \in 0 .. Len(parent), NEW i \in Nat
  PROVE  g[<<f, i>>] = ScLook(g, f, i)
<1>1. <<f, i>> \in (0 .. Len(parent)) \X Nat
  OBVIOUS
<1>2. <<f, i>>[1] = f /\ <<f, i>>[2] = i
  OBVIOUS
<1>3. g[<<f, i>>] = ScLook(g, <<f, i>>[1], <<f, i>>[2])
  BY <1>1 DEF ScRule
<1> QED BY <1>2, <1>3

\* What each capture should find: the home of its variable.
ScMeant(M) ==
  [at \in (0 .. Len(parent)) \X Nat |->
     IF at[1] = 0 \/ at[2] >= Len(sources[at[1]]) THEN Missing ELSE home[M[at]]]

LEMMA ScMeantIs ==
  ASSUME ScTypes, NEW M, ScMeanings(M), \A f \in 1 .. Len(parent) : ScComplete(M, f)
  PROVE  ScRule(ScMeant(M))
<1> DEFINE D == (0 .. Len(parent)) \X Nat
           C == ScMeant(M)
           value(at) == IF at[1] = 0 \/ at[2] >= Len(sources[at[1]]) THEN Missing ELSE home[M[at]]
<1>1. /\ Len(parent) \in Nat /\ sources \in Seq(Seq(ScSources)) /\ Len(sources) = Len(parent)
      /\ \A f \in 1 .. Len(parent) :
           /\ parent[f] \in Nat /\ parent[f] < f /\ sources[f] \in Seq(ScSources) /\ Len(sources[f]) \in Nat
           /\ \A k \in 1 .. Len(sources[f]) : sources[f][k] \in ScSources
  <2>1. /\ parent \in Seq(Nat) /\ sources \in Seq(Seq(ScSources)) /\ Len(sources) = Len(parent)
        /\ \A f \in 1 .. Len(parent) : parent[f] < f
    BY DEF ScTypes
  <2>2. ASSUME NEW f \in 1 .. Len(parent)
        PROVE  /\ parent[f] \in Nat /\ sources[f] \in Seq(ScSources) /\ Len(sources[f]) \in Nat
               /\ \A k \in 1 .. Len(sources[f]) : sources[f][k] \in ScSources
    <3>1. parent[f] \in Nat /\ sources[f] \in Seq(ScSources)
      BY <2>1, ElementOfSeq
    <3> QED BY <3>1, LenProperties, ElementOfSeq
  <2> QED BY <2>1, <2>2, LenProperties
<1>2. \A p \in DOMAIN M : p \in (1 .. Len(parent)) \X Nat
  BY DEF ScMeanings
<1>3. ASSUME NEW at \in D PROVE value(at) = ScLook(C, at[1], at[2])
  <2>1. PICK f \in 0 .. Len(parent), i \in Nat : at = <<f, i>>
    OBVIOUS
  <2>2. at[1] = f /\ at[2] = i
    BY <2>1
  <2>3. CASE f = 0 \/ i >= Len(sources[f])
    BY <2>2, <2>3 DEF ScLook
  <2>4. CASE f # 0 /\ i < Len(sources[f])
    <3>1. f \in 1 .. Len(parent) /\ i + 1 \in 1 .. Len(sources[f]) /\ (i + 1) - 1 = i
      BY <2>1, <2>4, <1>1
    <3>2. ScLinked(M, parent[f], home, f, i, sources[f][i + 1])
      BY <3>1 DEF ScComplete
    <3> DEFINE s == sources[f][i + 1]
               p == <<parent[f], s.index>>
    <3>3. s \in ScSources /\ s.index \in Nat /\ parent[f] \in 0 .. Len(parent)
      BY <3>1, <1>1 DEF ScSources
    <3>4. value(at) = home[M[<<f, i>>]]
      BY <2>1, <2>2, <3>1, <1>1
    <3>5. ScLook(C, f, i) = IF s.is_local THEN p ELSE C[p]
      BY <3>1, <1>1 DEF ScLook
    <3>6. CASE s.is_local
      BY <3>2, <3>4, <3>5, <3>6, <2>2 DEF ScLinked
    <3>7. CASE ~ s.is_local
      <4>1. p \in DOMAIN M /\ M[p] = M[<<f, i>>]
        BY <3>2, <3>7 DEF ScLinked
      <4>2. parent[f] \in 1 .. Len(parent)
        BY <4>1, <1>2
      <4>3. s.index < Len(sources[parent[f]])
        BY <4>1, <4>2, <3>3 DEF ScComplete
      <4>4. p \in D /\ p[1] = parent[f] /\ p[2] = s.index
        BY <3>3
      <4>5. C[p] = value(p)
        BY <4>4 DEF ScMeant
      <4>6. value(p) = home[M[p]]
        <5>1. Len(sources[parent[f]]) \in Nat /\ parent[f] # 0
          BY <4>2, <1>1
        <5>2. ~ (p[1] = 0 \/ p[2] >= Len(sources[p[1]]))
          BY <5>1, <4>3, <4>4, <3>3
        <5> HIDE DEF p
        <5> QED BY <5>2
      <4>7. value(at) = value(p)
        BY <4>1, <4>6, <3>4, Zenon
      <4>8. ScLook(C, f, i) = value(p)
        BY <4>5, <3>5, <3>7, Zenon
      <4> QED BY <4>7, <4>8, <2>2, Zenon
    <3> QED BY <3>6, <3>7
  <2> QED BY <2>1, <2>3, <2>4, <1>1
<1>4. C = [at \in D |-> value(at)]
  BY DEF ScMeant
<1> HIDE DEF value, C
<1>5. C = [at \in D |-> ScLook(C, at[1], at[2])]
  BY <1>3, <1>4
<1> QED BY <1>5 DEF C, D, ScRule

LEMMA ScFinds ==
  ASSUME ScTypes, NEW M, ScMeanings(M), \A f \in 1 .. Len(parent) : ScComplete(M, f)
  PROVE  \A f \in 1 .. Len(parent), k \in Nat :
           <<f, k>> \in DOMAIN M => Captured[<<f, k>>] = home[M[<<f, k>>]]
<1> DEFINE Right(f) == \A k \in Nat : <<f, k>> \in DOMAIN M => Captured[<<f, k>>] = home[M[<<f, k>>]]
           Bad == {f \in 1 .. Len(parent) : ~ Right(f)}
<1>1. /\ Len(parent) \in Nat /\ sources \in Seq(Seq(ScSources)) /\ Len(sources) = Len(parent)
      /\ \A f \in 1 .. Len(parent) :
           /\ parent[f] \in Nat /\ parent[f] < f /\ sources[f] \in Seq(ScSources) /\ Len(sources[f]) \in Nat
           /\ \A k \in 1 .. Len(sources[f]) : sources[f][k] \in ScSources
  <2>1. /\ parent \in Seq(Nat) /\ sources \in Seq(Seq(ScSources)) /\ Len(sources) = Len(parent)
        /\ \A f \in 1 .. Len(parent) : parent[f] < f
    BY DEF ScTypes
  <2>2. ASSUME NEW f \in 1 .. Len(parent)
        PROVE  /\ parent[f] \in Nat /\ sources[f] \in Seq(ScSources) /\ Len(sources[f]) \in Nat
               /\ \A k \in 1 .. Len(sources[f]) : sources[f][k] \in ScSources
    <3>1. parent[f] \in Nat /\ sources[f] \in Seq(ScSources)
      BY <2>1, ElementOfSeq
    <3> QED BY <3>1, LenProperties, ElementOfSeq
  <2> QED BY <2>1, <2>2, LenProperties
<1>2. \A p \in DOMAIN M : p \in (1 .. Len(parent)) \X Nat
  BY DEF ScMeanings
<1>3. ScRule(Captured)
  BY ScMeantIs, ScRuleHolds
<1>4. ASSUME NEW f \in 1 .. Len(parent), \A h \in 1 .. Len(parent) : h < f => Right(h) PROVE Right(f)
  <2> SUFFICES ASSUME NEW k \in Nat, <<f, k>> \in DOMAIN M PROVE Captured[<<f, k>>] = home[M[<<f, k>>]]
    OBVIOUS
  <2>1. k < Len(sources[f])
    BY DEF ScComplete
  <2>2. k + 1 \in 1 .. Len(sources[f]) /\ (k + 1) - 1 = k /\ f # 0 /\ f \in 0 .. Len(parent)
    BY <2>1, <1>1
  <2>3. ScLinked(M, parent[f], home, f, k, sources[f][k + 1])
    BY <2>2 DEF ScComplete
  <2> DEFINE s == sources[f][k + 1]
             p == <<parent[f], s.index>>
  <2>4. s.index \in Nat
    BY <2>2, <1>1 DEF ScSources
  <2>5. Captured[<<f, k>>] = ScLook(Captured, f, k)
    BY <1>3, <2>2, ScRuleAt
  <2>6. Captured[<<f, k>>] = IF s.is_local THEN p ELSE Captured[p]
    BY <2>1, <2>2, <2>5, <1>1 DEF ScLook
  <2>7. CASE s.is_local
    BY <2>3, <2>6, <2>7 DEF ScLinked
  <2>8. CASE ~ s.is_local
    <3>1. p \in DOMAIN M /\ M[p] = M[<<f, k>>]
      BY <2>3, <2>8 DEF ScLinked
    <3>2. parent[f] \in 1 .. Len(parent) /\ parent[f] < f
      BY <3>1, <1>1, <1>2
    <3>3. Right(parent[f])
      BY <3>2, <1>4
    <3>4. Captured[p] = home[M[p]]
      BY <3>1, <3>3, <2>4
    <3> QED BY <3>1, <3>4, <2>6, <2>8
  <2> QED BY <2>7, <2>8
<1> HIDE DEF Right
<1>5. Bad = {}
  <2> SUFFICES ASSUME Bad # {} PROVE FALSE
    OBVIOUS
  <2>1. Bad \subseteq Nat
    BY <1>1
  <2>2. Min(Bad) \in Bad /\ \A m \in Bad : Min(Bad) <= m
    BY <2>1, ScMin
  <2>3. PICK f \in Bad : \A h \in Bad : f <= h
    BY <2>2
  <2>4. f \in 1 .. Len(parent) /\ ~ Right(f)
    BY <2>3
  <2>5. \A h \in 1 .. Len(parent) : h < f => Right(h)
    BY <2>3, <2>4, <1>1
  <2> QED BY <2>4, <2>5, <1>4
<1>6. \A f \in 1 .. Len(parent) : Right(f)
  BY <1>5
<1> QED BY <1>6 DEF Right

LEMMA ScNamesAreRight == ScIInv => RightUnlessRepeated /\ SlotsAreOwn
<1> SUFFICES ASSUME ScIInv PROVE RightUnlessRepeated /\ SlotsAreOwn
  OBVIOUS
<1>1. SlotsAreOwn
  BY DEF ScIInv, ScHomes
<1>2. ASSUME ~repeated, Ended, NEW r \in looked_up
      PROVE  IF r.meant = 0 THEN r.kind = "Global"
             ELSE r.kind # "Global" /\ Found(r) = home[r.meant]
  <2>1. ScTypes /\ ScNested /\ ScLookedUp /\ \E M : ScMeanings(M)
    BY <1>2 DEF ScIInv
  <2>2. PICK M : ScMeanings(M)
    BY <2>1
  <2>3. \A f \in 1 .. Len(parent) : ScComplete(M, f)
    <3>1. Len(compilers) = 1 /\ compilers[1].fn = 0
      BY <1>2, <2>1 DEF Ended, ScNested
    <3>2. \A f \in 1 .. Len(parent) : \A c \in 1 .. Len(compilers) : compilers[c].fn # f
      BY <3>1
    <3> QED BY <2>2, <3>2 DEF ScMeanings
  <2>4. \A f \in 1 .. Len(parent), k \in Nat :
          <<f, k>> \in DOMAIN M => Captured[<<f, k>>] = home[M[<<f, k>>]]
    BY <2>1, <2>2, <2>3, ScFinds
  <2>5. r.kind \in {"Local", "Free", "Global"} /\ r.fn \in Nat /\ r.index \in Nat
    BY <2>1 DEF ScTypes, ScReferences
  <2>6. CASE r.kind = "Free"
    <3>1. <<r.fn, r.index>> \in DOMAIN M /\ M[<<r.fn, r.index>>] = r.meant
      BY <2>2, <2>6 DEF ScMeanings
    <3>2. <<r.fn, r.index>> \in (1 .. Len(parent)) \X Nat /\ M[<<r.fn, r.index>>] \in 1 .. Len(home)
      BY <3>1, <2>2 DEF ScMeanings
    <3>3. r.fn \in 1 .. Len(parent) /\ r.meant # 0
      BY <3>1, <3>2
    <3>4. Captured[<<r.fn, r.index>>] = home[r.meant]
      BY <3>1, <3>3, <2>4, <2>5
    <3> QED BY <3>3, <3>4, <2>6 DEF Found
  <2>7. CASE r.kind = "Local"
    BY <2>1, <2>7 DEF ScLookedUp, Found
  <2>8. CASE r.kind = "Global"
    BY <2>1, <2>8 DEF ScLookedUp
  <2> QED BY <2>5, <2>6, <2>7, <2>8
<1>3. RightUnlessRepeated
  BY <1>2, Zenon DEF RightUnlessRepeated, NamesAreRight
<1> QED BY <1>1, <1>3

LEMMA ScTypeOK == ScIInv => TypeOK
<1> SUFFICES ASSUME ScIInv PROVE TypeOK
  OBVIOUS
<1>1. ScTypes /\ ScNested /\ ScHomes
  BY DEF ScIInv
<1>2. /\ compilers \in Seq(ScCompilers) /\ DOMAIN compilers = 1 .. Len(compilers) /\ Len(compilers) \in Nat
      /\ parent \in Seq(Nat) /\ DOMAIN parent = 1 .. Len(parent) /\ Len(parent) \in Nat
  BY <1>1, LenProperties DEF ScTypes
<1>3. ASSUME NEW c \in 1 .. Len(compilers)
      PROVE  /\ compilers[c].fn \in 0 .. Len(parent) /\ compilers[c].func_local_count \in Nat
             /\ \A i \in DOMAIN compilers[c].scopes : DOMAIN compilers[c].scopes[i].slots \subseteq Names
  <2>1. /\ compilers[c] \in ScCompilers
    BY <1>2, ElementOfSeq
  <2>2. compilers[c].scopes \in Seq(ScScopes) /\ compilers[c].func_local_count \in Nat
    BY <2>1 DEF ScCompilers
  <2>3. compilers[c].fn \in 0 .. Len(parent)
    <3>1. c = 1 \/ c \in 2 .. Len(compilers)
      BY <1>2
    <3> QED BY <3>1, <1>1, <1>2 DEF ScNested
  <2>4. ASSUME NEW i \in DOMAIN compilers[c].scopes PROVE DOMAIN compilers[c].scopes[i].slots \subseteq Names
    <3>1. i \in 1 .. Len(compilers[c].scopes)
      BY <2>2, LenProperties
    <3>2. compilers[c].scopes[i] \in ScScopes
      BY <3>1, <2>2, ElementOfSeq
    <3>3. compilers[c].scopes[i].slots \in ScNames
      BY <3>2 DEF ScScopes
    <3> QED BY <3>3 DEF ScNames
  <2> QED BY <2>2, <2>3, <2>4
<1>4. \A f \in DOMAIN parent : parent[f] \in 0 .. (f - 1)
  <2>1. \A f \in 1 .. Len(parent) : parent[f] \in Nat /\ parent[f] < f
    BY <1>1, <1>2, ElementOfSeq DEF ScTypes
  <2> QED BY <2>1, <1>2
<1> QED BY <1>1, <1>2, <1>3, <1>4 DEF TypeOK, ScTypes, ScHomes

-----------------------------------------------------------------------------
(* What follows.                                                           *)

LEMMA ScInvariance == ASSUME Assumptions PROVE Spec => []ScIInv
<1>1. Init => ScIInv
  BY ScInit
<1>2. ScIInv /\ [Next]_vars => ScIInv'
  BY ScStep
<1> QED BY <1>1, <1>2, PTL DEF Spec

\* A name reads and writes the innermost variable of that name declared so far, through
\* any nesting of functions and blocks, unless a function had captured it before one
\* inside it did; no two variables of a function have one slot (compiler.rs:127-216,
\* 1414-1466).
THEOREM NamesAreFound == ASSUME Assumptions PROVE Spec => [](RightUnlessRepeated /\ SlotsAreOwn)
BY ScInvariance, ScNamesAreRight, PTL

\* Every variable of the compiler keeps to its type.
THEOREM TypeCorrect == ASSUME Assumptions PROVE Spec => []TypeOK
BY ScInvariance, ScTypeOK, PTL
=============================================================================
