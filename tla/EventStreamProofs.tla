-------------------------- MODULE EventStreamProofs --------------------------
(***************************************************************************)
(* What EventStream promises, proved for every set of tasks, capacity of   *)
(* the buffer, number of runs and modulus of the sequence numbers.         *)
(*                                                                         *)
(* Converges speaks of the moments when nothing is owed or queued, so it   *)
(* is not inductive.  Truth says where the truth about a task is at any    *)
(* other moment (Coming): owed by a run or a command, lost in an overflow  *)
(* that will be made good, the last word in the queue, or shown - by the   *)
(* table, by the answer of the command under way, or by the pages of the   *)
(* snapshot under way.  EmitKeeps is what the buffer owes to that: whoever *)
(* emits, it keeps the last word on every task or admits an overflow.      *)
(***************************************************************************)
EXTENDS EventStream, FiniteSetTheorems, SequenceTheorems, WellFoundedInduction, TLAPS

-----------------------------------------------------------------------------
(* Taking elements out of a queue *)

LEMMA LeastOf ==
  ASSUME NEW S, S \subseteq Nat, S # {}
  PROVE  Min(S) \in S /\ \A x \in S : Min(S) <= x
<1> DEFINE R == StrictSubsetOrdering(Nat)
           T == {1 .. n : n \in S}
<1>1. T \subseteq FiniteSubsetsOf(Nat) /\ T # {}
  <2>1. \A n \in S : IsFiniteSet(1 .. n) /\ 1 .. n \subseteq Nat
    BY FS_Interval
  <2> QED
    BY <2>1 DEF FiniteSubsetsOf
<1>2. IsWellFoundedOn(R, FiniteSubsetsOf(Nat))
  BY FS_StrictSubsetOrderingWellFounded
<1> HIDE DEF R
<1>3. PICK s \in T : \A r \in T : ~(<<r, s>> \in R)
  BY <1>1, <1>2, WFMin
<1>4. PICK n \in S : s = 1 .. n
  BY <1>3
<1>5. ASSUME NEW y \in S, y < n PROVE FALSE
  <2>1. 1 .. y \in T
    BY <1>5
  <2>2. 1 .. y \subseteq 1 .. n /\ 1 .. y # 1 .. n
    <3>1. y \in Nat /\ n \in Nat /\ n \in 1 .. n /\ n \notin 1 .. y
      BY <1>5
    <3> QED
      BY <1>5, <3>1
  <2>3. 1 .. y \subseteq Nat /\ 1 .. n \subseteq Nat
    OBVIOUS
  <2>4. <<1 .. y, 1 .. n>> \in R
    BY <2>2, <2>3 DEF R, StrictSubsetOrdering
  <2> QED
    BY <1>3, <1>4, <2>1, <2>4
<1>6. \A y \in S : n <= y
  BY <1>5
<1> QED
  BY <1>4, <1>6 DEF Min

\* q2 is q without what is at m.
Without(q2, q, m) ==
  /\ Len(q2) = Len(q) - 1
  /\ \A i \in 1 .. Len(q2) : q2[i] = IF i < m THEN q[i] ELSE q[i + 1]

LEMMA RemovedAt ==
  ASSUME NEW E, NEW q, q \in Seq(E), NEW k, k \in DOMAIN q
  PROVE  RemoveAt(q, k) \in Seq(E) /\ Without(RemoveAt(q, k), q, k)
<1> DEFINE a == SubSeq(q, 1, k - 1)
           b == SubSeq(q, k + 1, Len(q))
           z == a \o b
<1>1. Len(q) \in Nat /\ DOMAIN q = 1 .. Len(q) /\ k \in 1 .. Len(q)
      /\ \A i \in 1 .. Len(q) : q[i] \in E
  BY LenProperties, ElementOfSeq
<1>2. /\ a \in Seq(E) /\ Len(a) = k - 1
      /\ \A i \in 1 .. k - 1 : a[i] = q[i]
  <2>1. \A i \in 1 .. k - 1 : q[i] \in E
    BY <1>1
  <2>2. k \in Int /\ k >= 1 /\ k - 1 \in Int
    BY <1>1
  <2>3. /\ a \in Seq(E) /\ Len(a) = IF 1 <= k - 1 THEN k - 1 - 1 + 1 ELSE 0
        /\ \A i \in 1 .. (k - 1 - 1 + 1) : a[i] = q[1 + i - 1]
    BY <2>1, <2>2, SubSeqProperties
  <2> QED BY <2>2, <2>3
<1>3. /\ b \in Seq(E) /\ Len(b) = Len(q) - k
      /\ \A i \in 1 .. Len(q) - k : b[i] = q[k + i]
  <2>1. \A i \in k + 1 .. Len(q) : q[i] \in E
    BY <1>1
  <2>2. k \in Int /\ k <= Len(q) /\ k + 1 \in Int /\ Len(q) \in Int
    BY <1>1
  <2>3. /\ b \in Seq(E)
        /\ Len(b) = IF k + 1 <= Len(q) THEN Len(q) - (k + 1) + 1 ELSE 0
        /\ \A i \in 1 .. (Len(q) - (k + 1) + 1) : b[i] = q[k + 1 + i - 1]
    BY <2>1, <2>2, SubSeqProperties
  <2> QED BY <2>2, <2>3
<1> HIDE DEF a, b
<1>4. /\ z \in Seq(E) /\ Len(z) = Len(q) - 1
      /\ \A i \in 1 .. Len(z) : z[i] = IF i <= k - 1 THEN a[i] ELSE b[i - (k - 1)]
  <2>1. /\ z \in Seq(E) /\ Len(z) = Len(a) + Len(b)
        /\ \A i \in 1 .. Len(a) + Len(b) :
             z[i] = IF i <= Len(a) THEN a[i] ELSE b[i - Len(a)]
    BY <1>2, <1>3, ConcatProperties
  <2> QED BY <1>1, <1>2, <1>3, <2>1
<1> HIDE DEF z
<1>5. ASSUME NEW i \in 1 .. Len(z) PROVE z[i] = IF i < k THEN q[i] ELSE q[i + 1]
  <2>1. i \in Nat /\ k \in Nat /\ i >= 1 /\ i <= Len(q) - 1 /\ k <= Len(q)
    BY <1>1, <1>4
  <2>2. CASE i < k
    BY <1>2, <1>4, <2>1, <2>2
  <2>3. CASE ~(i < k)
    <3>1. i - (k - 1) \in 1 .. Len(q) - k /\ k + (i - (k - 1)) = i + 1
      BY <1>1, <2>1, <2>3
    <3>2. b[i - (k - 1)] = q[i + 1]
      BY <1>3, <3>1
    <3> QED
      BY <1>4, <2>1, <2>3, <3>2
  <2> QED
    BY <2>2, <2>3
<1>6. RemoveAt(q, k) = z
  BY DEF RemoveAt, z, a, b
<1> QED
  BY <1>4, <1>5, <1>6 DEF Without

LEMMA FirstRemoved ==
  ASSUME NEW E, NEW q, q \in Seq(E), NEW S, S \subseteq DOMAIN q
  PROVE  /\ S = {} => WithoutFirst(q, S) = q
         /\ S # {} => /\ WithoutFirst(q, S) \in Seq(E)
                      /\ \E m \in S : Without(WithoutFirst(q, S), q, m)
<1>1. CASE S = {}
  BY <1>1 DEF WithoutFirst
<1>2. CASE S # {}
  <2>1. S \subseteq Nat
    BY LenProperties
  <2>2. Min(S) \in S
    BY <1>2, <2>1, LeastOf
  <2> QED
    BY <1>2, <2>2, RemovedAt DEF WithoutFirst
<1> QED
  BY <1>1, <1>2

\* How many of S come before i, with i itself.
Rank(S, i) == Cardinality({j \in S : j <= i})

LEMMA UpTo ==
  ASSUME NEW n \in Nat
  PROVE  IsFiniteSet(1 .. n) /\ Cardinality(1 .. n) = n
<1>1. 1 \in Int /\ n \in Int
  OBVIOUS
<1>2. Cardinality(1 .. n) = IF 1 > n THEN 0 ELSE n - 1 + 1
  BY <1>1, FS_Interval
<1> QED
  BY <1>1, <1>2, FS_Interval

LEMMA AsSequence ==
  ASSUME NEW n \in Nat, NEW E, NEW g, g \in [1 .. n -> E]
  PROVE  g \in Seq(E) /\ Len(g) = n
<1>1. g \in Seq(E)
  BY SeqDef
<1>2. DOMAIN g = 1 .. Len(g) /\ Len(g) \in Nat /\ DOMAIN g = 1 .. n
  BY <1>1, LenProperties
<1>3. Len(g) = n
  <2>1. Len(g) = 0 \/ Len(g) \in 1 .. n
    BY <1>2
  <2>2. n = 0 \/ n \in 1 .. Len(g)
    BY <1>2
  <2> QED
    BY <1>2, <2>1, <2>2
<1> QED
  BY <1>1, <1>3

LEMMA RankGrows ==
  ASSUME NEW S, IsFiniteSet(S), S \subseteq Nat, NEW i \in S, NEW j \in S
  PROVE  /\ Rank(S, i) \in 1 .. Cardinality(S)
         /\ i < j => Rank(S, i) < Rank(S, j)
         /\ i = j <=> Rank(S, i) = Rank(S, j)
<1> DEFINE Below(k) == {l \in S : l <= k}
<1>1. ASSUME NEW k \in S
      PROVE  /\ IsFiniteSet(Below(k)) /\ Cardinality(Below(k)) \in Nat
             /\ Cardinality(Below(k)) <= Cardinality(S) /\ Cardinality(Below(k)) # 0
             /\ k \in Below(k)
  <2>1. IsFiniteSet(Below(k)) /\ Cardinality(Below(k)) <= Cardinality(S) /\ k \in Below(k)
    BY FS_Subset
  <2> QED
    BY <2>1, FS_CardinalityType, FS_EmptySet
<1>2. Cardinality(S) \in Nat
  BY FS_CardinalityType
<1>3. ASSUME NEW k \in S, NEW l \in S, k < l
      PROVE  Cardinality(Below(k)) < Cardinality(Below(l))
  <2>1. Below(k) \subseteq Below(l) /\ l \in Below(l) /\ l \notin Below(k)
    <3>1. k \in Nat /\ l \in Nat /\ l \in S
      BY <1>3
    <3>2. ASSUME NEW x \in Below(k) PROVE x \in Below(l)
      <4>1. x \in Nat /\ x \in S /\ x <= k
        OBVIOUS
      <4> QED
        BY <1>3, <3>1, <4>1
    <3>3. l <= l /\ ~(l <= k)
      BY <1>3, <3>1
    <3>4. l \in Below(l) /\ l \notin Below(k)
      BY <3>1, <3>3
    <3> QED
      BY <3>2, <3>4
  <2> DEFINE A == Below(k)
             B == Below(l)
  <2>2. IsFiniteSet(B) /\ A \subseteq B /\ A # B /\ Cardinality(A) \in Nat /\ Cardinality(B) \in Nat
    BY <1>1, <2>1
  <2> HIDE DEF A, B
  <2>3. Cardinality(A) <= Cardinality(B) /\ Cardinality(A) # Cardinality(B)
    BY <2>2, FS_Subset
  <2> QED
    BY <2>2, <2>3 DEF A, B
<1>4. Rank(S, i) = Cardinality(Below(i)) /\ Rank(S, j) = Cardinality(Below(j))
  BY DEF Rank
<1>5. i < j \/ i = j \/ j < i
  OBVIOUS
<1>6. /\ Cardinality(Below(i)) \in Nat /\ Cardinality(Below(i)) <= Cardinality(S)
      /\ Cardinality(Below(i)) # 0 /\ Cardinality(Below(j)) \in Nat
      /\ i < j => Cardinality(Below(i)) < Cardinality(Below(j))
      /\ j < i => Cardinality(Below(j)) < Cardinality(Below(i))
  BY <1>1, <1>3
<1> HIDE DEF Below
<1> QED
  BY <1>2, <1>4, <1>5, <1>6

\* q2 is what is at the places S of q, in order: f says where each element was.
Picks(f, q2, q, S) ==
  /\ \A k \in 1 .. Len(q2) : f[k] \in S /\ q2[k] = q[f[k]]
  /\ \A k, l \in 1 .. Len(q2) : k < l => f[k] < f[l]
  /\ \A i \in S : \E k \in 1 .. Len(q2) : f[k] = i

LEMMA RetainedIs ==
  ASSUME NEW E, NEW q, q \in Seq(E), NEW S, S \subseteq DOMAIN q
  PROVE  /\ Retained(q, S) \in Seq(E) /\ Len(Retained(q, S)) <= Len(q)
         /\ \E f : Picks(f, Retained(q, S), q, S)
<1> DEFINE n == Cardinality(S)
           Place(k) == CHOOSE i \in S : Cardinality({j \in S : j <= i}) = k
           f == [k \in 1 .. n |-> Place(k)]
           rank == [i \in S |-> Rank(S, i)]
           q2 == [k \in 1 .. n |-> q[Place(k)]]
<1>1. /\ DOMAIN q = 1 .. Len(q) /\ Len(q) \in Nat
      /\ \A i \in DOMAIN q : q[i] \in E
  BY LenProperties, ElementOfSeq
<1>2. IsFiniteSet(1 .. Len(q)) /\ Cardinality(1 .. Len(q)) = Len(q)
  BY <1>1, UpTo
<1>3. IsFiniteSet(S) /\ n <= Len(q) /\ n \in Nat /\ S \subseteq Nat
  BY <1>1, <1>2, FS_Subset, FS_CardinalityType
<1>4. rank \in Injection(S, 1 .. n)
  BY <1>3, RankGrows DEF Injection, IsInjective
<1>5. IsFiniteSet(1 .. n) /\ Cardinality(1 .. n) = n
  BY <1>3, UpTo
<1>6. rank \in Surjection(S, 1 .. n)
  BY <1>4, <1>5, FS_Injection
<1>7. ASSUME NEW k \in 1 .. n
      PROVE  Place(k) \in S /\ Rank(S, Place(k)) = k
  <2>1. \E i \in S : Rank(S, i) = k
    BY <1>6 DEF Surjection
  <2> QED
    BY <2>1 DEF Rank
<1>8. q2 \in Seq(E) /\ Len(q2) = n /\ \A k \in 1 .. n : q2[k] = q[Place(k)]
  <2>1. \A k \in 1 .. n : q[Place(k)] \in E
    BY <1>1, <1>7
  <2>2. q2 \in [1 .. n -> E] /\ \A k \in 1 .. n : q2[k] = q[Place(k)]
    <3> HIDE DEF Place, n
    <3> QED
      BY <2>1
  <2> HIDE DEF q2
  <2> QED
    BY <1>3, <2>2, AsSequence
<1>9. Retained(q, S) = q2
  BY DEF Retained
<1>10. \A k \in 1 .. n : f[k] = Place(k)
  OBVIOUS
<1> HIDE DEF Place, f, rank, q2
<1>11. ASSUME NEW k \in 1 .. n, NEW l \in 1 .. n, k < l
       PROVE  f[k] < f[l]
  <2>1. f[k] \in S /\ f[l] \in S /\ Rank(S, f[k]) = k /\ Rank(S, f[l]) = l
    BY <1>7, <1>10
  <2>2. f[l] < f[k] => l < k
    BY <1>3, <2>1, RankGrows
  <2>3. f[k] \in Nat /\ f[l] \in Nat /\ f[k] # f[l]
    BY <1>3, <1>11, <2>1
  <2> QED
    BY <1>3, <1>11, <2>2, <2>3
<1>12. ASSUME NEW i \in S
       PROVE  \E k \in 1 .. n : f[k] = i
  <2>1. Rank(S, i) \in 1 .. n
    BY <1>3, RankGrows
  <2>2. f[Rank(S, i)] \in S /\ Rank(S, f[Rank(S, i)]) = Rank(S, i)
    BY <1>7, <1>10, <2>1
  <2>3. f[Rank(S, i)] = i
    BY <1>3, <2>2, RankGrows
  <2> QED
    BY <2>1, <2>3
<1>13. Picks(f, q2, q, S)
  BY <1>7, <1>8, <1>10, <1>11, <1>12 DEF Picks
<1> QED
  BY <1>3, <1>8, <1>9, <1>13

-----------------------------------------------------------------------------
(* What a queue says of a task *)

IsWord(e, t) == e.kind = "task" /\ e.task = t

NoWord(q, t) == \A i \in DOMAIN q : ~IsWord(q[i], t)

\* The last word on t in the queue is s.
LastWord(q, t, s) ==
  \E i \in DOMAIN q :
    /\ IsWord(q[i], t) /\ q[i].state = s
    /\ \A j \in DOMAIN q : j > i => ~IsWord(q[j], t)

\* q2 says of u what q says.
SaysAs(q2, q, u) ==
  /\ NoWord(q, u) => NoWord(q2, u)
  /\ \A s : LastWord(q, u, s) => LastWord(q2, u, s)

LEMMA SaysAsTrans ==
  ASSUME NEW a, NEW b, NEW c, NEW u, SaysAs(b, a, u), SaysAs(c, b, u)
  PROVE  SaysAs(c, a, u)
BY DEF SaysAs

LEMMA WithoutKeeps ==
  ASSUME NEW E, NEW q, q \in Seq(E), NEW q2, q2 \in Seq(E), NEW m, m \in DOMAIN q,
         Without(q2, q, m), NEW u, ~IsWord(q[m], u)
  PROVE  SaysAs(q2, q, u)
<1>1. /\ Len(q) \in Nat /\ DOMAIN q = 1 .. Len(q) /\ Len(q2) = Len(q) - 1
      /\ DOMAIN q2 = 1 .. Len(q2) /\ m \in 1 .. Len(q)
      /\ \A i \in 1 .. Len(q2) : q2[i] = IF i < m THEN q[i] ELSE q[i + 1]
  BY LenProperties DEF Without
<1>2. ASSUME NoWord(q, u) PROVE NoWord(q2, u)
  <2>1. ASSUME NEW i \in 1 .. Len(q2) PROVE ~IsWord(q2[i], u)
    <3>1. i \in DOMAIN q /\ i + 1 \in DOMAIN q
      BY <1>1
    <3> QED
      BY <1>1, <1>2, <3>1 DEF NoWord
  <2> QED
    BY <1>1, <2>1 DEF NoWord
<1>3. ASSUME NEW s, LastWord(q, u, s) PROVE LastWord(q2, u, s)
  <2>1. PICK i \in DOMAIN q : /\ IsWord(q[i], u) /\ q[i].state = s
                              /\ \A j \in DOMAIN q : j > i => ~IsWord(q[j], u)
    BY <1>3 DEF LastWord
  <2> DEFINE k == IF i < m THEN i ELSE i - 1
  <2>2. i \in Nat /\ m \in Nat /\ i # m
    BY <1>1, <2>1
  <2>3. k \in 1 .. Len(q2) /\ q2[k] = q[i]
    BY <1>1, <2>1, <2>2
  <2>4. ASSUME NEW j \in 1 .. Len(q2), j > k PROVE ~IsWord(q2[j], u)
    <3>1. j \in Nat /\ (j < m => j > i) /\ (~(j < m) => j + 1 > i)
      BY <1>1, <2>2, <2>4
    <3>2. CASE j < m
      BY <1>1, <2>1, <3>1, <3>2
    <3>3. CASE ~(j < m)
      <4>1. j + 1 \in DOMAIN q
        BY <1>1
      <4> QED
        BY <1>1, <2>1, <3>1, <3>3, <4>1
    <3> QED
      BY <3>2, <3>3
  <2> HIDE DEF k
  <2> QED
    BY <1>1, <2>1, <2>3, <2>4 DEF LastWord
<1> QED
  BY <1>2, <1>3 DEF SaysAs

LEMMA AppendSays ==
  ASSUME NEW E, NEW q, q \in Seq(E), NEW e \in E, NEW u
  PROVE  /\ Append(q, e) \in Seq(E) /\ Len(Append(q, e)) = Len(q) + 1
         /\ ~IsWord(e, u) => SaysAs(Append(q, e), q, u)
         /\ IsWord(e, u) => LastWord(Append(q, e), u, e.state)
<1> DEFINE q2 == Append(q, e)
<1>1. /\ q2 \in Seq(E) /\ Len(q) \in Nat /\ DOMAIN q = 1 .. Len(q)
      /\ Len(q2) = Len(q) + 1 /\ DOMAIN q2 = 1 .. Len(q) + 1
      /\ q2[Len(q) + 1] = e
      /\ \A i \in 1 .. Len(q) : q2[i] = q[i]
  BY AppendProperties, LenProperties
<1> HIDE DEF q2
<1>2. ASSUME NEW i \in 1 .. Len(q) + 1 PROVE i \in 1 .. Len(q) \/ i = Len(q) + 1
  BY <1>1
<1>3. ASSUME ~IsWord(e, u), NoWord(q, u) PROVE NoWord(q2, u)
  BY <1>1, <1>2, <1>3 DEF NoWord
<1>4. ASSUME ~IsWord(e, u), NEW s, LastWord(q, u, s) PROVE LastWord(q2, u, s)
  <2>1. PICK i \in DOMAIN q : /\ IsWord(q[i], u) /\ q[i].state = s
                              /\ \A j \in DOMAIN q : j > i => ~IsWord(q[j], u)
    BY <1>4 DEF LastWord
  <2>2. i \in DOMAIN q2 /\ q2[i] = q[i]
    BY <1>1
  <2>3. ASSUME NEW j \in DOMAIN q2, j > i PROVE ~IsWord(q2[j], u)
    BY <1>1, <1>2, <1>4, <2>1, <2>3
  <2> QED
    BY <2>1, <2>2, <2>3 DEF LastWord
<1>5. ASSUME IsWord(e, u) PROVE LastWord(q2, u, e.state)
  <2>1. Len(q) + 1 \in DOMAIN q2 /\ \A j \in DOMAIN q2 : ~(j > Len(q) + 1)
    BY <1>1
  <2> QED
    BY <1>1, <1>5, <2>1 DEF LastWord
<1> QED
  BY <1>1, <1>3, <1>4, <1>5 DEF SaysAs, q2

LEMMA TailSays ==
  ASSUME NEW E, NEW q, q \in Seq(E), q # <<>>, NEW u, NEW s
  PROVE  /\ Head(q) \in E /\ Tail(q) \in Seq(E) /\ Len(Tail(q)) = Len(q) - 1
         /\ NoWord(q, u) => NoWord(Tail(q), u) /\ ~IsWord(Head(q), u)
         /\ LastWord(q, u, s) => \/ LastWord(Tail(q), u, s)
                                 \/ NoWord(Tail(q), u) /\ IsWord(Head(q), u) /\ Head(q).state = s
<1> DEFINE q2 == Tail(q)
<1>1. /\ q2 \in Seq(E) /\ Head(q) \in E /\ Len(q) \in Nat \ {0} /\ DOMAIN q = 1 .. Len(q)
      /\ Len(q2) = Len(q) - 1 /\ DOMAIN q2 = 1 .. Len(q) - 1
      /\ Head(q) = q[1] /\ 1 \in DOMAIN q
      /\ \A i \in 1 .. Len(q) - 1 : q2[i] = q[i + 1]
  BY HeadTailProperties, LenProperties, EmptySeq
<1> HIDE DEF q2
<1>2. ASSUME NEW i \in DOMAIN q2 PROVE i + 1 \in DOMAIN q /\ q2[i] = q[i + 1]
  BY <1>1
<1>3. ASSUME NoWord(q, u) PROVE NoWord(q2, u) /\ ~IsWord(Head(q), u)
  BY <1>1, <1>2, <1>3 DEF NoWord
<1>4. ASSUME LastWord(q, u, s)
      PROVE  \/ LastWord(q2, u, s)
             \/ NoWord(q2, u) /\ IsWord(Head(q), u) /\ Head(q).state = s
  <2>1. PICK i \in DOMAIN q : /\ IsWord(q[i], u) /\ q[i].state = s
                              /\ \A j \in DOMAIN q : j > i => ~IsWord(q[j], u)
    BY <1>4 DEF LastWord
  <2>2. ASSUME NEW j \in DOMAIN q2, j + 1 > i PROVE ~IsWord(q2[j], u)
    BY <1>2, <2>1, <2>2
  <2>3. CASE i = 1
    <3>1. \A j \in DOMAIN q2 : j + 1 > i
      BY <1>1, <2>3
    <3> QED
      BY <1>1, <2>1, <2>2, <2>3, <3>1 DEF NoWord
  <2>4. CASE i # 1
    <3>1. i - 1 \in DOMAIN q2 /\ (i - 1) + 1 = i
      BY <1>1, <2>4
    <3>2. q2[i - 1] = q[i]
      BY <1>2, <3>1
    <3>3. \A j \in DOMAIN q2 : j > i - 1 => j + 1 > i
      BY <1>1
    <3> QED
      BY <2>1, <2>2, <3>1, <3>2, <3>3 DEF LastWord
  <2> QED
    BY <2>3, <2>4
<1> QED
  BY <1>1, <1>3, <1>4 DEF q2

Others(q, t) == {i \in DOMAIN q : q[i].task # t}

\* EventBuffer::remove_task leaves no word on t, and all on the others.
LEMMA RetainedSays ==
  ASSUME NEW E, NEW q, q \in Seq(E), NEW t, NEW u,
         NEW S, S = Others(q, t)
  PROVE  /\ Retained(q, S) \in Seq(E) /\ Len(Retained(q, S)) <= Len(q)
         /\ u = t => NoWord(Retained(q, S), u)
         /\ u # t => SaysAs(Retained(q, S), q, u)
<1> DEFINE q2 == Retained(q, S)
<1>1. S = {i \in DOMAIN q : q[i].task # t} /\ S \subseteq DOMAIN q
  BY DEF Others
<1>2. q2 \in Seq(E) /\ Len(q2) <= Len(q) /\ \E f : Picks(f, q2, q, S)
  BY <1>1, RetainedIs
<1> HIDE DEF q2
<1>3. PICK f : Picks(f, q2, q, S)
  BY <1>2
<1>4. /\ DOMAIN q2 = 1 .. Len(q2) /\ DOMAIN q = 1 .. Len(q) /\ Len(q2) \in Nat
      /\ Len(q) \in Nat
  BY <1>2, LenProperties
<1>5. \A k \in DOMAIN q2 : f[k] \in S /\ q2[k] = q[f[k]]
  BY <1>3, <1>4 DEF Picks
<1>6. ASSUME u = t PROVE NoWord(q2, u)
  BY <1>1, <1>5, <1>6 DEF NoWord, IsWord
<1>7. ASSUME NoWord(q, u) PROVE NoWord(q2, u)
  BY <1>1, <1>5, <1>7 DEF NoWord
<1>8. ASSUME u # t, NEW s, LastWord(q, u, s) PROVE LastWord(q2, u, s)
  <2>1. PICK i \in DOMAIN q : /\ IsWord(q[i], u) /\ q[i].state = s
                              /\ \A j \in DOMAIN q : j > i => ~IsWord(q[j], u)
    BY <1>8 DEF LastWord
  <2>2. i \in S
    BY <1>1, <1>8, <2>1 DEF IsWord
  <2>3. PICK k \in DOMAIN q2 : f[k] = i
    BY <1>3, <1>4, <2>2 DEF Picks
  <2>4. ASSUME NEW j \in DOMAIN q2, j > k PROVE ~IsWord(q2[j], u)
    <3>1. f[k] < f[j]
      BY <1>3, <1>4, <2>4 DEF Picks
    <3>2. f[j] \in DOMAIN q /\ f[j] \in Nat /\ i \in Nat /\ q2[j] = q[f[j]]
      BY <1>1, <1>4, <1>5
    <3>3. f[j] > i
      BY <2>3, <3>1, <3>2
    <3> QED
      BY <2>1, <3>2, <3>3
  <2>5. q2[k] = q[i]
    BY <1>5, <2>3
  <2> QED
    BY <2>1, <2>4, <2>5 DEF LastWord
<1> QED
  BY <1>2, <1>6, <1>7, <1>8 DEF SaysAs, q2

-----------------------------------------------------------------------------
(* The inductive invariant *)

Run == [task : Tasks, live : BOOLEAN, stop : {"none", "pause", "cancel"},
        owed : Seq(TaskEvents)]

Command == [task : Tasks \cup {Absent}, until : {"none", "resumed", "pause", "cancel"},
            owed : Seq(TaskEvents), reply : Replies \cup {Absent}, spawn : BOOLEAN]

\* What a command under way may answer.
ReplyTo(t) ==
  {Refusal, [kind |-> "removed", task |-> t]} \cup {Word(t, state) : state \in States}

OwnWords(q, t) == \A i \in DOMAIN q : q[i].task = t

TasksInv ==
  /\ tasks \in [Tasks -> States \cup {Absent}]
  /\ view \in [Tasks -> States \cup {Absent}]
  /\ removed \in SUBSET Tasks /\ late \in SUBSET Tasks

\* What a run owes is about its own task, and no task has two runs that are alive.
RunsInv ==
  /\ runs \in Seq(Run) /\ Len(runs) <= MaxRuns
  /\ \A r \in DOMAIN runs : OwnWords(runs[r].owed, runs[r].task)
  /\ \A r, s \in DOMAIN runs :
       runs[r].live /\ runs[s].live /\ runs[r].task = runs[s].task => r = s

QueueInv ==
  /\ queue \in Seq(Events) /\ Len(queue) <= Capacity
  /\ overflowed \in BOOLEAN

CommandTyped ==
  /\ at \in {"top", "select", "emit", "wait", "snapshot", "pages"}
  /\ command \in Command

\* A command that has something left to do is about one task, and one that waits for a
\* run that was told to stop is waiting for the only one alive.
CommandInv ==
  /\ CommandTyped
  /\ OwnWords(command.owed, command.task)
  /\ at = "emit" => command.task \in Tasks /\ command.reply \in ReplyTo(command.task)
  /\ at = "wait" => /\ command.task \in Tasks /\ command.until # "none"
                    /\ tasks[command.task] \in States
  /\ at # "emit" => command.owed = <<>> /\ ~command.spawn
  /\ command.spawn => ~Running(command.task) /\ Len(runs) < MaxRuns
  /\ at = "wait" /\ command.until # "resumed" =>
       \A r \in DOMAIN runs :
         runs[r].task = command.task /\ runs[r].live => runs[r].stop = command.until

\* A run that is alive, or about to be, is one of a task that was not removed.
KnownInv ==
  /\ \A r \in DOMAIN runs : runs[r].live => tasks[runs[r].task] \in States
  /\ command.spawn => tasks[command.task] \in States

\* The pages received and those still to be sent.
Entries(a, p) ==
  {x \in Page : (\E i \in DOMAIN a : a[i] = x) \/ (\E i \in DOMAIN p : p[i] = x)}

\* One snapshot is under way, or none, and no task is in it twice.
PagesInv ==
  /\ at = "pages" <=> pages # <<>>
  /\ at # "pages" => assembly = <<>>
  /\ \A x, y \in Entries(assembly, pages) : x.task = y.task => x = y
  /\ assembly \in Seq(Page)
  /\ \/ pages = <<Absent>> /\ assembly = <<>>
     \/ pages \in Seq(Page) /\ Len(assembly) + Len(pages) <= Cardinality(Tasks)

StepInv ==
  /\ sequence \in 0 .. Numbers - 1 /\ nextSequence = sequence
  /\ broken = FALSE

Owed(t) ==
  \/ \E r \in DOMAIN runs : runs[r].task = t /\ runs[r].owed # <<>>
  \/ command.task = t /\ command.owed # <<>>

\* The snapshot S says that t is in state s.
Says(S, t, s) ==
  \/ \E x \in S : x.task = t /\ x.state = s
  \/ s = Absent /\ \A x \in S : x.task # t

\* What the table shows of t once the command under way is answered.
Answered(t) ==
  IF command.reply.kind = "error" \/ command.task # t THEN view[t]
  ELSE IF command.reply.kind = "removed" THEN Absent ELSE command.reply.state

\* What is shown of t is true, or t is a task that nothing has announced.
Right(t, shown) == tasks[t] = shown \/ Unannounced(t, shown)

\* The table shows, or is about to show, t as it is.
Shows(t) ==
  /\ at = "pages" => Says(Entries(assembly, pages), t, tasks[t])
  /\ at = "emit" => Right(t, Answered(t))
  /\ at \in {"top", "select", "wait"} => Right(t, view[t])

\* Whatever the table shows, the truth is on its way.
Coming(t) ==
  \/ t \in late \/ Owed(t) \/ overflowed
  \/ LastWord(queue, t, tasks[t])
  \/ NoWord(queue, t) /\ Shows(t)

Truth == \A t \in Tasks : Coming(t)

Inv ==
  TasksInv /\ RunsInv /\ QueueInv /\ CommandInv /\ KnownInv /\ PagesInv /\ StepInv /\ Truth

-----------------------------------------------------------------------------
(* The buffer *)

LEMMA TailIsPart ==
  ASSUME NEW E, NEW q, q \in Seq(E), q # <<>>
  PROVE  /\ Head(q) \in E /\ Tail(q) \in Seq(E)
         /\ \A t : OwnWords(q, t) => OwnWords(Tail(q), t) /\ Head(q).task = t
<1>1. /\ Tail(q) \in Seq(E) /\ Head(q) \in E /\ Len(q) \in Nat \ {0} /\ DOMAIN q = 1 .. Len(q)
      /\ DOMAIN Tail(q) = 1 .. Len(q) - 1
      /\ Head(q) = q[1] /\ 1 \in DOMAIN q
      /\ \A i \in 1 .. Len(q) - 1 : Tail(q)[i] = q[i + 1]
  BY HeadTailProperties, LenProperties, EmptySeq
<1>2. ASSUME NEW i \in DOMAIN Tail(q) PROVE i + 1 \in DOMAIN q /\ Tail(q)[i] = q[i + 1]
  BY <1>1
<1> QED
  BY <1>1, <1>2 DEF OwnWords

\* EventBuffer::emit keeps the last word on every task, or admits that it did not.
LEMMA EmitKeeps ==
  ASSUME QueueInv, NEW e \in Events, Emit(e)
  PROVE  /\ QueueInv' /\ (overflowed => overflowed')
         /\ \A u : /\ ~IsWord(e, u) => overflowed' \/ SaysAs(queue', queue, u)
                   /\ IsWord(e, u) => overflowed' \/ LastWord(queue', u, e.state)
<1> DEFINE twins == {i \in DOMAIN queue : e.kind = "progress" /\ queue[i] = e}
           kept == WithoutFirst(queue, twins)
           old == {i \in DOMAIN kept : Replaceable(kept[i])}
<1>1. /\ queue \in Seq(Events) /\ Len(queue) \in Nat /\ Len(queue) <= Capacity
      /\ Capacity \in Nat \ {0} /\ overflowed \in BOOLEAN
  BY EventStreamBounds, LenProperties DEF QueueInv
<1>2. \A u : IsWord(e, u) => ~Replaceable(e)
  BY DEF IsWord, Replaceable
<1>3. /\ kept \in Seq(Events) /\ Len(kept) <= Len(queue) /\ Len(kept) \in Nat
      /\ \A u : SaysAs(kept, queue, u)
  <2>1. twins \subseteq DOMAIN queue
    OBVIOUS
  <2>2. CASE twins = {}
    <3>1. kept = queue
      BY <2>2, FirstRemoved, <1>1
    <3>2. \A u : SaysAs(queue, queue, u)
      BY DEF SaysAs
    <3> HIDE DEF kept
    <3> QED
      BY <1>1, <3>1, <3>2
  <2>3. CASE twins # {}
    <3>1. kept \in Seq(Events) /\ \E m \in twins : Without(kept, queue, m)
      BY <1>1, <2>1, <2>3, FirstRemoved
    <3> HIDE DEF kept
    <3>2. PICK m \in twins : Without(kept, queue, m)
      BY <3>1
    <3>3. m \in DOMAIN queue /\ \A u : ~IsWord(queue[m], u)
      BY <3>2 DEF IsWord
    <3>4. \A u : SaysAs(kept, queue, u)
      BY <1>1, <3>1, <3>2, <3>3, WithoutKeeps
    <3> QED
      BY <1>1, <3>1, <3>2, <3>4, LenProperties DEF Without
  <2> QED
    BY <2>2, <2>3
<1>4. \/ HasRoom(kept) /\ queue' = Append(kept, e) /\ UNCHANGED overflowed
      \/ /\ ~HasRoom(kept) /\ old # {}
         /\ queue' = Append(WithoutFirst(kept, old), e) /\ UNCHANGED overflowed
      \/ ~HasRoom(kept) /\ queue' = kept /\ overflowed' = Overflow(e)
  BY DEF Emit
<1> HIDE DEF kept
<1>5. ASSUME NEW base, base \in Seq(Events), Len(base) < Capacity, UNCHANGED overflowed,
             \A u : SaysAs(base, queue, u), queue' = Append(base, e)
      PROVE  /\ QueueInv' /\ (overflowed => overflowed')
             /\ \A u : /\ ~IsWord(e, u) => overflowed' \/ SaysAs(queue', queue, u)
                       /\ IsWord(e, u) => overflowed' \/ LastWord(queue', u, e.state)
  <2>1. /\ queue' \in Seq(Events) /\ Len(queue') = Len(base) + 1 /\ Len(base) \in Nat
        /\ \A u : /\ ~IsWord(e, u) => SaysAs(queue', base, u)
                  /\ IsWord(e, u) => LastWord(queue', u, e.state)
    BY <1>5, AppendSays, LenProperties
  <2>2. \A u : ~IsWord(e, u) => SaysAs(queue', queue, u)
    BY <1>5, <2>1, SaysAsTrans
  <2>3. QueueInv'
    BY <1>1, <1>5, <2>1 DEF QueueInv
  <2> QED
    BY <1>5, <2>1, <2>2, <2>3
<1>6. CASE HasRoom(kept) /\ queue' = Append(kept, e) /\ UNCHANGED overflowed
  BY <1>3, <1>5, <1>6 DEF HasRoom
<1>7. CASE /\ ~HasRoom(kept) /\ old # {}
           /\ queue' = Append(WithoutFirst(kept, old), e) /\ UNCHANGED overflowed
  <2> DEFINE base == WithoutFirst(kept, old)
  <2>1. old \subseteq DOMAIN kept /\ old # {}
    BY <1>7
  <2>2. base \in Seq(Events) /\ \E m \in old : Without(base, kept, m)
    BY <1>3, <2>1, FirstRemoved
  <2>3. queue' = Append(base, e)
    BY <1>7
  <2> HIDE DEF base
  <2>4. PICK m \in old : Without(base, kept, m)
    BY <2>2
  <2>5. m \in DOMAIN kept /\ \A u : ~IsWord(kept[m], u)
    BY <2>4 DEF IsWord, Replaceable
  <2>6. \A u : SaysAs(base, kept, u)
    BY <1>3, <2>2, <2>4, <2>5, WithoutKeeps
  <2>7. \A u : SaysAs(base, queue, u)
    BY <1>3, <2>6, SaysAsTrans
  <2>8. Len(base) < Capacity
    BY <1>1, <1>3, <2>4 DEF Without
  <2> QED
    BY <1>5, <1>7, <2>2, <2>3, <2>7, <2>8
<1>8. CASE ~HasRoom(kept) /\ queue' = kept /\ overflowed' = Overflow(e)
  <2>1. overflowed' \in BOOLEAN /\ (overflowed => overflowed') /\ (~Replaceable(e) => overflowed')
    BY <1>1, <1>8 DEF Overflow, Replaceable
  <2>2. QueueInv'
    BY <1>1, <1>3, <1>8, <2>1 DEF QueueInv
  <2> QED
    BY <1>2, <1>3, <1>8, <2>1, <2>2
<1> QED
  BY <1>4, <1>6, <1>7, <1>8

-----------------------------------------------------------------------------
(* Runs *)

LEMMA Typed ==
  ASSUME TasksInv, RunsInv, NEW r \in DOMAIN runs
  PROVE  /\ runs[r] \in Run /\ runs[r].task \in Tasks /\ runs[r].live \in BOOLEAN
         /\ runs[r].stop \in {"none", "pause", "cancel"}
         /\ runs[r].owed \in Seq(TaskEvents) /\ OwnWords(runs[r].owed, runs[r].task)
         /\ tasks[runs[r].task] \in States \cup {Absent}
<1>1. runs[r] \in Run
  BY ElementOfSeq, LenProperties DEF RunsInv
<1> QED
  BY <1>1 DEF Run, RunsInv, TasksInv

\* What Owes does to the runs: r says something else, and may end.
OwesOnly(r, events, live) ==
  /\ DOMAIN runs' = DOMAIN runs /\ Len(runs') = Len(runs)
  /\ \A s \in DOMAIN runs : /\ runs'[s].task = runs[s].task
                            /\ runs'[s].live => runs[s].live /\ runs'[s].stop = runs[s].stop
                            /\ s # r => runs'[s] = runs[s]
  /\ runs'[r].owed = events

LEMMA OwesKeeps ==
  ASSUME TasksInv, RunsInv, NEW r \in DOMAIN runs, NEW events \in Seq(TaskEvents),
         OwnWords(events, runs[r].task), NEW live \in BOOLEAN, live => runs[r].live,
         Owes(r, events, live)
  PROVE  RunsInv' /\ OwesOnly(r, events, live)
<1> DEFINE o == runs[r]
           x == [task |-> o.task, live |-> live, owed |-> events,
                 stop |-> IF live THEN o.stop ELSE "none"]
<1>1. runs' = [runs EXCEPT ![r] = x]
  BY DEF Owes
<1>2. /\ runs \in Seq(Run) /\ DOMAIN runs = 1 .. Len(runs) /\ Len(runs) \in Nat
      /\ \A s \in DOMAIN runs : runs[s] \in Run
  BY LenProperties, ElementOfSeq DEF RunsInv
<1>3. /\ x \in Run /\ x.task = o.task /\ x.live = live /\ x.owed = events
      /\ x.stop = IF live THEN o.stop ELSE "none"
  BY Typed DEF Run
<1> HIDE DEF x
<1>4. runs' \in Seq(Run) /\ Len(runs') = Len(runs) /\ DOMAIN runs' = DOMAIN runs
  <2>1. runs' \in Seq(Run) /\ Len(runs') = Len(runs)
    BY <1>1, <1>2, <1>3, ExceptSeq
  <2> QED
    BY <1>2, <2>1, LenProperties
<1>5. \A s \in DOMAIN runs : runs'[s] = IF s = r THEN x ELSE runs[s]
  BY <1>1
<1>6. OwesOnly(r, events, live)
  BY <1>3, <1>4, <1>5 DEF OwesOnly
<1>7. \A s \in DOMAIN runs' : OwnWords(runs'[s].owed, runs'[s].task)
  BY <1>3, <1>4, <1>5 DEF RunsInv
<1>8. \A s, u \in DOMAIN runs' :
        runs'[s].live /\ runs'[u].live /\ runs'[s].task = runs'[u].task => s = u
  BY <1>4, <1>6 DEF RunsInv, OwesOnly
<1> QED
  BY <1>4, <1>6, <1>7, <1>8 DEF RunsInv

LEMMA CommandWaits ==
  ASSUME CommandInv, NEW r \in DOMAIN runs, NEW events, NEW live, OwesOnly(r, events, live),
         UNCHANGED <<at, command>>, \A t \in Tasks : tasks[t] \in States => tasks'[t] \in States
  PROVE  CommandInv'
<1>1. CommandTyped'
  BY DEF CommandInv, CommandTyped
<1>2. \A t : Running(t)' => Running(t)
  BY DEF Running, OwesOnly
<1>3. Len(runs') = Len(runs)
  BY DEF OwesOnly
<1>4. ASSUME at' = "wait", command'.until # "resumed"
      PROVE  \A s \in DOMAIN runs' :
               runs'[s].task = command'.task /\ runs'[s].live => runs'[s].stop = command'.until
  BY <1>4 DEF CommandInv, OwesOnly
<1>5. ASSUME at' = "wait"
      PROVE  /\ command'.task \in Tasks /\ command'.until # "none"
             /\ tasks'[command'.task] \in States
  BY <1>5 DEF CommandInv
<1>6. /\ OwnWords(command'.owed, command'.task)
      /\ at' = "emit" => command'.task \in Tasks /\ command'.reply \in ReplyTo(command'.task)
      /\ at' # "emit" => command'.owed = <<>> /\ ~command'.spawn
  BY DEF CommandInv
<1>7. command'.spawn => ~Running(command.task)' /\ Len(runs') < MaxRuns
  BY <1>2, <1>3 DEF CommandInv, Running
<1> QED
  BY <1>1, <1>4, <1>5, <1>6, <1>7 DEF CommandInv

LEMMA PagesWait ==
  ASSUME PagesInv, UNCHANGED <<at, pages, assembly>>
  PROVE  PagesInv'
BY DEF PagesInv, Entries

\* A step of a run leaves the host and the extension alone.
LEMMA RunStepKeeps ==
  ASSUME Inv, NEW r \in DOMAIN runs, NEW events \in Seq(TaskEvents),
         OwnWords(events, runs[r].task), NEW live \in BOOLEAN, live => runs[r].live,
         Owes(r, events, live), UNCHANGED <<host, extension, removed>>,
         TasksInv', QueueInv', \A t \in Tasks : tasks[t] \in States => tasks'[t] \in States
  PROVE  TasksInv' /\ RunsInv' /\ QueueInv' /\ CommandInv' /\ KnownInv' /\ PagesInv' /\ StepInv'
         /\ OwesOnly(r, events, live)
<1>1. RunsInv' /\ OwesOnly(r, events, live)
  BY OwesKeeps DEF Inv
<1>2. CommandInv'
  BY <1>1, CommandWaits DEF Inv, host
<1>3. PagesInv' /\ StepInv'
  BY PagesWait DEF Inv, host, extension, StepInv
<1>4. KnownInv'
  <2>1. \A s \in DOMAIN runs : runs[s].task \in Tasks
    BY Typed DEF Inv
  <2>2. command.spawn => command.task \in Tasks
    BY DEF Inv, CommandInv
  <2> QED
    BY <1>1, <2>1, <2>2 DEF Inv, KnownInv, OwesOnly, host
<1> QED
  BY <1>1, <1>2, <1>3, <1>4

\* What is about to be shown of a task that does not change stays so.
LEMMA ShowsStays ==
  ASSUME UNCHANGED <<at, command, pages, assembly, view>>, NEW t, UNCHANGED tasks[t], Shows(t)
  PROVE  Shows(t)'
BY DEF Shows, Right, Unannounced, Says, Entries, Answered

LEMMA OwedStays ==
  ASSUME NEW r \in DOMAIN runs, NEW events, NEW live, OwesOnly(r, events, live),
         UNCHANGED command, NEW t, Owed(t), runs[r].task # t \/ runs[r].owed = <<>>
  PROVE  Owed(t)'
BY DEF Owed, OwesOnly

LEMMA MoveKeeps ==
  ASSUME Inv, NEW r \in DOMAIN runs, NEW state \in States, NEW live \in BOOLEAN,
         NEW events \in Seq(TaskEvents), OwnWords(events, runs[r].task), events # <<>>,
         runs[r].live, runs[r].owed = <<>>, Move(r, state, live, events)
  PROVE  Inv'
<1> DEFINE t == runs[r].task
<1>1. /\ tasks' = [tasks EXCEPT ![t] = state] /\ Owes(r, events, live)
      /\ UNCHANGED <<queue, overflowed, host, extension, history>>
  BY DEF Move
<1>2. t \in Tasks
  BY Typed DEF Inv
<1>3. TasksInv'
  BY <1>1 DEF Inv, TasksInv, extension, history
<1>4. QueueInv'
  BY <1>1 DEF Inv, QueueInv
<1>5. \A u \in Tasks : tasks'[u] = IF u = t THEN state ELSE tasks[u]
  BY <1>1 DEF Inv, TasksInv
<1> HIDE DEF t
<1>6. /\ TasksInv' /\ RunsInv' /\ QueueInv' /\ CommandInv' /\ KnownInv' /\ PagesInv' /\ StepInv'
      /\ OwesOnly(r, events, live)
  BY <1>1, <1>3, <1>4, <1>5, RunStepKeeps DEF history
<1>7. ASSUME NEW u \in Tasks PROVE Coming(u)'
  <2>1. CASE u = t
    BY <1>6, <2>1 DEF Coming, Owed, OwesOnly, t
  <2>2. CASE u # t
    <3>1. Coming(u) /\ UNCHANGED tasks[u]
      BY <1>5, <2>2 DEF Inv, Truth
    <3>2. Owed(u) => Owed(u)'
      BY <1>1, <1>6, OwedStays DEF host
    <3>3. Shows(u) => Shows(u)'
      BY <1>1, <3>1, ShowsStays DEF host, extension
    <3> QED
      BY <1>1, <3>1, <3>2, <3>3 DEF Coming, history
  <2> QED
    BY <2>1, <2>2
<1> QED
  BY <1>6, <1>7 DEF Inv, Truth

\* One word, or two alike, about t.
LEMMA Words ==
  ASSUME NEW t \in Tasks, NEW state \in States
  PROVE  LET w == Word(t, state) IN
         /\ w \in TaskEvents /\ IsWord(w, t) /\ w.state = state /\ w.task = t
         /\ <<w>> \in Seq(TaskEvents) /\ <<w>> # <<>> /\ OwnWords(<<w>>, t)
         /\ <<w, w>> \in Seq(TaskEvents) /\ <<w, w>> # <<>> /\ OwnWords(<<w, w>>, t)
<1> DEFINE w == Word(t, state)
<1>1. w \in TaskEvents /\ IsWord(w, t) /\ w.state = state /\ w.task = t
  BY DEF Word, TaskEvents, IsWord
<1> HIDE DEF w
<1>2. <<w>> \in Seq(TaskEvents) /\ <<w>> # <<>> /\ OwnWords(<<w>>, t)
  BY <1>1 DEF OwnWords
<1>3. <<w, w>> \in Seq(TaskEvents) /\ <<w, w>> # <<>> /\ OwnWords(<<w, w>>, t)
  BY <1>1 DEF OwnWords
<1> QED
  BY <1>1, <1>2, <1>3 DEF w


LEMMA MovesKeep ==
  ASSUME Inv, NEW r \in DOMAIN runs
  PROVE  /\ Advance(r) => Inv'
         /\ Complete(r) => Inv'
         /\ Stop(r) => Inv'
         /\ Fail(r) => Inv'
         /\ Strand(r) => Inv'
<1> DEFINE t == runs[r].task
<1>1. t \in Tasks
  BY Typed DEF Inv
<1>2. ASSUME NEW state \in States, NEW live \in BOOLEAN, NEW states, In(r, states),
             \/ Move(r, state, live, <<Word(t, state)>>)
             \/ Move(r, state, live, <<Word(t, state), Word(t, state)>>)
      PROVE  Inv'
  <2>1. runs[r].live /\ runs[r].owed = <<>>
    BY <1>2 DEF In
  <2>2. PICK events \in Seq(TaskEvents) :
          OwnWords(events, t) /\ events # <<>> /\ Move(r, state, live, events)
    BY <1>1, <1>2, Words
  <2> QED
    BY <2>1, <2>2, MoveKeeps
<1>3. TRUE \in BOOLEAN /\ FALSE \in BOOLEAN
  OBVIOUS
<1>4. ASSUME Advance(r) PROVE Inv'
  BY <1>2, <1>3, <1>4 DEF Advance, States
<1>5. ASSUME Complete(r) PROVE Inv'
  BY <1>2, <1>3, <1>5 DEF Complete, States
<1>6. ASSUME Stop(r) PROVE Inv'
  <2> DEFINE state == IF runs[r].stop = "pause" THEN "paused" ELSE "cancelled"
  <2>1. /\ state \in States
        /\ In(r, {"active"})
        /\ \/ Move(r, state, FALSE, <<Word(t, state)>>)
           \/ Move(r, state, FALSE, <<Word(t, state), Word(t, state)>>)
    BY <1>6 DEF Stop, States
  <2> QED
    BY <1>2, <1>3, <2>1
<1>7. ASSUME Fail(r) PROVE Inv'
  BY <1>2, <1>3, <1>7 DEF Fail, States
<1>8. ASSUME Strand(r) PROVE Inv'
  BY <1>2, <1>3, <1>8 DEF Strand, States
<1> QED
  BY <1>4, <1>5, <1>6, <1>7, <1>8

LEMMA FinishKeeps ==
  ASSUME Inv, NEW r \in DOMAIN runs, FinishRunning(r)
  PROVE  Inv'
<1> DEFINE none == <<>>
           no == FALSE
<1>1. /\ none \in Seq(TaskEvents) /\ OwnWords(none, runs[r].task) /\ no \in BOOLEAN
      /\ (no => runs[r].live) /\ Owes(r, none, no) /\ runs[r].owed = <<>>
      /\ UNCHANGED <<tasks, queue, overflowed, host, extension, history>>
  <2>1. none \in Seq(TaskEvents) /\ DOMAIN none = {}
    OBVIOUS
  <2>2. OwnWords(none, runs[r].task)
    BY <2>1 DEF OwnWords
  <2> QED
    BY <2>1, <2>2 DEF FinishRunning, In
<1> HIDE DEF none, no
<1>2. TasksInv' /\ QueueInv'
  BY <1>1 DEF Inv, TasksInv, QueueInv, extension, history
<1>3. /\ RunsInv' /\ CommandInv' /\ KnownInv' /\ PagesInv' /\ StepInv' /\ OwesOnly(r, none, no)
  BY <1>1, <1>2, RunStepKeeps DEF history
<1>4. ASSUME NEW u \in Tasks PROVE Coming(u)'
  <2>1. Coming(u) /\ UNCHANGED tasks[u]
    BY <1>1 DEF Inv, Truth
  <2>2. Owed(u) => Owed(u)'
    BY <1>1, <1>3, OwedStays DEF host
  <2>3. Shows(u) => Shows(u)'
    BY <1>1, <2>1, ShowsStays DEF host, extension
  <2> QED
    BY <1>1, <2>1, <2>2, <2>3 DEF Coming, history
<1> QED
  BY <1>2, <1>3, <1>4 DEF Inv, Truth

\* What the buffer does with an event that says nothing of u.
LEMMA ComingStays ==
  ASSUME NEW u, NEW e \in Events, ~IsWord(e, u), QueueInv, Emit(e), Coming(u),
         UNCHANGED tasks[u], u \in late => u \in late',
         Owed(u) => Owed(u)', Shows(u) => Shows(u)'
  PROVE  Coming(u)'
<1>1. (overflowed => overflowed') /\ (overflowed' \/ SaysAs(queue', queue, u))
  BY EmitKeeps
<1> QED
  BY <1>1 DEF Coming, SaysAs

LEMMA MentionKeeps ==
  ASSUME Inv, NEW r \in DOMAIN runs, NEW kind \in {"progress", "retry"}, Mention(r, kind)
  PROVE  Inv'
<1> DEFINE e == Hint(kind, runs[r].task)
<1>1. Emit(e) /\ UNCHANGED <<tasks, runs, host, extension, history>>
  BY DEF Mention
<1>2. e \in Events /\ \A u : ~IsWord(e, u)
  BY Typed DEF Inv, Hint, Events, ReplaceableEvents, IsWord
<1> HIDE DEF e
<1>3. QueueInv'
  BY <1>1, <1>2, EmitKeeps DEF Inv
<1>4. TasksInv' /\ RunsInv' /\ PagesInv' /\ StepInv'
  BY <1>1, PagesWait DEF Inv, TasksInv, RunsInv, StepInv, host, extension, history
<1>5. CommandInv' /\ KnownInv'
  BY <1>1 DEF Inv, CommandInv, CommandTyped, KnownInv, Running, host
<1>6. ASSUME NEW u \in Tasks PROVE Coming(u)'
  <2>1. Coming(u) /\ UNCHANGED tasks[u]
    BY <1>1 DEF Inv, Truth
  <2>2. Owed(u) => Owed(u)'
    BY <1>1 DEF Owed, host
  <2>3. Shows(u) => Shows(u)'
    BY <1>1, <2>1, ShowsStays DEF host, extension
  <2> QED
    BY <1>1, <1>2, <2>1, <2>2, <2>3, ComingStays DEF Inv, history
<1> QED
  BY <1>3, <1>4, <1>5, <1>6 DEF Inv, Truth

\* A word that was owed: the task speaks, or what was said of it is known to be late.
LEMMA SaidOrLate ==
  ASSUME TasksInv, QueueInv, NEW e \in TaskEvents, Emit(e), late' = LateAfter(e),
         UNCHANGED tasks
  PROVE  /\ late' \in SUBSET Tasks
         /\ Coming(e.task)'
         /\ \A u : u # e.task => ~IsWord(e, u) /\ (u \in late => u \in late')
<1>1. e \in Events /\ e.kind = "task" /\ e.task \in Tasks /\ IsWord(e, e.task)
  BY DEF TaskEvents, Events, IsWord
<1>2. overflowed' \/ LastWord(queue', e.task, e.state)
  BY <1>1, EmitKeeps
<1>3. CASE tasks[e.task] # e.state
  BY <1>1, <1>3 DEF LateAfter, TasksInv, Coming, IsWord
<1>4. CASE tasks[e.task] = e.state
  <2>1. late' = IF overflowed' THEN late ELSE late \ {e.task}
    BY <1>1, <1>4 DEF LateAfter
  <2>2. overflowed' \/ LastWord(queue', e.task, tasks'[e.task])
    BY <1>2, <1>4
  <2> QED
    BY <2>1, <2>2 DEF TasksInv, Coming, IsWord
<1> QED
  BY <1>3, <1>4

LEMMA EmitOwedKeeps ==
  ASSUME Inv, NEW r \in DOMAIN runs, EmitOwed(r)
  PROVE  Inv'
<1> DEFINE o == runs[r].owed
           rest == Tail(o)
           live == runs[r].live
<1>0. PICK e : e = Head(o)
  OBVIOUS
<1>1. /\ o # <<>> /\ Emit(e) /\ late' = LateAfter(e) /\ Owes(r, rest, live)
      /\ UNCHANGED <<tasks, host, extension, removed>>
  BY <1>0 DEF EmitOwed
<1>2. o \in Seq(TaskEvents) /\ OwnWords(o, runs[r].task) /\ live \in BOOLEAN
  BY Typed DEF Inv
<1> HIDE DEF o, live
<1>3. e \in TaskEvents /\ rest \in Seq(TaskEvents) /\ OwnWords(rest, runs[r].task)
      /\ e.task = runs[r].task
  BY <1>0, <1>1, <1>2, TailIsPart
<1>4. e \in Events
  BY <1>3 DEF Events
<1> HIDE DEF rest
<1>5. QueueInv'
  BY <1>1, <1>4, EmitKeeps DEF Inv
<1>6. /\ late' \in SUBSET Tasks /\ Coming(e.task)'
      /\ \A u : u # e.task => ~IsWord(e, u) /\ (u \in late => u \in late')
  BY <1>1, <1>3, SaidOrLate DEF Inv
<1>7. TasksInv'
  BY <1>1, <1>6 DEF Inv, TasksInv, extension
<1>8. /\ RunsInv' /\ CommandInv' /\ KnownInv' /\ PagesInv' /\ StepInv' /\ OwesOnly(r, rest, live)
  <2>1. live => runs[r].live
    BY DEF live
  <2> QED
    BY <1>1, <1>2, <1>3, <1>5, <1>7, <2>1, RunStepKeeps
<1>9. ASSUME NEW u \in Tasks PROVE Coming(u)'
  <2>1. CASE u = e.task
    BY <1>6, <2>1
  <2>2. CASE u # e.task
    <3>1. Coming(u) /\ UNCHANGED tasks[u]
      BY <1>1 DEF Inv, Truth
    <3>2. Owed(u) => Owed(u)'
      BY <1>1, <1>3, <1>8, <2>2, OwedStays DEF host
    <3>3. Shows(u) => Shows(u)'
      BY <1>1, <3>1, ShowsStays DEF host, extension
    <3>4. ~IsWord(e, u) /\ (u \in late => u \in late')
      BY <1>6, <2>2
    <3> QED
      BY <1>1, <1>4, <3>1, <3>2, <3>3, <3>4, ComingStays DEF Inv
  <2> QED
    BY <2>1, <2>2
<1> QED
  BY <1>5, <1>7, <1>8, <1>9 DEF Inv, Truth

LEMMA RunStepsKeep ==
  ASSUME Inv, NEW r \in DOMAIN runs, RunStep(r)
  PROVE  Inv'
BY MovesKeep, FinishKeeps, MentionKeeps, EmitOwedKeeps DEF RunStep

-----------------------------------------------------------------------------
(* Commands *)

LEMMA Reply ==
  ASSUME NEW t \in Tasks, NEW reply \in ReplyTo(t)
  PROVE  /\ reply \in Replies /\ reply.kind \in {"error", "removed", "task"}
         /\ reply.kind # "error" => reply.task = t
         /\ reply.kind = "task" => reply.state \in States
BY DEF ReplyTo, Replies, TaskEvents, Word, Refusal

\* The answer of a command that is under way.
LEMMA AnsweringIs ==
  ASSUME NEW t \in Tasks, NEW words \in Seq(TaskEvents), OwnWords(words, t),
         NEW spawn \in BOOLEAN, NEW reply \in ReplyTo(t),
         at' = "emit", command' = Answering(t, words, spawn, reply),
         spawn => ~Running(t)' /\ Len(runs') < MaxRuns
  PROVE  /\ CommandInv'
         /\ command'.task = t /\ command'.owed = words /\ command'.reply = reply
<1>1. /\ command'.task = t /\ command'.owed = words /\ command'.reply = reply
      /\ command'.spawn = spawn /\ command'.until = "none"
  BY DEF Answering
<1>2. CommandTyped'
  <2>1. reply \in Replies
    BY Reply
  <2> QED
    BY <2>1 DEF CommandTyped, Command, Answering
<1>3. command'.spawn => ~Running(command.task)' /\ Len(runs') < MaxRuns
  BY <1>1 DEF Running
<1> QED
  BY <1>1, <1>2, <1>3 DEF CommandInv

\* Nothing is under way when a command begins.
LEMMA AtSelect ==
  ASSUME CommandInv, PagesInv, at \in {"select", "top", "wait", "snapshot"}
  PROVE  command.owed = <<>> /\ ~command.spawn /\ pages = <<>> /\ assembly = <<>>
BY DEF CommandInv, PagesInv

LEMMA NoPages ==
  ASSUME PagesInv, at # "pages", at' # "pages", UNCHANGED <<pages, assembly>>
  PROVE  PagesInv'
BY DEF PagesInv, Entries

\* A task that a command does not touch, when the command begins.
LEMMA OthersStay ==
  ASSUME CommandInv, at = "select", NEW t, at' = "emit", command'.task = t,
         NEW u, u # t, Coming(u), UNCHANGED <<tasks[u], overflowed, view>>,
         UNCHANGED queue \/ SaysAs(queue', queue, u),
         UNCHANGED runs, u \in late => u \in late'
  PROVE  Coming(u)'
<1>1. Owed(u) => Owed(u)'
  BY DEF Owed, CommandInv
<1>2. Shows(u) => Shows(u)'
  BY DEF Shows, Right, Unannounced, Answered
<1> QED
  BY <1>1, <1>2 DEF Coming, SaysAs

LEMMA BeginKeeps ==
  ASSUME Inv, NEW t \in Tasks, NEW words \in Seq(TaskEvents), OwnWords(words, t),
         words # <<>>, Last(words).state \in States, NEW spawn \in BOOLEAN,
         NEW reply \in ReplyTo(t), ~Running(t),
         Begin(t, words, spawn, reply), UNCHANGED late
  PROVE  Inv'
<1>1. /\ at = "select" /\ at' = "emit" /\ command' = Answering(t, words, spawn, reply)
      /\ (spawn => Len(runs) < MaxRuns)
      /\ tasks' = [tasks EXCEPT ![t] = Last(words).state]
      /\ UNCHANGED <<runs, queue, overflowed, pages, sequence, extension, removed>>
  BY DEF Begin
<1>2. spawn => ~Running(t)' /\ Len(runs') < MaxRuns
  BY <1>1 DEF Running
<1>3. /\ CommandInv'
      /\ command'.task = t /\ command'.owed = words /\ command'.reply = reply
  BY <1>1, <1>2, AnsweringIs
<1> DEFINE state == Last(words).state
<1>4. \A u \in Tasks : tasks'[u] = IF u = t THEN state ELSE tasks[u]
  BY <1>1 DEF Inv, TasksInv
<1>5. TasksInv'
  BY <1>1 DEF Inv, TasksInv, extension
<1>6. RunsInv' /\ QueueInv' /\ StepInv'
  BY <1>1 DEF Inv, RunsInv, QueueInv, StepInv, extension
<1>7. PagesInv'
  BY <1>1, NoPages DEF Inv, extension
<1>9. KnownInv'
  <2>1. \A s \in DOMAIN runs : runs[s].task \in Tasks
    BY Typed DEF Inv
  <2> HIDE DEF state
  <2>2. state \in States
    BY DEF state
  <2> QED
    BY <1>1, <1>3, <1>4, <2>1, <2>2 DEF Inv, KnownInv
<1>8. ASSUME NEW u \in Tasks PROVE Coming(u)'
  <2>1. CASE u = t
    BY <1>3, <2>1 DEF Coming, Owed
  <2>2. CASE u # t
    <3>1. Coming(u) /\ UNCHANGED tasks[u]
      BY <1>4, <2>2 DEF Inv, Truth
    <3> QED
      BY <1>1, <1>3, <2>2, <3>1, OthersStay DEF Inv, extension
  <2> QED
    BY <2>1, <2>2
<1> QED
  BY <1>3, <1>5, <1>6, <1>7, <1>8, <1>9 DEF Inv, Truth

\* Two words about t.
LEMMA TwoWords ==
  ASSUME NEW t \in Tasks, NEW one \in States, NEW two \in States
  PROVE  LET words == <<Word(t, one), Word(t, two)>> IN
         /\ words \in Seq(TaskEvents) /\ words # <<>> /\ OwnWords(words, t)
         /\ Last(words).state = two
<1> DEFINE v == Word(t, one)
           w == Word(t, two)
<1>1. v \in TaskEvents /\ w \in TaskEvents /\ v.task = t /\ w.task = t /\ w.state = two
  BY Words
<1> HIDE DEF v, w
<1> DEFINE words == <<v, w>>
<1>2. words \in Seq(TaskEvents) /\ words # <<>> /\ Len(words) = 2 /\ DOMAIN words = 1 .. 2
      /\ words[1] = v /\ words[2] = w
  BY <1>1
<1> HIDE DEF words
<1>3. OwnWords(words, t) /\ Last(words).state = two
  BY <1>1, <1>2 DEF OwnWords, Last
<1> QED
  BY <1>2, <1>3 DEF words, v, w

LEMMA OneWord ==
  ASSUME NEW t \in Tasks, NEW state \in States
  PROVE  LET words == <<Word(t, state)>> IN
         /\ words \in Seq(TaskEvents) /\ words # <<>> /\ OwnWords(words, t)
         /\ Last(words).state = state
<1> DEFINE w == Word(t, state)
<1>1. w \in TaskEvents /\ w.task = t /\ w.state = state
  BY Words
<1> HIDE DEF w
<1> DEFINE words == <<w>>
<1>2. words \in Seq(TaskEvents) /\ words # <<>> /\ Len(words) = 1 /\ DOMAIN words = 1 .. 1
      /\ words[1] = w
  BY <1>1
<1> HIDE DEF words
<1>3. OwnWords(words, t) /\ Last(words).state = state
  BY <1>1, <1>2 DEF OwnWords, Last
<1> QED
  BY <1>2, <1>3 DEF words, w

LEMMA BeginsKeep ==
  ASSUME Inv, NEW t \in Tasks
  PROVE  /\ Start(t) => Inv'
         /\ Retry(t) => Inv'
         /\ CancelInactive(t) => Inv'
<1>1. Refusal \in ReplyTo(t) /\ \A state \in States : Word(t, state) \in ReplyTo(t)
  BY DEF ReplyTo
<1>2. TRUE \in BOOLEAN /\ FALSE \in BOOLEAN
      /\ "active" \in States /\ "queued" \in States /\ "cancelled" \in States
  BY DEF States
<1>3. ASSUME NEW state \in States, NEW spawn \in BOOLEAN, NEW reply \in ReplyTo(t), ~Running(t),
             Begin(t, <<Word(t, state)>>, spawn, reply), UNCHANGED late
      PROVE  Inv'
  <2>1. PICK words : words = <<Word(t, state)>>
    OBVIOUS
  <2>2. words \in Seq(TaskEvents) /\ words # <<>> /\ OwnWords(words, t) /\ Last(words).state = state
    BY <2>1, OneWord
  <2> QED
    BY <1>3, <2>1, <2>2, BeginKeeps
<1>4. ASSUME NEW one \in States, NEW two \in States, NEW spawn \in BOOLEAN,
             NEW reply \in ReplyTo(t), ~Running(t),
             Begin(t, <<Word(t, one), Word(t, two)>>, spawn, reply), UNCHANGED late
      PROVE  Inv'
  <2>1. PICK words : words = <<Word(t, one), Word(t, two)>>
    OBVIOUS
  <2>2. words \in Seq(TaskEvents) /\ words # <<>> /\ OwnWords(words, t) /\ Last(words).state = two
    BY <2>1, TwoWords
  <2> QED
    BY <1>4, <2>1, <2>2, BeginKeeps
<1>5. ASSUME Start(t) PROVE Inv'
  BY <1>1, <1>2, <1>3, <1>5 DEF Start, Restable
<1>6. ASSUME Retry(t) PROVE Inv'
  BY <1>1, <1>2, <1>3, <1>4, <1>6 DEF Retry, Restable
<1>7. ASSUME CancelInactive(t) PROVE Inv'
  BY <1>1, <1>2, <1>3, <1>4, <1>7 DEF CancelInactive, Restable
<1> QED
  BY <1>5, <1>6, <1>7


\* A task that was never added has no run.
LEMMA Unknown ==
  ASSUME Inv, NEW t, tasks[t] = Absent
  PROVE  ~Running(t)
BY AbsentIsNone DEF Inv, KnownInv, Running

\* A command that changes t, or nothing, without a word, and answers.
LEMMA AnswerKeeps ==
  ASSUME Inv, NEW t \in Tasks, NEW reply \in ReplyTo(t), at' = "emit",
         command' = Answering(t, <<>>, FALSE, reply),
         TasksInv', QueueInv', UNCHANGED <<runs, pages, sequence, extension>>,
         at # "pages", \A u \in Tasks : u # t => UNCHANGED tasks[u],
         UNCHANGED tasks[t] \/ ~Running(t), \A u \in Tasks : Coming(u)'
  PROVE  Inv'
<1> DEFINE none == <<>>
           no == FALSE
<1>1. none \in Seq(TaskEvents) /\ OwnWords(none, t) /\ no \in BOOLEAN /\ ~no
      /\ command' = Answering(t, none, no, reply)
  <2>1. none \in Seq(TaskEvents) /\ DOMAIN none = {}
    OBVIOUS
  <2>2. OwnWords(none, t)
    BY <2>1 DEF OwnWords
  <2> QED
    BY <2>1, <2>2
<1> HIDE DEF none, no
<1>2. CommandInv'
  BY <1>1, AnsweringIs
<1>3. RunsInv' /\ StepInv'
  BY DEF Inv, RunsInv, StepInv, extension
<1>4. PagesInv'
  BY NoPages DEF Inv, extension
<1>5. KnownInv'
  <2>1. \A s \in DOMAIN runs : runs[s].task \in Tasks
    BY Typed DEF Inv
  <2>2. ~command'.spawn
    BY <1>1 DEF Answering
  <2>3. \A s \in DOMAIN runs : runs[s].live => UNCHANGED tasks[runs[s].task]
    <3> SUFFICES ASSUME NEW s \in DOMAIN runs, runs[s].live
                 PROVE  tasks'[runs'[s].task] = tasks[runs[s].task]
      OBVIOUS
    <3>1. CASE runs[s].task = t
      BY <3>1 DEF Running
    <3>2. CASE runs[s].task # t
      BY <2>1, <3>2
    <3> QED
      BY <3>1, <3>2
  <2> QED
    BY <2>2, <2>3 DEF Inv, KnownInv
<1> QED
  BY <1>2, <1>3, <1>4, <1>5 DEF Inv, Truth

LEMMA AddKeeps ==
  ASSUME Inv, NEW t \in Tasks, Add(t)
  PROVE  Inv'
<1>1. tasks[t] = Absent /\ ~Running(t)
  BY Unknown DEF Add
<1>2. /\ "active" \in States /\ "queued" \in States /\ TRUE \in BOOLEAN
      /\ Word(t, "active") \in ReplyTo(t) /\ Refusal \in ReplyTo(t)
  BY DEF States, ReplyTo
<1>3. CASE Begin(t, <<Word(t, "active")>>, TRUE, Word(t, "active")) /\ UNCHANGED late
  <2>1. PICK words : words = <<Word(t, "active")>>
    OBVIOUS
  <2>2. words \in Seq(TaskEvents) /\ words # <<>> /\ OwnWords(words, t)
        /\ Last(words).state = "active"
    BY <1>2, <2>1, OneWord
  <2> QED
    BY <1>1, <1>2, <1>3, <2>1, <2>2, BeginKeeps
<1>4. CASE /\ at = "select"
           /\ at' = "emit"
           /\ tasks' = [tasks EXCEPT ![t] = "queued"]
           /\ command' = Answering(t, <<>>, FALSE, Refusal)
           /\ UNCHANGED <<runs, queue, overflowed, pages, sequence, extension, history>>
  <2>1. \A u \in Tasks : tasks'[u] = IF u = t THEN "queued" ELSE tasks[u]
    BY <1>4 DEF Inv, TasksInv
  <2>2. TasksInv'
    BY <1>2, <1>4 DEF Inv, TasksInv, extension, history
  <2>3. QueueInv'
    BY <1>4 DEF Inv, QueueInv
  <2>4. ASSUME NEW u \in Tasks PROVE Coming(u)'
    <3>1. CASE u = t
      <4>1. Coming(t) /\ tasks'[t] = "queued" /\ command.owed = <<>>
        BY <1>4, <2>1 DEF Inv, Truth, CommandInv
      <4>2. ~LastWord(queue, t, tasks[t])
        BY <1>1, AbsentIsNone DEF Inv, QueueInv, LastWord, IsWord, Events, TaskEvents,
                                  ReplaceableEvents
      <4>3. Owed(t) => Owed(t)'
        BY <1>4, <4>1 DEF Owed
      <4>4. Shows(t) => Shows(t)'
        <5>1. Shows(t) => view[t] = Absent
          BY <1>1, <1>4, AbsentIsNone DEF Shows, Right, Unannounced
        <5>2. command'.reply.kind = "error"
          BY <1>4 DEF Answering, Refusal
        <5> QED
          BY <1>4, <4>1, <5>1, <5>2 DEF Shows, Answered, Right, Unannounced, extension
      <4> QED
        BY <1>4, <3>1, <4>1, <4>2, <4>3, <4>4 DEF Coming, history
    <3>2. CASE u # t
      <4>1. Coming(u) /\ UNCHANGED tasks[u] /\ command'.task = t
        BY <1>4, <2>1, <3>2 DEF Inv, Truth, Answering
      <4> QED
        BY <1>4, <3>2, <4>1, OthersStay DEF Inv, extension, history
    <3> QED
      BY <3>1, <3>2
  <2> QED
    BY <1>1, <1>2, <1>4, <2>1, <2>2, <2>3, <2>4, AnswerKeeps
<1> QED
  BY <1>3, <1>4 DEF Add

LEMMA NewRunKeeps ==
  ASSUME RunsInv, NEW t \in Tasks, ~Running(t), Len(runs) < MaxRuns, runs' = NewRun(t)
  PROVE  /\ RunsInv'
         /\ DOMAIN runs' = DOMAIN runs \cup {Len(runs) + 1}
         /\ \A s \in DOMAIN runs : runs'[s] = runs[s]
         /\ runs'[Len(runs) + 1].task = t /\ runs'[Len(runs) + 1].owed = <<>>
<1> DEFINE yes == TRUE
           x == [task |-> t, live |-> yes, stop |-> "none", owed |-> <<>>]
<1>1. x \in Run /\ x.task = t /\ x.live = yes /\ x.owed = <<>> /\ runs' = Append(runs, x)
      /\ yes \in BOOLEAN
  <2>1. <<>> \in Seq(TaskEvents) /\ yes \in BOOLEAN
    OBVIOUS
  <2> HIDE DEF yes
  <2>2. x \in Run /\ x.task = t /\ x.live = yes /\ x.owed = <<>>
    BY <2>1 DEF Run
  <2>3. runs' = Append(runs, x)
    BY DEF NewRun, yes
  <2> QED
    BY <2>1, <2>2, <2>3
<1> HIDE DEF x, yes
<1>2. /\ runs \in Seq(Run) /\ Len(runs) \in Nat /\ DOMAIN runs = 1 .. Len(runs)
      /\ Len(runs) + 1 <= MaxRuns
  BY LenProperties, EventStreamBounds DEF RunsInv
<1>3. /\ runs' \in Seq(Run) /\ Len(runs') = Len(runs) + 1
      /\ runs'[Len(runs) + 1] = x
      /\ \A s \in 1 .. Len(runs) : runs'[s] = runs[s]
  BY <1>1, <1>2, AppendProperties
<1>4. DOMAIN runs' = DOMAIN runs \cup {Len(runs) + 1}
  <2>1. DOMAIN runs' = 1 .. Len(runs) + 1
    BY <1>3, LenProperties
  <2> QED
    BY <1>2, <2>1
<1>5. OwnWords(x.owed, x.task)
  <2>1. DOMAIN x.owed = {}
    BY <1>1
  <2> QED
    BY <2>1 DEF OwnWords
<1>6. \A s \in DOMAIN runs' : OwnWords(runs'[s].owed, runs'[s].task)
  BY <1>2, <1>3, <1>4, <1>5 DEF RunsInv
<1>7. \A s \in DOMAIN runs : runs'[s].live /\ runs'[s].task = t => FALSE
  BY <1>2, <1>3 DEF Running
<1>8. \A s, u \in DOMAIN runs' :
        runs'[s].live /\ runs'[u].live /\ runs'[s].task = runs'[u].task => s = u
  BY <1>1, <1>2, <1>3, <1>4, <1>7 DEF RunsInv
<1> QED
  BY <1>1, <1>2, <1>3, <1>4, <1>6, <1>8 DEF RunsInv

\* What is owed when nobody says more.
LEMMA OwedSame ==
  ASSUME DOMAIN runs \subseteq DOMAIN runs',
         \A s \in DOMAIN runs : runs'[s].task = runs[s].task /\ runs'[s].owed = runs[s].owed,
         command.owed = <<>>, NEW u, Owed(u)
  PROVE  Owed(u)'
BY DEF Owed

LEMMA AwaitingIs ==
  ASSUME NEW t \in Tasks, NEW until \in {"resumed", "pause", "cancel"},
         at' = "wait", command' = Awaiting(t, until), tasks'[t] \in States,
         until # "resumed" =>
           \A r \in DOMAIN runs' : runs'[r].task = t /\ runs'[r].live => runs'[r].stop = until
  PROVE  CommandInv' /\ ~command'.spawn
<1> DEFINE none == <<>>
           no == FALSE
           c == [task |-> t, until |-> until, owed |-> none, reply |-> Absent, spawn |-> no]
<1>1. none \in Seq(TaskEvents) /\ no \in BOOLEAN /\ ~no /\ command' = c /\ OwnWords(none, t)
      /\ none = <<>>
  <2>1. none \in Seq(TaskEvents) /\ DOMAIN none = {}
    OBVIOUS
  <2>2. OwnWords(none, t)
    BY <2>1 DEF OwnWords
  <2> QED
    BY <2>1, <2>2 DEF Awaiting
<1> HIDE DEF none, no
<1>2. /\ command'.task = t /\ command'.until = until /\ command'.owed = none
      /\ command'.reply = Absent /\ command'.spawn = no
  BY <1>1
<1>3. CommandTyped'
  BY <1>1 DEF CommandTyped, Command
<1>4. ~command'.spawn
  BY <1>1, <1>2
<1> QED
  BY <1>1, <1>2, <1>3, <1>4 DEF CommandInv

LEMMA WaitKeeps ==
  ASSUME Inv, NEW t \in Tasks, NEW until \in {"resumed", "pause", "cancel"},
         at = "select", at' = "wait", command' = Awaiting(t, until), tasks[t] \in States,
         until # "resumed" =>
           \A r \in DOMAIN runs' : runs'[r].task = t /\ runs'[r].live => runs'[r].stop = until,
         RunsInv', DOMAIN runs \subseteq DOMAIN runs',
         \A s \in DOMAIN runs : runs'[s].task = runs[s].task /\ runs'[s].owed = runs[s].owed,
         \A r \in DOMAIN runs' : runs'[r].live => tasks[runs'[r].task] \in States,
         UNCHANGED <<tasks, queue, overflowed, pages, sequence, extension, history>>
  PROVE  Inv'
<1>1. CommandInv' /\ ~command'.spawn
  BY AwaitingIs
<1>2. TasksInv' /\ QueueInv' /\ StepInv'
  BY DEF Inv, TasksInv, QueueInv, StepInv, extension, history
<1>3. PagesInv'
  BY NoPages DEF Inv, extension
<1>4. KnownInv'
  BY <1>1 DEF KnownInv
<1>5. ASSUME NEW u \in Tasks PROVE Coming(u)'
  <2>1. Coming(u) /\ command.owed = <<>>
    BY AtSelect DEF Inv, Truth
  <2>2. Owed(u) => Owed(u)'
    BY <2>1, OwedSame
  <2>3. Shows(u) => Shows(u)'
    BY DEF Shows, Right, Unannounced, extension
  <2> QED
    BY <2>1, <2>2, <2>3 DEF Coming, history
<1> QED
  BY <1>1, <1>2, <1>3, <1>4, <1>5 DEF Inv, Truth

LEMMA ResumeKeeps ==
  ASSUME Inv, NEW t \in Tasks, Resume(t)
  PROVE  Inv'
<1>1. /\ at = "select" /\ at' = "wait" /\ ~Running(t) /\ tasks[t] = "paused" /\ Len(runs) < MaxRuns
      /\ runs' = NewRun(t) /\ command' = Awaiting(t, "resumed")
      /\ UNCHANGED <<tasks, queue, overflowed, pages, sequence, extension, history>>
  BY DEF Resume, Restable
<1>2. /\ RunsInv' /\ DOMAIN runs' = DOMAIN runs \cup {Len(runs) + 1}
      /\ \A s \in DOMAIN runs : runs'[s] = runs[s]
      /\ runs'[Len(runs) + 1].task = t
  BY <1>1, NewRunKeeps DEF Inv
<1>3. tasks[t] \in States
  BY <1>1 DEF States
<1>4. \A r \in DOMAIN runs' : runs'[r].live => tasks[runs'[r].task] \in States
  BY <1>2, <1>3 DEF Inv, KnownInv
<1> QED
  BY <1>1, <1>2, <1>3, <1>4, WaitKeeps

LEMMA RequestStopKeeps ==
  ASSUME Inv, NEW t \in Tasks, NEW stop \in {"pause", "cancel"}, RequestStop(t, stop)
  PROVE  Inv'
<1>1. /\ at = "select" /\ at' = "wait" /\ command' = Awaiting(t, stop)
      /\ UNCHANGED <<tasks, queue, overflowed, pages, sequence, extension, history>>
  BY DEF RequestStop
<1>2. PICK r \in DOMAIN runs : /\ runs[r].task = t /\ runs[r].live /\ tasks[t] = "active"
                               /\ runs' = [runs EXCEPT ![r].stop = stop]
  BY DEF RequestStop
<1> DEFINE x == [runs[r] EXCEPT !.stop = stop]
<1>3. x \in Run /\ x.task = runs[r].task /\ x.live = runs[r].live /\ x.owed = runs[r].owed
      /\ x.stop = stop
  <2>1. runs[r] \in Run
    BY Typed DEF Inv
  <2> QED
    BY <2>1 DEF Run
<1>4. runs' = [runs EXCEPT ![r] = x]
  BY <1>2
<1> HIDE DEF x
<1>5. /\ runs \in Seq(Run) /\ DOMAIN runs = 1 .. Len(runs) /\ Len(runs) \in Nat
  BY LenProperties DEF Inv, RunsInv
<1>6. runs' \in Seq(Run) /\ Len(runs') = Len(runs) /\ DOMAIN runs' = DOMAIN runs
  <2>1. runs' \in Seq(Run) /\ Len(runs') = Len(runs)
    BY <1>3, <1>4, <1>5, ExceptSeq
  <2> QED
    BY <1>5, <2>1, LenProperties
<1>7. \A s \in DOMAIN runs : runs'[s] = IF s = r THEN x ELSE runs[s]
  BY <1>4
<1>8. \A s \in DOMAIN runs : /\ runs'[s].task = runs[s].task /\ runs'[s].owed = runs[s].owed
                             /\ runs'[s].live = runs[s].live
  BY <1>3, <1>7
<1>9. RunsInv'
  <2>1. \A s \in DOMAIN runs' : OwnWords(runs'[s].owed, runs'[s].task)
    BY <1>6, <1>8 DEF Inv, RunsInv
  <2>2. \A s, u \in DOMAIN runs' :
          runs'[s].live /\ runs'[u].live /\ runs'[s].task = runs'[u].task => s = u
    BY <1>6, <1>8 DEF Inv, RunsInv
  <2> QED
    BY <1>6, <2>1, <2>2 DEF Inv, RunsInv
<1>10. \A s \in DOMAIN runs' : runs'[s].task = t /\ runs'[s].live => runs'[s].stop = stop
  BY <1>2, <1>3, <1>6, <1>7, <1>8 DEF Inv, RunsInv
<1>11. \A s \in DOMAIN runs' : runs'[s].live => tasks[runs'[s].task] \in States
  BY <1>6, <1>8 DEF Inv, KnownInv
<1>12. tasks[t] \in States
  BY <1>2 DEF States
<1> QED
  BY <1>1, <1>6, <1>8, <1>9, <1>10, <1>11, <1>12, WaitKeeps

LEMMA EndWaitKeeps ==
  ASSUME Inv, EndWait
  PROVE  Inv'
<1>1. PICK t : t = command.task
  OBVIOUS
<1>2. PICK reply \in Answers(t) : command' = Answering(t, <<>>, FALSE, reply)
  BY <1>1 DEF EndWait
<1>3. at = "wait" /\ at' = "emit" /\ UNCHANGED <<engine, pages, sequence, extension, history>>
  BY DEF EndWait
<1>4. /\ t \in Tasks /\ tasks[t] \in States
      /\ command.until \in {"resumed", "pause", "cancel"}
  BY <1>1, <1>3 DEF Inv, CommandInv, CommandTyped, Command
<1>5. /\ reply \in ReplyTo(t) /\ reply.kind # "removed"
      /\ reply.kind = "task" => reply.state = tasks[t]
  <2>1. reply \in {Word(t, tasks[t]), Refusal}
    BY <1>2, <1>4 DEF Answers
  <2> QED
    BY <1>4, <2>1 DEF ReplyTo, Word, Refusal
<1>6. TasksInv' /\ QueueInv'
  BY <1>3 DEF Inv, TasksInv, QueueInv, engine, extension, history
<1>7. ASSUME NEW u \in Tasks PROVE Coming(u)'
  <2>1. Coming(u) /\ command.owed = <<>>
    BY <1>3, AtSelect DEF Inv, Truth
  <2>2. Owed(u) => Owed(u)'
    BY <1>3, <2>1 DEF Owed, engine
  <2>3. command'.task = t /\ command'.reply = reply
    BY <1>2 DEF Answering
  <2>4. reply.kind \in {"error", "task"}
    BY <1>4, <1>5, Reply
  <2>5. Shows(u) => Shows(u)'
    BY <1>3, <1>5, <2>3, <2>4 DEF Shows, Right, Unannounced, Answered, engine, extension
  <2> QED
    BY <1>3, <2>1, <2>2, <2>5 DEF Coming, engine, history
<1> QED
  BY <1>2, <1>3, <1>4, <1>5, <1>6, <1>7, AnswerKeeps DEF engine

LEMMA RemoveKeeps ==
  ASSUME Inv, NEW t \in Tasks, RemoveTask(t)
  PROVE  Inv'
<1> DEFINE reply == [kind |-> "removed", task |-> t]
<1>0. PICK S : S = Others(queue, t)
  OBVIOUS
<1>1. /\ at = "select" /\ at' = "emit" /\ ~Running(t)
      /\ tasks' = [tasks EXCEPT ![t] = Absent]
      /\ removed' = removed \cup {t} /\ queue' = Retained(queue, S)
      /\ command' = Answering(t, <<>>, FALSE, reply)
      /\ UNCHANGED <<runs, overflowed, pages, sequence, extension, late>>
  BY <1>0 DEF RemoveTask, Restable, Others
<1>2. reply \in ReplyTo(t) /\ reply.kind = "removed"
  BY DEF ReplyTo
<1> HIDE DEF reply
<1>3. /\ queue \in Seq(Events) /\ queue' \in Seq(Events) /\ Len(queue') <= Len(queue)
      /\ NoWord(queue', t) /\ \A u : u # t => SaysAs(queue', queue, u)
  <2>1. queue \in Seq(Events) /\ queue' = Retained(queue, S)
    BY <1>1 DEF Inv, QueueInv
  <2>2. queue' \in Seq(Events) /\ Len(queue') <= Len(queue)
    BY <1>0, <2>1, RetainedSays
  <2>3. NoWord(queue', t)
    BY <1>0, <2>1, RetainedSays
  <2>4. ASSUME NEW u, u # t PROVE SaysAs(queue', queue, u)
    <3>1. queue \in Seq(Events) /\ u # t
      BY <2>1, <2>4
    <3>2. u # t => SaysAs(Retained(queue, S), queue, u)
      BY <1>0, <3>1, RetainedSays
    <3> QED
      BY <2>1, <3>1, <3>2
  <2> QED
    BY <2>1, <2>2, <2>3, <2>4
<1>4. QueueInv'
  <2>1. Len(queue) \in Nat /\ Len(queue') \in Nat /\ Capacity \in Nat
    BY <1>3, LenProperties, EventStreamBounds
  <2> QED
    BY <1>1, <1>3, <2>1 DEF Inv, QueueInv
<1>5. TasksInv'
  BY <1>1 DEF Inv, TasksInv, extension
<1>6. \A u \in Tasks : tasks'[u] = IF u = t THEN Absent ELSE tasks[u]
  BY <1>1 DEF Inv, TasksInv
<1>7. command'.task = t /\ command'.reply = reply
  BY <1>1 DEF Answering
<1>8. ASSUME NEW u \in Tasks PROVE Coming(u)'
  <2>1. CASE u = t
    <3>1. Shows(u)'
      BY <1>1, <1>2, <1>6, <1>7, <2>1 DEF Shows, Right, Unannounced, Answered
    <3> QED
      BY <1>3, <2>1, <3>1 DEF Coming
  <2>2. CASE u # t
    <3>1. Coming(u) /\ UNCHANGED tasks[u] /\ SaysAs(queue', queue, u)
      BY <1>3, <1>6, <2>2 DEF Inv, Truth
    <3> QED
      BY <1>1, <1>7, <2>2, <3>1, OthersStay DEF Inv, extension
  <2> QED
    BY <2>1, <2>2
<1> QED
  BY <1>1, <1>2, <1>4, <1>5, <1>6, <1>8, AnswerKeeps

LEMMA EmitCommandKeeps ==
  ASSUME Inv, EmitCommand
  PROVE  Inv'
<1> DEFINE o == command.owed
           rest == Tail(o)
<1>1. PICK e : e = Head(o)
  OBVIOUS
<1>2. /\ at = "emit" /\ o # <<>> /\ Emit(e) /\ late' = LateAfter(e)
      /\ command' = [command EXCEPT !.owed = rest]
      /\ UNCHANGED <<tasks, runs, at, pages, sequence, extension, removed>>
  BY <1>1 DEF EmitCommand
<1>3. command \in Command /\ o \in Seq(TaskEvents) /\ OwnWords(o, command.task)
  BY DEF Inv, CommandInv, CommandTyped, Command
<1> HIDE DEF o
<1>4. /\ e \in TaskEvents /\ rest \in Seq(TaskEvents) /\ OwnWords(rest, command.task)
      /\ e.task = command.task
  BY <1>1, <1>2, <1>3, TailIsPart
<1> HIDE DEF rest
<1>5. e \in Events
  BY <1>4 DEF Events
<1>6. QueueInv'
  BY <1>2, <1>5, EmitKeeps DEF Inv
<1>7. /\ late' \in SUBSET Tasks /\ Coming(e.task)'
      /\ \A u : u # e.task => ~IsWord(e, u) /\ (u \in late => u \in late')
  BY <1>2, <1>4, SaidOrLate DEF Inv
<1>8. TasksInv'
  BY <1>2, <1>7 DEF Inv, TasksInv, extension
<1>9. /\ command' \in Command /\ command'.task = command.task /\ command'.owed = rest
      /\ command'.reply = command.reply /\ command'.spawn = command.spawn
      /\ command'.until = command.until
  BY <1>2, <1>3, <1>4 DEF Command
<1>10. CommandInv'
  <2>1. CommandTyped'
    BY <1>2, <1>9 DEF Inv, CommandInv, CommandTyped
  <2>2. command'.spawn => ~Running(command.task)' /\ Len(runs') < MaxRuns
    BY <1>2, <1>9 DEF Inv, CommandInv, Running
  <2>3. OwnWords(command'.owed, command'.task)
    BY <1>4, <1>9
  <2> QED
    BY <1>2, <1>9, <2>1, <2>2, <2>3 DEF Inv, CommandInv
<1>11. KnownInv' /\ RunsInv' /\ StepInv'
  BY <1>2, <1>9 DEF Inv, KnownInv, RunsInv, StepInv, extension
<1>12. PagesInv'
  BY <1>2, PagesWait DEF Inv, extension
<1>13. ASSUME NEW u \in Tasks PROVE Coming(u)'
  <2>1. CASE u = e.task
    BY <1>7, <2>1
  <2>2. CASE u # e.task
    <3>1. Coming(u) /\ UNCHANGED tasks[u]
      BY <1>2 DEF Inv, Truth
    <3>2. Owed(u) => Owed(u)'
      BY <1>2, <1>4, <2>2 DEF Owed
    <3>3. Shows(u) => Shows(u)'
      BY <1>2, <1>9 DEF Shows, Right, Unannounced, Answered, extension
    <3>4. ~IsWord(e, u) /\ (u \in late => u \in late')
      BY <1>7, <2>2
    <3> QED
      BY <1>2, <1>5, <3>1, <3>2, <3>3, <3>4, ComingStays DEF Inv
  <2> QED
    BY <2>1, <2>2
<1> QED
  BY <1>6, <1>8, <1>10, <1>11, <1>12, <1>13 DEF Inv, Truth

LEMMA SpawnKeeps ==
  ASSUME Inv, Spawn
  PROVE  Inv'
<1> DEFINE no == FALSE
<1>1. PICK t : t = command.task
  OBVIOUS
<1>2. /\ at = "emit" /\ command.owed = <<>> /\ command.spawn
      /\ runs' = NewRun(t) /\ command' = [command EXCEPT !.spawn = no]
      /\ UNCHANGED <<tasks, queue, overflowed, at, pages, sequence, extension, history>>
  BY <1>1 DEF Spawn
<1>3. /\ command \in Command /\ t \in Tasks /\ ~Running(t) /\ Len(runs) < MaxRuns
      /\ tasks[t] \in States
  BY <1>1, <1>2 DEF Inv, CommandInv, CommandTyped, KnownInv
<1>4. no \in BOOLEAN /\ ~no
  OBVIOUS
<1> HIDE DEF no
<1>5. /\ command' \in Command /\ command'.task = command.task /\ command'.owed = command.owed
      /\ command'.reply = command.reply /\ ~command'.spawn
  BY <1>2, <1>3, <1>4 DEF Command
<1>6. /\ RunsInv' /\ DOMAIN runs' = DOMAIN runs \cup {Len(runs) + 1}
      /\ \A s \in DOMAIN runs : runs'[s] = runs[s]
      /\ runs'[Len(runs) + 1].task = t
  BY <1>2, <1>3, NewRunKeeps DEF Inv
<1>7. CommandInv'
  <2>1. CommandTyped'
    BY <1>2, <1>5 DEF Inv, CommandInv, CommandTyped
  <2>2. OwnWords(command'.owed, command'.task)
    BY <1>5 DEF Inv, CommandInv
  <2> QED
    BY <1>2, <1>5, <2>1, <2>2 DEF Inv, CommandInv
<1>8. KnownInv'
  BY <1>2, <1>3, <1>5, <1>6 DEF Inv, KnownInv
<1>9. TasksInv' /\ QueueInv' /\ StepInv'
  BY <1>2 DEF Inv, TasksInv, QueueInv, StepInv, extension, history
<1>10. PagesInv'
  BY <1>2, PagesWait DEF Inv, extension
<1>11. ASSUME NEW u \in Tasks PROVE Coming(u)'
  <2>1. Coming(u)
    BY DEF Inv, Truth
  <2>2. Owed(u) => Owed(u)'
    BY <1>2, <1>6, OwedSame
  <2>3. Shows(u) => Shows(u)'
    BY <1>2, <1>5 DEF Shows, Right, Unannounced, Answered, extension
  <2> QED
    BY <1>2, <2>1, <2>2, <2>3 DEF Coming, history
<1> QED
  BY <1>7, <1>6, <1>8, <1>9, <1>10, <1>11 DEF Inv, Truth

LEMMA RestingIs ==
  ASSUME command' = Idle, at' = "top"
  PROVE  CommandInv' /\ ~command'.spawn /\ command'.owed = <<>>
<1> DEFINE none == <<>>
           no == FALSE
           c == [task |-> Absent, until |-> "none", owed |-> none, reply |-> Absent, spawn |-> no]
<1>1. none \in Seq(TaskEvents) /\ no \in BOOLEAN /\ ~no /\ command' = c
      /\ OwnWords(none, Absent) /\ none = <<>>
  <2>1. none \in Seq(TaskEvents) /\ DOMAIN none = {}
    OBVIOUS
  <2>2. OwnWords(none, Absent)
    BY <2>1 DEF OwnWords
  <2> QED
    BY <2>1, <2>2 DEF Idle, Awaiting
<1> HIDE DEF none, no
<1>2. /\ command'.task = Absent /\ command'.until = "none" /\ command'.owed = none
      /\ command'.reply = Absent /\ command'.spawn = no
  BY <1>1
<1>3. CommandTyped'
  BY <1>1 DEF CommandTyped, Command
<1> QED
  BY <1>1, <1>2, <1>3 DEF CommandInv

LEMMA RespondKeeps ==
  ASSUME Inv, Respond
  PROVE  Inv'
<1>1. PICK t : t = command.task
  OBVIOUS
<1>2. PICK reply : reply = command.reply
  OBVIOUS
<1>3. /\ at = "emit" /\ at' = "top" /\ command.owed = <<>> /\ command' = Idle
      /\ ReceiveResponse(reply)
      /\ UNCHANGED <<engine, pages, sequence, history>>
  BY <1>2 DEF Respond
<1>4. t \in Tasks /\ reply \in ReplyTo(t)
  BY <1>1, <1>2, <1>3 DEF Inv, CommandInv
<1>5. /\ reply.kind \in {"error", "removed", "task"} /\ (reply.kind # "error" => reply.task = t)
      /\ reply.kind = "task" => reply.state \in States
  BY <1>4, Reply
<1>6. /\ UNCHANGED <<assembly, nextSequence, broken>>
      /\ \/ reply.kind = "error" /\ UNCHANGED view
         \/ reply.kind = "task" /\ view' = [view EXCEPT ![t] = reply.state]
         \/ reply.kind = "removed" /\ view' = [view EXCEPT ![t] = Absent]
  BY <1>3, <1>5 DEF ReceiveResponse, Show
<1>7. \A u \in Tasks : view'[u] = Answered(u)
  BY <1>1, <1>2, <1>4, <1>6 DEF Answered, Inv, TasksInv
<1>8. TasksInv'
  BY <1>3, <1>5, <1>6 DEF Inv, TasksInv, engine, history
<1>9. CommandInv' /\ ~command'.spawn
  BY <1>3, RestingIs
<1>10. RunsInv' /\ QueueInv' /\ StepInv'
  BY <1>3, <1>6 DEF Inv, RunsInv, QueueInv, StepInv, engine
<1>11. PagesInv'
  BY <1>3, <1>6, NoPages DEF Inv
<1>12. KnownInv'
  BY <1>3, <1>9 DEF Inv, KnownInv, engine
<1>13. ASSUME NEW u \in Tasks PROVE Coming(u)'
  <2>1. Coming(u)
    BY DEF Inv, Truth
  <2>2. Owed(u) => Owed(u)'
    BY <1>3 DEF Owed, engine
  <2>3. Shows(u) => Shows(u)'
    BY <1>3, <1>7 DEF Shows, Right, Unannounced, engine
  <2> QED
    BY <1>3, <2>1, <2>2, <2>3 DEF Coming, engine, history
<1> QED
  BY <1>8, <1>9, <1>10, <1>11, <1>12, <1>13 DEF Inv, Truth

-----------------------------------------------------------------------------
(* Snapshots and events *)

LEMMA HowMany == Cardinality(Tasks) \in Nat
BY FiniteTasks, FS_CardinalityType

\* A snapshot says of every task what is the case.
LEMMA SnapshotIs ==
  ASSUME TasksInv, NEW p \in Snapshots
  PROVE  /\ p # <<>>
         /\ p = <<Absent>> \/ (p \in Seq(Page) /\ Len(p) <= Cardinality(Tasks))
         /\ \A x, y \in Entries(<<>>, p) : x.task = y.task => x = y
         /\ \A t \in Tasks : Says(Entries(<<>>, p), t, tasks[t])
<1> DEFINE present == {t \in Tasks : tasks[t] # Absent}
           S == Entries(<<>>, p)
           n == Cardinality(present)
<1>1. S = {x \in Page : \E i \in DOMAIN p : p[i] = x}
  <2>1. PICK none : none = <<>> /\ DOMAIN none = {}
    OBVIOUS
  <2>2. Entries(none, p) = {x \in Page : \E i \in DOMAIN p : p[i] = x}
    BY <2>1 DEF Entries
  <2> QED
    BY <2>1, <2>2
<1> HIDE DEF S
<1>2. CASE present = {}
  <2>1. p = <<Absent>>
    BY <1>2 DEF Snapshots
  <2>2. S = {}
    BY <1>1, <2>1, AbsentIsNone
  <2>3. ASSUME NEW t \in Tasks PROVE tasks[t] = Absent
    BY <1>2
  <2>4. <<Absent>> # <<>>
    OBVIOUS
  <2> QED
    <3>1. p # <<>>
      BY <2>1, <2>4
    <3>2. \A t \in Tasks : Says(S, t, tasks[t])
      BY <2>2, <2>3 DEF Says
    <3>3. \A x, y \in S : x.task = y.task => x = y
      BY <2>2
    <3> QED
      BY <2>1, <3>1, <3>2, <3>3 DEF S
<1>3. CASE present # {}
  <2>1. PICK order \in Bijection(1 .. n, present) :
          p = [i \in DOMAIN order |-> [task |-> order[i], state |-> tasks[order[i]]]]
    BY <1>3 DEF Snapshots
  <2>2. /\ order \in [1 .. n -> present]
        /\ \A t \in present : \E i \in 1 .. n : order[i] = t
    BY <2>1 DEF Bijection, Surjection
  <2>3. /\ IsFiniteSet(present) /\ n \in Nat /\ n <= Cardinality(Tasks)
    BY FiniteTasks, FS_Subset, FS_CardinalityType
  <2>4. \A t \in present : t \in Tasks /\ tasks[t] \in States
    BY DEF TasksInv
  <2>5. /\ DOMAIN p = 1 .. n
        /\ \A i \in 1 .. n : /\ p[i] = [task |-> order[i], state |-> tasks[order[i]]]
                             /\ order[i] \in present
    BY <2>1, <2>2
  <2> HIDE DEF present, n
  <2>6. \A i \in 1 .. n : p[i] \in Page /\ p[i].task = order[i] /\ p[i].state = tasks[order[i]]
    BY <2>4, <2>5 DEF Page
  <2>7. p \in Seq(Page) /\ Len(p) = n
    <3>1. p \in [1 .. n -> Page]
      BY <2>1, <2>5, <2>6
    <3> QED
      BY <2>3, <3>1, AsSequence
  <2>8. p # <<>>
    <3>1. PICK t : t \in present
      BY <1>3
    <3>2. PICK i \in 1 .. n : order[i] = t
      BY <2>2, <3>1
    <3> QED
      BY <2>3, <2>7, <3>2
  <2>9. \A x \in S : x.task \in present /\ x.state = tasks[x.task] /\ x \in Page
    BY <1>1, <2>5, <2>6
  <2>10. \A x, y \in S : x.task = y.task => x = y
    BY <2>9 DEF Page
  <2>11. ASSUME NEW t \in Tasks PROVE Says(S, t, tasks[t])
    <3>1. CASE t \in present
      <4>1. PICK i \in 1 .. n : order[i] = t
        BY <2>2, <3>1
      <4>2. p[i] \in S
        BY <1>1, <2>5, <2>6
      <4> QED
        BY <2>6, <4>1, <4>2 DEF Says
    <3>2. CASE t \notin present
      <4>1. tasks[t] = Absent
        BY <3>2 DEF present
      <4> QED
        BY <2>9, <3>2, <4>1 DEF Says
    <3> QED
      BY <3>1, <3>2
  <2> QED
    BY <2>3, <2>7, <2>8, <2>10, <2>11 DEF S
<1> QED
  BY <1>2, <1>3

LEMMA TopKeeps ==
  ASSUME Inv, Top
  PROVE  Inv'
<1>1. at = "top" /\ UNCHANGED <<tasks, runs, command, pages, sequence, extension, removed>>
  BY DEF Top
<1>2. RunsInv' /\ StepInv'
  BY <1>1 DEF Inv, RunsInv, StepInv, extension
<1>3. KnownInv'
  BY <1>1 DEF Inv, KnownInv
<1>4. /\ at' \in {"select", "snapshot"}
      /\ \/ /\ overflowed' = FALSE /\ queue' = <<>> /\ late' = {} /\ at' = "snapshot"
         \/ /\ at' = "select" /\ UNCHANGED <<queue, overflowed, late>>
  BY DEF Top
<1>5. CommandInv'
  <2>1. CommandTyped' /\ at' # "emit" /\ at' # "wait"
    BY <1>1, <1>4 DEF Inv, CommandInv, CommandTyped
  <2>2. command.owed = <<>> /\ ~command.spawn
    BY <1>1, AtSelect DEF Inv
  <2> QED
    BY <1>1, <2>1, <2>2 DEF Inv, CommandInv
<1>6. PagesInv'
  BY <1>1, <1>4, NoPages DEF Inv, extension
<1>7. CASE overflowed' = FALSE /\ queue' = <<>> /\ late' = {} /\ at' = "snapshot"
  <2>1. TasksInv'
    BY <1>1, <1>7 DEF Inv, TasksInv, extension
  <2> DEFINE none == <<>>
  <2>2. none \in Seq(Events) /\ DOMAIN none = {} /\ Len(none) = 0 /\ queue' = none
    BY <1>7
  <2> HIDE DEF none
  <2>3. QueueInv'
    <3>1. overflowed' \in BOOLEAN
      BY <1>7
    <3>2. Len(queue') <= Capacity
      BY <2>2, EventStreamBounds
    <3> QED
      BY <2>2, <3>1, <3>2 DEF QueueInv
  <2>4. \A u \in Tasks : NoWord(queue', u) /\ Shows(u)'
    BY <1>7, <2>2 DEF NoWord, Shows, Right, Unannounced
  <2> QED
    BY <1>2, <1>3, <1>5, <1>6, <2>1, <2>3, <2>4 DEF Inv, Truth, Coming
<1>8. CASE at' = "select" /\ UNCHANGED <<queue, overflowed, late>>
  <2>1. TasksInv' /\ QueueInv'
    BY <1>1, <1>8 DEF Inv, TasksInv, QueueInv, extension
  <2>2. ASSUME NEW u \in Tasks PROVE Coming(u)'
    <3>1. Coming(u)
      BY DEF Inv, Truth
    <3>2. Owed(u) => Owed(u)'
      BY <1>1 DEF Owed
    <3>3. Shows(u) => Shows(u)'
      BY <1>1, <1>8 DEF Shows, Right, Unannounced, extension
    <3> QED
      BY <1>1, <1>8, <3>1, <3>2, <3>3 DEF Coming
  <2> QED
    BY <1>2, <1>3, <1>5, <1>6, <2>1, <2>2 DEF Inv, Truth
<1> QED
  BY <1>4, <1>7, <1>8

LEMMA TakeSnapshotKeeps ==
  ASSUME Inv, TakeSnapshot
  PROVE  Inv'
<1>1. PICK p \in Snapshots : pages' = p
  BY DEF TakeSnapshot
<1>2. at = "snapshot" /\ at' = "pages" /\ UNCHANGED <<engine, command, sequence, extension, history>>
  BY DEF TakeSnapshot
<1>3. RunsInv' /\ StepInv' /\ TasksInv' /\ QueueInv' /\ KnownInv'
  BY <1>2 DEF Inv, RunsInv, StepInv, TasksInv, QueueInv, KnownInv, engine, extension, history
<1>4. command.owed = <<>> /\ ~command.spawn /\ assembly = <<>>
  BY <1>2, AtSelect DEF Inv
<1>5. CommandInv'
  BY <1>2, <1>4 DEF Inv, CommandInv, CommandTyped
<1>6. /\ p # <<>>
      /\ p = <<Absent>> \/ (p \in Seq(Page) /\ Len(p) <= Cardinality(Tasks))
      /\ \A x, y \in Entries(<<>>, p) : x.task = y.task => x = y
      /\ \A t \in Tasks : Says(Entries(<<>>, p), t, tasks[t])
  BY SnapshotIs DEF Inv
<1>7. assembly' = <<>>
  BY <1>2, <1>4 DEF extension
<1>8. PagesInv'
  <2>1. /\ \A x, y \in Entries(assembly', pages') : x.task = y.task => x = y
        /\ pages' # <<>> /\ at' = "pages"
    BY <1>1, <1>2, <1>6, <1>7
  <2>2. assembly' \in Seq(Page) /\ Len(assembly') = 0
    BY <1>7
  <2>3. \/ pages' = <<Absent>> /\ assembly' = <<>>
        \/ pages' \in Seq(Page) /\ Len(assembly') + Len(pages') <= Cardinality(Tasks)
    <3>1. p \in Seq(Page) => Len(p) \in Nat
      BY LenProperties
    <3> QED
      BY <1>1, <1>6, <1>7, <2>2, <3>1
  <2> QED
    BY <2>1, <2>2, <2>3 DEF PagesInv
<1>9. ASSUME NEW u \in Tasks PROVE Coming(u)'
  <2>1. Coming(u) /\ UNCHANGED tasks[u]
    BY <1>2 DEF Inv, Truth, engine
  <2>2. Owed(u) => Owed(u)'
    BY <1>2 DEF Owed, engine
  <2>3. Says(Entries(assembly', pages'), u, tasks'[u])
    BY <1>1, <1>6, <1>7, <2>1
  <2>4. Shows(u)'
    BY <1>2, <2>3 DEF Shows, Right, Unannounced
  <2> QED
    BY <1>2, <2>1, <2>2, <2>4 DEF Coming, engine, history
<1> QED
  BY <1>3, <1>5, <1>8, <1>9 DEF Inv, Truth

\* Sequence numbers are modulo Numbers.
LEMMA Successor ==
  ASSUME NEW n \in 0 .. Numbers - 1
  PROVE  (n + 1) % Numbers \in 0 .. Numbers - 1
BY EventStreamBounds

\* The pages received, with the first of p.
Taken(a, p) == IF Head(p) = Absent THEN a ELSE Append(a, Head(p))

\* A page moves from those to be sent to those received.
LEMMA Received ==
  ASSUME NEW n \in Nat, NEW a \in Seq(Page), NEW p, p # <<>>,
         \/ p = <<Absent>> /\ a = <<>>
         \/ p \in Seq(Page) /\ Len(a) + Len(p) <= n,
         NEW r, r = Taken(a, p)
  PROVE  /\ r \in Seq(Page) /\ Tail(p) \in Seq(Page) /\ Len(r) + Len(Tail(p)) <= n
         /\ Entries(r, Tail(p)) = Entries(a, p)
<1>1. CASE p = <<Absent>> /\ a = <<>>
  <2> DEFINE none == <<>>
  <2>1. none \in Seq(Page) /\ Len(none) = 0 /\ DOMAIN none = {}
    OBVIOUS
  <2>2. Head(p) = Absent /\ Tail(p) = none /\ r = none /\ a = none
    BY <1>1 DEF Taken
  <2>3. DOMAIN p = 1 .. 1 /\ p[1] = Absent
    BY <1>1
  <2> HIDE DEF none
  <2>4. Entries(r, Tail(p)) = {}
    BY <2>1, <2>2 DEF Entries
  <2>5. Entries(a, p) = {}
    BY <2>1, <2>2, <2>3, AbsentIsNone DEF Entries
  <2> QED
    <3>1. r \in Seq(Page) /\ Tail(p) \in Seq(Page)
      BY <2>1, <2>2
    <3>2. Len(r) = 0 /\ Len(Tail(p)) = 0
      BY <2>1, <2>2
    <3> QED
      BY <2>4, <2>5, <3>1, <3>2
<1>2. CASE p \in Seq(Page) /\ Len(a) + Len(p) <= n
  <2>1. /\ Tail(p) \in Seq(Page) /\ Head(p) \in Page /\ Len(p) \in Nat \ {0} /\ DOMAIN p = 1 .. Len(p)
        /\ Len(Tail(p)) = Len(p) - 1 /\ DOMAIN Tail(p) = 1 .. Len(p) - 1
        /\ Head(p) = p[1]
        /\ \A i \in 1 .. Len(p) - 1 : Tail(p)[i] = p[i + 1]
    BY <1>2, HeadTailProperties, LenProperties, EmptySeq
  <2>2. r = Append(a, Head(p))
    BY <2>1, AbsentIsNone DEF Taken
  <2>3. /\ r \in Seq(Page) /\ Len(a) \in Nat /\ DOMAIN a = 1 .. Len(a)
        /\ Len(r) = Len(a) + 1 /\ DOMAIN r = 1 .. Len(a) + 1
        /\ r[Len(a) + 1] = Head(p)
        /\ \A i \in 1 .. Len(a) : r[i] = a[i]
    BY <2>1, <2>2, AppendProperties, LenProperties
  <2>4. ASSUME NEW x \in Entries(r, Tail(p)) PROVE x \in Entries(a, p)
    <3>1. CASE \E i \in DOMAIN r : r[i] = x
      <4>1. PICK i \in DOMAIN r : r[i] = x
        BY <3>1
      <4>2. i \in 1 .. Len(a) \/ i = Len(a) + 1
        BY <2>3
      <4>3. 1 \in DOMAIN p
        BY <2>1
      <4> QED
        BY <2>1, <2>3, <2>4, <4>1, <4>2, <4>3 DEF Entries
    <3>2. CASE \E i \in DOMAIN Tail(p) : Tail(p)[i] = x
      <4>1. PICK i \in DOMAIN Tail(p) : Tail(p)[i] = x
        BY <3>2
      <4>2. i + 1 \in DOMAIN p /\ p[i + 1] = x
        BY <2>1, <4>1
      <4> QED
        BY <2>4, <4>2 DEF Entries
    <3> QED
      BY <2>4, <3>1, <3>2 DEF Entries
  <2>5. ASSUME NEW x \in Entries(a, p) PROVE x \in Entries(r, Tail(p))
    <3>1. CASE \E i \in DOMAIN a : a[i] = x
      <4>1. PICK i \in DOMAIN a : a[i] = x
        BY <3>1
      <4>2. i \in DOMAIN r /\ r[i] = x
        BY <2>3, <4>1
      <4> QED
        BY <2>5, <4>2 DEF Entries
    <3>2. CASE \E i \in DOMAIN p : p[i] = x
      <4>1. PICK i \in DOMAIN p : p[i] = x
        BY <3>2
      <4>2. CASE i = 1
        <5>1. Len(a) + 1 \in DOMAIN r /\ r[Len(a) + 1] = x
          BY <2>1, <2>3, <4>1, <4>2
        <5> QED
          BY <2>5, <5>1 DEF Entries
      <4>3. CASE i # 1
        <5>1. i - 1 \in DOMAIN Tail(p) /\ (i - 1) + 1 = i
          BY <2>1, <4>3
        <5>2. Tail(p)[i - 1] = x
          BY <2>1, <4>1, <5>1
        <5> QED
          BY <2>5, <5>1, <5>2 DEF Entries
      <4> QED
        BY <4>2, <4>3
    <3> QED
      BY <2>5, <3>1, <3>2 DEF Entries
  <2> QED
    BY <1>2, <2>1, <2>3, <2>4, <2>5
<1> QED
  BY <1>1, <1>2

\* The table the pages make.
Shown(r) ==
  [t \in Tasks |-> IF \E i \in DOMAIN r : r[i].task = t
                   THEN r[CHOOSE i \in DOMAIN r : r[i].task = t].state
                   ELSE Absent]

LEMMA ShownIs ==
  ASSUME NEW r \in Seq(Page), NEW S, S = {x \in Page : \E i \in DOMAIN r : r[i] = x},
         \A x, y \in S : x.task = y.task => x = y
  PROVE  /\ Shown(r) \in [Tasks -> States \cup {Absent}]
         /\ \A t \in Tasks : \A s : Says(S, t, s) => Shown(r)[t] = s
<1>1. \A i \in DOMAIN r : r[i] \in Page /\ r[i].task \in Tasks /\ r[i].state \in States
  <2>1. \A i \in DOMAIN r : r[i] \in Page
    BY ElementOfSeq, LenProperties
  <2> QED
    BY <2>1 DEF Page
<1>2. Shown(r) \in [Tasks -> States \cup {Absent}]
  BY <1>1 DEF Shown
<1>3. ASSUME NEW t \in Tasks, NEW s, Says(S, t, s)
      PROVE  Shown(r)[t] = s
  <2>1. CASE \E i \in DOMAIN r : r[i].task = t
    <3>1. PICK i \in DOMAIN r : r[i].task = t /\ Shown(r)[t] = r[i].state
      BY <2>1 DEF Shown
    <3>2. r[i] \in S
      BY <1>1
    <3> QED
      BY <1>3, <3>1, <3>2 DEF Says
  <2>2. CASE ~\E i \in DOMAIN r : r[i].task = t
    BY <1>3, <2>2 DEF Says, Shown
  <2> QED
    BY <2>1, <2>2
<1> QED
  BY <1>2, <1>3

\* The extension accepts what the host sends.
LEMMA Accepted ==
  ASSUME StepInv, NEW message, SendEvent(message), message.kind = "page" \/ assembly = <<>>
  PROVE  /\ StepInv'
         /\ \/ ReceivePage(message)
            \/ message.kind = "task" /\ Show(message.task, message.state) /\ UNCHANGED assembly
            \/ message.kind = "progress" /\ UNCHANGED <<view, assembly>>
<1>1. ReceiveEvent(message, sequence) /\ sequence' = (sequence + 1) % Numbers
  BY DEF SendEvent
<1>2. /\ nextSequence' = (nextSequence + 1) % Numbers /\ UNCHANGED broken
      /\ \/ ReceivePage(message)
         \/ message.kind = "task" /\ Show(message.task, message.state) /\ UNCHANGED assembly
         \/ message.kind = "progress" /\ UNCHANGED <<view, assembly>>
  BY <1>1 DEF ReceiveEvent, StepInv
<1>3. StepInv'
  BY <1>1, <1>2, Successor DEF StepInv
<1> QED
  BY <1>2, <1>3

LEMMA SendPageKeeps ==
  ASSUME Inv, SendPage
  PROVE  Inv'
<1> DEFINE last == (Tail(pages) = <<>>)
<1>0. PICK received : received = Taken(assembly, pages)
  OBVIOUS
<1>1. /\ at = "pages" /\ pages' = Tail(pages) /\ at' = (IF last THEN "top" ELSE "pages")
      /\ SendEvent([kind |-> "page", page |-> Head(pages), complete |-> last])
      /\ UNCHANGED <<engine, command, history>>
  BY DEF SendPage
<1>2. last \in BOOLEAN /\ (last <=> Tail(pages) = <<>>)
  OBVIOUS
<1> HIDE DEF last
<1>3. StepInv' /\ IF last THEN assembly' = <<>> /\ view' = Shown(received)
                  ELSE assembly' = received /\ UNCHANGED view
  <2> DEFINE message == [kind |-> "page", page |-> Head(pages), complete |-> last]
  <2>1. message.kind = "page" /\ message.page = Head(pages) /\ message.complete = last
    BY <1>2
  <2>2. SendEvent(message)
    BY <1>1
  <2> HIDE DEF message
  <2>3. StepInv' /\ ReceivePage(message)
    BY <2>1, <2>2, Accepted DEF Inv
  <2> QED
    <3>1. received = IF message.page = Absent THEN assembly ELSE Append(assembly, message.page)
      BY <1>0, <2>1 DEF Taken
    <3>2. CASE last
      <4>1. /\ view' = Shown(IF message.page = Absent THEN assembly
                             ELSE Append(assembly, message.page))
            /\ assembly' = <<>>
        BY <2>1, <2>3, <3>2 DEF ReceivePage, Shown
      <4> QED
        BY <2>3, <3>1, <3>2, <4>1
    <3>3. CASE ~last
      BY <2>1, <2>3, <3>1, <3>3 DEF ReceivePage
    <3> QED
      BY <2>3, <3>2, <3>3
<1>4. /\ received \in Seq(Page) /\ Tail(pages) \in Seq(Page)
      /\ Len(received) + Len(Tail(pages)) <= Cardinality(Tasks)
      /\ Entries(received, Tail(pages)) = Entries(assembly, pages)
  <2>1. /\ assembly \in Seq(Page) /\ pages # <<>>
        /\ \/ pages = <<Absent>> /\ assembly = <<>>
           \/ pages \in Seq(Page) /\ Len(assembly) + Len(pages) <= Cardinality(Tasks)
    BY <1>1 DEF Inv, PagesInv
  <2> QED
    BY <1>0, <2>1, HowMany, Received
<1>5. \A x, y \in Entries(received, Tail(pages)) : x.task = y.task => x = y
  BY <1>4 DEF Inv, PagesInv
<1>6. RunsInv' /\ QueueInv' /\ KnownInv'
  BY <1>1 DEF Inv, RunsInv, QueueInv, KnownInv, engine
<1>7. CommandInv'
  BY <1>1 DEF Inv, CommandInv, CommandTyped, Running, engine
<1>8. CASE last
  <2>1. /\ assembly' = <<>> /\ view' = Shown(received) /\ pages' = <<>> /\ at' = "top"
    BY <1>1, <1>2, <1>3, <1>8
  <2>2. PICK S : S = {x \in Page : \E i \in DOMAIN received : received[i] = x}
    OBVIOUS
  <2>3. Entries(received, Tail(pages)) = S
    <3>1. PICK none : none = <<>> /\ DOMAIN none = {}
      OBVIOUS
    <3>2. Tail(pages) = none
      BY <1>2, <1>8, <3>1
    <3>3. Entries(received, none) = S
      BY <2>2, <3>1 DEF Entries
    <3> QED
      BY <3>2, <3>3
  <2>4. /\ Shown(received) \in [Tasks -> States \cup {Absent}]
        /\ \A t \in Tasks : \A s : Says(S, t, s) => Shown(received)[t] = s
    BY <1>4, <1>5, <2>2, <2>3, ShownIs
  <2>5. TasksInv'
    BY <1>1, <2>1, <2>4 DEF Inv, TasksInv, engine, history
  <2>6. PagesInv'
    <3> DEFINE none == <<>>
    <3>1. none \in Seq(Page) /\ Len(none) = 0 /\ DOMAIN none = {}
          /\ assembly' = none /\ pages' = none /\ none = <<>>
      BY <2>1
    <3> HIDE DEF none
    <3>2. Entries(none, none) = {}
      BY <3>1 DEF Entries
    <3> QED
      BY <2>1, <3>1, <3>2, HowMany DEF PagesInv
  <2>7. ASSUME NEW u \in Tasks PROVE Coming(u)'
    <3>1. Coming(u)
      BY DEF Inv, Truth
    <3>2. Owed(u) => Owed(u)'
      BY <1>1 DEF Owed, engine
    <3>3. Shows(u) => Shows(u)'
      BY <1>1, <1>4, <2>1, <2>3, <2>4 DEF Shows, Right, Unannounced, engine
    <3> QED
      BY <1>1, <3>1, <3>2, <3>3 DEF Coming, engine, history
  <2> QED
    BY <1>3, <1>6, <1>7, <2>5, <2>6, <2>7 DEF Inv, Truth
<1>9. CASE ~last
  <2>1. /\ assembly' = received /\ view' = view /\ pages' = Tail(pages) /\ at' = "pages"
    BY <1>1, <1>3, <1>9
  <2>2. TasksInv'
    BY <1>1, <2>1 DEF Inv, TasksInv, engine, history
  <2>3. PagesInv'
    BY <1>2, <1>4, <1>5, <1>9, <2>1 DEF PagesInv
  <2>4. ASSUME NEW u \in Tasks PROVE Coming(u)'
    <3>1. Coming(u)
      BY DEF Inv, Truth
    <3>2. Owed(u) => Owed(u)'
      BY <1>1 DEF Owed, engine
    <3>3. Shows(u) => Shows(u)'
      BY <1>1, <1>4, <2>1 DEF Shows, Right, Unannounced, engine
    <3> QED
      BY <1>1, <3>1, <3>2, <3>3 DEF Coming, engine, history
  <2> QED
    BY <1>3, <1>6, <1>7, <2>2, <2>3, <2>4 DEF Inv, Truth
<1> QED
  BY <1>8, <1>9

LEMMA ForwardKeeps ==
  ASSUME Inv, Forward
  PROVE  Inv'
<1>1. PICK e : e = Head(queue)
  OBVIOUS
<1>2. /\ at = "select" /\ at' = "top" /\ queue # <<>> /\ queue' = Tail(queue)
      /\ IF e.kind = "retry" THEN Filter(e) ELSE SendEvent(e)
      /\ UNCHANGED <<tasks, runs, overflowed, command, pages, history>>
  BY <1>1 DEF Forward
<1>3. queue \in Seq(Events) /\ Len(queue) <= Capacity /\ assembly = <<>>
      /\ command.owed = <<>> /\ ~command.spawn
  BY <1>2, AtSelect DEF Inv, QueueInv
<1>4. e \in Events /\ queue' \in Seq(Events) /\ Len(queue') = Len(queue) - 1
  BY <1>1, <1>2, <1>3, TailSays
<1>5. /\ e.kind \in {"task", "progress", "retry"} /\ e.task \in Tasks
      /\ e.kind = "task" => e.state \in States
  BY <1>4 DEF Events, TaskEvents, ReplaceableEvents
<1>6. /\ StepInv' /\ UNCHANGED assembly
      /\ view' = IF e.kind = "task" THEN [view EXCEPT ![e.task] = e.state] ELSE view
  <2>1. CASE e.kind = "retry"
    BY <1>2, <2>1 DEF Filter, Inv, StepInv, extension
  <2>2. CASE e.kind # "retry"
    <3>1. SendEvent(e)
      BY <1>2, <2>2
    <3> QED
      BY <1>3, <1>5, <2>2, <3>1, Accepted DEF Inv, ReceivePage, Show
  <2> QED
    BY <2>1, <2>2
<1>7. \A u \in Tasks : view'[u] = IF IsWord(e, u) THEN e.state ELSE view[u]
  BY <1>5, <1>6 DEF Inv, TasksInv, IsWord
<1>8. TasksInv'
  BY <1>2, <1>5, <1>6 DEF Inv, TasksInv, history
<1>9. QueueInv'
  <2>1. Len(queue) \in Nat /\ Capacity \in Nat
    BY <1>3, LenProperties, EventStreamBounds
  <2> QED
    BY <1>2, <1>3, <1>4, <2>1 DEF Inv, QueueInv
<1>10. RunsInv' /\ KnownInv'
  BY <1>2 DEF Inv, RunsInv, KnownInv
<1>11. CommandInv'
  BY <1>2, <1>3 DEF Inv, CommandInv, CommandTyped
<1>12. PagesInv'
  BY <1>2, <1>6, NoPages DEF Inv
<1>13. ASSUME NEW u \in Tasks PROVE Coming(u)'
  <2>1. Coming(u) /\ UNCHANGED tasks[u]
    BY <1>2 DEF Inv, Truth
  <2>2. Owed(u) => Owed(u)'
    BY <1>2 DEF Owed
  <2>3. PICK s : s = tasks[u]
    OBVIOUS
  <2>4. /\ NoWord(queue, u) => NoWord(queue', u) /\ ~IsWord(e, u)
        /\ LastWord(queue, u, s) => \/ LastWord(queue', u, s)
                                    \/ NoWord(queue', u) /\ IsWord(e, u) /\ e.state = s
    BY <1>1, <1>2, <1>3, TailSays
  <2>5. tasks'[u] = view'[u] \/ Unannounced(u, view[u])' => Shows(u)'
    BY <1>2 DEF Shows, Right
  <2>6. Shows(u) => tasks[u] = view[u] \/ Unannounced(u, view[u])
    BY <1>2 DEF Shows, Right
  <2>7. NoWord(queue, u) /\ Shows(u) => NoWord(queue', u) /\ Shows(u)'
    BY <1>7, <2>1, <2>4, <2>5, <2>6 DEF Unannounced
  <2>8. LastWord(queue, u, s) => LastWord(queue', u, s) \/ (NoWord(queue', u) /\ Shows(u)')
    BY <1>7, <2>1, <2>3, <2>4, <2>5
  <2> QED
    BY <1>2, <2>1, <2>2, <2>3, <2>7, <2>8 DEF Coming, history
<1> QED
  BY <1>6, <1>8, <1>9, <1>10, <1>11, <1>12, <1>13 DEF Inv, Truth

-----------------------------------------------------------------------------
(* The theorems *)

LEMMA InitInv == Init => Inv
<1> SUFFICES ASSUME Init PROVE Inv
  OBVIOUS
<1> DEFINE none == <<>>
           no == FALSE
<1>1. /\ runs = none /\ queue = none /\ pages = none /\ assembly = none /\ overflowed = no
      /\ command = [task |-> Absent, until |-> "none", owed |-> none, reply |-> Absent,
                    spawn |-> no]
      /\ at = "snapshot" /\ sequence = 0 /\ nextSequence = 0 /\ broken = FALSE
      /\ removed = {} /\ late = {}
      /\ view = [t \in Tasks |-> Absent]
      /\ \E recovered \in SUBSET Tasks :
           tasks = [t \in Tasks |-> IF t \in recovered THEN "paused" ELSE Absent]
  BY DEF Init, Idle, Awaiting
<1>2. /\ \A E : none \in Seq(E)
      /\ Len(none) = 0 /\ DOMAIN none = {} /\ no \in BOOLEAN /\ ~no /\ none = <<>>
  OBVIOUS
<1> HIDE DEF none, no
<1>3. TasksInv
  BY <1>1 DEF TasksInv, States
<1>4. RunsInv
  BY <1>1, <1>2, EventStreamBounds DEF RunsInv
<1>5. QueueInv
  BY <1>1, <1>2, EventStreamBounds DEF QueueInv
<1>6. /\ command.task = Absent /\ command.until = "none" /\ command.owed = none
      /\ command.reply = Absent /\ command.spawn = no
  BY <1>1
<1>7. CommandInv
  <2>1. CommandTyped
    BY <1>1, <1>2 DEF CommandTyped, Command
  <2>2. OwnWords(command.owed, command.task)
    BY <1>2, <1>6 DEF OwnWords
  <2> QED
    BY <1>1, <1>2, <1>6, <2>1, <2>2 DEF CommandInv
<1>8. KnownInv
  BY <1>1, <1>2, <1>6 DEF KnownInv
<1>9. PagesInv
  <2>1. Entries(assembly, pages) = {}
    BY <1>1, <1>2 DEF Entries
  <2> QED
    BY <1>1, <1>2, <2>1, HowMany DEF PagesInv
<1>10. StepInv
  BY <1>1, EventStreamBounds DEF StepInv
<1>11. Truth
  BY <1>1, <1>2 DEF Truth, Coming, NoWord, Shows, Right, Unannounced
<1> QED
  BY <1>3, <1>4, <1>5, <1>7, <1>8, <1>9, <1>10, <1>11 DEF Inv

LEMMA StutterKeeps ==
  ASSUME Inv, UNCHANGED vars
  PROVE  Inv'
<1>1. UNCHANGED <<tasks, runs, queue, overflowed, at, command, pages, sequence, view, assembly,
                  nextSequence, broken, removed, late>>
  BY DEF vars, engine, host, extension, history
<1>2. TasksInv' /\ RunsInv' /\ QueueInv' /\ KnownInv' /\ StepInv' /\ PagesInv'
  BY <1>1, PagesWait DEF Inv, TasksInv, RunsInv, QueueInv, KnownInv, StepInv
<1>3. CommandInv'
  BY <1>1 DEF Inv, CommandInv, CommandTyped, Running
<1>4. ASSUME NEW u \in Tasks PROVE Coming(u)'
  <2>1. Coming(u)
    BY DEF Inv, Truth
  <2> QED
    BY <1>1, <2>1, ShowsStays DEF Coming, Owed
<1> QED
  BY <1>2, <1>3, <1>4 DEF Inv, Truth

LEMMA NextInv == Inv /\ [Next]_vars => Inv'
<1> SUFFICES ASSUME Inv, [Next]_vars PROVE Inv'
  OBVIOUS
<1>1. ASSUME NEW r \in DOMAIN runs, RunStep(r) PROVE Inv'
  BY <1>1, RunStepsKeep
<1>2. ASSUME NEW t \in Tasks, Request(t) PROVE Inv'
  BY <1>2, AddKeeps, BeginsKeep, ResumeKeeps, RemoveKeeps, RequestStopKeeps DEF Request
<1>3. CASE HostStep
  BY <1>3, EndWaitKeeps, EmitCommandKeeps, SpawnKeeps, RespondKeeps, TopKeeps,
     TakeSnapshotKeeps, SendPageKeeps, ForwardKeeps DEF HostStep
<1>4. CASE UNCHANGED vars
  BY <1>4, StutterKeeps
<1> QED
  BY <1>1, <1>2, <1>3, <1>4 DEF Next

LEMMA InvAlways == Spec => []Inv
BY InitInv, NextInv, PTL DEF Spec

LEMMA InTypes == Inv => InStep
<1> SUFFICES ASSUME Inv PROVE InStep
  OBVIOUS
<1>1. TasksInv /\ RunsInv /\ QueueInv /\ CommandInv /\ PagesInv /\ StepInv
  BY DEF Inv
<1>2. \A r \in DOMAIN runs :
        /\ runs[r].task \in Tasks
        /\ runs[r].live \in BOOLEAN
        /\ runs[r].stop \in {"none", "pause", "cancel"}
        /\ \A i \in DOMAIN runs[r].owed : runs[r].owed[i] \in Events
  <2> SUFFICES ASSUME NEW r \in DOMAIN runs
               PROVE  /\ runs[r].task \in Tasks
                      /\ runs[r].live \in BOOLEAN
                      /\ runs[r].stop \in {"none", "pause", "cancel"}
                      /\ \A i \in DOMAIN runs[r].owed : runs[r].owed[i] \in Events
    OBVIOUS
  <2> DEFINE o == runs[r].owed
  <2>1. /\ runs[r].task \in Tasks /\ runs[r].live \in BOOLEAN
        /\ runs[r].stop \in {"none", "pause", "cancel"} /\ o \in Seq(TaskEvents)
    BY <1>1, Typed
  <2> HIDE DEF o
  <2>2. \A i \in DOMAIN o : o[i] \in Events
    BY <2>1, ElementOfSeq, LenProperties DEF Events
  <2> QED
    BY <2>1, <2>2 DEF o
<1>3. \A i \in DOMAIN queue : queue[i] \in Events
  BY <1>1, ElementOfSeq, LenProperties DEF QueueInv
<1>4. /\ command \in Command /\ at \in {"top", "select", "emit", "wait", "snapshot", "pages"}
  BY <1>1 DEF CommandInv, CommandTyped
<1>5. \A i \in DOMAIN command.owed : command.owed[i] \in TaskEvents
  <2> DEFINE o == command.owed
  <2>1. o \in Seq(TaskEvents)
    BY <1>4 DEF Command
  <2> HIDE DEF o
  <2>2. \A i \in DOMAIN o : o[i] \in TaskEvents
    BY <2>1, ElementOfSeq, LenProperties
  <2> QED
    BY <2>2 DEF o
<1>6. Len(pages) <= Max({1, Cardinality(Tasks)}) /\ Len(assembly) <= Cardinality(Tasks)
  <2> DEFINE n == Cardinality(Tasks)
  <2>1. n \in Nat /\ Len(assembly) \in Nat /\ Len(pages) \in Nat
        /\ \/ Len(pages) = 1 /\ Len(assembly) = 0
           \/ Len(assembly) + Len(pages) <= n
    BY <1>1, HowMany, LenProperties DEF PagesInv
  <2> HIDE DEF n
  <2>2. \E x \in {1, n} : \A y \in {1, n} : x >= y
    BY <2>1
  <2>3. Max({1, n}) \in {1, n} /\ \A y \in {1, n} : Max({1, n}) >= y
    BY <2>2 DEF Max
  <2>4. Max({1, n}) \in Nat /\ Max({1, n}) >= 1 /\ Max({1, n}) >= n
    BY <2>1, <2>3
  <2>5. Len(pages) <= Max({1, n}) /\ Len(assembly) <= n
    <3> DEFINE m == Max({1, n})
               p == Len(pages)
               a == Len(assembly)
    <3>1. m \in Nat /\ m >= 1 /\ m >= n /\ n \in Nat /\ a \in Nat /\ p \in Nat
          /\ \/ p = 1 /\ a = 0
             \/ a + p <= n
      BY <2>1, <2>4
    <3> HIDE DEF m, p, a
    <3>2. p <= m /\ a <= n
      BY <3>1
    <3> QED
      BY <3>2 DEF m, p, a
  <2> QED
    BY <2>5 DEF n
<1>7. broken \in BOOLEAN
  BY <1>1 DEF StepInv
<1>8. TypeOK
  BY <1>1, <1>2, <1>3, <1>4, <1>5, <1>6, <1>7
     DEF TypeOK, TasksInv, RunsInv, QueueInv, StepInv, Command
<1> QED
  BY <1>1, <1>8 DEF InStep, StepInv

\* The buffer never exceeds its capacity, and the extension never meets a gap in the
\* sequence or an event between two pages (#receiveEvent, EventBuffer::emit): InStep, for
\* every set of tasks, capacity, number of runs and modulus.
THEOREM AlwaysInStep == Spec => []InStep
BY InvAlways, InTypes, PTL

\* What was coalesced, dropped, overtaken by a response or lost in an overflow is made good:
\* once nothing is owed, queued or lost, the table of the extension shows what the engine
\* knows.  The exceptions are a task whose last word came from a run that had already ended,
\* and one that was added, could not be started, and stays queued without being shown.
THEOREM AlwaysConverges == Spec => []Converges
<1>1. Inv => Converges
  <2> SUFFICES ASSUME Inv, Quiet, NEW t \in Tasks \ late PROVE Right(t, view[t])
    BY DEF Converges, Right
  <2>1. Coming(t) /\ command.owed = <<>>
    BY DEF Inv, Truth, Quiet, CommandInv
  <2>2. ~Owed(t) /\ ~overflowed
    BY <2>1 DEF Owed, Quiet
  <2>3. ~LastWord(queue, t, tasks[t])
    <3>1. PICK none : none = <<>> /\ DOMAIN none = {}
      OBVIOUS
    <3>2. queue = none
      BY <3>1 DEF Quiet
    <3> QED
      BY <3>1, <3>2 DEF LastWord
  <2> QED
    BY <2>1, <2>2, <2>3 DEF Coming, Shows, Right, Unannounced, Quiet
<1> QED
  BY <1>1, InvAlways, PTL

\* Whatever the host waits for (wait_until) is over or has its end in sight: a live run of
\* that task which was told to stop, or which has yet to resume.
THEOREM WaitAlwaysEnds == Spec => []WaitHasEnd
<1>1. Inv => WaitHasEnd
  <2> SUFFICES ASSUME Inv, at = "wait", ~Ended(command.task)
               PROVE  \E r \in DOMAIN runs :
                        /\ runs[r].task = command.task
                        /\ runs[r].live
                        /\ IF command.until = "resumed" THEN tasks[command.task] = "paused"
                                                        ELSE runs[r].stop = command.until
    BY DEF WaitHasEnd
  <2>1. PICK r \in DOMAIN runs : runs[r].task = command.task /\ runs[r].live
    BY DEF Ended, Running
  <2>2. command.until = "resumed" => tasks[command.task] = "paused"
    BY DEF Ended
  <2>3. command.until # "resumed" => runs[r].stop = command.until
    BY <2>1 DEF Inv, CommandInv
  <2> QED
    BY <2>1, <2>2, <2>3
<1> QED
  BY <1>1, InvAlways, PTL
=============================================================================
