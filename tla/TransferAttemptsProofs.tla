----------------------- MODULE TransferAttemptsProofs -----------------------
(***************************************************************************)
(* Proofs about TransferAttempts: that its four invariants hold for every  *)
(* size of the file, every limit and any number of workers, attempts and   *)
(* runs.  The first sections are lemmas about numbers, lists and folds,    *)
(* then about the operators of ByteRanges and RateEstimate; each invariant *)
(* follows with the inductive invariant that it needs.                     *)
(***************************************************************************)
EXTENDS TransferAttempts, FiniteSetTheorems, SequenceTheorems, WellFoundedInduction, TLAPS

-----------------------------------------------------------------------------
(* Numbers, sets and sequences *)

LEMMA LeastOf ==
  ASSUME NEW S, S \subseteq Nat, S # {}
  PROVE  Min(S) \in S /\ \A x \in S : Min(S) <= x
<1> DEFINE R == StrictSubsetOrdering(Nat)
           T == {1 .. n : n \in S}
<1>1. T \subseteq FiniteSubsetsOf(Nat) /\ T # {}
  <2>1. \A n \in S : IsFiniteSet(1 .. n) /\ 1 .. n \subseteq Nat
    BY FS_Interval
  <2> QED
    BY <2>1 DEF FiniteSubsetsOf
<1>2. IsWellFoundedOn(R, FiniteSubsetsOf(Nat))
  BY FS_StrictSubsetOrderingWellFounded
<1> HIDE DEF R
<1>3. PICK s \in T : \A r \in T : ~(<<r, s>> \in R)
  BY <1>1, <1>2, WFMin
<1>4. PICK n \in S : s = 1 .. n
  BY <1>3
<1>5. ASSUME NEW y \in S, y < n PROVE FALSE
  <2>1. 1 .. y \in T
    BY <1>5
  <2>2. 1 .. y \subseteq 1 .. n /\ 1 .. y # 1 .. n
    <3>1. y \in Nat /\ n \in Nat /\ n \in 1 .. n /\ n \notin 1 .. y
      BY <1>5
    <3> QED
      BY <1>5, <3>1
  <2>3. 1 .. y \subseteq Nat /\ 1 .. n \subseteq Nat
    OBVIOUS
  <2>4. <<1 .. y, 1 .. n>> \in R
    BY <2>2, <2>3 DEF R, StrictSubsetOrdering
  <2> QED
    BY <1>3, <1>4, <2>1, <2>4
<1>6. \A y \in S : n <= y
  BY <1>5
<1> QED
  BY <1>4, <1>6 DEF Min

\* Induction: what holds at m and from one number to the next holds from m to n.
LEMMA Climbs ==
  ASSUME NEW m \in Nat, NEW n \in Nat, NEW S, m \in S,
         \A k \in m .. n : k < n /\ k \in S => k + 1 \in S
  PROVE  m .. n \subseteq S
<1> DEFINE Bad == {k \in m .. n : k \notin S}
<1>1. SUFFICES ASSUME Bad # {} PROVE FALSE
  OBVIOUS
<1>2. Bad \subseteq Nat
  OBVIOUS
<1>3. Min(Bad) \in Bad /\ \A x \in Bad : Min(Bad) <= x
  BY <1>1, <1>2, LeastOf
<1> DEFINE k == Min(Bad)
<1>4. k \in m .. n /\ k \notin S /\ k # m
  BY <1>3
<1> HIDE DEF k
<1>5. k - 1 \in m .. n /\ k - 1 < n /\ k - 1 + 1 = k
  BY <1>4
<1>6. k - 1 \in S
  <2>1. k - 1 \in Bad => k <= k - 1
    BY <1>3 DEF k
  <2> QED
    BY <1>4, <1>5, <2>1
<1> QED
  BY <1>4, <1>5, <1>6

LEMMA LeastOfTwo ==
  ASSUME NEW a \in Int, NEW b \in Int
  PROVE  Min({a, b}) = IF a <= b THEN a ELSE b
<1>1. \E x \in {a, b} : \A y \in {a, b} : x <= y
  OBVIOUS
<1>2. Min({a, b}) \in {a, b} /\ \A y \in {a, b} : Min({a, b}) <= y
  BY <1>1 DEF Min
<1> QED
  BY <1>2

LEMMA GreatestOfTwo ==
  ASSUME NEW a \in Int, NEW b \in Int
  PROVE  Max({a, b}) = IF a <= b THEN b ELSE a
<1>1. \E x \in {a, b} : \A y \in {a, b} : x >= y
  OBVIOUS
<1>2. Max({a, b}) \in {a, b} /\ \A y \in {a, b} : Max({a, b}) >= y
  BY <1>1 DEF Max
<1> QED
  BY <1>2

LEMMA DivIs ==
  ASSUME NEW a \in Nat, NEW b \in Nat \ {0}
  PROVE  /\ a \div b \in Nat /\ (a \div b) * b <= a /\ a < (a \div b) * b + b
         /\ a % b \in 0 .. b - 1 /\ a = b * (a \div b) + (a % b)
<1>1. a \div b \in Nat /\ a % b \in 0 .. b - 1
  OBVIOUS
<1>2. (a \div b) * b <= a
  OBVIOUS
<1>3. a < (a \div b) * b + b
  OBVIOUS
<1>4. a \in Int /\ b \in Int /\ b > 0
  OBVIOUS
<1>5. a = b * (a \div b) + (a % b)
  BY <1>4
<1> QED
  BY <1>1, <1>2, <1>3, <1>5, Zenon

LEMMA DivBound ==
  ASSUME NEW a \in Nat, NEW b \in Nat \ {0}, NEW c \in Nat
  PROVE  /\ a \div b <= c <=> a < (c + 1) * b
         /\ c <= a \div b <=> c * b <= a
<1> DEFINE q == a \div b
<1>1. q \in Nat /\ q * b <= a /\ a < q * b + b
  BY DivIs
<1> HIDE DEF q
<1>2. ASSUME q <= c PROVE a < (c + 1) * b
  <2>1. q * b <= c * b
    BY <1>1, <1>2
  <2> QED
    BY <1>1, <2>1
<1>3. ASSUME a < (c + 1) * b PROVE q <= c
  <2>1. q * b < (c + 1) * b
    BY <1>1, <1>3
  <2>2. q < c + 1
    BY <1>1, <2>1
  <2> QED
    BY <1>1, <2>2
<1>4. ASSUME c <= q PROVE c * b <= a
  <2>1. c * b <= q * b
    BY <1>1, <1>4
  <2> QED
    BY <1>1, <2>1
<1>5. ASSUME c * b <= a PROVE c <= q
  <2>1. c * b < (q + 1) * b
    BY <1>1, <1>5
  <2>2. c < q + 1
    BY <1>1, <2>1
  <2> QED
    BY <1>1, <2>2
<1> QED
  BY <1>2, <1>3, <1>4, <1>5 DEF q

\* A set of numbers with an upper bound has a greatest element.
LEMMA GreatestUpTo ==
  ASSUME NEW n \in Nat, NEW S, S \subseteq 0 .. n, S # {}
  PROVE  Max(S) \in S /\ \A x \in S : x <= Max(S)
<1> DEFINE T == {n - x : x \in S}
<1>1. T \subseteq Nat /\ T # {}
  <2>1. \A x \in S : n - x \in Nat
    OBVIOUS
  <2> QED
    BY <2>1
<1>2. Min(T) \in T /\ \A y \in T : Min(T) <= y
  BY <1>1, LeastOf
<1>3. PICK x \in S : Min(T) = n - x
  BY <1>2
<1>4. \A y \in S : x >= y
  <2>1. \A y \in S : n - x <= n - y
    BY <1>2, <1>3
  <2> QED
    BY <2>1
<1>5. Max(S) \in S /\ \A y \in S : Max(S) >= y
  BY <1>3, <1>4 DEF Max
<1> QED
  BY <1>5

LEMMA GreatestOf ==
  ASSUME NEW S, IsFiniteSet(S), S \subseteq Int, S # {}
  PROVE  /\ Max(S) \in S /\ \A x \in S : x <= Max(S)
         /\ Min(S) \in S /\ \A x \in S : Min(S) <= x
<1> DEFINE below(x) == {y \in S : y < x}
           above(x) == {y \in S : y > x}
           B == {Cardinality(below(x)) : x \in S}
           A == {Cardinality(above(x)) : x \in S}
<1>1. ASSUME NEW x \in S
      PROVE  /\ Cardinality(below(x)) \in Nat /\ Cardinality(above(x)) \in Nat
             /\ IsFiniteSet(below(x)) /\ IsFiniteSet(above(x))
  BY FS_Subset, FS_CardinalityType
<1>2. B \subseteq Nat /\ A \subseteq Nat /\ B # {} /\ A # {}
  BY <1>1
<1>3. /\ Min(A) \in A /\ \A c \in A : Min(A) <= c
      /\ Min(B) \in B /\ \A c \in B : Min(B) <= c
  BY <1>2, LeastOf
<1>4. PICK x \in S : Min(A) = Cardinality(above(x))
  BY <1>3
<1>5. PICK z \in S : Min(B) = Cardinality(below(z))
  BY <1>3
<1>6. ASSUME NEW y \in S, y > x PROVE FALSE
  <2>1. /\ y \in Int /\ x \in Int /\ ~(y > y)
        /\ \A v \in S : v \in Int /\ (v > y => v > x)
    BY <1>6
  <2>2. above(y) \subseteq above(x) /\ y \in above(x) /\ y \notin above(y)
    BY <1>6, <2>1
  <2> DEFINE few == above(y)
             many == above(x)
  <2>3. few \subseteq many /\ few # many /\ IsFiniteSet(many)
    BY <1>1, <2>2
  <2>4. /\ Cardinality(few) \in Nat /\ Cardinality(many) \in Nat
        /\ Cardinality(many) <= Cardinality(few)
    <3>1. Cardinality(few) \in Nat /\ Cardinality(many) \in Nat
      BY <1>1
    <3>2. Cardinality(few) \in A
      OBVIOUS
    <3> QED
      BY <1>3, <1>4, <3>1, <3>2
  <2> HIDE DEF few, many
  <2>5. Cardinality(few) <= Cardinality(many) /\ Cardinality(few) # Cardinality(many)
    BY <2>3, FS_Subset
  <2> QED
    BY <2>4, <2>5
<1>7. ASSUME NEW y \in S, y < z PROVE FALSE
  <2>1. /\ y \in Int /\ z \in Int /\ ~(y < y)
        /\ \A v \in S : v \in Int /\ (v < y => v < z)
    BY <1>7
  <2>2. below(y) \subseteq below(z) /\ y \in below(z) /\ y \notin below(y)
    BY <1>7, <2>1
  <2> DEFINE few == below(y)
             many == below(z)
  <2>3. few \subseteq many /\ few # many /\ IsFiniteSet(many)
    BY <1>1, <2>2
  <2>4. /\ Cardinality(few) \in Nat /\ Cardinality(many) \in Nat
        /\ Cardinality(many) <= Cardinality(few)
    <3>1. Cardinality(few) \in Nat /\ Cardinality(many) \in Nat
      BY <1>1
    <3>2. Cardinality(few) \in B
      OBVIOUS
    <3> QED
      BY <1>3, <1>5, <3>1, <3>2
  <2> HIDE DEF few, many
  <2>5. Cardinality(few) <= Cardinality(many) /\ Cardinality(few) # Cardinality(many)
    BY <2>3, FS_Subset
  <2> QED
    BY <2>4, <2>5
<1>8. (\A y \in S : x >= y) /\ (\A y \in S : z <= y)
  <2>1. \A y \in S : y \in Int /\ ~(y > x) /\ ~(y < z)
    BY <1>6, <1>7
  <2> QED
    BY <2>1
<1>9. Max(S) \in S /\ \A y \in S : Max(S) >= y
  BY <1>8 DEF Max
<1>10. Min(S) \in S /\ \A y \in S : Min(S) <= y
  BY <1>8 DEF Min
<1> QED
  BY <1>9, <1>10

LEMMA UpTo ==
  ASSUME NEW n \in Nat
  PROVE  IsFiniteSet(1 .. n) /\ Cardinality(1 .. n) = n
<1>1. 1 \in Int /\ n \in Int
  OBVIOUS
<1>2. Cardinality(1 .. n) = IF 1 > n THEN 0 ELSE n - 1 + 1
  BY <1>1, FS_Interval
<1> QED
  BY <1>1, <1>2, FS_Interval

LEMMA AsSequence ==
  ASSUME NEW n \in Nat, NEW E, NEW g, g \in [1 .. n -> E]
  PROVE  g \in Seq(E) /\ Len(g) = n
<1>1. g \in Seq(E)
  BY SeqDef
<1>2. DOMAIN g = 1 .. Len(g) /\ Len(g) \in Nat /\ DOMAIN g = 1 .. n
  BY <1>1, LenProperties
<1>3. Len(g) = n
  <2>1. Len(g) = 0 \/ Len(g) \in 1 .. n
    BY <1>2
  <2>2. n = 0 \/ n \in 1 .. Len(g)
    BY <1>2
  <2> QED
    BY <1>2, <2>1, <2>2
<1> QED
  BY <1>1, <1>3

-----------------------------------------------------------------------------
(* Lists in order *)

Earlier(S, r) == {s \in S : s.start < r.start}

LEMMA EarlierGrows ==
  ASSUME NEW S, IsFiniteSet(S), \A s \in S : s.start \in Nat, NEW r \in S, NEW t \in S
  PROVE  /\ Cardinality(Earlier(S, r)) \in 0 .. Cardinality(S) - 1
         /\ r.start < t.start => Cardinality(Earlier(S, r)) < Cardinality(Earlier(S, t))
<1> DEFINE A == Earlier(S, r)
           B == Earlier(S, t)
           C == S \ {r}
<1>1. r \notin A /\ A \subseteq C /\ B \subseteq S /\ A \subseteq S
  BY DEF Earlier
<1>2. ASSUME r.start < t.start
      PROVE  A \subseteq B /\ r \in B
  BY <1>2 DEF Earlier
<1> HIDE DEF A, B
<1>3. IsFiniteSet(C) /\ Cardinality(C) = Cardinality(S) - 1 /\ Cardinality(S) \in Nat
  BY FS_RemoveElement, FS_CardinalityType
<1> HIDE DEF C
<1>4. IsFiniteSet(A) /\ IsFiniteSet(B) /\ Cardinality(A) <= Cardinality(C)
  BY <1>1, <1>3, FS_Subset
<1>5. Cardinality(A) \in Nat /\ Cardinality(B) \in Nat
  BY <1>4, FS_CardinalityType
<1>6. ASSUME r.start < t.start
      PROVE  Cardinality(A) < Cardinality(B)
  <2>1. A \subseteq B /\ A # B
    BY <1>1, <1>2, <1>6
  <2>2. Cardinality(A) <= Cardinality(B) /\ Cardinality(A) # Cardinality(B)
    BY <1>4, <2>1, FS_Subset
  <2> QED
    BY <1>5, <2>2
<1>7. Cardinality(A) \in 0 .. Cardinality(S) - 1
  BY <1>3, <1>4, <1>5
<1> QED
  BY <1>6, <1>7 DEF A, B

\* The list of a set of ranges that begin at different bytes has each of them once, in the
\* order of their starts.
LEMMA InOrderSorts ==
  ASSUME NEW S, IsFiniteSet(S), \A s \in S : s.start \in Nat,
         \A r, s \in S : r.start = s.start => r = s
  PROVE  /\ InOrder(S) \in Seq(S) /\ Len(InOrder(S)) = Cardinality(S)
         /\ Cardinality(S) \in Nat /\ DOMAIN InOrder(S) = 1 .. Cardinality(S)
         /\ \A i, j \in 1 .. Cardinality(S) :
              i < j => InOrder(S)[i].start < InOrder(S)[j].start
         /\ \A r \in S : \E k \in 1 .. Cardinality(S) : InOrder(S)[k] = r
<1> DEFINE n == Cardinality(S)
           place == [r \in S |-> Cardinality(Earlier(S, r)) + 1]
           At(k) == CHOOSE r \in S : Cardinality({s \in S : s.start < r.start}) = k - 1
           list == [k \in 1 .. n |-> At(k)]
<1>1. n \in Nat /\ IsFiniteSet(1 .. n) /\ Cardinality(1 .. n) = n
  BY FS_CardinalityType, UpTo
<1>2. \A r \in S : place[r] \in 1 .. n /\ place[r] = Cardinality(Earlier(S, r)) + 1
  BY <1>1, EarlierGrows
<1>3. ASSUME NEW r \in S, NEW t \in S
      PROVE  /\ r.start < t.start => place[r] < place[t]
             /\ place[r] = place[t] => r = t
             /\ place[r] < place[t] => r.start < t.start
  <2>1. /\ r.start < t.start => place[r] < place[t]
        /\ t.start < r.start => place[t] < place[r]
    BY <1>1, <1>2, EarlierGrows
  <2>2. /\ r.start < t.start \/ t.start < r.start \/ r.start = t.start
        /\ place[r] \in Nat /\ place[t] \in Nat
        /\ r.start = t.start => r = t
    BY <1>1, <1>2
  <2> HIDE DEF place
  <2> QED
    BY <2>1, <2>2
<1>4. place \in Injection(S, 1 .. n)
  BY <1>2, <1>3 DEF Injection, IsInjective
<1>5. place \in Surjection(S, 1 .. n)
  BY <1>1, <1>4, FS_Injection
<1> HIDE DEF place
<1>6. ASSUME NEW k \in 1 .. n
      PROVE  At(k) \in S /\ place[At(k)] = k
  <2>1. PICK r \in S : place[r] = k
    BY <1>5 DEF Surjection
  <2>2. Cardinality({s \in S : s.start < r.start}) = k - 1
    <3>1. Cardinality(Earlier(S, r)) \in Nat
      BY <1>1, EarlierGrows
    <3>2. Cardinality(Earlier(S, r)) = k - 1
      BY <1>2, <2>1, <3>1
    <3> QED
      BY <3>2 DEF Earlier
  <2>3. At(k) \in S /\ Cardinality({s \in S : s.start < At(k).start}) = k - 1
    BY <2>2
  <2> HIDE DEF At
  <2>4. Cardinality(Earlier(S, At(k))) = k - 1
    BY <2>3 DEF Earlier
  <2> QED
    BY <1>1, <1>2, <2>3, <2>4
<1>7. /\ list \in [1 .. n -> S] /\ DOMAIN list = 1 .. n
      /\ \A k \in 1 .. n : list[k] \in S /\ place[list[k]] = k
  <2> HIDE DEF At, n
  <2> QED
    BY <1>6
<1>8. InOrder(S) = list
  BY DEF InOrder
<1> HIDE DEF list, At
<1>9. list \in Seq(S) /\ Len(list) = n
  BY <1>1, <1>7, AsSequence
<1>10. \A r \in S : \E k \in 1 .. n : list[k] = r
  BY <1>2, <1>3, <1>7
<1>11. \A i, j \in 1 .. n : i < j => list[i].start < list[j].start
  BY <1>3, <1>7
<1> QED
  BY <1>1, <1>7, <1>8, <1>9, <1>10, <1>11

-----------------------------------------------------------------------------
(* Folds *)

\* it is the fold over the first n indices, the last one of a set first.
Folded(it, V, base, n, step) ==
  /\ it \in [SUBSET (1 .. n) -> V]
  /\ \A s \in SUBSET (1 .. n) :
       it[s] = IF s = {} THEN base ELSE step[<<it[s \ {Max(s)}], Max(s)>>]

\* Any step function has its fold over the first n indices.
LEMMA FoldExists ==
  ASSUME NEW V, NEW base \in V, NEW n \in Nat, NEW step, step \in [V \X (1 .. n) -> V]
  PROVE  \E it : Folded(it, V, base, n, step)
<1> DEFINE Folds(m, it) ==
             /\ it \in [SUBSET (1 .. m) -> V]
             /\ \A s \in SUBSET (1 .. m) :
                  it[s] = IF s = {} THEN base ELSE step[<<it[s \ {Max(s)}], Max(s)>>]
           Good == {m \in 0 .. n : \E it : Folds(m, it)}
<1>1. 0 \in Good
  <2> DEFINE it == [s \in SUBSET (1 .. 0) |-> base]
  <2>1. \A s \in SUBSET (1 .. 0) : s = {}
    OBVIOUS
  <2>2. Folds(0, it)
    BY <2>1
  <2> HIDE DEF it, Folds
  <2> QED
    BY <2>2
<1>2. ASSUME NEW m \in 0 .. n, m < n, m \in Good
      PROVE  m + 1 \in Good
  <2>1. PICK f : Folds(m, f)
    BY <1>2
  <2> DEFINE it == [s \in SUBSET (1 .. m + 1) |->
                      IF m + 1 \in s THEN step[<<f[s \ {m + 1}], m + 1>>] ELSE f[s]]
  <2>2. m \in Nat /\ m + 1 \in 1 .. n /\ 1 .. m + 1 = (1 .. m) \cup {m + 1} /\ m + 1 \notin 1 .. m
    BY <1>2
  <2>3. ASSUME NEW s \in SUBSET (1 .. m + 1)
        PROVE  /\ it[s] \in V
               /\ it[s] = IF s = {} THEN base ELSE step[<<it[s \ {Max(s)}], Max(s)>>]
    <3>1. CASE m + 1 \in s
      <4>1. s \ {m + 1} \in SUBSET (1 .. m)
        BY <2>2
      <4>2. f[s \ {m + 1}] \in V
        BY <2>1, <4>1
      <4>3. it[s] = step[<<f[s \ {m + 1}], m + 1>>] /\ it[s \ {m + 1}] = f[s \ {m + 1}]
        BY <3>1, <4>1, <2>2
      <4>4. Max(s) = m + 1
        <5>1. s \subseteq 0 .. m + 1 /\ s # {} /\ m + 1 \in Nat
          BY <2>2, <3>1
        <5>2. Max(s) \in s /\ m + 1 <= Max(s)
          BY <3>1, <5>1, GreatestUpTo
        <5>3. Max(s) \in 0 .. m + 1
          BY <5>1, <5>2
        <5> QED
          BY <5>1, <5>2, <5>3
      <4>5. step[<<f[s \ {m + 1}], m + 1>>] \in V
        BY <2>2, <4>2
      <4> HIDE DEF it
      <4> QED
        BY <3>1, <4>3, <4>4, <4>5
    <3>2. CASE m + 1 \notin s
      <4>1. s \in SUBSET (1 .. m)
        BY <2>2, <3>2
      <4>2. it[s] = f[s] /\ f[s] \in V
        BY <2>1, <3>2, <4>1
      <4>3. ASSUME s # {} PROVE it[s \ {Max(s)}] = f[s \ {Max(s)}]
        <5>1. s \ {Max(s)} \in SUBSET (1 .. m + 1) /\ m + 1 \notin s \ {Max(s)}
          BY <3>2
        <5> QED
          BY <5>1
      <4>4. f[s] = IF s = {} THEN base ELSE step[<<f[s \ {Max(s)}], Max(s)>>]
        BY <2>1, <4>1
      <4> HIDE DEF it
      <4> QED
        BY <4>2, <4>3, <4>4
    <3> QED
      BY <3>1, <3>2
  <2>4. it \in [SUBSET (1 .. m + 1) -> V]
    BY <2>3
  <2>5. Folds(m + 1, it)
    <3> HIDE DEF it
    <3> QED
      BY <2>3, <2>4
  <2> HIDE DEF it, Folds
  <2> QED
    BY <1>2, <2>2, <2>5
<1> HIDE DEF Good, Folds
<1>3. 0 .. n \subseteq Good
  BY <1>1, <1>2, Climbs
<1>4. PICK it : Folds(n, it)
  BY <1>3 DEF Good
<1>5. Folded(it, V, base, n, step)
  BY <1>4 DEF Folds, Folded
<1> QED
  BY <1>5

LEMMA Firsts ==
  ASSUME NEW n \in Nat, NEW k \in 1 .. n
  PROVE  /\ 1 .. k \in SUBSET (1 .. n) /\ 1 .. k # {}
         /\ Max(1 .. k) = k /\ (1 .. k) \ {k} = 1 .. k - 1
<1>1. 1 .. k \in SUBSET (1 .. n) /\ 1 .. k # {} /\ (1 .. k) \ {k} = 1 .. k - 1
  OBVIOUS
<1>2. 1 .. k \subseteq 0 .. k /\ k \in 1 .. k
  OBVIOUS
<1> DEFINE S == 1 .. k
<1>3. S \subseteq 0 .. k /\ S # {} /\ k \in Nat /\ k \in S
  BY <1>1, <1>2
<1> HIDE DEF S
<1>4. Max(S) \in S /\ k <= Max(S)
  BY <1>3, GreatestUpTo
<1>5. Max(S) = k
  BY <1>4 DEF S
<1> QED
  BY <1>1, <1>5 DEF S

\* A range of the file
Span == {r \in [start : Nat, end : Nat] : r.start < r.end /\ r.end <= Total}

LEMMA SpanIs ==
  ASSUME NEW r \in Span
  PROVE  /\ r.start \in Nat /\ r.end \in Nat /\ r.start < r.end /\ r.end <= Total
         /\ r = [start |-> r.start, end |-> r.end] /\ Total \in Nat
BY AttemptBounds DEF Span

LEMMA SpanMade ==
  ASSUME NEW a \in Nat, NEW b \in Nat, a < b, b <= Total
  PROVE  [start |-> a, end |-> b] \in Span
BY DEF Span

LEMMA ListIs ==
  ASSUME NEW list, list \in Seq(Span)
  PROVE  /\ Len(list) \in Nat /\ DOMAIN list = 1 .. Len(list)
         /\ list \in [1 .. Len(list) -> Span]
         /\ \A k \in 1 .. Len(list) : list[k] \in Span
BY LenProperties, ElementOfSeq

\* SizeOf adds up the lengths, one after the other.
LEMMA SizeOfAdds ==
  ASSUME NEW list, list \in Seq(Span)
  PROVE  \E sum : /\ sum[0] = 0 /\ sum[Len(list)] = SizeOf(list)
                  /\ \A k \in 0 .. Len(list) : sum[k] \in Nat
                  /\ \A k \in 1 .. Len(list) :
                       sum[k] = sum[k - 1] + (list[k].end - list[k].start)
<1> DEFINE n == Len(list)
           step == [x \in Nat \X (1 .. n) |-> x[1] + list[x[2]].end - list[x[2]].start]
           it == CHOOSE it : it = [s \in SUBSET DOMAIN list |->
                                     IF s = {} THEN 0
                                     ELSE it[s \ {Max(s)}] + list[Max(s)].end - list[Max(s)].start]
           sum == [k \in 0 .. n |-> it[1 .. k]]
<1>1. /\ n \in Nat /\ DOMAIN list = 1 .. n
      /\ \A k \in 1 .. n : /\ list[k].start \in Nat /\ list[k].end \in Nat
                           /\ list[k].start < list[k].end
  BY ListIs, SpanIs
<1>2. SizeOf(list) = it[1 .. n]
  BY <1>1 DEF SizeOf, FoldLeft, MapThenFoldSet
<1> HIDE DEF n
<1>3. step \in [Nat \X (1 .. n) -> Nat]
  BY <1>1
<1>4. PICK f : Folded(f, Nat, 0, n, step)
  <2> HIDE DEF step
  <2>1. n \in Nat /\ 0 \in Nat
    BY <1>1
  <2> QED
    BY <1>3, <2>1, FoldExists
<1>5. ASSUME NEW s \in SUBSET (1 .. n), s # {}
      PROVE  step[<<f[s \ {Max(s)}], Max(s)>>]
               = f[s \ {Max(s)}] + list[Max(s)].end - list[Max(s)].start
  <2>1. f[s \ {Max(s)}] \in Nat
    BY <1>4 DEF Folded
  <2>2. Max(s) \in 1 .. n
    <3>1. s \subseteq 0 .. n
      OBVIOUS
    <3>2. Max(s) \in s
      BY <1>1, <1>5, <3>1, GreatestUpTo
    <3> QED
      BY <3>2
  <2> QED
    BY <2>1, <2>2
<1> HIDE DEF step
<1>6. f = [s \in SUBSET DOMAIN list |->
             IF s = {} THEN 0 ELSE f[s \ {Max(s)}] + list[Max(s)].end - list[Max(s)].start]
  BY <1>1, <1>4, <1>5 DEF Folded
<1>7. it = [s \in SUBSET DOMAIN list |->
              IF s = {} THEN 0 ELSE it[s \ {Max(s)}] + list[Max(s)].end - list[Max(s)].start]
  BY <1>6
<1> HIDE DEF it
<1>8. it[1 .. 0] = 0
  <2>1. 1 .. 0 = {} /\ 1 .. 0 \in SUBSET DOMAIN list
    OBVIOUS
  <2> QED
    BY <1>7, <2>1
<1>9. ASSUME NEW k \in 1 .. n
      PROVE  it[1 .. k] = it[1 .. k - 1] + list[k].end - list[k].start
  <2> DEFINE S == 1 .. k
  <2>1. S \in SUBSET DOMAIN list /\ S # {} /\ Max(S) = k /\ S \ {k} = 1 .. k - 1
    BY <1>1, Firsts
  <2> HIDE DEF S
  <2>2. it[S] = it[S \ {Max(S)}] + list[Max(S)].end - list[Max(S)].start
    BY <1>7, <2>1
  <2> QED
    BY <2>1, <2>2 DEF S
<1>10. \A k \in 0 .. n : sum[k] = it[1 .. k]
  OBVIOUS
<1> HIDE DEF sum
<1>11. 0 .. n \subseteq {k \in 0 .. n : it[1 .. k] \in Nat}
  <2> DEFINE S == {k \in 0 .. n : it[1 .. k] \in Nat}
  <2>1. 0 \in S
    BY <1>1, <1>8
  <2>2. ASSUME NEW k \in 0 .. n, k < n, k \in S PROVE k + 1 \in S
    <3>1. k + 1 \in 1 .. n /\ k + 1 - 1 = k
      BY <1>1, <2>2
    <3>2. it[1 .. k + 1] = it[1 .. k] + list[k + 1].end - list[k + 1].start
      BY <1>9, <3>1
    <3> QED
      BY <1>1, <2>2, <3>1, <3>2
  <2> HIDE DEF S
  <2>3. 0 .. n \subseteq S
    BY <1>1, <2>1, <2>2, Climbs
  <2> QED
    BY <2>3 DEF S
<1>12. /\ sum[0] = 0 /\ sum[n] = SizeOf(list)
       /\ \A k \in 0 .. n : sum[k] \in Nat
  BY <1>1, <1>2, <1>8, <1>10, <1>11
<1>13. ASSUME NEW k \in 1 .. n
       PROVE  sum[k] = sum[k - 1] + (list[k].end - list[k].start)
  <2>1. sum[k] = it[1 .. k] /\ sum[k - 1] = it[1 .. k - 1] /\ it[1 .. k - 1] \in Nat
    BY <1>1, <1>10, <1>11
  <2> QED
    BY <1>1, <1>9, <2>1
<1> QED
  BY <1>12, <1>13 DEF n
LEMMA CeilingIs ==
  ASSUME NEW a \in Nat \ {0}, NEW b \in Nat \ {0}
  PROVE  /\ Ceiling(a, b) \in Nat /\ Ceiling(a, b) * b < a + b
         /\ Ceiling(a, b) > 0 /\ a <= Ceiling(a, b) * b
<1> DEFINE c == a + b - 1
<1>1. c \in Nat /\ c = a + b - 1
  OBVIOUS
<1> HIDE DEF c
<1>2. c \div b \in Nat /\ (c \div b) * b <= c /\ c < (c \div b) * b + b
  BY <1>1, DivIs
<1>3. 1 <= c \div b <=> 1 * b <= c
  BY <1>1, DivBound
<1>4. Ceiling(a, b) = c \div b
  BY DEF Ceiling, c
<1> QED
  BY <1>1, <1>2, <1>3, <1>4

\* The plan counts the requests of each gap, one after the other.
LEMMA PlanCounts ==
  ASSUME NEW list, list \in Seq(Span), NEW plan \in Nat \ {0}
  PROVE  \E sum : /\ sum[0] = 0 /\ (sum[Len(list)] <= MaxRequests <=> PlanFits(list, plan))
                  /\ \A k \in 0 .. Len(list) : sum[k] \in Nat
                  /\ \A k \in 1 .. Len(list) :
                       sum[k] = sum[k - 1] + Ceiling(list[k].end - list[k].start, plan)
<1> DEFINE n == Len(list)
           step == [x \in Nat \X (1 .. n) |-> x[1] + Ceiling(list[x[2]].end - list[x[2]].start, plan)]
           it == CHOOSE it : it = [s \in SUBSET DOMAIN list |->
                                     IF s = {} THEN 0
                                     ELSE it[s \ {Max(s)}] + Ceiling(list[Max(s)].end - list[Max(s)].start, plan)]
           sum == [k \in 0 .. n |-> it[1 .. k]]
<1>1. /\ n \in Nat /\ DOMAIN list = 1 .. n
      /\ \A k \in 1 .. n : /\ list[k].start \in Nat /\ list[k].end \in Nat
                           /\ list[k].start < list[k].end
                           /\ Ceiling(list[k].end - list[k].start, plan) \in Nat
  <2>1. /\ n \in Nat /\ DOMAIN list = 1 .. n
        /\ \A k \in 1 .. n : /\ list[k].start \in Nat /\ list[k].end \in Nat
                             /\ list[k].start < list[k].end
    BY ListIs, SpanIs
  <2>2. \A k \in 1 .. n : list[k].end - list[k].start \in Nat \ {0}
    BY <2>1
  <2> QED
    BY <2>1, <2>2, CeilingIs
<1>2. PlanFits(list, plan) <=> it[1 .. n] <= MaxRequests
  BY <1>1 DEF PlanFits, FoldLeft, MapThenFoldSet
<1> HIDE DEF n
<1>3. step \in [Nat \X (1 .. n) -> Nat]
  BY <1>1
<1>4. PICK f : Folded(f, Nat, 0, n, step)
  <2> HIDE DEF step
  <2>1. n \in Nat /\ 0 \in Nat
    BY <1>1
  <2> QED
    BY <1>3, <2>1, FoldExists
<1>5. ASSUME NEW s \in SUBSET (1 .. n), s # {}
      PROVE  step[<<f[s \ {Max(s)}], Max(s)>>]
               = f[s \ {Max(s)}] + Ceiling(list[Max(s)].end - list[Max(s)].start, plan)
  <2>1. f[s \ {Max(s)}] \in Nat
    BY <1>4 DEF Folded
  <2>2. Max(s) \in 1 .. n
    <3>1. s \subseteq 0 .. n
      OBVIOUS
    <3>2. Max(s) \in s
      BY <1>1, <1>5, <3>1, GreatestUpTo
    <3> QED
      BY <3>2
  <2> QED
    BY <2>1, <2>2
<1> HIDE DEF step
<1>6. f = [s \in SUBSET DOMAIN list |->
             IF s = {} THEN 0 ELSE f[s \ {Max(s)}] + Ceiling(list[Max(s)].end - list[Max(s)].start, plan)]
  BY <1>1, <1>4, <1>5 DEF Folded
<1>7. it = [s \in SUBSET DOMAIN list |->
              IF s = {} THEN 0 ELSE it[s \ {Max(s)}] + Ceiling(list[Max(s)].end - list[Max(s)].start, plan)]
  BY <1>6
<1> HIDE DEF it
<1>8. it[1 .. 0] = 0
  <2>1. 1 .. 0 = {} /\ 1 .. 0 \in SUBSET DOMAIN list
    OBVIOUS
  <2> QED
    BY <1>7, <2>1
<1>9. ASSUME NEW k \in 1 .. n
      PROVE  it[1 .. k] = it[1 .. k - 1] + Ceiling(list[k].end - list[k].start, plan)
  <2> DEFINE S == 1 .. k
  <2>1. S \in SUBSET DOMAIN list /\ S # {} /\ Max(S) = k /\ S \ {k} = 1 .. k - 1
    BY <1>1, Firsts
  <2> HIDE DEF S
  <2>2. it[S] = it[S \ {Max(S)}] + Ceiling(list[Max(S)].end - list[Max(S)].start, plan)
    BY <1>7, <2>1
  <2> QED
    BY <2>1, <2>2 DEF S
<1>10. \A k \in 0 .. n : sum[k] = it[1 .. k]
  OBVIOUS
<1> HIDE DEF sum
<1>11. 0 .. n \subseteq {k \in 0 .. n : it[1 .. k] \in Nat}
  <2> DEFINE S == {k \in 0 .. n : it[1 .. k] \in Nat}
  <2>1. 0 \in S
    BY <1>1, <1>8
  <2>2. ASSUME NEW k \in 0 .. n, k < n, k \in S PROVE k + 1 \in S
    <3>1. k + 1 \in 1 .. n /\ k + 1 - 1 = k
      BY <1>1, <2>2
    <3>2. it[1 .. k + 1] = it[1 .. k] + Ceiling(list[k + 1].end - list[k + 1].start, plan)
      BY <1>9, <3>1
    <3> QED
      BY <1>1, <2>2, <3>1, <3>2
  <2> HIDE DEF S
  <2>3. 0 .. n \subseteq S
    BY <1>1, <2>1, <2>2, Climbs
  <2> QED
    BY <2>3 DEF S
<1>12. /\ sum[0] = 0 /\ (sum[n] <= MaxRequests <=> PlanFits(list, plan))
       /\ \A k \in 0 .. n : sum[k] \in Nat
  BY <1>1, <1>2, <1>8, <1>10, <1>11
<1>13. ASSUME NEW k \in 1 .. n
       PROVE  sum[k] = sum[k - 1] + Ceiling(list[k].end - list[k].start, plan)
  <2>1. sum[k] = it[1 .. k] /\ sum[k - 1] = it[1 .. k - 1] /\ it[1 .. k - 1] \in Nat
    BY <1>1, <1>10, <1>11
  <2> QED
    BY <1>1, <1>9, <2>1
<1> QED
  BY <1>12, <1>13 DEF n

-----------------------------------------------------------------------------
(* The list of completed ranges *)

Apart(r, s) == r.end <= s.start \/ s.end <= r.start

In(byte, r) == r.start <= byte /\ byte < r.end

Covers(list, byte) == \E k \in DOMAIN list : In(byte, list[k])

\* A byte at least lies between any two ranges of the list.
Separated(list) == \A i, j \in DOMAIN list : i < j => list[i].end < list[j].start

LEMMA MergeType ==
  ASSUME NEW merged \in Seq(Span), NEW r \in Span
  PROVE  Merge(merged, r) \in Seq(Span)
<1>1. CASE merged # <<>> /\ Last(merged).end = r.start
  <2> DEFINE n == Len(merged)
             last == merged[n]
             longer == [last EXCEPT !.end = r.end]
  <2>1. n \in Nat /\ n \in 1 .. n /\ merged \in [1 .. n -> Span] /\ last \in Span
    BY <1>1, ListIs, EmptySeq
  <2>2. last.end = r.start
    BY <1>1 DEF Last
  <2>3. longer = [start |-> last.start, end |-> r.end]
    BY <2>1, SpanIs
  <2>4. longer \in Span
    BY <2>1, <2>2, <2>3, SpanIs, SpanMade
  <2>5. Merge(merged, r) = [merged EXCEPT ![n] = longer]
    BY <1>1 DEF Merge
  <2> HIDE DEF longer, last
  <2>6. Merge(merged, r) \in [1 .. n -> Span]
    BY <2>1, <2>4, <2>5
  <2> QED
    BY <2>1, <2>6, AsSequence
<1>2. CASE ~(merged # <<>> /\ Last(merged).end = r.start)
  <2>1. Merge(merged, r) = Append(merged, r)
    BY <1>2 DEF Merge
  <2> QED
    BY <2>1, AppendProperties
<1> QED
  BY <1>1, <1>2

\* What merging a later range does to a list
LEMMA MergeIs ==
  ASSUME NEW merged \in Seq(Span), NEW r \in Span, Separated(merged),
         merged # <<>> => merged[Len(merged)].end <= r.start
  PROVE  LET m == Merge(merged, r) IN
           /\ m \in Seq(Span) /\ Separated(m)
           /\ Len(m) <= Len(merged) + 1 /\ m # <<>> /\ m[Len(m)].end = r.end
           /\ \A byte \in Nat : Covers(m, byte) <=> Covers(merged, byte) \/ In(byte, r)
<1> DEFINE n == Len(merged)
           m == Merge(merged, r)
<1>1. /\ n \in Nat /\ DOMAIN merged = 1 .. n
      /\ \A k \in 1 .. n : /\ merged[k].start \in Nat /\ merged[k].end \in Nat
                           /\ merged[k].start < merged[k].end
      /\ r.start \in Nat /\ r.end \in Nat /\ r.start < r.end
  BY ListIs, SpanIs
<1>2. m \in Seq(Span)
  BY MergeType
<1>3. \A i, j \in 1 .. n : i < j => merged[i].end < merged[j].start
  BY <1>1 DEF Separated
<1>4. CASE merged # <<>> /\ merged[n].end = r.start
  <2>1. n \in 1 .. n
    BY <1>1, <1>4, EmptySeq
  <2>2. m = [merged EXCEPT ![n].end = r.end]
    BY <1>4 DEF Merge, Last
  <2>3. Len(m) = n /\ DOMAIN m = 1 .. n
    <3>1. DOMAIN m = 1 .. n /\ DOMAIN m = 1 .. Len(m) /\ Len(m) \in Nat
      BY <1>1, <1>2, <2>2, ListIs
    <3> QED
      BY <1>1, <3>1
  <2>4. \A k \in 1 .. n : k # n => m[k] = merged[k]
    BY <1>1, <2>2
  <2>5. m[n].start = merged[n].start /\ m[n].end = r.end
    <3>1. merged[n] = [start |-> merged[n].start, end |-> merged[n].end]
      BY <1>1, <2>1, ListIs, SpanIs
    <3>2. m[n] = [merged[n] EXCEPT !.end = r.end]
      BY <1>1, <2>1, <2>2
    <3> QED
      BY <3>1, <3>2
  <2> HIDE DEF m, n
  <2>6. Separated(m)
    <3>1. ASSUME NEW i \in 1 .. n, NEW j \in 1 .. n, i < j
          PROVE  m[i].end < m[j].start
      <4>1. i # n /\ m[i] = merged[i] /\ merged[i].end < merged[j].start
        BY <1>1, <1>3, <2>4, <3>1
      <4>2. m[j].start = merged[j].start
        BY <2>4, <2>5
      <4> QED
        BY <4>1, <4>2
    <3> QED
      BY <2>3, <3>1 DEF Separated
  <2>7. ASSUME NEW byte \in Nat
        PROVE  Covers(m, byte) <=> Covers(merged, byte) \/ In(byte, r)
    <3>1. In(byte, m[n]) <=> In(byte, merged[n]) \/ In(byte, r)
      BY <1>1, <1>4, <2>1, <2>5 DEF In
    <3>2. \A k \in 1 .. n : k # n => (In(byte, m[k]) <=> In(byte, merged[k]))
      BY <2>4
    <3>3. Covers(m, byte) <=> \E k \in 1 .. n : In(byte, m[k])
      BY <2>3 DEF Covers
    <3>4. Covers(merged, byte) <=> \E k \in 1 .. n : In(byte, merged[k])
      BY <1>1 DEF Covers
    <3> QED
      BY <2>1, <3>1, <3>2, <3>3, <3>4
  <2>8. m # <<>>
    BY <1>2, <2>1, <2>3, EmptySeq
  <2> QED
    BY <1>1, <1>2, <2>3, <2>5, <2>6, <2>7, <2>8 DEF m, n
<1>5. CASE ~(merged # <<>> /\ merged[n].end = r.start)
  <2>1. m = Append(merged, r)
    BY <1>5 DEF Merge, Last
  <2>2. /\ Len(m) = n + 1 /\ DOMAIN m = 1 .. n + 1
        /\ \A k \in 1 .. n : m[k] = merged[k]
        /\ m[n + 1] = r
    BY <1>1, <1>2, <2>1, AppendProperties, ListIs
  <2> HIDE DEF m
  <2>3. n > 0 => merged[n].end < r.start
    BY <1>1, <1>5, EmptySeq
  <2> HIDE DEF n
  <2>4. ASSUME NEW i \in 1 .. n + 1, NEW j \in 1 .. n + 1, i < j
        PROVE  m[i].end < m[j].start
    <3>1. i \in 1 .. n /\ m[i] = merged[i]
      BY <1>1, <2>2, <2>4
    <3>2. CASE j \in 1 .. n
      BY <1>3, <2>2, <2>4, <3>1, <3>2
    <3>3. CASE j = n + 1
      <4>1. i = n \/ merged[i].end < merged[n].start
        BY <1>1, <1>3, <3>1
      <4>2. n \in 1 .. n /\ merged[n].end < r.start
        BY <1>1, <2>3, <3>1
      <4> QED
        BY <1>1, <2>2, <3>1, <3>3, <4>1, <4>2
    <3> QED
      BY <1>1, <3>2, <3>3
  <2>5. Separated(m)
    BY <2>2, <2>4 DEF Separated
  <2>6. ASSUME NEW byte \in Nat
        PROVE  Covers(m, byte) <=> Covers(merged, byte) \/ In(byte, r)
    <3>1. Covers(m, byte) <=> \E k \in 1 .. n + 1 : In(byte, m[k])
      BY <2>2 DEF Covers
    <3>2. Covers(merged, byte) <=> \E k \in 1 .. n : In(byte, merged[k])
      BY <1>1 DEF Covers
    <3>3. \A k \in 1 .. n + 1 : k \in 1 .. n \/ k = n + 1
      BY <1>1
    <3>4. 1 .. n \subseteq 1 .. n + 1 /\ n + 1 \in 1 .. n + 1
      BY <1>1
    <3> QED
      BY <2>2, <3>1, <3>2, <3>3, <3>4
  <2>7. m # <<>>
    BY <1>1, <1>2, <2>2, EmptySeq
  <2>8. Len(m) <= n + 1
    BY <1>1, <2>2
  <2> QED
    BY <1>2, <2>2, <2>5, <2>6, <2>7, <2>8 DEF m, n
<1> QED
  BY <1>4, <1>5

\* One list covers what the other does, and r.
Adds(new, old, r) ==
  \A byte \in Nat : Covers(new, byte) <=> Covers(old, byte) \/ In(byte, r)

\* part[k] is the list that has merged the first k ranges.
Parts(part, list, n) ==
  /\ part[0] = <<>> /\ part[n] = FoldLeft(Merge, <<>>, list)
  /\ \A k \in 0 .. n : part[k] \in Seq(Span)
  /\ \A k \in 1 .. n : part[k] = Merge(part[k - 1], list[k])

\* insert_completed merges the ranges of the sorted list one after the other.
LEMMA InsertFolds ==
  ASSUME NEW list, list \in Seq(Span)
  PROVE  \E part : Parts(part, list, Len(list))
<1> DEFINE n == Len(list)
           step == [x \in Seq(Span) \X (1 .. n) |-> Merge(x[1], list[x[2]])]
           it == CHOOSE it : it = [s \in SUBSET DOMAIN list |->
                                     IF s = {} THEN <<>> ELSE Merge(it[s \ {Max(s)}], list[Max(s)])]
           part == [k \in 0 .. n |-> it[1 .. k]]
<1>1. /\ n \in Nat /\ DOMAIN list = 1 .. n
      /\ \A k \in 1 .. n : list[k] \in Span
  BY ListIs
<1>2. FoldLeft(Merge, <<>>, list) = it[1 .. n]
  BY <1>1 DEF FoldLeft, MapThenFoldSet
<1> HIDE DEF n
<1>3. step \in [Seq(Span) \X (1 .. n) -> Seq(Span)]
  BY <1>1, MergeType
<1>4. PICK f : Folded(f, Seq(Span), <<>>, n, step)
  <2> HIDE DEF step
  <2>1. n \in Nat /\ <<>> \in Seq(Span)
    BY <1>1, EmptySeq
  <2> QED
    BY <1>3, <2>1, FoldExists
<1>5. ASSUME NEW s \in SUBSET (1 .. n), s # {}
      PROVE  step[<<f[s \ {Max(s)}], Max(s)>>] = Merge(f[s \ {Max(s)}], list[Max(s)])
  <2>1. f[s \ {Max(s)}] \in Seq(Span)
    BY <1>4 DEF Folded
  <2>2. Max(s) \in 1 .. n
    <3>1. s \subseteq 0 .. n
      OBVIOUS
    <3>2. Max(s) \in s
      BY <1>1, <1>5, <3>1, GreatestUpTo
    <3> QED
      BY <3>2
  <2> QED
    BY <2>1, <2>2
<1> HIDE DEF step
<1>6. f = [s \in SUBSET DOMAIN list |->
             IF s = {} THEN <<>> ELSE Merge(f[s \ {Max(s)}], list[Max(s)])]
  BY <1>1, <1>4, <1>5 DEF Folded
<1>7. it = [s \in SUBSET DOMAIN list |->
              IF s = {} THEN <<>> ELSE Merge(it[s \ {Max(s)}], list[Max(s)])]
  BY <1>6
<1> HIDE DEF it
<1>8. it[1 .. 0] = <<>>
  <2>1. 1 .. 0 = {} /\ 1 .. 0 \in SUBSET DOMAIN list
    OBVIOUS
  <2> QED
    BY <1>7, <2>1
<1>9. ASSUME NEW k \in 1 .. n
      PROVE  it[1 .. k] = Merge(it[1 .. k - 1], list[k])
  <2> DEFINE S == 1 .. k
  <2>1. S \in SUBSET DOMAIN list /\ S # {} /\ Max(S) = k /\ S \ {k} = 1 .. k - 1
    BY <1>1, Firsts
  <2> HIDE DEF S
  <2>2. it[S] = Merge(it[S \ {Max(S)}], list[Max(S)])
    BY <1>7, <2>1
  <2> QED
    BY <2>1, <2>2 DEF S
<1>10. \A k \in 0 .. n : part[k] = it[1 .. k]
  OBVIOUS
<1> HIDE DEF part
<1> DEFINE S == {k \in 0 .. n : it[1 .. k] \in Seq(Span)}
<1>11. 0 .. n \subseteq S
  <2>1. 0 \in S
    <3>1. it[1 .. 0] \in Seq(Span)
      BY <1>8, EmptySeq
    <3> QED
      BY <1>1, <3>1
  <2>2. ASSUME NEW k \in 0 .. n, k < n, k \in S PROVE k + 1 \in S
    <3>1. k + 1 \in 1 .. n /\ k + 1 - 1 = k /\ it[1 .. k] \in Seq(Span)
      BY <1>1, <2>2
    <3>2. it[1 .. k + 1] = Merge(it[1 .. k], list[k + 1])
      BY <1>9, <3>1
    <3>3. it[1 .. k + 1] \in Seq(Span)
      BY <1>1, <3>1, <3>2, MergeType
    <3> QED
      BY <3>1, <3>3
  <2> HIDE DEF S
  <2> QED
    BY <1>1, <2>1, <2>2, Climbs
<1>12. /\ part[0] = <<>> /\ part[n] = FoldLeft(Merge, <<>>, list)
       /\ \A k \in 0 .. n : part[k] \in Seq(Span)
  BY <1>1, <1>2, <1>8, <1>10, <1>11
<1>13. ASSUME NEW k \in 1 .. n
       PROVE  part[k] = Merge(part[k - 1], list[k])
  <2>1. k \in 0 .. n /\ k - 1 \in 0 .. n
    BY <1>1
  <2> QED
    BY <1>9, <1>10, <2>1
<1>14. Parts(part, list, n)
  BY <1>12, <1>13 DEF Parts
<1> QED
  BY <1>14 DEF n

\* Inserting a range that overlaps none keeps a byte between any two ranges, covers its bytes
\* and no others, and adds one entry at most.
LEMMA InsertIs ==
  ASSUME NEW done \in Seq(Span), Separated(done), NEW r \in Span,
         \A k \in DOMAIN done : Apart(r, done[k])
  PROVE  /\ InsertCompleted(done, r) \in Seq(Span) /\ Separated(InsertCompleted(done, r))
         /\ Len(InsertCompleted(done, r)) <= Len(done) + 1
         /\ Adds(InsertCompleted(done, r), done, r)
<1> DEFINE n == Len(done)
           S == ToSet(done) \cup {r}
           list == InOrder(S)
<1>1. /\ n \in Nat /\ DOMAIN done = 1 .. n
      /\ \A k \in 1 .. n : done[k] \in Span
  BY ListIs
<1>2. ToSet(done) = {done[k] : k \in 1 .. n}
  BY <1>1 DEF ToSet
<1>3. \A s \in S : s \in Span /\ s.start \in Nat /\ s.end \in Nat /\ s.start < s.end
  <2>1. \A s \in S : s \in Span
    BY <1>1, <1>2
  <2> QED
    BY <2>1, SpanIs
<1>4. \A s, t \in S : s = t \/ Apart(s, t)
  <2>1. ASSUME NEW i \in 1 .. n, NEW j \in 1 .. n
        PROVE  done[i] = done[j] \/ Apart(done[i], done[j])
    <3>1. i = j \/ i < j \/ j < i
      BY <1>1
    <3>2. /\ i < j => done[i].end < done[j].start
          /\ j < i => done[j].end < done[i].start
      BY <1>1 DEF Separated
    <3>3. done[i].end \in Nat /\ done[i].start \in Nat /\ done[j].end \in Nat /\ done[j].start \in Nat
      BY <1>1, SpanIs
    <3> QED
      BY <3>1, <3>2, <3>3 DEF Apart
  <2>2. \A i \in 1 .. n : Apart(r, done[i]) /\ Apart(done[i], r)
    BY <1>1 DEF Apart
  <2> QED
    BY <1>2, <2>1, <2>2
<1>5. IsFiniteSet(S) /\ Cardinality(S) <= n + 1
  <2>1. done \in Surjection(1 .. n, ToSet(done))
    BY <1>1, <1>2, ListIs DEF Surjection
  <2>2. IsFiniteSet(1 .. n) /\ Cardinality(1 .. n) = n
    BY <1>1, UpTo
  <2>3. IsFiniteSet(ToSet(done)) /\ Cardinality(ToSet(done)) <= n
    BY <2>1, <2>2, FS_Surjection
  <2>4. /\ IsFiniteSet(S) /\ Cardinality(ToSet(done)) \in Nat
        /\ Cardinality(S) = IF r \in ToSet(done) THEN Cardinality(ToSet(done))
                            ELSE Cardinality(ToSet(done)) + 1
    BY <2>3, FS_AddElement, FS_CardinalityType
  <2> QED
    BY <1>1, <2>3, <2>4
<1>6. \A s, t \in S : s.start = t.start => s = t
  BY <1>3, <1>4 DEF Apart
<1> HIDE DEF S
<1> DEFINE m == Cardinality(S)
<1>7. /\ list \in Seq(S) /\ Len(list) = m /\ m \in Nat /\ DOMAIN list = 1 .. m
      /\ \A i, j \in 1 .. m : i < j => list[i].start < list[j].start
      /\ \A s \in S : \E k \in 1 .. m : list[k] = s
  BY <1>3, <1>5, <1>6, InOrderSorts
<1> HIDE DEF list, m
<1>8. list \in Seq(Span) /\ \A k \in 1 .. m : list[k] \in S
  <2>1. \A k \in 1 .. m : list[k] \in S
    BY <1>7, ElementOfSeq
  <2>2. list \in [1 .. m -> Span]
    BY <1>3, <1>7, <2>1, LenProperties
  <2> QED
    BY <1>7, <2>1, <2>2, AsSequence
<1>9. \A i, j \in 1 .. m : i < j => list[i].end <= list[j].start
  <2>1. ASSUME NEW i \in 1 .. m, NEW j \in 1 .. m, i < j
        PROVE  list[i].end <= list[j].start
    <3>1. /\ list[i].start < list[j].start /\ list[i] \in S /\ list[j] \in S
          /\ list[i] = list[j] \/ Apart(list[i], list[j])
      BY <1>4, <1>7, <1>8, <2>1
    <3>2. list[i].start \in Nat /\ list[j].start \in Nat /\ list[j].end \in Nat /\ list[j].start < list[j].end
      BY <1>3, <3>1
    <3> QED
      BY <3>1, <3>2 DEF Apart
  <2> QED
    BY <2>1
<1>10. PICK part : Parts(part, list, m)
  BY <1>7, <1>8, InsertFolds
<1> DEFINE Part(k) ==
             /\ Separated(part[k]) /\ Len(part[k]) <= k
             /\ part[k] # <<>> => k > 0 /\ part[k][Len(part[k])].end = list[k].end
             /\ \A byte \in Nat : Covers(part[k], byte) <=> \E j \in 1 .. k : In(byte, list[j])
           Good == {k \in 0 .. m : Part(k)}
<1>11. 0 \in Good
  <2>1. Len(<<>>) = 0 /\ DOMAIN <<>> = {}
    BY EmptySeq
  <2>2. Separated(part[0]) /\ Len(part[0]) <= 0 /\ part[0] = <<>>
    BY <1>10, <2>1 DEF Parts, Separated
  <2>3. \A byte \in Nat : ~Covers(part[0], byte) /\ ~\E j \in 1 .. 0 : In(byte, list[j])
    BY <1>10, <2>1 DEF Parts, Covers
  <2> QED
    BY <1>7, <2>2, <2>3
<1>12. ASSUME NEW k \in 0 .. m, k < m, k \in Good
       PROVE  k + 1 \in Good
  <2> DEFINE before == part[k]
             after == part[k + 1]
             next == list[k + 1]
  <2>1. k + 1 \in 1 .. m /\ k + 1 \in 0 .. m /\ k \in Nat /\ k + 1 - 1 = k
    BY <1>7, <1>12
  <2>2. after = Merge(before, next) /\ before \in Seq(Span) /\ next \in Span
    BY <1>3, <1>8, <1>10, <2>1 DEF Parts
  <2>3. Part(k)
    BY <1>12
  <2>4. before # <<>> => before[Len(before)].end <= next.start
    <3>1. CASE k > 0
      <4>1. k \in 1 .. m /\ k < k + 1
        BY <2>1, <3>1, <1>7
      <4>2. list[k].end <= next.start
        BY <1>9, <2>1, <4>1
      <4> QED
        BY <2>3, <4>2
    <3> QED
      BY <2>1, <2>3, <3>1
  <2>5. /\ after \in Seq(Span) /\ Separated(after)
        /\ Len(after) <= Len(before) + 1 /\ after # <<>> /\ after[Len(after)].end = next.end
        /\ \A byte \in Nat : Covers(after, byte) <=> Covers(before, byte) \/ In(byte, next)
    <3> HIDE DEF before, after, next
    <3>1. Separated(before)
      BY <2>3 DEF before
    <3> QED
      BY <2>2, <2>4, <3>1, MergeIs
  <2>6. \A byte \in Nat : Covers(after, byte) <=> \E j \in 1 .. k + 1 : In(byte, list[j])
    <3>1. \A j \in 1 .. k + 1 : j \in 1 .. k \/ j = k + 1
      BY <2>1
    <3>2. 1 .. k \subseteq 1 .. k + 1 /\ k + 1 \in 1 .. k + 1
      BY <2>1
    <3>3. \A byte \in Nat : Covers(before, byte) <=> \E j \in 1 .. k : In(byte, list[j])
      BY <2>3
    <3> HIDE DEF before, after
    <3> QED
      BY <2>5, <3>1, <3>2, <3>3
  <2>7. Len(after) <= k + 1
    <3>1. Len(before) \in Nat /\ Len(after) \in Nat /\ Len(before) <= k
      BY <2>2, <2>3, <2>5, ListIs
    <3> QED
      BY <2>1, <2>5, <3>1
  <2>8. Part(k + 1)
    BY <2>1, <2>5, <2>6, <2>7
  <2> HIDE DEF Part
  <2> QED
    BY <2>1, <2>8
<1>13. Part(m)
  <2> HIDE DEF Part
  <2>1. Good \subseteq 0 .. m /\ m \in 0 .. m
    BY <1>7
  <2> HIDE DEF Good
  <2>2. 0 .. m \subseteq Good
    BY <1>7, <1>11, <1>12, Climbs
  <2> QED
    BY <2>1, <2>2 DEF Good
<1>14. InsertCompleted(done, r) = part[m] /\ part[m] \in Seq(Span)
  BY <1>7, <1>10 DEF Parts, InsertCompleted, list, S
<1>15. Len(part[m]) <= n + 1
  <2>1. Len(part[m]) \in Nat /\ Len(part[m]) <= m
    BY <1>13, <1>14, ListIs
  <2> QED
    BY <1>1, <1>5, <1>7, <2>1 DEF m
<1>16. ASSUME NEW byte \in Nat
       PROVE  Covers(part[m], byte) <=> Covers(done, byte) \/ In(byte, r)
  <2>1. Covers(part[m], byte) <=> \E j \in 1 .. m : In(byte, list[j])
    BY <1>13
  <2>2. (\E j \in 1 .. m : In(byte, list[j])) <=> \E s \in S : In(byte, s)
    BY <1>7, <1>8
  <2>3. (\E s \in S : In(byte, s)) <=> Covers(done, byte) \/ In(byte, r)
    BY <1>1, <1>2 DEF S, Covers
  <2> QED
    BY <2>1, <2>2, <2>3
<1>17. Separated(part[m])
  BY <1>13
<1> HIDE DEF Part
<1> QED
  BY <1>14, <1>15, <1>16, <1>17 DEF Adds

-----------------------------------------------------------------------------
(* What is missing *)

\* The k-th gap of done: what lies between the k-th range and the next.
GapStart(done, k) == IF k = 0 THEN 0 ELSE done[k].end

GapEnd(done, k) == IF k = Len(done) THEN Total ELSE done[k + 1].start

LEMMA GapsInOrder ==
  ASSUME NEW done \in Seq(Span), Separated(done)
  PROVE  /\ \A k \in 0 .. Len(done) : GapStart(done, k) \in Nat /\ GapEnd(done, k) \in Nat
         /\ \A k \in 0 .. Len(done) : GapEnd(done, k) <= Total
         /\ \A k, l \in 0 .. Len(done) : k < l => GapEnd(done, k) < GapStart(done, l)
         /\ \A k \in 0 .. Len(done), j \in 1 .. Len(done) :
              IF j <= k THEN done[j].end <= GapStart(done, k) ELSE GapEnd(done, k) <= done[j].start
<1> DEFINE n == Len(done)
<1>1. /\ n \in Nat /\ DOMAIN done = 1 .. n /\ Total \in Nat
      /\ \A k \in 1 .. n : /\ done[k].start \in Nat /\ done[k].end \in Nat
                           /\ done[k].start < done[k].end /\ done[k].end <= Total
  BY ListIs, SpanIs, AttemptBounds
<1>2. \A i, j \in 1 .. n : i < j => done[i].end < done[j].start
  BY <1>1 DEF Separated
<1> HIDE DEF n
<1>3. ASSUME NEW k \in 0 .. n
      PROVE  /\ GapStart(done, k) \in Nat /\ GapEnd(done, k) \in Nat
             /\ GapEnd(done, k) <= Total
  <2>1. k # 0 => k \in 1 .. n
    BY <1>1
  <2>2. k # n => k + 1 \in 1 .. n
    BY <1>1
  <2>3. GapStart(done, k) \in Nat
    BY <1>1, <2>1 DEF GapStart
  <2>4. GapEnd(done, k) \in Nat /\ GapEnd(done, k) <= Total
    <3>1. CASE k = n
      BY <1>1, <3>1 DEF GapEnd, n
    <3>2. CASE k # n
      <4>1. GapEnd(done, k) = done[k + 1].start
        BY <3>2 DEF GapEnd, n
      <4>2. /\ done[k + 1].start \in Nat /\ done[k + 1].end \in Nat
            /\ done[k + 1].start < done[k + 1].end /\ done[k + 1].end <= Total
        BY <1>1, <2>2, <3>2
      <4> QED
        BY <1>1, <4>1, <4>2
    <3> QED
      BY <3>1, <3>2
  <2> QED
    BY <2>3, <2>4
<1>4. ASSUME NEW k \in 0 .. n, NEW j \in 1 .. n
      PROVE  IF j <= k THEN done[j].end <= GapStart(done, k) ELSE GapEnd(done, k) <= done[j].start
  <2>1. CASE j <= k
    <3>1. k \in 1 .. n /\ GapStart(done, k) = done[k].end
      BY <1>1, <2>1 DEF GapStart
    <3>2. j = k \/ done[j].end < done[k].start
      BY <1>1, <1>2, <2>1, <3>1
    <3> QED
      BY <1>1, <2>1, <3>1, <3>2
  <2>2. CASE ~(j <= k)
    <3>1. k + 1 \in 1 .. n /\ k # n /\ j \in Nat /\ k + 1 <= j
      BY <1>1, <2>2
    <3>2. GapEnd(done, k) = done[k + 1].start
      BY <3>1 DEF GapEnd, n
    <3>3. j = k + 1 \/ done[k + 1].end < done[j].start
      BY <1>1, <1>2, <3>1
    <3> QED
      BY <1>1, <2>2, <3>1, <3>2, <3>3
  <2> QED
    BY <2>1, <2>2
<1>5. ASSUME NEW k \in 0 .. n, NEW l \in 0 .. n, k < l
      PROVE  GapEnd(done, k) < GapStart(done, l)
  <2>1. k + 1 \in 1 .. n /\ k # n /\ ~(k + 1 <= k) /\ k + 1 <= l
    BY <1>1, <1>5
  <2>2. GapEnd(done, k) <= done[k + 1].start /\ done[k + 1].end <= GapStart(done, l)
    BY <1>4, <2>1
  <2>3. /\ GapEnd(done, k) \in Nat /\ GapStart(done, l) \in Nat
        /\ done[k + 1].start \in Nat /\ done[k + 1].end \in Nat
        /\ done[k + 1].start < done[k + 1].end
    BY <1>1, <1>3, <2>1
  <2> QED
    BY <2>2, <2>3
<1> QED
  BY <1>3, <1>4, <1>5 DEF n

\* The missing ranges are the bytes that are not complete, in order, with a byte at least between
\* any two; each but the last ends where a complete one begins.
LEMMA MissingIs ==
  ASSUME NEW done \in Seq(Span), Separated(done)
  PROVE  LET m == MissingRanges(Total, done) IN
           /\ m \in Seq(Span) /\ Separated(m) /\ Len(m) <= Len(done) + 1
           /\ \A i \in DOMAIN m, k \in DOMAIN done : Apart(m[i], done[k])
           /\ \A byte \in 0 .. Total - 1 : Covers(done, byte) \/ Covers(m, byte)
           /\ \A i \in DOMAIN m : \/ m[i].end = Total
                                  \/ \E k \in DOMAIN done : m[i].end = done[k].start
<1> DEFINE n == Len(done)
           Gap(k) == [start |-> GapStart(done, k), end |-> GapEnd(done, k)]
           gaps == {Gap(k) : k \in 0 .. n}
           S == {g \in gaps : g.start < g.end}
           m == MissingRanges(Total, done)
<1>1. /\ n \in Nat /\ DOMAIN done = 1 .. n /\ Total \in Nat
      /\ \A k \in 1 .. n : /\ done[k].start \in Nat /\ done[k].end \in Nat
                           /\ done[k].start < done[k].end /\ done[k].end <= Total
  BY ListIs, SpanIs, AttemptBounds
<1>2. m = InOrder(S)
  <2>1. gaps = {[start |-> IF k = 0 THEN 0 ELSE done[k].end,
                 end |-> IF k = Len(done) THEN Total ELSE done[k + 1].start] : k \in 0 .. Len(done)}
    BY DEF GapStart, GapEnd
  <2> QED
    BY <2>1 DEF MissingRanges
<1> HIDE DEF m
<1>3. \A g \in S : \E k \in 0 .. n : g = Gap(k) /\ GapStart(done, k) < GapEnd(done, k)
  OBVIOUS
<1>4. \A k \in 0 .. n : GapStart(done, k) < GapEnd(done, k) => Gap(k) \in S
  OBVIOUS
<1>5. IsFiniteSet(S) /\ Cardinality(S) <= n + 1
  <2> DEFINE f == [k \in 0 .. n |-> Gap(k)]
  <2>1. f \in Surjection(0 .. n, gaps)
    BY DEF Surjection
  <2>2. 0 \in Int /\ n \in Int
    BY <1>1
  <2>3. IsFiniteSet(0 .. n) /\ Cardinality(0 .. n) = IF 0 > n THEN 0 ELSE n - 0 + 1
    BY <2>2, FS_Interval
  <2>4. IsFiniteSet(gaps) /\ Cardinality(gaps) <= Cardinality(0 .. n)
    BY <2>1, <2>3, FS_Surjection
  <2>5. S \in SUBSET gaps
    OBVIOUS
  <2> HIDE DEF S, gaps
  <2>6. IsFiniteSet(S) /\ Cardinality(S) <= Cardinality(gaps)
    BY <2>4, <2>5, FS_Subset
  <2>7. Cardinality(S) \in Nat /\ Cardinality(gaps) \in Nat
    BY <2>4, <2>6, FS_CardinalityType
  <2> QED
    BY <1>1, <2>3, <2>4, <2>6, <2>7
<1>6. \A g \in S : g \in Span /\ g.start \in Nat /\ g.end \in Nat /\ g.start < g.end
  <2>1. ASSUME NEW k \in 0 .. n, GapStart(done, k) < GapEnd(done, k)
        PROVE  Gap(k) \in Span
    <3>1. GapStart(done, k) \in Nat /\ GapEnd(done, k) \in Nat /\ GapEnd(done, k) <= Total
      BY GapsInOrder
    <3> QED
      BY <2>1, <3>1, SpanMade
  <2>2. \A g \in S : g \in Span
    BY <1>3, <2>1
  <2> QED
    BY <2>2, SpanIs
<1>7. \A g, h \in S : g.start < h.start => g.end < h.start
  <2>1. ASSUME NEW g \in S, NEW h \in S, g.start < h.start
        PROVE  g.end < h.start
    <3>1. PICK k \in 0 .. n : g = Gap(k)
      BY <1>3
    <3>2. PICK l \in 0 .. n : h = Gap(l)
      BY <1>3
    <3>3. /\ g.start = GapStart(done, k) /\ g.end = GapEnd(done, k)
          /\ h.start = GapStart(done, l) /\ h.end = GapEnd(done, l)
      BY <3>1, <3>2
    <3>4. k < l \/ k = l \/ l < k
      BY <1>1
    <3>5. /\ k < l => g.end < h.start
          /\ l < k => h.end < g.start
          /\ k = l => g.start = h.start
      BY <3>3, GapsInOrder
    <3> QED
      BY <1>6, <2>1, <3>4, <3>5
  <2> QED
    BY <2>1
<1>8. \A g, h \in S : g.start = h.start => g = h
  <2>1. ASSUME NEW g \in S, NEW h \in S, g.start = h.start
        PROVE  g = h
    <3>1. PICK k \in 0 .. n : g = Gap(k)
      BY <1>3
    <3>2. PICK l \in 0 .. n : h = Gap(l)
      BY <1>3
    <3>3. /\ g.start = GapStart(done, k) /\ g.end = GapEnd(done, k)
          /\ h.start = GapStart(done, l) /\ h.end = GapEnd(done, l)
      BY <3>1, <3>2
    <3>4. k < l \/ k = l \/ l < k
      BY <1>1
    <3>5. /\ k < l => g.end < h.start
          /\ l < k => h.end < g.start
      BY <3>3, GapsInOrder
    <3>6. k = l
      BY <1>6, <2>1, <3>4, <3>5
    <3> QED
      BY <3>1, <3>2, <3>6
  <2> QED
    BY <2>1
<1>9. ASSUME NEW g \in S
      PROVE  /\ \A k \in 1 .. n : Apart(g, done[k])
             /\ g.end = Total \/ \E k \in 1 .. n : g.end = done[k].start
  <2>1. PICK k \in 0 .. n : g = Gap(k)
    BY <1>3
  <2>2. g.start = GapStart(done, k) /\ g.end = GapEnd(done, k)
    BY <2>1
  <2>3. \A j \in 1 .. n : done[j].end <= g.start \/ g.end <= done[j].start
    BY <2>2, GapsInOrder
  <2>4. k # n => k + 1 \in 1 .. n /\ g.end = done[k + 1].start
    <3>1. k # n => k + 1 \in 1 .. n
      BY <1>1
    <3>2. k # n => GapEnd(done, k) = done[k + 1].start
      BY DEF GapEnd
    <3> QED
      BY <2>2, <3>1, <3>2
  <2>5. k = n => g.end = Total
    BY <2>2 DEF GapEnd
  <2> QED
    BY <2>3, <2>4, <2>5 DEF Apart
<1>10. ASSUME NEW byte \in 0 .. Total - 1, ~Covers(done, byte)
       PROVE  \E g \in S : In(byte, g)
  <2> DEFINE K == {k \in 0 .. n : GapStart(done, k) <= byte}
             k == Max(K)
  <2>1. K \subseteq 0 .. n /\ 0 \in K
    BY <1>1, <1>10 DEF GapStart
  <2>2. k \in K /\ \A l \in K : l <= k
    <3> HIDE DEF K
    <3> QED
      BY <1>1, <2>1, GreatestUpTo
  <2> HIDE DEF k
  <2>3. k \in 0 .. n /\ GapStart(done, k) <= byte
    BY <2>2
  <2>4. byte < GapEnd(done, k)
    <3>1. CASE k = n
      BY <1>1, <1>10, <3>1 DEF GapEnd
    <3>2. CASE k # n
      <4>1. k + 1 \in 1 .. n /\ k + 1 \in 0 .. n /\ ~(k + 1 <= k) /\ k + 1 # 0
        <5>1. k \in 0 .. n /\ k # n /\ n \in Nat
          BY <1>1, <2>3, <3>2
        <5> HIDE DEF n, K, S
        <5> QED
          BY <5>1
      <4>2. ~(done[k + 1].end <= byte)
        <5>1. k + 1 \notin K
          BY <2>2, <4>1
        <5> QED
          BY <4>1, <5>1 DEF GapStart
      <4>3. ~In(byte, done[k + 1])
        BY <1>1, <1>10, <4>1 DEF Covers
      <4>4. GapEnd(done, k) = done[k + 1].start
        BY <3>2 DEF GapEnd
      <4>5. done[k + 1].start \in Nat /\ done[k + 1].end \in Nat /\ byte \in Nat
        BY <1>1, <4>1
      <4> QED
        BY <4>2, <4>3, <4>4, <4>5 DEF In
    <3> QED
      BY <3>1, <3>2
  <2>5. GapStart(done, k) < GapEnd(done, k)
    <3>1. GapStart(done, k) \in Nat /\ GapEnd(done, k) \in Nat
      BY <2>3, GapsInOrder
    <3> QED
      BY <2>3, <2>4, <3>1
  <2>6. Gap(k) \in S /\ In(byte, Gap(k))
    BY <1>4, <2>3, <2>4, <2>5 DEF In
  <2> QED
    BY <2>6
<1> HIDE DEF S
<1> DEFINE c == Cardinality(S)
<1>11. /\ m \in Seq(S) /\ Len(m) = c /\ c \in Nat /\ DOMAIN m = 1 .. c
       /\ \A i, j \in 1 .. c : i < j => m[i].start < m[j].start
       /\ \A s \in S : \E k \in 1 .. c : m[k] = s
  BY <1>2, <1>5, <1>6, <1>8, InOrderSorts
<1> HIDE DEF c
<1>12. /\ m \in Seq(Span) /\ \A k \in 1 .. c : m[k] \in S
  <2>1. \A k \in 1 .. c : m[k] \in S
    BY <1>11, ElementOfSeq
  <2>2. m \in [1 .. c -> Span]
    BY <1>6, <1>11, <2>1, LenProperties
  <2> QED
    BY <1>11, <2>1, <2>2, AsSequence
<1>13. Separated(m)
  BY <1>7, <1>11, <1>12 DEF Separated
<1>14. Len(m) <= n + 1
  BY <1>5, <1>11 DEF c
<1>15. \A byte \in 0 .. Total - 1 : Covers(done, byte) \/ Covers(m, byte)
  BY <1>10, <1>11 DEF Covers
<1>16. /\ \A i \in DOMAIN m, k \in DOMAIN done : Apart(m[i], done[k])
       /\ \A i \in DOMAIN m : m[i].end = Total \/ \E k \in DOMAIN done : m[i].end = done[k].start
  BY <1>1, <1>9, <1>11, <1>12
<1> QED
  BY <1>12, <1>13, <1>14, <1>15, <1>16 DEF m

-----------------------------------------------------------------------------
(* Retries *)

LEMMA ShiftedIs ==
  \A n \in 0 .. MaxRetries : Shifted[n] \in Nat \ {0}
<1> DEFINE Pos == Nat \ {0}
           Shifts(m, f) == /\ f \in [0 .. m -> Pos]
                           /\ \A n \in 0 .. m : f[n] = IF n = 0 THEN 1 ELSE 2 * f[n - 1]
           Good == {m \in 0 .. MaxRetries : \E f : Shifts(m, f)}
<1>1. MaxRetries \in Nat
  BY AttemptBounds
<1>2. 0 \in Good
  <2> DEFINE f == [n \in 0 .. 0 |-> 1]
  <2>1. Shifts(0, f)
    OBVIOUS
  <2> HIDE DEF Shifts, f
  <2> QED
    BY <1>1, <2>1
<1>3. ASSUME NEW m \in 0 .. MaxRetries, m < MaxRetries, m \in Good
      PROVE  m + 1 \in Good
  <2>1. PICK f : Shifts(m, f)
    BY <1>3
  <2> DEFINE g == [n \in 0 .. m + 1 |-> IF n = m + 1 THEN 2 * f[m] ELSE f[n]]
  <2>2. m \in Nat /\ m + 1 \in 0 .. MaxRetries
    BY <1>1, <1>3
  <2>3. ASSUME NEW n \in 0 .. m + 1
        PROVE  g[n] \in Pos /\ g[n] = IF n = 0 THEN 1 ELSE 2 * g[n - 1]
    <3>1. f[m] \in Pos /\ (m + 1) - 1 = m /\ m # m + 1 /\ m \in 0 .. m + 1
      BY <2>1, <2>2
    <3>2. CASE n = m + 1
      BY <2>2, <3>1, <3>2
    <3>3. CASE n # m + 1
      <4>1. n \in 0 .. m /\ (n # 0 => n - 1 \in 0 .. m /\ n - 1 # m + 1 /\ n - 1 \in 0 .. m + 1)
        BY <2>2, <3>3
      <4>2. g[n] = f[n] /\ (n # 0 => g[n - 1] = f[n - 1])
        BY <3>3, <4>1
      <4>3. f[n] \in Pos /\ f[n] = IF n = 0 THEN 1 ELSE 2 * f[n - 1]
        BY <2>1, <4>1
      <4> HIDE DEF g
      <4> QED
        BY <4>2, <4>3
    <3> QED
      BY <3>2, <3>3
  <2>4. g \in [0 .. m + 1 -> Pos]
    BY <2>3
  <2> HIDE DEF g, Pos
  <2>5. Shifts(m + 1, g)
    BY <2>3, <2>4
  <2> HIDE DEF Shifts
  <2> QED
    BY <2>2, <2>5
<1>4. MaxRetries \in Good
  <2> HIDE DEF Good
  <2> QED
    BY <1>1, <1>2, <1>3, Climbs
<1>5. PICK f : Shifts(MaxRetries, f)
  BY <1>4
<1>6. f = [n \in 0 .. MaxRetries |-> IF n = 0 THEN 1 ELSE 2 * f[n - 1]]
  BY <1>5
<1> HIDE DEF Shifts
<1>7. Shifted = [n \in 0 .. MaxRetries |-> IF n = 0 THEN 1 ELSE 2 * Shifted[n - 1]]
  BY <1>6 DEF Shifted
<1> DEFINE S == {n \in 0 .. MaxRetries : Shifted[n] \in Pos}
<1>8. 0 \in S
  BY <1>1, <1>7
<1>9. ASSUME NEW n \in 0 .. MaxRetries, n < MaxRetries, n \in S
      PROVE  n + 1 \in S
  <2>1. n + 1 \in 0 .. MaxRetries /\ n + 1 # 0 /\ (n + 1) - 1 = n
    BY <1>1, <1>9
  <2>2. Shifted[n + 1] = 2 * Shifted[n]
    BY <1>7, <2>1
  <2> QED
    BY <1>9, <2>1, <2>2
<1> HIDE DEF S
<1>10. 0 .. MaxRetries \subseteq S
  BY <1>1, <1>8, <1>9, Climbs
<1> QED
  BY <1>10 DEF S

\* A delay lies between half of its ceiling and the ceiling, or is what the server asked.
LEMMA DelayIs ==
  ASSUME NEW retry \in 1 .. MaxRetries, NEW entropy \in Nat,
         NEW after \in Nat \cup {Absent}, after <= MaxRetryAfter
  PROVE  LET d == Guided(Jittered(DelayCeiling(retry), entropy), after) IN
           /\ d >= after /\ 2 * d + 1 >= DelayCeiling(retry)
           /\ d <= Max({MaxDelay, MaxRetryAfter})
<1> DEFINE c == DelayCeiling(retry)
           j == Jittered(c, entropy)
<1>1. /\ BaseDelay \in Nat \ {0} /\ MaxDelay \in Nat \ {0} /\ MaxRetryAfter \in Nat
      /\ MaxRetries \in Nat /\ retry - 1 \in 0 .. MaxRetries
  BY AttemptBounds
<1>2. c \in Nat /\ c <= MaxDelay
  <2> DEFINE s == Shifted[retry - 1]
  <2>1. s \in Nat
    BY <1>1, ShiftedIs
  <2> HIDE DEF s
  <2>2. BaseDelay * s \in Nat
    BY <1>1, <2>1
  <2>3. Min({BaseDelay * s, MaxDelay}) = IF BaseDelay * s <= MaxDelay THEN BaseDelay * s ELSE MaxDelay
    BY <1>1, <2>2, LeastOfTwo
  <2>4. c = Min({BaseDelay * s, MaxDelay})
    BY DEF DelayCeiling, s
  <2> HIDE DEF c
  <2> QED
    BY <1>1, <2>2, <2>3, <2>4
<1>3. j \in Nat /\ 2 * j + 1 >= c /\ j <= c
  <2> DEFINE h == c \div 2
             e == entropy % (c - h + 1)
  <2>1. h \in Nat /\ h * 2 <= c /\ c < h * 2 + 2
    <3> HIDE DEF c
    <3> QED
      BY <1>2, DivIs
  <2>2. j = h + e
    BY DEF Jittered
  <2> HIDE DEF h, c
  <2>3. c - h + 1 \in Nat \ {0}
    BY <1>2, <2>1
  <2>4. e \in 0 .. (c - h + 1) - 1
    <3> DEFINE w == c - h + 1
    <3> HIDE DEF w
    <3>1. entropy % w \in 0 .. w - 1
      BY <2>3, DivIs DEF w
    <3> QED
      BY <3>1 DEF w
  <2> HIDE DEF e, j
  <2> QED
    BY <1>2, <2>1, <2>2, <2>3, <2>4
<1> DEFINE d == Guided(j, after)
           top == Max({MaxDelay, MaxRetryAfter})
<1>4. top \in Nat /\ MaxDelay <= top /\ MaxRetryAfter <= top
  <2>1. top = IF MaxDelay <= MaxRetryAfter THEN MaxRetryAfter ELSE MaxDelay
    BY <1>1, GreatestOfTwo
  <2> QED
    BY <1>1, <2>1
<1>5. d = IF after = Absent THEN j ELSE IF j <= after THEN after ELSE j
  <2>1. Max({j, after}) = IF j <= after THEN after ELSE j
    <3>1. after \in Int
      BY DEF Absent
    <3> HIDE DEF j
    <3> QED
      BY <1>3, <3>1, GreatestOfTwo
  <2> HIDE DEF j
  <2> QED
    BY <2>1 DEF Guided
<1>6. d >= after /\ 2 * d + 1 >= c /\ d <= top
  <2> HIDE DEF d, j, c, top
  <2> QED
    BY <1>1, <1>2, <1>3, <1>4, <1>5 DEF Absent
<1> QED
  BY <1>6

RetryInv ==
  /\ phase \in Phases /\ used \in 0 .. MaxRetries
  /\ RetryIsPolite

LEMMA RetryInit == Init => RetryInv
BY AttemptBounds DEF Init, RetryInv, RetryIsPolite, Phases

LEMMA RetryStep == RetryInv /\ [Next]_vars => RetryInv'
<1> SUFFICES ASSUME RetryInv, [Next]_vars PROVE RetryInv'
  OBVIOUS
<1>1. /\ MaxRetries \in Nat /\ MaxRetryAfter \in Nat /\ Absent <= MaxRetryAfter
      /\ Entropy \subseteq Nat /\ Guidance \subseteq Nat
  BY AttemptBounds DEF Absent
<1>2. CASE BeginAttempt
  BY <1>2 DEF BeginAttempt, RetryInv, RetryIsPolite, Phases, retryVars
<1>3. CASE Take
  BY <1>3 DEF Take, RetryInv, RetryIsPolite, retryVars
<1>4. ASSUME NEW w \in work,
             Assign(w) \/ Finish(w) \/ FetchFails(w) \/ CommitFails(w) \/ Leave(w)
      PROVE  RetryInv'
  <2>1. /\ UNCHANGED retryVars /\ phase' \in Phases
        /\ phase' = "waiting" => phase = "waiting"
    BY <1>4 DEF Assign, Finish, FetchFails, CommitFails, Leave, RetryInv, Phases
  <2> QED
    BY <2>1 DEF RetryInv, RetryIsPolite, retryVars
<1>5. CASE Stop
  BY <1>5 DEF Stop, RetryInv, RetryIsPolite, Phases, retryVars
<1>6. CASE SampleProgress
  BY <1>6 DEF SampleProgress, RetryInv, RetryIsPolite, retryVars
<1>7. CASE EndAttempt
  <2>1. CASE UNCHANGED retryVars /\ phase' \in {"complete", "refused", "stopped"}
    BY <2>1 DEF RetryInv, RetryIsPolite, Phases, retryVars
  <2>2. ASSUME NEW after \in Guidance \cup {Absent}, MayRetry(after), phase' = "waiting",
               ScheduleRetry(after)
        PROVE  RetryInv'
    <3>1. PICK entropy \in Entropy :
            /\ used' = used + 1
            /\ delay' = Guided(Jittered(DelayCeiling(used + 1), entropy), after)
            /\ guidance' = after
      BY <2>2 DEF ScheduleRetry
    <3>2. used + 1 \in 1 .. MaxRetries /\ after <= MaxRetryAfter
      BY <1>1, <2>2 DEF MayRetry, RetryInv
    <3>3. entropy \in Nat /\ after \in Nat \cup {Absent}
      BY <1>1
    <3>4. /\ delay' >= after /\ 2 * delay' + 1 >= DelayCeiling(used + 1)
          /\ delay' <= Max({MaxDelay, MaxRetryAfter})
      BY <3>1, <3>2, <3>3, DelayIs
    <3>5. DelayCeiling(used)' = DelayCeiling(used')
      BY DEF DelayCeiling
    <3>6. RetryIsPolite'
      BY <3>1, <3>2, <3>4, <3>5 DEF RetryIsPolite
    <3> QED
      BY <1>1, <2>2, <3>1, <3>2, <3>6 DEF RetryInv, Phases
  <2>3. ASSUME NEW after \in Guidance \cup {Absent}, phase' = "stopped", UNCHANGED used
        PROVE  RetryInv'
    BY <2>3 DEF RetryInv, RetryIsPolite, Phases
  <2> QED
    BY <1>7, <2>1, <2>2, <2>3 DEF EndAttempt
<1>8. CASE Waited
  BY <1>8 DEF Waited, RetryInv, RetryIsPolite, Phases
<1>9. CASE NextRun
  BY <1>1, <1>9 DEF NextRun, RetryInv, RetryIsPolite, Phases
<1>10. CASE UNCHANGED vars
  BY <1>10 DEF vars, retryVars, RetryInv, RetryIsPolite
<1> QED
  BY <1>2, <1>3, <1>4, <1>5, <1>6, <1>7, <1>8, <1>9, <1>10 DEF Next

\* A retry is never sooner than the server asks nor than half of the backoff of its number, and
\* never later than the greater of both limits: RetryPolicy::delay_for and run_task.
THEOREM RetriesAlwaysPolite == Spec => []RetryIsPolite
<1>1. RetryInv => RetryIsPolite
  BY DEF RetryInv
<1> QED
  BY <1>1, RetryInit, RetryStep, PTL DEF Spec

-----------------------------------------------------------------------------
(* Cutting requests *)

Ordered(list) == \A i, j \in DOMAIN list : i < j => list[i].end <= list[j].start

PieceOf(r, s) == s.start <= r.start /\ r.end <= s.end

LEMMA ApartFromPiece ==
  ASSUME NEW r \in Span, NEW s \in Span, NEW t \in Span, Apart(r, s), PieceOf(t, s)
  PROVE  Apart(r, t) /\ Apart(t, r)
BY SpanIs DEF Apart, PieceOf

LEMMA ApartTurned ==
  ASSUME NEW r, NEW s, Apart(r, s)
  PROVE  Apart(s, r)
BY DEF Apart

\* Ranges that are not apart have a byte in common.
LEMMA CommonByte ==
  ASSUME NEW r \in Span, NEW s \in Span, ~Apart(r, s)
  PROVE  \E byte \in Nat : In(byte, r) /\ In(byte, s)
<1> DEFINE byte == IF r.start <= s.start THEN s.start ELSE r.start
<1>1. byte \in Nat /\ In(byte, r) /\ In(byte, s)
  BY SpanIs DEF Apart, In
<1> QED
  BY <1>1

LEMMA NoCommonByte ==
  ASSUME NEW r \in Span, NEW s \in Span, Apart(r, s), NEW byte \in Nat, In(byte, r)
  PROVE  ~In(byte, s)
BY SpanIs DEF Apart, In

\* What is apart from a list and from a range is apart from the list that adds it.
LEMMA ApartFromAdded ==
  ASSUME NEW new \in Seq(Span), NEW old \in Seq(Span), NEW r \in Span, Adds(new, old, r),
         NEW s \in Span, Apart(s, r), \A k \in DOMAIN old : Apart(s, old[k])
  PROVE  \A k \in DOMAIN new : Apart(s, new[k])
<1> SUFFICES ASSUME NEW k \in DOMAIN new, ~Apart(s, new[k])
             PROVE  FALSE
  OBVIOUS
<1>1. new[k] \in Span
  BY ListIs
<1>2. PICK byte \in Nat : In(byte, s) /\ In(byte, new[k])
  BY <1>1, CommonByte
<1>3. Covers(old, byte) \/ In(byte, r)
  BY <1>2 DEF Adds, Covers
<1>4. ~In(byte, r)
  BY <1>2, SpanIs DEF Apart, In
<1>5. ASSUME NEW j \in DOMAIN old PROVE ~In(byte, old[j])
  <2>1. old[j] \in Span /\ Apart(s, old[j])
    BY ListIs
  <2> QED
    BY <1>2, <2>1, NoCommonByte
<1> QED
  BY <1>3, <1>4, <1>5 DEF Covers

\* pop_chunk cuts the first missing bytes off, and leaves the others.
LEMMA ChunkIs ==
  ASSUME NEW list \in Seq(Span), list # <<>>, Ordered(list), NEW n \in Nat \ {0}
  PROVE  LET c == Chunk(list, n)
             a == AfterChunk(list, n)
         IN /\ c \in Span /\ 1 \in DOMAIN list /\ PieceOf(c, list[1])
            /\ a \in Seq(Span) /\ Ordered(a) /\ Len(a) <= Len(list)
            /\ \A k \in DOMAIN a : /\ Apart(c, a[k])
                                   /\ \E j \in DOMAIN list : PieceOf(a[k], list[j])
            /\ \A byte \in Nat : Covers(list, byte) => In(byte, c) \/ Covers(a, byte)
<1> DEFINE m == Len(list)
           gap == list[1]
           split == gap.start + n < gap.end
           c == Chunk(list, n)
           a == AfterChunk(list, n)
           rest == [start |-> gap.start + n, end |-> gap.end]
<1>1. /\ m \in Nat /\ m >= 1 /\ DOMAIN list = 1 .. m /\ 1 \in 1 .. m
      /\ \A k \in 1 .. m : list[k] \in Span
      /\ \A k \in 1 .. m : /\ list[k].start \in Nat /\ list[k].end \in Nat
                           /\ list[k].start < list[k].end /\ list[k].end <= Total
      /\ Head(list) = gap /\ Total \in Nat
  BY ListIs, SpanIs, EmptySeq, HeadTailProperties, AttemptBounds
<1>2. c = [start |-> gap.start, end |-> IF split THEN gap.start + n ELSE gap.end]
  BY <1>1 DEF Chunk
<1>3. /\ c \in Span /\ PieceOf(c, gap) /\ c.start = gap.start
      /\ c.end = (IF split THEN gap.start + n ELSE gap.end)
  <2>1. /\ gap.start \in Nat /\ (IF split THEN gap.start + n ELSE gap.end) \in Nat
        /\ gap.start < (IF split THEN gap.start + n ELSE gap.end)
        /\ (IF split THEN gap.start + n ELSE gap.end) <= Total
        /\ (IF split THEN gap.start + n ELSE gap.end) <= gap.end
    BY <1>1
  <2> QED
    BY <1>2, <2>1, SpanMade DEF PieceOf
<1>4. /\ Tail(list) \in Seq(Span) /\ Len(Tail(list)) = m - 1
      /\ \A k \in 1 .. m - 1 : Tail(list)[k] = list[k + 1]
  BY <1>1, HeadTailProperties
<1>5. CASE split
  <2>1. a = <<rest>> \o Tail(list)
    BY <1>1, <1>5 DEF AfterChunk
  <2>2. rest \in Span /\ rest.start = c.end /\ rest.end = gap.end /\ gap.start < rest.start
    <3>1. gap.start + n \in Nat /\ gap.end \in Nat /\ gap.end <= Total
      BY <1>1
    <3> QED
      BY <1>1, <1>3, <1>5, <3>1, SpanMade
  <2>3. /\ a \in Seq(Span) /\ Len(a) = m /\ a[1] = rest
        /\ \A k \in 2 .. m : a[k] = list[k]
    <3> HIDE DEF rest, a
    <3>1. <<rest>> \in Seq(Span) /\ Len(<<rest>>) = 1 /\ <<rest>>[1] = rest
      BY <2>2
    <3>2. a \in Seq(Span) /\ Len(a) = 1 + (m - 1) /\ a[1] = rest
      BY <1>1, <1>4, <2>1, <3>1, ConcatProperties
    <3>3. ASSUME NEW k \in 2 .. m PROVE a[k] = list[k]
      <4>1. k \in 1 .. 1 + (m - 1) /\ ~(k <= 1) /\ k - 1 \in 1 .. m - 1 /\ (k - 1) + 1 = k
        BY <1>1
      <4>2. a[k] = Tail(list)[k - 1]
        BY <1>4, <2>1, <3>1, <4>1, ConcatProperties
      <4> QED
        BY <1>4, <4>1, <4>2
    <3> QED
      BY <1>1, <3>2, <3>3
  <2>4. \A k \in 1 .. m : k = 1 \/ k \in 2 .. m
    BY <1>1
  <2>5. DOMAIN a = 1 .. m
    BY <2>3, ListIs
  <2> HIDE DEF rest, a, c, m, gap
  <2>6. \A i, j \in 1 .. m : i < j => list[i].end <= list[j].start
    BY <1>1 DEF Ordered, m
  <2>7. ASSUME NEW k \in 1 .. m
        PROVE  /\ Apart(c, a[k]) /\ PieceOf(a[k], list[k])
               /\ a[k].start \in Nat /\ a[k].end = list[k].end /\ list[k].start <= a[k].start
    <3>1. CASE k = 1
      BY <1>1, <1>3, <2>2, <2>3, <3>1 DEF Apart, PieceOf, gap
    <3>2. CASE k \in 2 .. m
      <4>1. gap.end <= list[k].start
        BY <1>1, <2>6, <3>2 DEF gap
      <4> QED
        BY <1>1, <1>3, <2>3, <3>2, <4>1 DEF Apart, PieceOf
    <3> QED
      BY <2>4, <3>1, <3>2
  <2>8. Ordered(a)
    <3>1. ASSUME NEW i \in 1 .. m, NEW j \in 1 .. m, i < j
          PROVE  a[i].end <= a[j].start
      <4>1. /\ a[i].end = list[i].end /\ list[j].start <= a[j].start /\ a[j].start \in Nat
            /\ list[i].end <= list[j].start /\ list[i].end \in Nat /\ list[j].start \in Nat
        BY <1>1, <2>6, <2>7, <3>1
      <4> QED
        BY <4>1
    <3> QED
      BY <2>5, <3>1 DEF Ordered
  <2>9. ASSUME NEW byte \in Nat, Covers(list, byte)
        PROVE  In(byte, c) \/ Covers(a, byte)
    <3>1. PICK k \in 1 .. m : In(byte, list[k])
      BY <1>1, <2>9 DEF Covers
    <3>2. CASE k = 1
      <4>1. In(byte, c) \/ In(byte, a[1])
        BY <1>1, <1>3, <1>5, <2>2, <2>3, <3>1, <3>2 DEF In, gap
      <4> QED
        BY <1>1, <2>5, <4>1 DEF Covers
    <3>3. CASE k \in 2 .. m
      BY <2>3, <2>5, <3>1, <3>3 DEF Covers
    <3> QED
      BY <2>4, <3>2, <3>3
  <2> QED
    BY <1>1, <1>3, <2>3, <2>5, <2>7, <2>8, <2>9 DEF m, gap, a, c
<1>6. CASE ~split
  <2>1. a = Tail(list)
    BY <1>1, <1>6 DEF AfterChunk
  <2> HIDE DEF rest, a
  <2>2. /\ a \in Seq(Span) /\ Len(a) = m - 1 /\ DOMAIN a = 1 .. m - 1
        /\ \A k \in 1 .. m - 1 : a[k] = list[k + 1] /\ k + 1 \in 1 .. m /\ 1 < k + 1
    <3>1. DOMAIN a = 1 .. Len(a)
      BY <1>4, <2>1, ListIs
    <3> QED
      BY <1>1, <1>4, <2>1, <3>1
  <2>3. c.start = gap.start /\ c.end = gap.end
    BY <1>3, <1>6
  <2> HIDE DEF c, m, gap
  <2>4. \A i, j \in 1 .. m : i < j => list[i].end <= list[j].start
    BY <1>1 DEF Ordered, m
  <2>5. ASSUME NEW k \in 1 .. m - 1
        PROVE  /\ Apart(c, a[k]) /\ PieceOf(a[k], list[k + 1]) /\ k + 1 \in 1 .. m
    BY <1>1, <2>2, <2>3, <2>4 DEF Apart, PieceOf, gap
  <2>6. Ordered(a)
    BY <1>1, <2>2, <2>4 DEF Ordered
  <2>7. ASSUME NEW byte \in Nat, Covers(list, byte)
        PROVE  In(byte, c) \/ Covers(a, byte)
    <3>1. PICK k \in 1 .. m : In(byte, list[k])
      BY <1>1, <2>7 DEF Covers
    <3>2. CASE k = 1
      BY <1>1, <2>3, <3>1, <3>2 DEF In, gap
    <3>3. CASE k # 1
      <4>1. k - 1 \in 1 .. m - 1 /\ (k - 1) + 1 = k
        BY <1>1, <3>3
      <4> QED
        BY <2>2, <3>1, <4>1 DEF Covers
    <3> QED
      BY <3>2, <3>3
  <2>8. m - 1 <= m
    BY <1>1
  <2> QED
    BY <1>1, <1>3, <2>2, <2>5, <2>6, <2>7, <2>8 DEF m, gap, a, c
<1> QED
  BY <1>5, <1>6

\* The size of a request is at least one byte.
LEMMA PlanIs ==
  ASSUME NEW list \in Seq(Span), NEW count \in Nat \ {0}
  PROVE  /\ SizeOf(list) \in Nat
         /\ RequestChunkSize(SizeOf(list), count) \in Nat \ {0}
<1> DEFINE t == SizeOf(list)
           b == count * ChunksPerWorker
           i == Ceiling(t, b)
<1>1. t \in Nat
  <2>1. PICK sum : /\ sum[Len(list)] = SizeOf(list)
                   /\ \A k \in 0 .. Len(list) : sum[k] \in Nat
    BY SizeOfAdds
  <2>2. Len(list) \in 0 .. Len(list)
    BY ListIs
  <2> QED
    BY <2>1, <2>2
<1> HIDE DEF t
<1>2. b \in Nat \ {0}
  BY RequestBounds
<1> HIDE DEF b
<1>3. i \in Nat
  <2>1. t + b - 1 \in Nat
    BY <1>1, <1>2
  <2> QED
    BY <1>2, <2>1, DivIs DEF Ceiling
<1>4. RequestChunkSize(t, count)
        = IF i < MinRequest THEN MinRequest ELSE IF i > MaxRequest THEN MaxRequest ELSE i
  BY DEF RequestChunkSize, b
<1> HIDE DEF i
<1>5. RequestChunkSize(t, count) \in Nat \ {0}
  BY <1>3, <1>4, RequestBounds
<1> QED
  BY <1>1, <1>5 DEF t

-----------------------------------------------------------------------------
(* The division of the file *)

ApartAll(done, chunks, gaps) ==
  /\ \A v, w \in chunks : v # w => Apart(v.range, w.range)
  /\ \A w \in chunks, k \in DOMAIN done : Apart(w.range, done[k])
  /\ \A w \in chunks, k \in DOMAIN gaps : Apart(w.range, gaps[k])
  /\ \A i \in DOMAIN gaps, k \in DOMAIN done : Apart(gaps[i], done[k])

CoversAll(done, chunks, gaps) ==
  \A byte \in 0 .. Total - 1 :
    Covers(done, byte) \/ (\E w \in chunks : In(byte, w.range)) \/ Covers(gaps, byte)

Chunks == [range : Span, assigned : BOOLEAN]

CutType ==
  /\ phase \in Phases
  /\ completed \in Seq(Span) /\ Separated(completed)
  /\ pending \in Seq(Span) /\ Ordered(pending)
  /\ work \in SUBSET Chunks /\ IsFiniteSet(work)
  /\ size \in Nat \ {0} /\ workers \in {1, 2, 4, 8} /\ workers <= Workers
  /\ phase \notin {"transferring", "ending"} => work = {} /\ pending = <<>>

Cut ==
  /\ CutType
  /\ ApartAll(completed, work, pending)
  /\ phase = "transferring" => CoversAll(completed, work, pending)

LEMMA EmptyList ==
  /\ <<>> \in Seq(Span) /\ Len(<<>>) = 0 /\ DOMAIN <<>> = {}
  /\ Separated(<<>>) /\ Ordered(<<>>)
<1>1. <<>> \in Seq(Span) /\ Len(<<>>) = 0
  OBVIOUS
<1>2. DOMAIN <<>> = {}
  OBVIOUS
<1> QED
  BY <1>1, <1>2 DEF Separated, Ordered

LEMMA CutInit == Init => Cut
<1> SUFFICES ASSUME Init PROVE Cut
  OBVIOUS
<1>1. /\ phase = "ready" /\ completed = <<>> /\ work = {} /\ pending = <<>>
      /\ size = MinRequest /\ workers = Workers
  BY DEF Init
<1>2. CutType
  <2>1. /\ size \in Nat \ {0} /\ workers \in {1, 2, 4, 8} /\ workers <= Workers
    BY <1>1, RequestBounds, AttemptBounds
  <2>2. work \in SUBSET Chunks /\ IsFiniteSet(work)
    BY <1>1, FS_EmptySet
  <2> QED
    BY <1>1, <2>1, <2>2, EmptyList DEF CutType, Phases
<1>3. ApartAll(completed, work, pending)
  BY <1>1, EmptyList DEF ApartAll
<1> QED
  BY <1>1, <1>2, <1>3 DEF Cut

LEMMA CutBegin == Cut /\ BeginAttempt => Cut'
<1> SUFFICES ASSUME Cut, BeginAttempt PROVE Cut'
  OBVIOUS
<1> DEFINE plan == RequestChunkSize(SizeOf(Missing), workers)
<1>1. /\ phase = "ready" /\ UNCHANGED <<completed, work, workers>>
      /\ \/ phase' = "transferring" /\ pending' = Missing /\ size' = plan
         \/ phase' = "refused" /\ UNCHANGED <<pending, size>>
  BY DEF BeginAttempt, retryVars
<1>2. work = {} /\ pending = <<>>
  BY <1>1 DEF Cut, CutType
<1>3. /\ Missing \in Seq(Span) /\ Separated(Missing)
      /\ \A i \in DOMAIN Missing, k \in DOMAIN completed : Apart(Missing[i], completed[k])
      /\ \A byte \in 0 .. Total - 1 : Covers(completed, byte) \/ Covers(Missing, byte)
  BY MissingIs DEF Missing, Cut, CutType
<1>4. plan \in Nat \ {0}
  <2>1. workers \in Nat \ {0}
    BY DEF Cut, CutType
  <2> QED
    BY <1>3, <2>1, PlanIs
<1>5. Ordered(Missing)
  <2>1. ASSUME NEW i \in DOMAIN Missing, NEW j \in DOMAIN Missing, i < j
        PROVE  Missing[i].end <= Missing[j].start
    <3>1. Missing[i].end < Missing[j].start
      BY <1>3, <2>1 DEF Separated
    <3>2. Missing[i].end \in Nat /\ Missing[j].start \in Nat
      BY <1>3, ListIs, SpanIs
    <3> QED
      BY <3>1, <3>2
  <2> QED
    BY <2>1 DEF Ordered
<1>6. CASE phase' = "transferring" /\ pending' = Missing /\ size' = plan
  <2>1. CutType'
    BY <1>1, <1>3, <1>4, <1>5, <1>6 DEF Cut, CutType, Phases
  <2>2. ApartAll(completed, work, pending)'
    BY <1>1, <1>2, <1>3, <1>6 DEF ApartAll
  <2>3. CoversAll(completed, work, pending)'
    BY <1>1, <1>3, <1>6 DEF CoversAll
  <2> QED
    BY <2>1, <2>2, <2>3 DEF Cut
<1>7. CASE phase' = "refused" /\ UNCHANGED <<pending, size>>
  <2>1. CutType'
    BY <1>1, <1>2, <1>7 DEF Cut, CutType, Phases
  <2>2. ApartAll(completed, work, pending)'
    BY <1>1, <1>7 DEF Cut
  <2> QED
    BY <1>7, <2>1, <2>2 DEF Cut
<1> QED
  BY <1>1, <1>6, <1>7

LEMMA CutTake == Cut /\ Take => Cut'
<1> SUFFICES ASSUME Cut, Take PROVE Cut'
  OBVIOUS
<1> DEFINE c == Chunk(pending, size)
           a == AfterChunk(pending, size)
           v == [range |-> c, assigned |-> FALSE]
<1>1. /\ phase = "transferring" /\ pending # <<>>
      /\ work' = work \cup {v} /\ pending' = a
      /\ UNCHANGED <<phase, completed, size, workers>>
  BY DEF Take, retryVars
<1> HIDE DEF a, c
<1>2. /\ c \in Span /\ 1 \in DOMAIN pending /\ PieceOf(c, pending[1])
      /\ a \in Seq(Span) /\ Ordered(a)
      /\ \A k \in DOMAIN a : /\ Apart(c, a[k])
                             /\ \E j \in DOMAIN pending : PieceOf(a[k], pending[j])
      /\ \A byte \in Nat : Covers(pending, byte) => In(byte, c) \/ Covers(a, byte)
  BY <1>1, ChunkIs DEF Cut, CutType, c, a
<1>3. v \in Chunks /\ v.range = c
  BY <1>2 DEF Chunks
<1> HIDE DEF v
<1>4. CutType'
  <2>1. IsFiniteSet(work')
    BY <1>1, FS_AddElement DEF Cut, CutType
  <2> QED
    BY <1>1, <1>2, <1>3, <2>1 DEF Cut, CutType, Phases
<1>5. /\ \A w \in work : w.range \in Span
      /\ \A k \in DOMAIN completed : completed[k] \in Span
      /\ \A k \in DOMAIN pending : pending[k] \in Span
      /\ \A k \in DOMAIN a : a[k] \in Span
      /\ ApartAll(completed, work, pending)
  BY <1>2, ListIs DEF Cut, CutType, Chunks
<1>6. ApartAll(completed, work, pending)'
  <2>1. ASSUME NEW w \in work PROVE Apart(c, w.range) /\ Apart(w.range, c)
    <3>1. Apart(w.range, pending[1])
      BY <1>2, <1>5 DEF ApartAll
    <3> QED
      BY <1>2, <1>5, <3>1, ApartFromPiece
  <2>2. ASSUME NEW k \in DOMAIN completed PROVE Apart(c, completed[k])
    <3>1. Apart(completed[k], pending[1])
      BY <1>2, <1>5, ApartTurned DEF ApartAll
    <3> QED
      BY <1>2, <1>5, <3>1, ApartFromPiece
  <2>3. ASSUME NEW w \in work, NEW k \in DOMAIN a PROVE Apart(w.range, a[k])
    <3>1. PICK j \in DOMAIN pending : PieceOf(a[k], pending[j])
      BY <1>2
    <3>2. Apart(w.range, pending[j])
      BY <1>5 DEF ApartAll
    <3> QED
      BY <1>5, <3>1, <3>2, ApartFromPiece
  <2>4. ASSUME NEW i \in DOMAIN a, NEW k \in DOMAIN completed PROVE Apart(a[i], completed[k])
    <3>1. PICK j \in DOMAIN pending : PieceOf(a[i], pending[j])
      BY <1>2
    <3>2. Apart(completed[k], pending[j])
      BY <1>5, ApartTurned DEF ApartAll
    <3> QED
      BY <1>5, <3>1, <3>2, ApartFromPiece
  <2>5. ASSUME NEW x \in work', NEW y \in work', x # y PROVE Apart(x.range, y.range)
    BY <1>1, <1>3, <1>5, <2>1, <2>5 DEF ApartAll
  <2>6. \A w \in work', k \in DOMAIN completed : Apart(w.range, completed[k])
    BY <1>1, <1>3, <1>5, <2>2 DEF ApartAll
  <2>7. \A w \in work', k \in DOMAIN a : Apart(w.range, a[k])
    BY <1>1, <1>2, <1>3, <2>3
  <2> QED
    BY <1>1, <2>4, <2>5, <2>6, <2>7 DEF ApartAll
<1>7. CoversAll(completed, work, pending)'
  <2>1. ASSUME NEW byte \in 0 .. Total - 1
        PROVE  \/ Covers(completed, byte) \/ \E w \in work' : In(byte, w.range)
               \/ Covers(a, byte)
    <3>1. byte \in Nat
      BY AttemptBounds
    <3>2. Covers(completed, byte) \/ (\E w \in work : In(byte, w.range)) \/ Covers(pending, byte)
      BY <1>1 DEF Cut, CoversAll
    <3> QED
      BY <1>1, <1>2, <1>3, <3>1, <3>2
  <2> QED
    BY <1>1, <2>1 DEF CoversAll
<1> QED
  BY <1>4, <1>6, <1>7 DEF Cut

LEMMA CutAssign == ASSUME Cut, NEW w \in work, Assign(w) PROVE Cut'
<1> DEFINE v == [w EXCEPT !.assigned = TRUE]
<1>1. /\ work' = (work \ {w}) \cup {v}
      /\ UNCHANGED <<phase, completed, pending, size, workers>> /\ phase = "transferring"
  BY DEF Assign, retryVars
<1>2. v \in Chunks /\ v.range = w.range
  BY DEF Cut, CutType, Chunks
<1> HIDE DEF v
<1>3. CutType'
  <2>1. IsFiniteSet(work')
    BY <1>1, FS_AddElement, FS_RemoveElement DEF Cut, CutType
  <2> QED
    BY <1>1, <1>2, <2>1 DEF Cut, CutType
<1>4. ASSUME NEW x \in work'
      PROVE  \E y \in work : x.range = y.range /\ (y = w <=> x = v)
  <2>1. CASE x = v
    BY <1>2, <2>1
  <2>2. CASE x # v
    BY <1>1, <2>2
  <2> QED
    BY <2>1, <2>2
<1>5. ApartAll(completed, work, pending)'
  <2>1. ASSUME NEW x \in work', NEW y \in work', x # y PROVE Apart(x.range, y.range)
    <3>1. CASE x = v
      BY <1>1, <1>2, <2>1, <3>1 DEF Cut, ApartAll
    <3>2. CASE y = v
      BY <1>1, <1>2, <2>1, <3>2 DEF Cut, ApartAll
    <3>3. CASE x # v /\ y # v
      BY <1>1, <2>1, <3>3 DEF Cut, ApartAll
    <3> QED
      BY <3>1, <3>2, <3>3
  <2>2. ASSUME NEW x \in work'
        PROVE  /\ \A k \in DOMAIN completed : Apart(x.range, completed[k])
               /\ \A k \in DOMAIN pending : Apart(x.range, pending[k])
    BY <1>4 DEF Cut, ApartAll
  <2>3. \A i \in DOMAIN pending, k \in DOMAIN completed : Apart(pending[i], completed[k])
    BY DEF Cut, ApartAll
  <2> QED
    BY <1>1, <2>1, <2>2, <2>3 DEF ApartAll
<1>6. CoversAll(completed, work, pending)'
  <2>1. \A y \in work : \E x \in work' : x.range = y.range
    BY <1>1, <1>2
  <2> QED
    BY <1>1, <2>1 DEF Cut, CoversAll
<1> QED
  BY <1>3, <1>5, <1>6 DEF Cut

LEMMA CutFinish == ASSUME Cut, NEW w \in work, Finish(w) PROVE Cut'
<1> DEFINE new == InsertCompleted(completed, w.range)
<1>1. /\ completed' = new /\ work' = work \ {w}
      /\ UNCHANGED <<phase, pending, size, workers>>
  BY DEF Finish, retryVars
<1>2. /\ w.range \in Span /\ completed \in Seq(Span) /\ Separated(completed)
      /\ \A x \in work : x.range \in Span
      /\ \A k \in DOMAIN pending : pending[k] \in Span
      /\ ApartAll(completed, work, pending)
  BY ListIs DEF Cut, CutType, Chunks
<1>3. new \in Seq(Span) /\ Separated(new) /\ Adds(new, completed, w.range)
  BY <1>2, InsertIs DEF ApartAll
<1> HIDE DEF new
<1>4. CutType'
  <2>1. IsFiniteSet(work')
    BY <1>1, FS_RemoveElement DEF Cut, CutType
  <2> QED
    BY <1>1, <1>3, <2>1 DEF Cut, CutType
<1>5. ApartAll(completed, work, pending)'
  <2>1. ASSUME NEW x \in work' PROVE \A k \in DOMAIN new : Apart(x.range, new[k])
    <3>1. Apart(x.range, w.range) /\ \A k \in DOMAIN completed : Apart(x.range, completed[k])
      BY <1>1, <1>2 DEF ApartAll
    <3> QED
      BY <1>1, <1>2, <1>3, <3>1, ApartFromAdded
  <2>2. ASSUME NEW i \in DOMAIN pending PROVE \A k \in DOMAIN new : Apart(pending[i], new[k])
    <3>1. Apart(pending[i], w.range) /\ \A k \in DOMAIN completed : Apart(pending[i], completed[k])
      BY <1>2, ApartTurned DEF ApartAll
    <3> QED
      BY <1>2, <1>3, <3>1, ApartFromAdded
  <2> QED
    BY <1>1, <1>2, <2>1, <2>2 DEF ApartAll
<1>6. phase = "transferring" => CoversAll(completed, work, pending)'
  <2>1. ASSUME phase = "transferring", NEW byte \in 0 .. Total - 1
        PROVE  \/ Covers(new, byte) \/ \E x \in work' : In(byte, x.range)
               \/ Covers(pending, byte)
    <3>1. byte \in Nat
      BY AttemptBounds
    <3>2. Covers(completed, byte) \/ (\E x \in work : In(byte, x.range)) \/ Covers(pending, byte)
      BY <2>1 DEF Cut, CoversAll
    <3>3. Covers(completed, byte) \/ In(byte, w.range) => Covers(new, byte)
      BY <1>3, <3>1 DEF Adds
    <3> QED
      BY <1>1, <3>2, <3>3
  <2> QED
    BY <1>1, <2>1 DEF CoversAll
<1> QED
  BY <1>1, <1>4, <1>5, <1>6 DEF Cut

\* A chunk that is dropped ends the attempt, or the attempt is ending already.
LEMMA CutDrop ==
  ASSUME Cut, NEW w \in work, FetchFails(w) \/ CommitFails(w) \/ Leave(w)
  PROVE  Cut'
<1>1. /\ work' = work \ {w} /\ phase' = "ending"
      /\ UNCHANGED <<completed, pending, size, workers>>
  BY DEF FetchFails, CommitFails, Leave, retryVars
<1>2. CutType'
  <2>1. IsFiniteSet(work')
    BY <1>1, FS_RemoveElement DEF Cut, CutType
  <2> QED
    BY <1>1, <2>1 DEF Cut, CutType, Phases
<1>3. ApartAll(completed, work, pending)'
  BY <1>1 DEF Cut, ApartAll
<1> QED
  BY <1>1, <1>2, <1>3 DEF Cut

\* Steps that leave the coverage, the chunks and the gaps alone, or forget them
LEMMA CutKeeps ==
  ASSUME Cut, Stop \/ SampleProgress \/ Waited \/ NextRun \/ UNCHANGED vars
  PROVE  Cut'
<1>1. /\ UNCHANGED <<completed, work, pending, size>> /\ phase' \in Phases
      /\ phase' = "transferring" => phase = "transferring"
      /\ phase' \notin {"transferring", "ending"} =>
           phase \notin {"transferring", "ending"}
      /\ workers' \in {workers, Workers}
  BY DEF Stop, SampleProgress, Waited, NextRun, vars, attemptVars, retryVars, Phases, Cut, CutType
<1>2. workers' \in {1, 2, 4, 8} /\ workers' <= Workers
  BY <1>1, AttemptBounds DEF Cut, CutType
<1> QED
  BY <1>1, <1>2 DEF Cut, CutType, Phases

LEMMA CutEnd == Cut /\ EndAttempt => Cut'
<1> SUFFICES ASSUME Cut, EndAttempt PROVE Cut'
  OBVIOUS
<1>1. /\ work' = {} /\ pending' = <<>> /\ UNCHANGED <<completed, size>>
      /\ phase' \in {"complete", "refused", "stopped", "waiting"}
      /\ workers' = workers \/ workers' = Halved(workers)
  BY DEF EndAttempt, retryVars
<1>2. workers' \in {1, 2, 4, 8} /\ workers' <= Workers
  <2>1. workers \in {1, 2, 4, 8} /\ workers <= Workers /\ Workers \in Nat
    BY AttemptBounds DEF Cut, CutType
  <2>2. 2 \div 2 = 1 /\ 4 \div 2 = 2 /\ 8 \div 2 = 4
    OBVIOUS
  <2>3. Halved(workers) \in {1, 2, 4} /\ Halved(workers) <= workers
    BY <2>1, <2>2 DEF Halved
  <2> QED
    BY <1>1, <2>1, <2>3
<1>3. CutType'
  BY <1>1, <1>2, EmptyList, FS_EmptySet DEF Cut, CutType, Phases
<1>4. ApartAll(completed, work, pending)'
  BY <1>1, EmptyList DEF ApartAll
<1> QED
  BY <1>1, <1>3, <1>4 DEF Cut

LEMMA CutStep == Cut /\ [Next]_vars => Cut'
BY CutBegin, CutTake, CutAssign, CutFinish, CutDrop, CutKeeps, CutEnd DEF Next

LEMMA CutAlways == Spec => []Cut
BY CutInit, CutStep, PTL DEF Spec

\* Each byte is in exactly one part.
LEMMA CutExact == Cut => WorkIsExact
<1> SUFFICES ASSUME Cut, phase = "transferring", NEW byte \in 0 .. Total - 1
             PROVE  LET parts == {[kind |-> "completed", of |-> completed[k]] : k \in DOMAIN completed}
                                 \cup {[kind |-> "work", of |-> w.range] : w \in work}
                                 \cup {[kind |-> "pending", of |-> pending[k]] : k \in DOMAIN pending}
                    IN Cardinality({p \in parts : byte \in Bytes(p.of)}) = 1
  BY DEF WorkIsExact
<1> DEFINE C == {[kind |-> "completed", of |-> completed[k]] : k \in DOMAIN completed}
           W == {[kind |-> "work", of |-> w.range] : w \in work}
           P == {[kind |-> "pending", of |-> pending[k]] : k \in DOMAIN pending}
           parts == C \cup W \cup P
           here == {p \in parts : byte \in Bytes(p.of)}
<1>1. /\ byte \in Nat
      /\ DOMAIN completed = 1 .. Len(completed) /\ DOMAIN pending = 1 .. Len(pending)
      /\ Len(completed) \in Nat /\ Len(pending) \in Nat
      /\ \A k \in DOMAIN completed : completed[k] \in Span
      /\ \A k \in DOMAIN pending : pending[k] \in Span
      /\ \A w \in work : w.range \in Span
      /\ ApartAll(completed, work, pending) /\ CoversAll(completed, work, pending)
      /\ Separated(completed) /\ Ordered(pending)
  BY ListIs, AttemptBounds DEF Cut, CutType, Chunks
<1>2. \A r \in Span : byte \in Bytes(r) <=> In(byte, r)
  BY <1>1, SpanIs DEF Bytes, In
<1>3. \A r, s \in Span : In(byte, r) /\ In(byte, s) => ~Apart(r, s)
  BY <1>1, NoCommonByte
<1>4. \A j, k \in DOMAIN completed : In(byte, completed[j]) /\ In(byte, completed[k]) => j = k
  <2>1. ASSUME NEW j \in DOMAIN completed, NEW k \in DOMAIN completed, j < k
        PROVE  ~(In(byte, completed[j]) /\ In(byte, completed[k]))
    <3>1. completed[j].end < completed[k].start
      BY <1>1, <2>1 DEF Separated
    <3> QED
      BY <1>1, <3>1, SpanIs DEF In
  <2>2. ASSUME NEW j \in DOMAIN completed, NEW k \in DOMAIN completed
        PROVE  j < k \/ k < j \/ j = k
    BY <1>1
  <2> QED
    BY <2>1, <2>2
<1>5. \A j, k \in DOMAIN pending : In(byte, pending[j]) /\ In(byte, pending[k]) => j = k
  <2>1. ASSUME NEW j \in DOMAIN pending, NEW k \in DOMAIN pending, j < k
        PROVE  ~(In(byte, pending[j]) /\ In(byte, pending[k]))
    <3>1. pending[j].end <= pending[k].start
      BY <1>1, <2>1 DEF Ordered
    <3> QED
      BY <1>1, <3>1, SpanIs DEF In
  <2>2. ASSUME NEW j \in DOMAIN pending, NEW k \in DOMAIN pending
        PROVE  j < k \/ k < j \/ j = k
    BY <1>1
  <2> QED
    BY <2>1, <2>2
<1>6. ASSUME NEW p \in here
      PROVE  \/ \E k \in DOMAIN completed : /\ p = [kind |-> "completed", of |-> completed[k]]
                                            /\ In(byte, completed[k])
             \/ \E w \in work : p = [kind |-> "work", of |-> w.range] /\ In(byte, w.range)
             \/ \E k \in DOMAIN pending : /\ p = [kind |-> "pending", of |-> pending[k]]
                                          /\ In(byte, pending[k])
  BY <1>1, <1>2
<1>7. \E p : p \in here
  <2>1. CASE Covers(completed, byte)
    <3>1. PICK k \in DOMAIN completed : In(byte, completed[k])
      BY <2>1 DEF Covers
    <3>2. [kind |-> "completed", of |-> completed[k]] \in here
      BY <1>1, <1>2, <3>1
    <3> QED
      BY <3>2
  <2>2. CASE \E w \in work : In(byte, w.range)
    <3>1. PICK w \in work : In(byte, w.range)
      BY <2>2
    <3>2. [kind |-> "work", of |-> w.range] \in here
      BY <1>1, <1>2, <3>1
    <3> QED
      BY <3>2
  <2>3. CASE Covers(pending, byte)
    <3>1. PICK k \in DOMAIN pending : In(byte, pending[k])
      BY <2>3 DEF Covers
    <3>2. [kind |-> "pending", of |-> pending[k]] \in here
      BY <1>1, <1>2, <3>1
    <3> QED
      BY <3>2
  <2> QED
    BY <1>1, <2>1, <2>2, <2>3 DEF CoversAll
<1> HIDE DEF here
<1>8. ASSUME NEW p \in here, NEW q \in here PROVE p = q
  <2>1. /\ \A k \in DOMAIN completed, w \in work : ~(In(byte, completed[k]) /\ In(byte, w.range))
        /\ \A k \in DOMAIN pending, w \in work : ~(In(byte, pending[k]) /\ In(byte, w.range))
        /\ \A i \in DOMAIN pending, k \in DOMAIN completed :
             ~(In(byte, pending[i]) /\ In(byte, completed[k]))
        /\ \A v, w \in work : In(byte, v.range) /\ In(byte, w.range) => v = w
    BY <1>1, <1>3 DEF ApartAll
  <2> QED
    BY <1>4, <1>5, <1>6, <2>1
<1>9. PICK p : p \in here
  BY <1>7
<1>10. here = {p}
  BY <1>8, <1>9
<1>11. Cardinality(here) = 1
  BY <1>10, FS_Singleton
<1> QED
  BY <1>11 DEF here

\* While an attempt runs, what is covered, what is in flight and what is still to be requested
\* divide the file, however often attempts and runs before it ended early: missing_ranges,
\* pop_chunk, PartialFile::assign and insert_completed never lose a byte nor count one twice.
THEOREM WorkAlwaysExact == Spec => []WorkIsExact
BY CutAlways, CutExact, PTL

-----------------------------------------------------------------------------
(* The samples of the estimator *)

Sample == [age : Nat, bytes : Nat]

Longest == Max(Steps \cup {0})

\* Samples in the order they were taken, at most Longest apart, the last of them just now
Sampling(list) ==
  /\ \A i, j \in DOMAIN list : i < j => /\ list[j].age < list[i].age
                                        /\ list[i].bytes <= list[j].bytes
  /\ \A k \in 2 .. Len(list) : list[k - 1].age <= list[k].age + Longest
  /\ list # <<>> => list[Len(list)].age = 0

\* ... that reach back no further than they need to
Window(list) ==
  Sampling(list) /\ (list # <<>> => list[1].age <= SpeedWindow + Longest)

LEMMA LongestIs ==
  /\ Longest \in Nat /\ \A t \in Steps : t <= Longest
  /\ Far = SpeedWindow + 2 * Longest + 1 /\ Far \in Nat /\ SpeedWindow + Longest < Far
<1>1. IsFiniteSet(Steps \cup {0}) /\ Steps \cup {0} \subseteq Int /\ Steps \cup {0} # {}
  BY AttemptBounds, FS_AddElement
<1>2. Longest \in Steps \cup {0} /\ \A t \in Steps \cup {0} : t <= Longest
  BY <1>1, GreatestOf DEF Longest
<1>3. Longest \in Nat
  BY <1>2, AttemptBounds
<1>4. SpeedWindow \in Nat
  BY RateBounds
<1>5. Far = SpeedWindow + 2 * Longest + 1
  BY DEF Far, Longest
<1> QED
  BY <1>2, <1>3, <1>4, <1>5

LEMMA SamplesAre ==
  ASSUME NEW list \in Seq(Sample)
  PROVE  /\ Len(list) \in Nat /\ DOMAIN list = 1 .. Len(list)
         /\ \A k \in 1 .. Len(list) : /\ list[k] \in Sample /\ list[k].age \in Nat
                                      /\ list[k].bytes \in Nat
         /\ list # <<>> => Len(list) >= 1 /\ Len(list) \in 1 .. Len(list)
         /\ list = <<>> => Len(list) = 0
<1>1. Len(list) \in Nat /\ DOMAIN list = 1 .. Len(list) /\ list \in [1 .. Len(list) -> Sample]
  BY LenProperties
<1>2. list # <<>> => Len(list) # 0
  BY EmptySeq
<1> QED
  BY <1>1, <1>2 DEF Sample

\* trim keeps the samples that reach back over the window, and at most one that is older.
LEMMA TrimmedIs ==
  ASSUME NEW list \in Seq(Sample), list # <<>>, Sampling(list)
  PROVE  /\ Trimmed(list) \in Seq(Sample) /\ Trimmed(list) # <<>> /\ Window(Trimmed(list))
         /\ Trimmed(list)[1].age <= list[1].age
<1> DEFINE n == Len(list)
           spare(m) == m = 0 \/ (n - m >= 2 /\ list[m + 1].age > SpeedWindow)
           D == {m \in 0 .. n - 1 : \A l \in 0 .. m : spare(l)}
           drop == Max(D)
           over == Max({0, n - drop - MaxSamples})
           d == drop + over
           new == SubSeq(list, d + 1, n)
<1>1. /\ n \in Nat /\ n >= 1 /\ DOMAIN list = 1 .. n /\ n - 1 \in Nat
      /\ \A k \in 1 .. n : /\ list[k] \in Sample /\ list[k].age \in Nat /\ list[k].bytes \in Nat
      /\ SpeedWindow \in Nat /\ MaxSamples \in Nat /\ MaxSamples > 2
      /\ Longest \in Nat
  BY SamplesAre, RateBounds, LongestIs
<1>2. Trimmed(list) = new
  BY DEF Trimmed
<1>3. 0 \in D
  BY <1>1
<1>4. drop \in D
  <2> HIDE DEF D
  <2>1. D \subseteq 0 .. n - 1
    BY DEF D
  <2> QED
    BY <1>1, <1>3, <2>1, GreatestUpTo
<1>5. \A m \in D : m <= drop
  <2> HIDE DEF D
  <2>1. D \subseteq 0 .. n - 1
    BY DEF D
  <2> QED
    BY <1>1, <1>3, <2>1, GreatestUpTo
<1>6. drop \in 0 .. n - 1 /\ \A l \in 0 .. drop : spare(l)
  BY <1>4
<1>7. drop + 1 \in 0 .. n - 1 => ~spare(drop + 1)
  <2>1. SUFFICES ASSUME drop + 1 \in 0 .. n - 1, spare(drop + 1) PROVE FALSE
    OBVIOUS
  <2>2. \A l \in 0 .. drop + 1 : l \in 0 .. drop \/ l = drop + 1
    BY <1>1, <1>6
  <2>3. drop + 1 \in D
    <3> HIDE DEF drop, spare
    <3> QED
      BY <1>6, <2>1, <2>2
  <2> HIDE DEF D
  <2>4. drop + 1 <= drop
    BY <1>5, <2>3
  <2> HIDE DEF drop
  <2> QED
    BY <1>1, <1>6, <2>4
<1> HIDE DEF drop, D, n
<1>8a. \A i, j \in 1 .. n : i < j => list[j].age < list[i].age /\ list[i].bytes <= list[j].bytes
  BY <1>1 DEF Sampling
<1>8. over \in Nat /\ d \in 0 .. n - 1 /\ drop <= d
  <2>1. over = IF 0 <= n - drop - MaxSamples THEN n - drop - MaxSamples ELSE 0
    BY <1>1, <1>6, GreatestOfTwo
  <2> HIDE DEF over
  <2> QED
    BY <1>1, <1>6, <2>1
<1> HIDE DEF over
<1>9. d + 2 \in 1 .. n => list[d + 2].age <= SpeedWindow
  <2>1. SUFFICES ASSUME d + 2 \in 1 .. n PROVE list[d + 2].age <= SpeedWindow
    OBVIOUS
  <2>2. drop + 1 \in 0 .. n - 1 /\ drop + 2 \in 1 .. n /\ drop + 1 # 0 /\ (drop + 1) + 1 = drop + 2
    BY <1>1, <1>6, <1>8, <2>1
  <2>3. n - (drop + 1) < 2 \/ list[drop + 2].age <= SpeedWindow
    BY <1>1, <1>6, <1>7, <2>2
  <2>4. CASE n - (drop + 1) < 2
    <3>1. d + 2 = n
      BY <1>1, <1>6, <1>8, <2>1, <2>4
    <3>2. list[n].age = 0
      BY DEF Sampling, n
    <3> QED
      BY <1>1, <3>1, <3>2
  <2>5. CASE list[drop + 2].age <= SpeedWindow
    <3>1. drop = d \/ list[d + 2].age < list[drop + 2].age
      <4>1. drop = d \/ drop + 2 < d + 2
        BY <1>1, <1>6, <1>8
      <4> HIDE DEF spare
      <4> QED
        BY <1>8a, <2>1, <2>2, <4>1
    <3> QED
      BY <1>1, <2>1, <2>2, <2>5, <3>1
  <2> QED
    BY <2>3, <2>4, <2>5
<1> HIDE DEF d
<1>10. /\ new \in Seq(Sample) /\ Len(new) = n - d
       /\ \A k \in 1 .. n - d : new[k] = list[k + d] /\ k + d \in 1 .. n
  <2>1. d + 1 \in Int /\ n \in Int /\ \A k \in d + 1 .. n : list[k] \in Sample
    BY <1>1, <1>8
  <2>2. /\ new \in Seq(Sample) /\ Len(new) = IF d + 1 <= n THEN n - (d + 1) + 1 ELSE 0
        /\ \A k \in 1 .. n - (d + 1) + 1 : new[k] = list[(d + 1) + k - 1]
    BY <2>1, SubSeqProperties
  <2> HIDE DEF new
  <2>3. /\ n - (d + 1) + 1 = n - d /\ d + 1 <= n
        /\ \A k \in 1 .. n - d : (d + 1) + k - 1 = k + d /\ k + d \in 1 .. n
    BY <1>1, <1>8
  <2> QED
    BY <2>2, <2>3
<1> HIDE DEF new
<1>11. n - d \in Nat /\ n - d >= 1 /\ DOMAIN new = 1 .. n - d /\ 1 \in 1 .. n - d
       /\ n - d \in 1 .. n - d /\ (n - d) + d = n /\ new # <<>>
  BY <1>1, <1>8, <1>10, SamplesAre
<1>12. Sampling(new)
  <2>1. ASSUME NEW i \in 1 .. n - d, NEW j \in 1 .. n - d, i < j
        PROVE  new[j].age < new[i].age /\ new[i].bytes <= new[j].bytes
    <3>1. i + d \in 1 .. n /\ j + d \in 1 .. n /\ i + d < j + d
      BY <1>8, <1>10, <2>1
    <3> QED
      BY <1>1, <1>10, <3>1 DEF Sampling
  <2>2. ASSUME NEW k \in 2 .. n - d PROVE new[k - 1].age <= new[k].age + Longest
    <3>1. /\ k \in 1 .. n - d /\ k - 1 \in 1 .. n - d /\ k + d \in 2 .. n
          /\ (k - 1) + d = (k + d) - 1
      BY <1>1, <1>8, <2>2
    <3>2. list[(k + d) - 1].age <= list[k + d].age + Longest
      BY <3>1 DEF Sampling, n
    <3> QED
      BY <1>10, <3>1, <3>2
  <2>3. new[n - d].age = 0
    <3>1. list[n].age = 0
      BY DEF Sampling, n
    <3> QED
      BY <1>10, <1>11, <3>1
  <2> QED
    BY <1>10, <1>11, <2>1, <2>2, <2>3 DEF Sampling
<1>13. new[1].age <= SpeedWindow + Longest /\ new[1].age <= list[1].age
  <2>1. new[1] = list[d + 1] /\ d + 1 \in 1 .. n
    BY <1>1, <1>8, <1>10, <1>11
  <2>2. list[d + 1].age <= list[1].age
    <3>1. d = 0 \/ list[d + 1].age < list[1].age
      <4>1. 1 \in 1 .. n /\ (d = 0 \/ 1 < d + 1)
        BY <1>1, <1>8
      <4> HIDE DEF spare
      <4> QED
        BY <1>8a, <2>1, <4>1
    <3> QED
      BY <1>1, <2>1, <3>1
  <2>3. CASE d + 1 = n
    <3>1. list[n].age = 0
      BY DEF Sampling, n
    <3> QED
      BY <1>1, <2>1, <2>2, <2>3, <3>1
  <2>4. CASE d + 1 # n
    <3>1. d + 2 \in 2 .. n /\ d + 2 \in 1 .. n /\ (d + 2) - 1 = d + 1
      BY <1>1, <1>8, <2>1, <2>4
    <3>2. list[d + 1].age <= list[d + 2].age + Longest
      BY <3>1 DEF Sampling, n
    <3> QED
      BY <1>1, <1>9, <2>1, <2>2, <3>1, <3>2
  <2> QED
    BY <2>3, <2>4
<1> QED
  BY <1>2, <1>10, <1>11, <1>12, <1>13 DEF Window

LEMMA AgedIs ==
  ASSUME NEW list \in Seq(Sample), NEW t \in Nat
  PROVE  /\ Aged(list, t) \in Seq(Sample) /\ Len(Aged(list, t)) = Len(list)
         /\ \A k \in 1 .. Len(list) : /\ Aged(list, t)[k].age = list[k].age + t
                                      /\ Aged(list, t)[k].bytes = list[k].bytes
<1> DEFINE n == Len(list)
           new == Aged(list, t)
<1>1. /\ n \in Nat /\ DOMAIN list = 1 .. n
      /\ \A k \in 1 .. n : /\ list[k] \in Sample /\ list[k].age \in Nat /\ list[k].bytes \in Nat
  BY SamplesAre
<1>2. new = [k \in 1 .. n |-> [list[k] EXCEPT !.age = @ + t]]
  BY <1>1 DEF Aged
<1> HIDE DEF new
<1>3. ASSUME NEW k \in 1 .. n
      PROVE  /\ new[k] \in Sample /\ new[k].age = list[k].age + t
             /\ new[k].bytes = list[k].bytes
  <2>1. new[k] = [list[k] EXCEPT !.age = @ + t]
    BY <1>2
  <2>2. list[k] \in Sample /\ list[k].age + t \in Nat
    BY <1>1
  <2> HIDE DEF n
  <2> QED
    BY <2>1, <2>2 DEF Sample
<1> HIDE DEF n
<1>4. new \in [1 .. n -> Sample]
  BY <1>2, <1>3
<1>5. new \in Seq(Sample) /\ Len(new) = n
  BY <1>1, <1>4, AsSequence
<1> QED
  BY <1>3, <1>5 DEF n, new

\* sample_at: what was sampled before is as much older as time has passed, and the new sample
\* replaces the last one when none has.
LEMMA WithSampleIs ==
  ASSUME NEW list \in Seq(Sample), Sampling(list), NEW t \in Steps, NEW bytes \in Nat
  PROVE  LET new == WithSample(Aged(list, t), bytes) IN
           /\ new \in Seq(Sample) /\ new # <<>> /\ Window(new)
           /\ new[1].age <= IF list = <<>> THEN 0 ELSE list[1].age + t
<1> DEFINE n == Len(list)
           aged == Aged(list, t)
           now == [age |-> 0, bytes |-> bytes]
           kept == IF aged # <<>> /\ bytes < Newest(aged).bytes THEN <<>> ELSE aged
           older == IF kept # <<>> /\ Newest(kept).age = 0 THEN SubSeq(kept, 1, Len(kept) - 1)
                    ELSE kept
           grown == Append(older, now)
           new == WithSample(aged, bytes)
           oldest == IF list = <<>> THEN 0 ELSE list[1].age + t
<1>1. /\ n \in Nat /\ DOMAIN list = 1 .. n
      /\ \A k \in 1 .. n : /\ list[k] \in Sample /\ list[k].age \in Nat /\ list[k].bytes \in Nat
      /\ list # <<>> => n >= 1 /\ n \in 1 .. n /\ 1 \in 1 .. n
      /\ list = <<>> => n = 0
      /\ t \in Nat /\ t <= Longest /\ Longest \in Nat
  <2>1. t \in Nat /\ t <= Longest /\ Longest \in Nat
    BY LongestIs, AttemptBounds
  <2>2. /\ n \in Nat /\ DOMAIN list = 1 .. n
        /\ \A k \in 1 .. n : /\ list[k] \in Sample /\ list[k].age \in Nat /\ list[k].bytes \in Nat
        /\ list # <<>> => n >= 1
        /\ list = <<>> => n = 0
    BY SamplesAre
  <2> HIDE DEF n
  <2>3. n >= 1 => n \in 1 .. n /\ 1 \in 1 .. n
    BY <2>2
  <2> QED
    BY <2>1, <2>2, <2>3
<1>2. /\ aged \in Seq(Sample) /\ Len(aged) = n /\ DOMAIN aged = 1 .. n
      /\ \A k \in 1 .. n : aged[k] \in Sample /\ aged[k].age = list[k].age + t /\ aged[k].bytes = list[k].bytes
      /\ aged = <<>> <=> list = <<>>
  <2>1. aged \in Seq(Sample) /\ Len(aged) = n
        /\ \A k \in 1 .. n : aged[k].age = list[k].age + t /\ aged[k].bytes = list[k].bytes
    BY <1>1, AgedIs
  <2> HIDE DEF aged
  <2>2. DOMAIN aged = 1 .. n /\ \A k \in 1 .. n : aged[k] \in Sample
    BY <2>1, SamplesAre
  <2>3. (aged = <<>> <=> n = 0) /\ (list = <<>> <=> n = 0)
    BY <1>1, <2>1, SamplesAre
  <2> QED
    BY <2>1, <2>2, <2>3
<1>3. new = Trimmed(grown)
  BY DEF WithSample
<1>4. now \in Sample /\ now.age = 0 /\ now.bytes = bytes
  BY DEF Sample
<1> HIDE DEF aged, now, new
<1>5. oldest \in Nat
  BY <1>1
<1>6. /\ \A i, j \in 1 .. n : i < j => list[j].age < list[i].age /\ list[i].bytes <= list[j].bytes
      /\ \A k \in 2 .. n : list[k - 1].age <= list[k].age + Longest
      /\ list # <<>> => list[n].age = 0
  BY <1>1 DEF Sampling
<1> HIDE DEF n
\* The samples that stay are the first m of them.
<1>7. ASSUME NEW m \in 0 .. n, older \in Seq(Sample), Len(older) = m,
             \A k \in 1 .. m : older[k] = aged[k],
             \A k \in 1 .. m : aged[k].age > 0 /\ aged[k].bytes <= bytes,
             m > 0 => aged[m].age <= Longest
      PROVE  /\ grown \in Seq(Sample) /\ grown # <<>> /\ Sampling(grown)
             /\ grown[1].age <= oldest
  <2> HIDE DEF older
  <2>1. /\ grown \in Seq(Sample) /\ grown # <<>> /\ Len(grown) = m + 1
        /\ \A k \in 1 .. m : grown[k] = older[k]
        /\ grown[m + 1] = now
    <3> HIDE DEF now
    <3>1. now \in Sample
      BY <1>4
    <3>2. /\ grown \in Seq(Sample) /\ grown # <<>> /\ Len(grown) = Len(older) + 1
          /\ \A k \in 1 .. Len(older) : grown[k] = older[k]
          /\ grown[Len(older) + 1] = now
      BY <1>7, <3>1, AppendProperties
    <3> QED
      BY <1>7, <3>2
  <2> HIDE DEF grown
  <2>2. /\ DOMAIN grown = 1 .. m + 1 /\ m \in Nat /\ \A k \in 1 .. m : k \in 1 .. n
        /\ \A k \in 1 .. m + 1 : k \in 1 .. m \/ k = m + 1
    BY <1>1, <1>7, <2>1, SamplesAre
  <2>3. \A k \in 1 .. m : /\ grown[k].age = list[k].age + t /\ grown[k].bytes = list[k].bytes
                          /\ grown[k].age > 0 /\ grown[k].bytes <= bytes
    BY <1>2, <1>7, <2>1, <2>2
  <2>4. ASSUME NEW i \in 1 .. m + 1, NEW j \in 1 .. m + 1, i < j
        PROVE  grown[j].age < grown[i].age /\ grown[i].bytes <= grown[j].bytes
    <3>1. i \in 1 .. m
      BY <2>2, <2>4
    <3>2. CASE j \in 1 .. m
      <4>1. list[j].age < list[i].age /\ list[i].bytes <= list[j].bytes
        BY <1>6, <2>2, <2>4, <3>1, <3>2
      <4>2. list[i].age \in Nat /\ list[j].age \in Nat
        BY <1>1, <2>2, <3>1, <3>2
      <4>3. /\ grown[i].age = list[i].age + t /\ grown[i].bytes = list[i].bytes
            /\ grown[j].age = list[j].age + t /\ grown[j].bytes = list[j].bytes
        BY <2>3, <3>1, <3>2
      <4> QED
        BY <1>1, <4>1, <4>2, <4>3
    <3>3. CASE j = m + 1
      BY <1>4, <2>1, <2>3, <3>1, <3>3
    <3> QED
      BY <2>2, <3>2, <3>3
  <2>5. ASSUME NEW k \in 2 .. m + 1 PROVE grown[k - 1].age <= grown[k].age + Longest
    <3>1. k - 1 \in 1 .. m /\ (k \in 2 .. m \/ k = m + 1)
      BY <2>2
    <3>2. CASE k \in 2 .. m
      <4>1. k \in 1 .. m /\ k \in 2 .. n
        BY <1>7, <2>2, <3>2
      <4>2. list[k - 1].age <= list[k].age + Longest
        BY <1>6, <4>1
      <4>3. list[k - 1].age \in Nat /\ list[k].age \in Nat
        BY <1>1, <2>2, <3>1, <4>1
      <4>4. /\ grown[k - 1].age = list[k - 1].age + t /\ grown[k].age = list[k].age + t
        BY <2>3, <3>1, <4>1
      <4> QED
        BY <1>1, <4>2, <4>3, <4>4
    <3>3. CASE k = m + 1
      <4>1. k - 1 = m /\ m > 0 /\ m \in 1 .. m
        BY <2>2, <3>1, <3>3
      <4>2. grown[m].age <= Longest
        BY <1>7, <2>1, <4>1
      <4> QED
        BY <1>1, <1>4, <2>1, <3>3, <4>1, <4>2
    <3> QED
      BY <3>1, <3>2, <3>3
  <2>6. grown[1].age <= oldest
    <3>1. CASE m = 0
      BY <1>4, <1>5, <2>1, <3>1
    <3>2. CASE m # 0
      <4>1. 1 \in 1 .. m /\ list # <<>>
        BY <1>1, <1>7, <2>2, <3>2
      <4>2. grown[1].age = list[1].age + t
        BY <2>3, <4>1
      <4>3. list[1].age + t \in Nat /\ oldest = list[1].age + t
        BY <1>1, <4>1
      <4> QED
        BY <4>2, <4>3
    <3> QED
      BY <3>1, <3>2
  <2> QED
    BY <1>4, <2>1, <2>2, <2>4, <2>5, <2>6 DEF Sampling
<1>8. /\ grown \in Seq(Sample) /\ grown # <<>> /\ Sampling(grown)
      /\ grown[1].age <= oldest
  <2>1. CASE kept = <<>>
    <3>1. older = <<>>
      BY <2>1
    <3> HIDE DEF older, grown, kept
    <3>2. older \in Seq(Sample) /\ Len(older) = 0 /\ 0 \in 0 .. n
      BY <1>1, <3>1
    <3> QED
      BY <1>7, <3>2
  <2>2. CASE kept # <<>>
    <3>1. /\ kept = aged /\ list # <<>> /\ Newest(aged) = aged[n] /\ n \in 1 .. n /\ n >= 1
          /\ ~(bytes < aged[n].bytes)
      BY <1>1, <1>2, <2>2 DEF Newest
    <3> HIDE DEF kept
    <3>2. aged[n].age = t /\ aged[n].bytes = list[n].bytes /\ list[n].bytes <= bytes
      BY <1>1, <1>2, <1>6, <3>1
    <3>3. ASSUME NEW k \in 1 .. n PROVE list[k].bytes <= bytes /\ (k < n => list[k].age > 0)
      <4>1. k = n \/ k < n
        BY <1>1
      <4>2. k < n => list[n].age < list[k].age /\ list[k].bytes <= list[n].bytes
        BY <1>6, <3>1
      <4>3. list[k].bytes \in Nat /\ list[n].bytes \in Nat
        BY <1>1, <3>1
      <4> QED
        BY <1>6, <3>1, <3>2, <4>1, <4>2, <4>3
    <3>4. CASE t = 0
      <4>1. older = SubSeq(aged, 1, n - 1)
        BY <1>2, <3>1, <3>2, <3>4
      <4>2. 1 \in Int /\ n - 1 \in Int /\ \A k \in 1 .. n - 1 : aged[k] \in Sample
        BY <1>1, <1>2
      <4>3. /\ SubSeq(aged, 1, n - 1) \in Seq(Sample)
            /\ Len(SubSeq(aged, 1, n - 1)) = IF 1 <= n - 1 THEN n - 1 - 1 + 1 ELSE 0
            /\ \A k \in 1 .. n - 1 - 1 + 1 : SubSeq(aged, 1, n - 1)[k] = aged[1 + k - 1]
        BY <4>2, SubSeqProperties
      <4> HIDE DEF older, grown
      <4>4. /\ older \in Seq(Sample) /\ Len(older) = n - 1
            /\ n - 1 \in 0 .. n
        BY <1>1, <3>1, <4>1, <4>3
      <4>5. \A k \in 1 .. n - 1 : older[k] = aged[k]
        <5>1. \A k \in 1 .. n - 1 : k \in 1 .. n - 1 - 1 + 1 /\ 1 + k - 1 = k
          BY <1>1
        <5> QED
          BY <4>1, <4>3, <5>1
      <4>6. \A k \in 1 .. n - 1 : aged[k].age > 0 /\ aged[k].bytes <= bytes
        <5>1. \A k \in 1 .. n - 1 : k \in 1 .. n /\ k < n
          BY <1>1
        <5>2. \A k \in 1 .. n : aged[k].age = list[k].age /\ aged[k].bytes = list[k].bytes
          BY <1>1, <1>2, <3>4
        <5> QED
          BY <3>3, <5>1, <5>2
      <4>7. n - 1 > 0 => aged[n - 1].age <= Longest
        <5>1. SUFFICES ASSUME n - 1 > 0 PROVE aged[n - 1].age <= Longest
          OBVIOUS
        <5>2. n \in 2 .. n /\ n - 1 \in 1 .. n
          BY <1>1, <5>1
        <5>3. list[n - 1].age <= list[n].age + Longest
          BY <1>6, <5>2
        <5>4. list[n].age = 0 /\ list[n - 1].age \in Nat /\ aged[n - 1].age = list[n - 1].age + t
          BY <1>1, <1>2, <1>6, <3>1, <5>2
        <5> QED
          BY <1>1, <3>4, <5>3, <5>4
      <4> QED
        BY <1>7, <4>4, <4>5, <4>6, <4>7
    <3>5. CASE t # 0
      <4>1. older = aged
        BY <1>1, <1>2, <3>1, <3>2, <3>5
      <4> HIDE DEF older, grown
      <4>2. \A k \in 1 .. n : aged[k].age > 0 /\ aged[k].bytes <= bytes
        <5>1. ASSUME NEW k \in 1 .. n PROVE aged[k].age > 0 /\ aged[k].bytes <= bytes
          <6>1. list[k].age \in Nat /\ aged[k].age = list[k].age + t /\ aged[k].bytes = list[k].bytes
            BY <1>1, <1>2
          <6> QED
            BY <1>1, <3>3, <3>5, <6>1
        <5> QED
          BY <5>1
      <4>3. aged[n].age <= Longest /\ n \in 0 .. n
        BY <1>1, <3>1, <3>2
      <4> QED
        BY <1>2, <1>7, <4>1, <4>2, <4>3
    <3> QED
      BY <3>4, <3>5
  <2> QED
    BY <2>1, <2>2
<1> HIDE DEF grown, oldest
<1>9. /\ new \in Seq(Sample) /\ new # <<>> /\ Window(new) /\ new[1].age <= grown[1].age
  BY <1>3, <1>8, TrimmedIs
<1>10. new[1].age \in Nat /\ grown[1].age \in Nat
  <2>1. 1 \in 1 .. Len(new) /\ 1 \in 1 .. Len(grown)
    BY <1>8, <1>9, SamplesAre
  <2> QED
    BY <1>8, <1>9, <2>1, SamplesAre
<1> QED
  BY <1>5, <1>8, <1>9, <1>10 DEF oldest, new, aged

-----------------------------------------------------------------------------
(* The estimate *)

\* Fractions with a common bound: what bounds both bounds the sum.
LEMMA AddUp ==
  ASSUME NEW c \in Nat, NEW x \in Nat, NEW y \in Nat, NEW a \in Nat, NEW b \in Nat
  PROVE  /\ c * x <= a * Second /\ c * y <= b * Second => c * (x + y) <= (a + b) * Second
         /\ a * Second < c * x /\ b * Second < c * y => (a + b) * Second < c * (x + y)
         /\ a * Second <= c * x /\ b * Second < c * y => (a + b) * Second < c * (x + y)
<1>1. Second \in Nat
  BY RateBounds
<1>2. c * (x + y) = c * x + c * y /\ (a + b) * Second = a * Second + b * Second
  BY <1>1
<1>3. c * x \in Nat /\ c * y \in Nat /\ a * Second \in Nat /\ b * Second \in Nat
  BY <1>1
<1> QED
  BY <1>2, <1>3

LEMMA RateIs ==
  ASSUME NEW bytes \in Nat, NEW ticks \in Nat \ {0}
  PROVE  /\ Rate(bytes, ticks) \in Nat /\ Rate(bytes, ticks) <= MaxRate
         /\ \A c \in Nat : c <= Rate(bytes, ticks)
                             <=> c <= MaxRate /\ c * ticks <= bytes * Second
         /\ \A c \in Nat : Rate(bytes, ticks) <= c
                             <=> MaxRate <= c \/ bytes * Second < (c + 1) * ticks
<1> DEFINE a == bytes * Second
           q == a \div ticks
           r == Rate(bytes, ticks)
<1>1. a \in Nat /\ MaxRate \in Nat
  BY RateBounds
<1> HIDE DEF a
<1>2. q \in Nat
  BY <1>1, DivIs
<1>3. ASSUME NEW c \in Nat
      PROVE  (q <= c <=> a < (c + 1) * ticks) /\ (c <= q <=> c * ticks <= a)
  BY <1>1, DivBound
<1> HIDE DEF q
<1>4. r = IF q <= MaxRate THEN q ELSE MaxRate
  <2>1. Min({q, MaxRate}) = IF q <= MaxRate THEN q ELSE MaxRate
    BY <1>1, <1>2, LeastOfTwo
  <2> QED
    BY <2>1 DEF Rate, q, a
<1> HIDE DEF r
<1>5. ASSUME NEW c \in Nat
      PROVE  /\ c <= r <=> c <= MaxRate /\ c <= q
             /\ r <= c <=> MaxRate <= c \/ q <= c
  BY <1>1, <1>2, <1>4
<1>6. r \in Nat /\ r <= MaxRate
  BY <1>1, <1>2, <1>4
<1> QED
  BY <1>3, <1>5, <1>6 DEF r, a

\* The rates of the intervals of a window
LEMMA RatesAre ==
  ASSUME NEW list \in Seq(Sample), Sampling(list), Len(list) >= 2
  PROVE  LET step(k) == Rate(list[k].bytes - list[k - 1].bytes, list[k - 1].age - list[k].age)
             rates == IntervalRates(list)
         IN /\ \A k \in 2 .. Len(list) : /\ list[k].bytes - list[k - 1].bytes \in Nat
                                         /\ list[k - 1].age - list[k].age \in Nat \ {0}
                                         /\ Min(rates) <= step(k) /\ step(k) <= Max(rates)
            /\ Min(rates) \in Nat /\ Max(rates) \in Nat /\ Min(rates) <= MaxRate
<1> DEFINE n == Len(list)
           step(k) == Rate(list[k].bytes - list[k - 1].bytes, list[k - 1].age - list[k].age)
           rates == {step(k) : k \in 2 .. n}
           f == [k \in 2 .. n |-> step(k)]
<1>1. /\ n \in Nat /\ n >= 2 /\ DOMAIN list = 1 .. n
      /\ \A k \in 1 .. n : list[k].age \in Nat /\ list[k].bytes \in Nat
  BY SamplesAre
<1>2. \A i, j \in 1 .. n : i < j => list[j].age < list[i].age /\ list[i].bytes <= list[j].bytes
  BY <1>1 DEF Sampling
<1> HIDE DEF n
<1>3. ASSUME NEW k \in 2 .. n
      PROVE  /\ list[k].bytes - list[k - 1].bytes \in Nat
             /\ list[k - 1].age - list[k].age \in Nat \ {0}
             /\ list[k - 1].age > list[k].age
  <2>1. k \in 1 .. n /\ k - 1 \in 1 .. n /\ k - 1 < k
    BY <1>1
  <2>2. /\ list[k].age < list[k - 1].age /\ list[k - 1].bytes <= list[k].bytes
        /\ list[k].age \in Nat /\ list[k - 1].age \in Nat
        /\ list[k].bytes \in Nat /\ list[k - 1].bytes \in Nat
    BY <1>1, <1>2, <2>1
  <2> QED
    BY <2>2
<1>4. IntervalRates(list) = rates
  <2>1. {j \in 2 .. n : list[j - 1].age > list[j].age} = 2 .. n
    BY <1>3
  <2> QED
    BY <2>1 DEF IntervalRates, n
<1>5. \A k \in 2 .. n : step(k) \in Nat /\ step(k) <= MaxRate
  BY <1>3, RateIs
<1> HIDE DEF step
<1>6. IsFiniteSet(rates)
  <2>1. f \in Surjection(2 .. n, rates)
    BY DEF Surjection
  <2>2. IsFiniteSet(2 .. n)
    BY <1>1, FS_Interval
  <2> QED
    BY <2>1, <2>2, FS_Surjection
<1>7. 2 \in 2 .. n /\ step(2) \in rates /\ rates \subseteq Nat /\ \A r \in rates : r <= MaxRate
  BY <1>1, <1>5
<1>8. rates # {} /\ rates \subseteq Int
  BY <1>7
<1>9. \A k \in 2 .. n : step(k) \in rates
  OBVIOUS
<1> HIDE DEF rates
<1>10. /\ Max(rates) \in rates /\ \A x \in rates : x <= Max(rates)
       /\ Min(rates) \in rates /\ \A x \in rates : Min(rates) <= x
  BY <1>6, <1>8, GreatestOf
<1>11. /\ \A k \in 2 .. n : Min(rates) <= step(k) /\ step(k) <= Max(rates)
       /\ Min(rates) \in Nat /\ Max(rates) \in Nat /\ Min(rates) <= MaxRate
  BY <1>7, <1>9, <1>10
<1> QED
  BY <1>3, <1>4, <1>11 DEF step, n

\* The rate of a window lies between the slowest and the fastest of its intervals.
LEMMA RateBetween ==
  ASSUME NEW list \in Seq(Sample), Sampling(list), Len(list) >= 2
  PROVE  LET speed == Rate(Newest(list).bytes - list[1].bytes, list[1].age - Newest(list).age)
             rates == IntervalRates(list)
         IN /\ speed \in Nat /\ Min(rates) <= speed /\ speed <= Max(rates)
            /\ list[1].age - Newest(list).age = list[1].age
<1> DEFINE n == Len(list)
           B(k) == list[k].bytes - list[1].bytes
           A(k) == list[1].age - list[k].age
           db(k) == list[k].bytes - list[k - 1].bytes
           da(k) == list[k - 1].age - list[k].age
           lo == Min(IntervalRates(list))
           hi == Max(IntervalRates(list))
<1>1. /\ n \in Nat /\ n >= 2 /\ DOMAIN list = 1 .. n
      /\ \A k \in 1 .. n : list[k].age \in Nat /\ list[k].bytes \in Nat
      /\ Second \in Nat /\ MaxRate \in Nat
  BY SamplesAre, RateBounds
<1>2. \A i, j \in 1 .. n : i < j => list[j].age < list[i].age /\ list[i].bytes <= list[j].bytes
  BY <1>1 DEF Sampling
<1>3. list[n].age = 0 /\ Newest(list) = list[n]
  BY <1>1, EmptySeq DEF Sampling, Newest
<1>4. /\ \A k \in 2 .. n : /\ db(k) \in Nat /\ da(k) \in Nat \ {0}
                           /\ lo <= Rate(db(k), da(k)) /\ Rate(db(k), da(k)) <= hi
      /\ lo \in Nat /\ hi \in Nat /\ lo <= MaxRate
  BY RatesAre
<1> HIDE DEF n, lo, hi
<1>5. ASSUME NEW k \in 2 .. n
      PROVE  /\ B(k) \in Nat /\ A(k) \in Nat \ {0}
  <2>1. 1 \in 1 .. n /\ k \in 1 .. n /\ 1 < k
    BY <1>1
  <2>2. /\ list[k].age < list[1].age /\ list[1].bytes <= list[k].bytes
        /\ list[k].age \in Nat /\ list[1].age \in Nat
        /\ list[k].bytes \in Nat /\ list[1].bytes \in Nat
    BY <1>1, <1>2, <2>1
  <2> QED
    BY <2>2
<1>6. ASSUME NEW k \in 2 .. n, k < n
      PROVE  /\ k + 1 \in 2 .. n
             /\ B(k + 1) = B(k) + db(k + 1) /\ A(k + 1) = A(k) + da(k + 1)
  <2>1. k + 1 \in 2 .. n /\ k + 1 \in 1 .. n /\ k \in 1 .. n /\ 1 \in 1 .. n /\ (k + 1) - 1 = k
    BY <1>1, <1>6
  <2>2. /\ list[k].age \in Nat /\ list[1].age \in Nat /\ list[k + 1].age \in Nat
        /\ list[k].bytes \in Nat /\ list[1].bytes \in Nat /\ list[k + 1].bytes \in Nat
    BY <1>1, <2>1
  <2>3. B(k + 1) = B(k) + (list[k + 1].bytes - list[k].bytes)
    BY <2>2
  <2>4. A(k + 1) = A(k) + (list[k].age - list[k + 1].age)
    BY <2>2
  <2>5. /\ db(k + 1) = list[k + 1].bytes - list[k].bytes
        /\ da(k + 1) = list[k].age - list[k + 1].age
    BY <2>1
  <2> HIDE DEF A, B, da, db
  <2> QED
    BY <2>1, <2>3, <2>4, <2>5
<1>7. B(2) = db(2) /\ A(2) = da(2) /\ 2 \in 2 .. n
  <2>1. 2 - 1 = 1 /\ 2 \in 2 .. n
    BY <1>1
  <2> QED
    BY <2>1
<1> HIDE DEF A, B, da, db
<1>8. \A k \in 2 .. n : lo * A(k) <= B(k) * Second
  <2> DEFINE S == {k \in 2 .. n : lo * A(k) <= B(k) * Second}
  <2>1. ASSUME NEW k \in 2 .. n PROVE lo * da(k) <= db(k) * Second
    BY <1>4, RateIs
  <2>2. 2 \in S
    BY <1>7, <2>1
  <2>3. ASSUME NEW k \in 2 .. n, k < n, k \in S PROVE k + 1 \in S
    <3>1. lo * A(k) <= B(k) * Second /\ lo * da(k + 1) <= db(k + 1) * Second
      BY <1>6, <2>1, <2>3
    <3>2. /\ A(k) \in Nat /\ B(k) \in Nat /\ da(k + 1) \in Nat /\ db(k + 1) \in Nat
      BY <1>4, <1>5, <1>6, <2>3
    <3>3. lo * (A(k) + da(k + 1)) <= (B(k) + db(k + 1)) * Second
      BY <1>4, <3>1, <3>2, AddUp
    <3> QED
      BY <1>6, <2>3, <3>3
  <2> HIDE DEF S
  <2>4. 2 .. n \subseteq S
    BY <1>1, <2>2, <2>3, Climbs
  <2> QED
    BY <2>4 DEF S
<1>9. hi < MaxRate => \A k \in 2 .. n : B(k) * Second < (hi + 1) * A(k)
  <2> SUFFICES ASSUME hi < MaxRate PROVE \A k \in 2 .. n : B(k) * Second < (hi + 1) * A(k)
    OBVIOUS
  <2> DEFINE S == {k \in 2 .. n : B(k) * Second < (hi + 1) * A(k)}
  <2>1. ASSUME NEW k \in 2 .. n PROVE db(k) * Second < (hi + 1) * da(k)
    <3>1. MaxRate <= hi \/ db(k) * Second < (hi + 1) * da(k)
      BY <1>4, RateIs
    <3>2. ~(MaxRate <= hi)
      BY <1>1, <1>4
    <3> QED
      BY <3>1, <3>2
  <2>2. 2 \in S
    BY <1>7, <2>1
  <2>3. ASSUME NEW k \in 2 .. n, k < n, k \in S PROVE k + 1 \in S
    <3>1. /\ B(k) * Second < (hi + 1) * A(k)
          /\ db(k + 1) * Second < (hi + 1) * da(k + 1)
      BY <1>6, <2>1, <2>3
    <3>2. /\ A(k) \in Nat /\ B(k) \in Nat /\ da(k + 1) \in Nat /\ db(k + 1) \in Nat
      BY <1>4, <1>5, <1>6, <2>3
    <3>3. hi + 1 \in Nat
      BY <1>4
    <3>4. (B(k) + db(k + 1)) * Second < (hi + 1) * (A(k) + da(k + 1))
      BY <3>1, <3>2, <3>3, AddUp
    <3> QED
      BY <1>6, <2>3, <3>4
  <2> HIDE DEF S
  <2>4. 2 .. n \subseteq S
    BY <1>1, <2>2, <2>3, Climbs
  <2> QED
    BY <2>4 DEF S
<1> DEFINE speed == Rate(B(n), A(n))
<1>10. n \in 2 .. n /\ B(n) \in Nat /\ A(n) \in Nat \ {0}
  <2>1. n \in 2 .. n
    BY <1>1
  <2> QED
    BY <1>5, <2>1
<1>11. lo <= speed
  BY <1>4, <1>8, <1>10, RateIs
<1>12. speed <= hi
  <2>1. MaxRate <= hi \/ hi < MaxRate
    BY <1>1, <1>4
  <2> QED
    BY <1>4, <1>9, <1>10, <2>1, RateIs
<1>13. speed \in Nat
  BY <1>10, RateIs
<1>14. list[1].age - Newest(list).age = list[1].age
  <2>1. list[1].age \in Nat
    BY <1>1
  <2> QED
    BY <1>3, <2>1
<1> QED
  BY <1>3, <1>11, <1>12, <1>13, <1>14 DEF A, B, lo, hi, speed

\* The time left is what the speed needs, rounded up.
LEMMA CeilDivIs ==
  ASSUME NEW left \in Nat \ {0}, NEW speed \in Nat \ {0}
  PROVE  LET c == CeilDiv(left, speed) IN
           c \in Nat /\ c <= left /\ c * speed >= left /\ (c - 1) * speed < left
<1> DEFINE q == left \div speed
           r == left % speed
           c == CeilDiv(left, speed)
<1>1. q \in Nat /\ r \in 0 .. speed - 1 /\ left = speed * q + r
  BY DivIs
<1>2. c = IF r = 0 THEN q ELSE q + 1
  BY DEF CeilDiv
<1> HIDE DEF q, r, c
<1>3. q <= q * speed /\ q * speed = speed * q /\ q * speed \in Nat
  BY <1>1
<1>4. (q + 1) * speed = q * speed + speed /\ (q - 1) * speed = q * speed - speed
  BY <1>1
<1>5. CASE r = 0
  <2>1. c = q /\ left = q * speed
    BY <1>1, <1>2, <1>3, <1>5
  <2>2. c * speed = q * speed /\ (c - 1) * speed = q * speed - speed
    BY <1>4, <2>1
  <2>3. c \in Nat /\ c <= left /\ c * speed >= left /\ (c - 1) * speed < left
    BY <1>1, <1>3, <2>1, <2>2
  <2> QED
    BY <2>3 DEF c
<1>6. CASE r # 0
  <2>1. c = q + 1 /\ left = q * speed + r /\ c - 1 = q
    BY <1>1, <1>2, <1>3, <1>6
  <2>2. c * speed = q * speed + speed /\ (c - 1) * speed = q * speed
    BY <1>4, <2>1
  <2>3. c \in Nat /\ c <= left
    BY <1>1, <1>3, <1>6, <2>1
  <2>4. c * speed >= left /\ (c - 1) * speed < left
    BY <1>1, <1>3, <1>6, <2>1, <2>2
  <2> QED
    BY <2>3, <2>4 DEF c
<1> QED
  BY <1>5, <1>6

\* What an estimate of a window says
LEMMA EstimateIs ==
  ASSUME NEW list \in Seq(Sample), list # <<>>, Sampling(list),
         Estimate(list, Total).speed # Absent
  PROVE  LET e == Estimate(list, Total)
             rates == IntervalRates(list)
             left == Total - Newest(list).bytes
         IN /\ list[1].age - Newest(list).age = list[1].age
            /\ Min(rates) <= e.speed /\ e.speed <= Max(rates)
            /\ (e.eta # Absent /\ left > 0) =>
                 e.eta * e.speed >= left /\ (e.eta - 1) * e.speed < left
<1> DEFINE e == Estimate(list, Total)
           rates == IntervalRates(list)
           last == Newest(list)
           left == Total - last.bytes
           speed == Rate(last.bytes - list[1].bytes, list[1].age - last.age)
           stable == Stable(rates)
           c == CeilDiv(left, speed)
<1>1. ~(Len(list) < 3 \/ list[1].age - last.age < MinRateSpan)
  <2>1. SUFFICES ASSUME Len(list) < 3 \/ list[1].age - last.age < MinRateSpan
                 PROVE  e.speed = Absent
    OBVIOUS
  <2>2. e = [NoEstimate EXCEPT !.eta = IF last.bytes = Total THEN 0 ELSE Absent]
    BY <2>1 DEF Estimate
  <2> QED
    BY <2>2 DEF NoEstimate
<1>2. e = [speed |-> speed, stable |-> stable,
           eta |-> IF last.bytes = Total THEN 0
                   ELSE IF last.bytes < Total /\ speed > 0 /\ stable
                   THEN Min({c, MaxRate})
                   ELSE Absent]
  BY <1>1 DEF Estimate
<1>3. /\ e.speed = speed
      /\ e.eta = IF last.bytes = Total THEN 0
                 ELSE IF last.bytes < Total /\ speed > 0 /\ stable
                 THEN Min({c, MaxRate})
                 ELSE Absent
  BY <1>2
<1>4. Len(list) \in Nat /\ Len(list) >= 2 /\ last.bytes \in Nat
  BY <1>1, SamplesAre DEF Newest
<1>5. /\ speed \in Nat /\ Min(rates) <= speed /\ speed <= Max(rates)
      /\ list[1].age - last.age = list[1].age
  BY <1>4, RateBetween
<1> HIDE DEF e, rates, last, speed, stable
<1>6. ASSUME e.eta # Absent, left > 0
      PROVE  e.eta * e.speed >= left /\ (e.eta - 1) * e.speed < left
  <2>1. Total \in Nat /\ MaxRate \in Nat /\ Total <= MaxRate
    BY AttemptBounds, RateBounds
  <2>2. last.bytes < Total /\ left \in Nat \ {0} /\ left <= Total
    BY <1>4, <1>6, <2>1
  <2>3. speed > 0 /\ e.eta = Min({c, MaxRate})
    BY <1>3, <1>4, <1>6, <2>1, <2>2
  <2>4. c \in Nat /\ c <= left /\ c * speed >= left /\ (c - 1) * speed < left
    <3>1. speed \in Nat \ {0}
      BY <1>5, <2>3
    <3> HIDE DEF left
    <3> QED
      BY <2>2, <3>1, CeilDivIs
  <2> HIDE DEF c, left
  <2>5. Min({c, MaxRate}) = c
    <3>1. Min({c, MaxRate}) = IF c <= MaxRate THEN c ELSE MaxRate
      BY <2>1, <2>4, LeastOfTwo
    <3> QED
      BY <2>1, <2>2, <2>4, <3>1
  <2> QED
    BY <1>3, <2>3, <2>4, <2>5
<1> QED
  BY <1>3, <1>5, <1>6 DEF e, rates, last, left

Shown ==
  /\ samples \in Seq(Sample) /\ Window(samples) /\ elapsed \in 0 .. Far
  /\ samples # <<>> => samples[1].age <= elapsed
  /\ estimate = NoEstimate \/ (samples # <<>> /\ estimate = Estimate(samples, Total))

\* The samples are of one attempt, and the estimate is of the samples.
RateInv ==
  /\ Shown
  /\ phase \in {"ready", "waiting"} => samples = <<>> /\ estimate = NoEstimate

LEMMA NoSamples == <<>> \in Seq(Sample) /\ Window(<<>>)
<1>1. <<>> \in Seq(Sample) /\ Len(<<>>) = 0 /\ DOMAIN <<>> = {}
  OBVIOUS
<1>2. Window(<<>>)
  BY <1>1 DEF Window, Sampling
<1> QED
  BY <1>1, <1>2

LEMMA RateInit == Init => RateInv
<1> SUFFICES ASSUME Init PROVE RateInv
  OBVIOUS
<1>1. samples = <<>> /\ estimate = NoEstimate /\ elapsed = 0
  BY DEF Init
<1>2. elapsed \in 0 .. Far
  BY <1>1, LongestIs
<1> QED
  BY <1>1, <1>2, NoSamples DEF RateInv, Shown

LEMMA SampledShows == ASSUME Cut, Shown, NEW t \in Steps, Sampled(t) PROVE Shown'
<1> DEFINE new == WithSample(Aged(samples, t), SizeOf(completed))
<1>1. /\ samples' = new /\ estimate' = Estimate(samples', Total) /\ elapsed' = Later(t)
  BY DEF Sampled
<1>2. SizeOf(completed) \in Nat
  <2>1. 1 \in Nat \ {0} /\ completed \in Seq(Span)
    BY DEF Cut, CutType
  <2> QED
    BY <2>1, PlanIs
<1>3. /\ new \in Seq(Sample) /\ new # <<>> /\ Window(new)
      /\ new[1].age <= IF samples = <<>> THEN 0 ELSE samples[1].age + t
  BY <1>2, WithSampleIs DEF Shown, Window
<1> HIDE DEF new
<1>4. t \in Nat /\ elapsed \in Nat /\ elapsed <= Far /\ Far \in Nat
  BY LongestIs, AttemptBounds DEF Shown
<1>5. elapsed' = IF elapsed + t > Far THEN Far ELSE elapsed + t
  BY <1>1 DEF Later
<1>6. elapsed' \in 0 .. Far
  BY <1>4, <1>5
<1>7. new[1].age \in Nat /\ new[1].age <= Far
  <2>1. 1 \in 1 .. Len(new)
    BY <1>3, SamplesAre
  <2>2. new[1].age \in Nat
    BY <1>3, <2>1, SamplesAre
  <2>3. new[1].age <= SpeedWindow + Longest
    BY <1>3 DEF Window
  <2>4. SpeedWindow \in Nat
    BY RateBounds
  <2> QED
    BY <1>4, <2>2, <2>3, <2>4, LongestIs
<1>8. new[1].age <= elapsed + t
  <2>1. CASE samples = <<>>
    BY <1>3, <1>4, <1>7, <2>1
  <2>2. CASE samples # <<>>
    <3>1. 1 \in 1 .. Len(samples)
      BY <2>2, SamplesAre DEF Shown
    <3>2. samples[1].age \in Nat
      BY <3>1, SamplesAre DEF Shown
    <3>3. samples[1].age <= elapsed
      BY <2>2 DEF Shown
    <3>4. new[1].age <= samples[1].age + t
      BY <1>3, <2>2
    <3> QED
      BY <1>4, <1>7, <3>2, <3>3, <3>4
  <2> QED
    BY <2>1, <2>2
<1>9. new[1].age <= elapsed'
  BY <1>4, <1>5, <1>7, <1>8
<1> QED
  BY <1>1, <1>3, <1>6, <1>9 DEF Shown

LEMMA RateStep == Cut /\ RateInv /\ [Next]_vars => RateInv'
<1> SUFFICES ASSUME Cut, RateInv, [Next]_vars PROVE RateInv'
  OBVIOUS
<1>1. CASE BeginAttempt
  <2>1. UNCHANGED <<samples, estimate>> /\ elapsed' = 0 /\ phase = "ready"
    BY <1>1 DEF BeginAttempt
  <2>2. samples' = <<>> /\ estimate' = NoEstimate
    BY <2>1 DEF RateInv
  <2>3. elapsed' \in (0 .. Far)'
    <3>1. Far' = Far
      BY DEF Far
    <3>2. 0 \in 0 .. Far
      BY LongestIs
    <3> QED
      BY <2>1, <3>1, <3>2
  <2>4. Shown'
    BY <2>2, <2>3, NoSamples DEF Shown
  <2> QED
    BY <2>2, <2>4 DEF RateInv
<1>2. ASSUME UNCHANGED rateVars, phase' \in {"ready", "waiting"} => phase \in {"ready", "waiting"}
      PROVE  RateInv'
  BY <1>2 DEF RateInv, Shown, rateVars
<1>3. CASE Take \/ Stop \/ Waited \/ UNCHANGED vars
  <2>1. /\ UNCHANGED rateVars
        /\ phase' \in {"ready", "waiting"} => phase \in {"ready", "waiting"}
    BY <1>3 DEF Take, Stop, Waited, vars
  <2> QED
    BY <1>2, <2>1
<1>4. ASSUME NEW w \in work,
             Assign(w) \/ Finish(w) \/ FetchFails(w) \/ CommitFails(w) \/ Leave(w)
      PROVE  RateInv'
  <2>1. /\ UNCHANGED rateVars
        /\ phase' \in {"ready", "waiting"} => phase \in {"ready", "waiting"}
    BY <1>4 DEF Assign, Finish, FetchFails, CommitFails, Leave
  <2> QED
    BY <1>2, <2>1
<1>5. ASSUME NEW t \in Steps, Sampled(t), phase' \notin {"ready", "waiting"} PROVE RateInv'
  BY <1>5, SampledShows DEF RateInv
<1>6. CASE SampleProgress
  <2>1. PICK t \in Steps : Sampled(t)
    BY <1>6 DEF SampleProgress
  <2>2. phase' \notin {"ready", "waiting"}
    BY <1>6 DEF SampleProgress
  <2> QED
    BY <1>5, <2>1, <2>2
<1>7. ASSUME Forgotten PROVE RateInv'
  <2>1. samples' = <<>> /\ estimate' = NoEstimate /\ elapsed' = elapsed
    BY <1>7 DEF Forgotten
  <2>2. elapsed' \in (0 .. Far)'
    BY <2>1 DEF RateInv, Shown, Far
  <2>3. Shown'
    BY <2>1, <2>2, NoSamples DEF Shown
  <2> QED
    BY <2>1, <2>3 DEF RateInv
<1>8. CASE EndAttempt
  <2>1. \/ Forgotten
        \/ phase' \in {"complete", "refused", "stopped"} /\ \E t \in Steps : Sampled(t)
    BY <1>8 DEF EndAttempt, MarkRetryWait
  <2> QED
    BY <1>5, <1>7, <2>1
<1>9. CASE NextRun
  BY <1>7, <1>9 DEF NextRun
<1> QED
  BY <1>1, <1>3, <1>4, <1>6, <1>8, <1>9 DEF Next

LEMMA RateCurrent == RateInv => EstimateIsCurrent
<1> SUFFICES ASSUME RateInv, estimate.speed # Absent
             PROVE  LET rates == IntervalRates(samples)
                        left == Total - Newest(samples).bytes
                    IN /\ samples[1].age - Newest(samples).age <= elapsed
                       /\ Min(rates) <= estimate.speed /\ estimate.speed <= Max(rates)
                       /\ (estimate.eta # Absent /\ left > 0) =>
                            /\ estimate.eta * estimate.speed >= left
                            /\ (estimate.eta - 1) * estimate.speed < left
  BY DEF EstimateIsCurrent
<1>1. NoEstimate.speed = Absent
  BY DEF NoEstimate
<1>2. /\ samples \in Seq(Sample) /\ samples # <<>> /\ Sampling(samples)
      /\ samples[1].age <= elapsed /\ estimate = Estimate(samples, Total)
  BY <1>1 DEF RateInv, Shown, Window
<1> QED
  BY <1>2, EstimateIs

\* A speed that is shown was measured in the present attempt and lies between the slowest and the
\* fastest of its intervals, and a time left is what it needs: SpeedEstimator, sample_progress,
\* checkpoint_boundary and mark_retry_wait never show what an earlier attempt measured.
THEOREM EstimatesAlwaysCurrent == Spec => []EstimateIsCurrent
<1>1. Cut /\ RateInv /\ [Next]_vars => RateInv'
  BY RateStep
<1> QED
  BY <1>1, RateInit, CutAlways, RateCurrent, PTL DEF Spec

-----------------------------------------------------------------------------
(* How many ranges and requests there can be *)

LEMMA ImageIs ==
  ASSUME NEW S, IsFiniteSet(S), NEW T, NEW f, f \in [S -> T], T = {f[x] : x \in S}
  PROVE  IsFiniteSet(T) /\ Cardinality(T) \in Nat /\ Cardinality(T) <= Cardinality(S)
<1>1. f \in Surjection(S, T)
  BY DEF Surjection
<1> QED
  BY <1>1, FS_Surjection, FS_CardinalityType

\* A map of the first n numbers into a finite set that separates them finds n elements there.
LEMMA AtLeast ==
  ASSUME NEW n \in Nat, NEW S, IsFiniteSet(S), NEW f \in [1 .. n -> S],
         \A i, j \in 1 .. n : i < j => f[i] # f[j]
  PROVE  n <= Cardinality(S)
<1>1. \A i, j \in 1 .. n : i < j \/ j < i \/ i = j
  OBVIOUS
<1>2. f \in Injection(1 .. n, S)
  BY <1>1 DEF Injection, IsInjective
<1> QED
  BY <1>2, UpTo, FS_Injection

\* The ranges of holes are what the list does not cover, in any pieces.
Holes(holes, done) ==
  /\ holes \in SUBSET Span /\ IsFiniteSet(holes)
  /\ \A h \in holes, k \in DOMAIN done : Apart(h, done[k])
  /\ \A byte \in 0 .. Total - 1 : Covers(done, byte) \/ \E h \in holes : In(byte, h)

LEMMA RangesBetweenHoles ==
  ASSUME NEW done \in Seq(Span), Separated(done), NEW holes, Holes(holes, done)
  PROVE  Len(done) <= Cardinality(holes) + 1
<1> DEFINE n == Len(done)
<1>1. /\ n \in Nat /\ DOMAIN done = 1 .. n
      /\ \A k \in 1 .. n : /\ done[k] \in Span /\ done[k].start \in Nat /\ done[k].end \in Nat
                           /\ done[k].start < done[k].end /\ done[k].end <= Total
      /\ Total \in Nat /\ Cardinality(holes) \in Nat
  BY ListIs, SpanIs, AttemptBounds, FS_CardinalityType DEF Holes
<1>2. \A i, j \in 1 .. n : i < j => done[i].end < done[j].start
  BY <1>1 DEF Separated
<1> HIDE DEF n
<1>3. CASE n = 0
  BY <1>1, <1>3 DEF n
<1>4. CASE n # 0
  <2> DEFINE m == n - 1
  <2>1. /\ m \in Nat /\ n = m + 1
        /\ \A k \in 1 .. m : k \in 1 .. n /\ k + 1 \in 1 .. n /\ k < k + 1
    BY <1>1, <1>4
  <2> HIDE DEF m
  <2>2. ASSUME NEW k \in 1 .. m
        PROVE  \E h \in holes : In(done[k].end, h)
    <3>1. /\ done[k].end < done[k + 1].start /\ done[k].end \in Nat
          /\ done[k + 1].start \in Nat /\ done[k + 1].start < Total
      <4>1. /\ done[k + 1].start < done[k + 1].end /\ done[k + 1].end <= Total
            /\ done[k + 1].start \in Nat /\ done[k + 1].end \in Nat
        BY <1>1, <2>1
      <4>2. done[k].end < done[k + 1].start /\ done[k].end \in Nat
        BY <1>1, <1>2, <2>1
      <4> QED
        BY <1>1, <4>1, <4>2
    <3>2. done[k].end \in 0 .. Total - 1
      BY <1>1, <3>1
    <3>3. ASSUME NEW j \in 1 .. n PROVE ~In(done[k].end, done[j])
      <4>1. k \in 1 .. n
        BY <2>1
      <4>2. j < k \/ j = k \/ k < j
        BY <1>1, <4>1
      <4>3. /\ done[j].start \in Nat /\ done[j].end \in Nat
            /\ done[k].start \in Nat /\ done[k].start < done[k].end
        BY <1>1, <4>1
      <4>4. /\ j < k => done[j].end < done[k].start
            /\ k < j => done[k].end < done[j].start
        BY <1>2, <4>1
      <4> QED
        BY <3>1, <4>2, <4>3, <4>4 DEF In
    <3> QED
      BY <1>1, <3>2, <3>3 DEF Holes, Covers
  <2> DEFINE f == [k \in 1 .. m |-> CHOOSE h \in holes : In(done[k].end, h)]
  <2>3. \A k \in 1 .. m : f[k] \in holes /\ In(done[k].end, f[k])
    BY <2>2
  <2>4. f \in [1 .. m -> holes]
    BY <2>3
  <2> HIDE DEF f
  <2>5. ASSUME NEW i \in 1 .. m, NEW j \in 1 .. m, i < j
        PROVE  f[i] # f[j]
    <3> DEFINE h == f[i]
    <3>1. SUFFICES ASSUME h = f[j] PROVE FALSE
      OBVIOUS
    <3>2. In(done[i].end, h) /\ In(done[j].end, h) /\ h \in Span
      BY <2>3, <3>1 DEF Holes
    <3>3. Apart(h, done[j])
      BY <1>1, <2>1, <2>3 DEF Holes
    <3> HIDE DEF h
    <3>4. /\ done[i].end < done[j].start /\ done[j].start < done[j].end
          /\ done[i].end \in Nat /\ done[j].start \in Nat /\ done[j].end \in Nat
      BY <1>1, <1>2, <2>1, <2>5
    <3> QED
      <4>1. /\ h.start \in Nat /\ h.end \in Nat
            /\ h.start <= done[i].end /\ done[j].end < h.end
            /\ h.end <= done[j].start \/ done[j].end <= h.start
        BY <3>2, <3>3, SpanIs DEF In, Apart
      <4> QED
        BY <3>4, <4>1
  <2>6. m <= Cardinality(holes)
    BY <2>1, <2>4, <2>5, AtLeast DEF Holes
  <2> QED
    BY <1>1, <2>1, <2>6 DEF n
<1> QED
  BY <1>3, <1>4

LEMMA GapsWithinHoles ==
  ASSUME NEW done \in Seq(Span), Separated(done), NEW holes, Holes(holes, done)
  PROVE  Len(MissingRanges(Total, done)) <= Cardinality(holes)
<1> DEFINE m == MissingRanges(Total, done)
           c == Len(m)
<1>1. /\ m \in Seq(Span) /\ Separated(m)
      /\ \A i \in DOMAIN m, k \in DOMAIN done : Apart(m[i], done[k])
      /\ \A i \in DOMAIN m : \/ m[i].end = Total
                             \/ \E k \in DOMAIN done : m[i].end = done[k].start
  BY MissingIs
<1> HIDE DEF m
<1>2. /\ c \in Nat /\ DOMAIN m = 1 .. c
      /\ \A i \in 1 .. c : /\ m[i] \in Span /\ m[i].start \in Nat /\ m[i].end \in Nat
                           /\ m[i].start < m[i].end /\ m[i].end <= Total
      /\ \A i, j \in 1 .. c : i < j => m[i].end < m[j].start
      /\ Total \in Nat
  BY <1>1, ListIs, SpanIs, AttemptBounds DEF Separated
<1>3. /\ \A k \in DOMAIN done : /\ done[k] \in Span /\ done[k].start \in Nat
                                /\ done[k].end \in Nat /\ done[k].start < done[k].end
  BY ListIs, SpanIs
<1> HIDE DEF c
<1>4. ASSUME NEW i \in 1 .. c
      PROVE  \E h \in holes : In(m[i].start, h)
  <2>1. m[i].start \in 0 .. Total - 1
    BY <1>2
  <2>2. ASSUME NEW k \in DOMAIN done PROVE ~In(m[i].start, done[k])
    <3>1. Apart(m[i], done[k])
      BY <1>1, <1>2
    <3> QED
      BY <1>2, <1>3, <3>1 DEF Apart, In
  <2> QED
    BY <2>1, <2>2 DEF Holes, Covers
<1> DEFINE f == [i \in 1 .. c |-> CHOOSE h \in holes : In(m[i].start, h)]
<1>5. \A i \in 1 .. c : f[i] \in holes /\ In(m[i].start, f[i])
  BY <1>4
<1>6. f \in [1 .. c -> holes]
  BY <1>5
<1> HIDE DEF f
<1>7. ASSUME NEW i \in 1 .. c, NEW j \in 1 .. c, i < j
      PROVE  f[i] # f[j]
  <2> DEFINE h == f[i]
  <2>1. SUFFICES ASSUME h = f[j] PROVE FALSE
    OBVIOUS
  <2>2. In(m[i].start, h) /\ In(m[j].start, h) /\ h \in holes /\ h \in Span
    BY <1>5, <2>1 DEF Holes
  <2> HIDE DEF h
  <2>3. /\ m[i].start < m[i].end /\ m[i].end < m[j].start /\ m[j].start < Total
        /\ m[i].start \in Nat /\ m[i].end \in Nat /\ m[j].start \in Nat
    <3>1. m[j].start < m[j].end /\ m[j].end <= Total /\ m[j].start \in Nat /\ m[j].end \in Nat
      BY <1>2
    <3>2. m[i].end < m[j].start
      BY <1>2, <1>7
    <3> QED
      BY <1>2, <3>1, <3>2
  <2>4. In(m[i].end, h)
    BY <2>2, <2>3, SpanIs DEF In
  <2>5. PICK k \in DOMAIN done : m[i].end = done[k].start
    <3>1. m[i].end # Total
      BY <1>2, <2>3
    <3>2. i \in DOMAIN m
      BY <1>2
    <3> QED
      BY <1>1, <3>1, <3>2
  <2>6. Apart(h, done[k])
    BY <2>2 DEF Holes
  <2> QED
    BY <1>3, <2>2, <2>4, <2>5, <2>6, SpanIs DEF In, Apart
<1>8. c <= Cardinality(holes)
  BY <1>2, <1>6, <1>7, AtLeast DEF Holes
<1> QED
  BY <1>8 DEF c, m

\* With a byte between any two ranges, half of the bytes bound their number.
LEMMA SmallList ==
  ASSUME NEW done \in Seq(Span), Separated(done), Total <= 2 * MaxCompleted
  PROVE  Len(done) <= MaxCompleted
<1> DEFINE n == Len(done)
           S == {k \in 1 .. n : 2 * k <= done[k].end + 1}
<1>1. /\ n \in Nat /\ DOMAIN done = 1 .. n /\ Total \in Nat /\ MaxCompleted \in Nat
      /\ \A k \in 1 .. n : /\ done[k].start \in Nat /\ done[k].end \in Nat
                           /\ done[k].start < done[k].end /\ done[k].end <= Total
  BY ListIs, SpanIs, AttemptBounds, RequestBounds
<1>2. \A i, j \in 1 .. n : i < j => done[i].end < done[j].start
  BY <1>1 DEF Separated
<1> HIDE DEF n
<1>3. CASE n = 0
  BY <1>1, <1>3 DEF n
<1>4. CASE n # 0
  <2>1. 1 \in 1 .. n /\ n \in 1 .. n
    BY <1>1, <1>4
  <2>2. 1 \in S
    BY <1>1, <2>1
  <2>3. ASSUME NEW k \in 1 .. n, k < n, k \in S PROVE k + 1 \in S
    <3>1. k + 1 \in 1 .. n /\ k < k + 1
      BY <1>1, <2>3
    <3>2. /\ done[k].end < done[k + 1].start /\ done[k + 1].start < done[k + 1].end
          /\ done[k].end \in Nat /\ done[k + 1].start \in Nat /\ done[k + 1].end \in Nat
          /\ 2 * k <= done[k].end + 1
      BY <1>1, <1>2, <2>3, <3>1
    <3>3. 2 * (k + 1) <= done[k + 1].end + 1
      <4> DEFINE a == done[k].end
                 b == done[k + 1].start
                 c == done[k + 1].end
      <4>1. /\ a \in Nat /\ b \in Nat /\ c \in Nat /\ k \in Nat
            /\ a < b /\ b < c /\ 2 * k <= a + 1
        BY <1>1, <3>2
      <4> HIDE DEF a, b, c, S
      <4>2. 2 * (k + 1) <= c + 1
        BY <4>1
      <4> QED
        BY <4>2 DEF c
    <3> QED
      BY <3>1, <3>3
  <2> HIDE DEF S
  <2>4. 1 .. n \subseteq S
    BY <1>1, <2>2, <2>3, Climbs
  <2>5. 2 * n <= done[n].end + 1
    BY <2>1, <2>4 DEF S
  <2> QED
    BY <1>1, <2>1, <2>5 DEF n
<1> QED
  BY <1>3, <1>4

LEMMA NextGap ==
  ASSUME NEW k \in Nat, NEW sum \in Nat, NEW bound \in Nat, NEW start \in Nat, NEW end \in Nat,
         sum + k <= bound + 1, k <= sum, bound < start, start < end
  PROVE  /\ (sum + (end - start)) + (k + 1) <= end + 1
         /\ k + 1 <= sum + (end - start)
OBVIOUS

LEMMA NextCount ==
  ASSUME NEW a \in Nat, NEW b \in Nat, NEW s \in Nat, NEW l \in Nat, NEW p \in Nat, NEW q \in Nat,
         a <= s + p, b <= l + q
  PROVE  a + b <= (s + l) + (p + q)
OBVIOUS

\* Gaps with a byte at least between any two fit in the file.
LEMMA SizeAndGaps ==
  ASSUME NEW list \in Seq(Span), Separated(list), Len(list) # 0
  PROVE  /\ SizeOf(list) \in 1 .. Total /\ SizeOf(list) + Len(list) <= Total + 1
<1> DEFINE n == Len(list)
<1>1. /\ n \in Nat /\ DOMAIN list = 1 .. n /\ 1 \in 1 .. n /\ n \in 1 .. n /\ Total \in Nat
      /\ \A k \in 1 .. n : /\ list[k].start \in Nat /\ list[k].end \in Nat
                           /\ list[k].start < list[k].end /\ list[k].end <= Total
  BY ListIs, SpanIs, AttemptBounds
<1>2. \A i, j \in 1 .. n : i < j => list[i].end < list[j].start
  BY <1>1 DEF Separated
<1>3. PICK sum : /\ sum[0] = 0 /\ sum[n] = SizeOf(list)
                 /\ \A k \in 0 .. n : sum[k] \in Nat
                 /\ \A k \in 1 .. n : sum[k] = sum[k - 1] + (list[k].end - list[k].start)
  BY SizeOfAdds
<1> HIDE DEF n
<1> DEFINE S == {k \in 1 .. n : sum[k] + k <= list[k].end + 1 /\ k <= sum[k]}
<1>4. 1 \in S
  <2>1. sum[1] = 0 + (list[1].end - list[1].start)
    <3>1. 1 - 1 = 0
      OBVIOUS
    <3>2. sum[1] = sum[1 - 1] + (list[1].end - list[1].start)
      BY <1>1, <1>3
    <3> QED
      BY <1>3, <3>1, <3>2
  <2>2. /\ list[1].start \in Nat /\ list[1].end \in Nat /\ list[1].start < list[1].end
    BY <1>1
  <2> QED
    BY <1>1, <2>1, <2>2
<1>5. ASSUME NEW k \in 1 .. n, k < n, k \in S PROVE k + 1 \in S
  <2>1. k + 1 \in 1 .. n /\ k < k + 1 /\ (k + 1) - 1 = k /\ k \in 0 .. n /\ k \in Nat
    BY <1>1, <1>5
  <2>2. /\ list[k].end < list[k + 1].start /\ list[k + 1].start < list[k + 1].end
        /\ list[k].end \in Nat /\ list[k + 1].start \in Nat /\ list[k + 1].end \in Nat
    BY <1>1, <1>2, <2>1
  <2>3. /\ sum[k + 1] = sum[k] + (list[k + 1].end - list[k + 1].start) /\ sum[k] \in Nat
        /\ sum[k] + k <= list[k].end + 1 /\ k <= sum[k]
    BY <1>3, <1>5, <2>1
  <2>4. sum[k + 1] + (k + 1) <= list[k + 1].end + 1 /\ k + 1 <= sum[k + 1]
    <3>1. /\ (sum[k] + (list[k + 1].end - list[k + 1].start)) + (k + 1) <= list[k + 1].end + 1
          /\ k + 1 <= sum[k] + (list[k + 1].end - list[k + 1].start)
      <4> DEFINE a == sum[k]
                 b == list[k].end
                 start == list[k + 1].start
                 end == list[k + 1].end
      <4>1. /\ a \in Nat /\ b \in Nat /\ start \in Nat /\ end \in Nat /\ k \in Nat
            /\ a + k <= b + 1 /\ k <= a /\ b < start /\ start < end
        BY <2>1, <2>2, <2>3
      <4> HIDE DEF a, b, start, end, S
      <4>2. (a + (end - start)) + (k + 1) <= end + 1 /\ k + 1 <= a + (end - start)
        BY <4>1, NextGap
      <4> QED
        BY <4>2 DEF a, start, end
    <3> QED
      BY <2>3, <3>1
  <2> QED
    BY <2>1, <2>4
<1> HIDE DEF S
<1>6. 1 .. n \subseteq S
  BY <1>1, <1>4, <1>5, Climbs
<1>7. /\ sum[n] + n <= list[n].end + 1 /\ n <= sum[n]
  BY <1>1, <1>6 DEF S
<1>8. /\ sum[n] \in Nat /\ list[n].end <= Total /\ list[n].end \in Nat /\ n >= 1
  BY <1>1, <1>3
<1>9. sum[n] \in 1 .. Total /\ sum[n] + n <= Total + 1
  BY <1>1, <1>7, <1>8
<1> QED
  BY <1>3, <1>9 DEF n

\* Requests of this size fill the gaps with less than one more request for each.
LEMMA RequestsOfGaps ==
  ASSUME NEW list \in Seq(Span), NEW plan \in Nat \ {0},
         SizeOf(list) + Len(list) * (plan - 1) < (MaxRequests + 1) * plan
  PROVE  PlanFits(list, plan)
<1> DEFINE n == Len(list)
           len(k) == list[k].end - list[k].start
           few(k) == Ceiling(list[k].end - list[k].start, plan)
<1>1. /\ n \in Nat /\ n \in 0 .. n /\ 0 \in 0 .. n /\ MaxRequests \in Nat
      /\ \A k \in 1 .. n : len(k) \in Nat \ {0}
  <2>1. \A k \in 1 .. n : /\ list[k].start \in Nat /\ list[k].end \in Nat
                          /\ list[k].start < list[k].end
    BY ListIs, SpanIs
  <2>2. n \in Nat /\ MaxRequests \in Nat
    BY ListIs, RequestBounds
  <2>3. \A k \in 1 .. n : len(k) \in Nat \ {0}
    BY <2>1
  <2> HIDE DEF n, len
  <2>4. n \in 0 .. n /\ 0 \in 0 .. n
    BY <2>2
  <2> QED
    BY <2>2, <2>3, <2>4
<1>2. PICK sum : /\ sum[0] = 0 /\ sum[n] = SizeOf(list)
                 /\ \A k \in 0 .. n : sum[k] \in Nat
                 /\ \A k \in 1 .. n : sum[k] = sum[k - 1] + len(k)
  BY SizeOfAdds
<1>3. PICK count : /\ count[0] = 0 /\ (count[n] <= MaxRequests <=> PlanFits(list, plan))
                   /\ \A k \in 0 .. n : count[k] \in Nat
                   /\ \A k \in 1 .. n : count[k] = count[k - 1] + few(k)
  BY PlanCounts
<1>4. \A k \in 1 .. n : few(k) \in Nat /\ few(k) * plan <= len(k) + (plan - 1)
  <2>1. ASSUME NEW k \in 1 .. n
        PROVE  few(k) \in Nat /\ few(k) * plan <= len(k) + (plan - 1)
    <3>1. few(k) \in Nat /\ few(k) * plan < len(k) + plan
      BY <1>1, CeilingIs
    <3>2. few(k) * plan \in Nat /\ len(k) \in Nat
      <4>1. len(k) \in Nat
        BY <1>1
      <4> HIDE DEF few
      <4> QED
        BY <3>1, <4>1
    <3> HIDE DEF few, len
    <3> QED
      BY <3>1, <3>2
  <2> QED
    BY <2>1
<1> HIDE DEF n, len, few
<1> DEFINE S == {k \in 0 .. n : count[k] * plan <= sum[k] + k * (plan - 1)}
<1>5. 0 \in S
  BY <1>1, <1>2, <1>3
<1>6. ASSUME NEW k \in 0 .. n, k < n, k \in S PROVE k + 1 \in S
  <2>1. k + 1 \in 1 .. n /\ k + 1 \in 0 .. n /\ (k + 1) - 1 = k /\ k \in Nat
    BY <1>1, <1>6
  <2>2. /\ sum[k + 1] = sum[k] + len(k + 1) /\ sum[k] \in Nat /\ len(k + 1) \in Nat
        /\ count[k + 1] = count[k] + few(k + 1) /\ count[k] \in Nat /\ few(k + 1) \in Nat
        /\ few(k + 1) * plan <= len(k + 1) + (plan - 1)
        /\ count[k] * plan <= sum[k] + k * (plan - 1)
    BY <1>1, <1>2, <1>3, <1>4, <1>6, <2>1
  <2> DEFINE x == few(k + 1)
             y == count[k]
  <2>3. (y + x) * plan = y * plan + x * plan /\ (k + 1) * (plan - 1) = k * (plan - 1) + (plan - 1)
    <3> HIDE DEF x, y
    <3>1. y \in Nat /\ x \in Nat
      BY <2>2 DEF x, y
    <3> QED
      BY <2>1, <3>1
  <2>4. /\ y * plan \in Nat /\ x * plan \in Nat /\ k * (plan - 1) \in Nat /\ plan - 1 \in Nat
    <3>1. y \in Nat /\ x \in Nat /\ plan - 1 \in Nat
      BY <2>2
    <3> HIDE DEF x, y
    <3> QED
      BY <2>1, <3>1
  <2>5. count[k + 1] * plan <= sum[k + 1] + (k + 1) * (plan - 1)
    <3>1. count[k + 1] * plan = y * plan + x * plan
      BY <2>2, <2>3
    <3>2. y * plan <= sum[k] + k * (plan - 1) /\ x * plan <= len(k + 1) + (plan - 1)
      BY <2>2
    <3>3. y * plan + x * plan <= (sum[k] + len(k + 1)) + (k * (plan - 1) + (plan - 1))
      <4> HIDE DEF x, y
      <4> QED
        BY <2>2, <2>4, <3>2, NextCount
    <3> QED
      BY <2>2, <2>3, <3>1, <3>3
  <2> QED
    BY <2>1, <2>5
<1> HIDE DEF S
<1>7. 0 .. n \subseteq S
  <2>1. 0 \in Nat
    OBVIOUS
  <2> QED
    BY <1>1, <1>5, <1>6, <2>1, Climbs
<1>8. count[n] * plan <= sum[n] + n * (plan - 1)
  BY <1>1, <1>7 DEF S
<1>9. count[n] * plan < (MaxRequests + 1) * plan
  <2>1. /\ count[n] * plan \in Nat /\ sum[n] \in Nat /\ n * (plan - 1) \in Int
        /\ (MaxRequests + 1) * plan \in Nat
    <3>1. count[n] \in Nat /\ sum[n] \in Nat
      BY <1>1, <1>2, <1>3
    <3> QED
      BY <1>1, <3>1
  <2>2. sum[n] + n * (plan - 1) < (MaxRequests + 1) * plan
    BY <1>2 DEF n
  <2> QED
    BY <1>8, <2>1, <2>2
<1>10. count[n] < MaxRequests + 1
  <2> DEFINE x == count[n]
  <2>1. x \in Nat
    BY <1>1, <1>3
  <2>2. x * plan < (MaxRequests + 1) * plan
    BY <1>9
  <2> HIDE DEF x
  <2>3. x < MaxRequests + 1
    BY <1>1, <2>1, <2>2
  <2> QED
    BY <2>3 DEF x
<1>11. count[n] <= MaxRequests
  <2>1. count[n] \in Nat
    BY <1>1, <1>3
  <2> QED
    BY <1>1, <1>10, <2>1
<1> QED
  BY <1>3, <1>11

\* No plan for what a list that is accepted leaves is too long.
LEMMA PlansFit ==
  ASSUME LimitsSuffice, NEW done \in Seq(Span), Separated(done), Len(done) <= MaxCompleted,
         NEW count \in 1 .. Workers
  PROVE  LET m == MissingRanges(Total, done)
         IN  PlanFits(m, RequestChunkSize(SizeOf(m), count))
<1> DEFINE m == MissingRanges(Total, done)
           s == SizeOf(m)
           c == Len(m)
           plan == RequestChunkSize(s, count)
<1>1. m \in Seq(Span) /\ Separated(m) /\ c <= Len(done) + 1
  BY MissingIs
<1> HIDE DEF m
<1>2. c \in Nat /\ Len(done) \in Nat /\ MaxCompleted \in Nat /\ MaxRequests \in Nat
  BY <1>1, ListIs, RequestBounds
<1>3. count \in Nat \ {0}
  OBVIOUS
<1>4. plan \in Nat \ {0}
  BY <1>1, <1>3, PlanIs
<1>5. CASE c = 0
  <2>1. PICK sum : /\ sum[0] = 0 /\ (sum[c] <= MaxRequests <=> PlanFits(m, plan))
    <3> HIDE DEF plan
    <3> QED
      BY <1>1, <1>4, PlanCounts
  <2>2. sum[c] <= MaxRequests
    BY <1>2, <1>5, <2>1
  <2> QED
    BY <2>1, <2>2 DEF m
<1>6. CASE c # 0
  <2>1. s \in 1 .. Total /\ s + c <= Total + 1
    BY <1>1, <1>6, SizeAndGaps
  <2>2. c \in 1 .. MaxCompleted + 1
    BY <1>1, <1>2, <1>6
  <2> HIDE DEF s, c
  <2>3. s + c * (plan - 1) < (MaxRequests + 1) * plan
    BY <2>1, <2>2 DEF LimitsSuffice
  <2> HIDE DEF plan
  <2>4. PlanFits(m, plan)
    BY <1>1, <1>4, <2>3, RequestsOfGaps DEF s, c
  <2> QED
    BY <2>4 DEF m, plan, s
<1> QED
  BY <1>5, <1>6

\* Canonical ranges that leave no byte out are one range.
LEMMA CoverIsWhole ==
  ASSUME NEW done \in Seq(Span), Separated(done), \A byte \in 0 .. Total - 1 : Covers(done, byte)
  PROVE  ExactlyCovers(done, Total)
<1> DEFINE n == Len(done)
<1>1. /\ n \in Nat /\ DOMAIN done = 1 .. n /\ Total \in Nat \ {0} /\ done \in [1 .. n -> Span]
      /\ \A k \in 1 .. n : /\ done[k].start \in Nat /\ done[k].end \in Nat
                           /\ done[k].start < done[k].end /\ done[k].end <= Total
                           /\ done[k] = [start |-> done[k].start, end |-> done[k].end]
  BY ListIs, SpanIs, AttemptBounds
<1>2. \A i, j \in 1 .. n : i < j => done[i].end < done[j].start
  BY <1>1 DEF Separated
<1> HIDE DEF n
<1>3. 1 \in 1 .. n /\ done[1].start = 0
  <2>1. 0 \in 0 .. Total - 1
    BY <1>1
  <2>2. PICK k \in 1 .. n : In(0, done[k])
    BY <1>1, <2>1 DEF Covers
  <2>3. done[k].start = 0 /\ 1 \in 1 .. n
    BY <1>1, <2>2 DEF In
  <2>4. ~(1 < k)
    BY <1>1, <1>2, <2>3
  <2>5. k = 1
    BY <1>1, <2>4
  <2> QED
    BY <2>3, <2>5
<1>4. done[1].end = Total
  <2> SUFFICES ASSUME done[1].end # Total PROVE FALSE
    OBVIOUS
  <2>1. done[1].end \in 0 .. Total - 1
    BY <1>1, <1>3
  <2>2. PICK k \in 1 .. n : In(done[1].end, done[k])
    BY <1>1, <2>1 DEF Covers
  <2>3. k = 1 \/ 1 < k
    BY <1>1
  <2>4. 1 < k => done[1].end < done[k].start
    BY <1>2, <1>3
  <2> QED
    BY <1>1, <1>3, <2>2, <2>3, <2>4 DEF In
<1>5. n = 1
  <2> SUFFICES ASSUME n # 1 PROVE FALSE
    OBVIOUS
  <2>1. 2 \in 1 .. n /\ 1 < 2
    BY <1>1, <1>3
  <2>2. /\ done[1].end < done[2].start /\ done[2].start < done[2].end /\ done[2].end <= Total
        /\ done[2].start \in Nat /\ done[2].end \in Nat
    BY <1>1, <1>2, <1>3, <2>1
  <2> QED
    BY <1>1, <1>4, <2>2
<1>6. done[1] = [start |-> 0, end |-> Total]
  BY <1>1, <1>3, <1>4
<1>7. done = <<[start |-> 0, end |-> Total]>>
  <2> DEFINE r == [start |-> 0, end |-> Total]
  <2> HIDE DEF r
  <2>1. <<r>> = [k \in 1 .. 1 |-> r]
    OBVIOUS
  <2>2. done = [k \in 1 .. 1 |-> r]
    BY <1>1, <1>5, <1>6 DEF r
  <2> QED
    BY <2>1, <2>2 DEF r
<1> QED
  BY <1>1, <1>7 DEF ExactlyCovers

-----------------------------------------------------------------------------
(* What attempts leave behind *)

\* Attempts up to the present one, if none before had been given up early
Tries(run, retry) == (run - 1) * (MaxRetries + 1) + retry + 1

\* Holes that so many attempts can leave in a file that begins as one
Quota(attempts) == 1 + Workers * attempts

LEMMA TriesAre ==
  ASSUME NEW run \in 1 .. MaxRuns, NEW retry \in 0 .. MaxRetries
  PROVE  /\ Tries(run, retry) - 1 \in Nat /\ Tries(run, retry) \in Nat
         /\ Tries(run, retry + 1) = Tries(run, retry) + 1
         /\ Tries(run, retry) <= Tries(run + 1, 0) - 1
         /\ Tries(run, retry) <= MaxRuns * (MaxRetries + 1)
<1> DEFINE p == MaxRetries + 1
<1>1. /\ MaxRetries \in Nat /\ MaxRuns \in Nat /\ p \in Nat /\ run - 1 \in Nat /\ run \in Nat
      /\ retry \in Nat /\ retry + 1 <= p /\ MaxRuns - run \in Nat
  BY AttemptBounds
<1> HIDE DEF p
<1>2. /\ (run - 1) * p \in Nat /\ run * p = (run - 1) * p + p /\ run * p \in Nat
      /\ ((run + 1) - 1) * p = run * p
  BY <1>1
<1>3. run * p <= MaxRuns * p
  <2>1. MaxRuns * p = run * p + (MaxRuns - run) * p
    BY <1>1
  <2>2. (MaxRuns - run) * p \in Nat
    BY <1>1
  <2> QED
    BY <1>2, <2>1, <2>2
<1>4. MaxRuns * p \in Nat
  BY <1>1
<1>5. /\ Tries(run, retry) = (run - 1) * p + retry + 1
      /\ Tries(run, retry + 1) = (run - 1) * p + (retry + 1) + 1
      /\ Tries(run + 1, 0) = ((run + 1) - 1) * p + 0 + 1
  BY DEF Tries, p
<1>6. /\ Tries(run, retry) - 1 \in Nat /\ Tries(run, retry) \in Nat
      /\ Tries(run, retry + 1) = Tries(run, retry) + 1
  BY <1>1, <1>2, <1>5
<1>7. Tries(run, retry) <= run * p
  BY <1>1, <1>2, <1>5
<1>8. Tries(run + 1, 0) - 1 = run * p
  BY <1>1, <1>2, <1>5
<1> QED
  BY <1>1, <1>2, <1>3, <1>4, <1>6, <1>7, <1>8 DEF p

LEMMA QuotaGrows ==
  ASSUME NEW s \in Nat, NEW t \in Nat, s <= t
  PROVE  /\ Quota(s) \in Nat /\ Quota(t) \in Nat /\ Quota(s) <= Quota(t)
         /\ Quota(t + 1) = Quota(t) + Workers
<1>1. Workers \in Nat
  BY AttemptBounds
<1>2. Workers * t = Workers * s + Workers * (t - s) /\ Workers * (t + 1) = Workers * t + Workers
  BY <1>1
<1>3. Workers * s \in Nat /\ Workers * t \in Nat /\ Workers * (t - s) \in Nat
  <2>1. t - s \in Nat
    OBVIOUS
  <2> QED
    BY <1>1, <2>1
<1> QED
  BY <1>1, <1>2, <1>3 DEF Quota

\* Between the list, the chunks in flight, the gaps and the lost pieces no byte is forgotten, and
\* a piece was lost for each worker that left, at most.
Lost(pieces, done, chunks, gaps) ==
  /\ pieces \in SUBSET Span /\ IsFiniteSet(pieces)
  /\ Cardinality(pieces) + Cardinality(chunks) <= Workers
  /\ \A p \in pieces : /\ \A k \in DOMAIN done : Apart(p, done[k])
                       /\ \A w \in chunks : Apart(p, w.range)
  /\ \A byte \in 0 .. Total - 1 :
       \/ Covers(done, byte) \/ Covers(gaps, byte)
       \/ (\E w \in chunks : In(byte, w.range)) \/ \E p \in pieces : In(byte, p)

\* So many holes remain at most when the chunks in flight and the gaps are given up.
LEMMA HolesLeft ==
  ASSUME NEW done, NEW gaps \in Seq(Span), NEW chunks \in SUBSET Chunks, IsFiniteSet(chunks),
         ApartAll(done, chunks, gaps), NEW pieces, Lost(pieces, done, chunks, gaps)
  PROVE  \E holes : Holes(holes, done) /\ Cardinality(holes) <= Workers + Len(gaps)
<1> DEFINE C == {w.range : w \in chunks}
           G == {gaps[k] : k \in 1 .. Len(gaps)}
           holes == (pieces \cup C) \cup G
<1>1. /\ Len(gaps) \in Nat /\ DOMAIN gaps = 1 .. Len(gaps)
      /\ \A k \in 1 .. Len(gaps) : gaps[k] \in Span
      /\ Workers \in Nat
  BY ListIs, AttemptBounds
<1>2. C \subseteq Span /\ G \subseteq Span
  BY <1>1 DEF Chunks
<1>3. IsFiniteSet(C) /\ Cardinality(C) \in Nat /\ Cardinality(C) <= Cardinality(chunks)
  <2> DEFINE f == [w \in chunks |-> w.range]
  <2>1. f \in [chunks -> C] /\ C = {f[w] : w \in chunks}
    OBVIOUS
  <2> HIDE DEF f, C
  <2> QED
    BY <2>1, ImageIs
<1>4. IsFiniteSet(G) /\ Cardinality(G) \in Nat /\ Cardinality(G) <= Len(gaps)
  <2> DEFINE D == 1 .. Len(gaps)
             f == [k \in D |-> gaps[k]]
  <2>1. f \in [D -> G] /\ G = {f[k] : k \in D}
    OBVIOUS
  <2>2. IsFiniteSet(D) /\ Cardinality(D) = Len(gaps)
    BY <1>1, UpTo
  <2> HIDE DEF f, G, D
  <2>3. IsFiniteSet(G) /\ Cardinality(G) \in Nat /\ Cardinality(G) <= Cardinality(D)
    BY <2>1, <2>2, ImageIs
  <2> QED
    BY <2>2, <2>3
<1> HIDE DEF C, G
<1>5. IsFiniteSet(holes) /\ Cardinality(holes) <= Workers + Len(gaps)
  <2>1. /\ IsFiniteSet(pieces) /\ Cardinality(pieces) \in Nat /\ Cardinality(chunks) \in Nat
        /\ Cardinality(pieces) + Cardinality(chunks) <= Workers
    BY FS_CardinalityType DEF Lost
  <2> DEFINE A == pieces \cup C
  <2>2. IsFiniteSet(A) /\ Cardinality(A) = Cardinality(pieces) + Cardinality(C) - Cardinality(pieces \cap C)
    BY <1>3, <2>1, FS_Union
  <2>3. Cardinality(pieces \cap C) \in Nat
    <3>1. IsFiniteSet(pieces \cap C)
      BY <2>1, FS_Subset
    <3> QED
      BY <3>1, FS_CardinalityType
  <2>4. Cardinality(A) \in Nat /\ Cardinality(A) <= Workers
    <3>1. Cardinality(A) \in Nat
      BY <2>2, FS_CardinalityType
    <3> HIDE DEF A
    <3> QED
      BY <1>1, <1>3, <2>1, <2>2, <2>3, <3>1
  <2> HIDE DEF A
  <2>5. /\ IsFiniteSet(A \cup G)
        /\ Cardinality(A \cup G) = Cardinality(A) + Cardinality(G) - Cardinality(A \cap G)
    BY <1>4, <2>2, FS_Union
  <2>6. Cardinality(A \cap G) \in Nat /\ Cardinality(A \cup G) \in Nat
    <3>1. IsFiniteSet(A \cap G)
      BY <1>4, FS_Subset
    <3> QED
      BY <2>5, <3>1, FS_CardinalityType
  <2>7. Cardinality(A \cup G) <= Workers + Len(gaps)
    BY <1>1, <1>4, <2>4, <2>5, <2>6
  <2> QED
    BY <2>5, <2>7 DEF A
<1>6. ASSUME NEW h \in holes, NEW k \in DOMAIN done PROVE Apart(h, done[k])
  <2>1. CASE h \in pieces
    BY <2>1 DEF Lost
  <2>2. CASE h \in C
    BY <2>2 DEF C, ApartAll
  <2>3. CASE h \in G
    BY <1>1, <2>3 DEF G, ApartAll
  <2> QED
    BY <2>1, <2>2, <2>3
<1>7. ASSUME NEW byte \in 0 .. Total - 1, ~Covers(done, byte) PROVE \E h \in holes : In(byte, h)
  <2>1. \/ \E k \in 1 .. Len(gaps) : In(byte, gaps[k])
        \/ \E w \in chunks : In(byte, w.range)
        \/ \E p \in pieces : In(byte, p)
    BY <1>1, <1>7 DEF Lost, Covers
  <2> QED
    BY <2>1 DEF C, G
<1>8. holes \subseteq Span
  BY <1>2 DEF Lost
<1> HIDE DEF holes
<1>9. Holes(holes, done)
  BY <1>5, <1>6, <1>7, <1>8 DEF Holes
<1> QED
  BY <1>5, <1>9

\* A list that so many attempts have left is accepted.
LEMMA ListFits ==
  ASSUME LimitsSuffice, NEW done \in Seq(Span), Separated(done),
         NEW holes, Holes(holes, done), NEW run \in 1 .. MaxRuns, NEW retry \in 0 .. MaxRetries,
         Cardinality(holes) <= Quota(Tries(run, retry))
  PROVE  Len(done) <= MaxCompleted
<1>1. CASE Total <= 2 * MaxCompleted
  BY <1>1, SmallList
<1>2. CASE Workers * MaxRuns * (MaxRetries + 1) + 2 <= MaxCompleted
  <2> DEFINE most == MaxRuns * (MaxRetries + 1)
             t == Tries(run, retry)
  <2>1. /\ most \in Nat /\ t \in Nat /\ t <= most
    <3>1. MaxRuns \in Nat /\ MaxRetries \in Nat
      BY AttemptBounds
    <3> QED
      BY <3>1, TriesAre
  <2> HIDE DEF t
  <2>2. Workers * MaxRuns * (MaxRetries + 1) = Workers * most
    <3>1. Workers \in Nat /\ MaxRuns \in Nat /\ MaxRetries \in Nat
      BY AttemptBounds
    <3> QED
      BY <3>1
  <2> HIDE DEF most
  <2>3. Quota(t) <= Quota(most) /\ Quota(t) \in Nat /\ Quota(most) \in Nat
    BY <2>1, QuotaGrows
  <2>4. Quota(most) = 1 + Workers * most
    BY DEF Quota
  <2>5. /\ Len(done) <= Cardinality(holes) + 1 /\ Len(done) \in Nat /\ Cardinality(holes) \in Nat
        /\ Cardinality(holes) <= Quota(t) /\ MaxCompleted \in Nat
    BY RangesBetweenHoles, ListIs, FS_CardinalityType, RequestBounds DEF Holes, t
  <2>6. Quota(most) + 1 <= MaxCompleted
    <3>1. Workers * most + 2 <= MaxCompleted
      BY <1>2, <2>2
    <3>2. Workers * most \in Nat
      BY <2>1, AttemptBounds
    <3> QED
      BY <2>4, <2>5, <3>1, <3>2
  <2> QED
    BY <2>3, <2>5, <2>6
<1> QED
  BY <1>1, <1>2 DEF LimitsSuffice

FewHoles(done, attempts) ==
  \E holes : Holes(holes, done) /\ Cardinality(holes) <= Quota(attempts)

SomeLost(now, done, chunks, gaps) ==
  \E pieces : Lost(pieces, done, chunks, gaps) /\ (now = "transferring" => pieces = {})

\* The present attempt
Try == Tries(runs, used)

\* Before an attempt its predecessors have left so many holes at most; while it runs its gaps are
\* no more than those holes, and no more pieces are lost than workers left.
Room ==
  /\ runs \in 1 .. MaxRuns /\ Len(completed) <= MaxCompleted /\ phase # "refused"
  /\ phase \in {"transferring", "ending"} =>
       /\ Len(pending) <= Quota(Try - 1)
       /\ SomeLost(phase, completed, work, pending)
  /\ phase \in {"ready", "waiting"} => FewHoles(completed, Try - 1)
  /\ phase = "stopped" => FewHoles(completed, Try)

LEMMA RoomInit == Init => Room
<1> SUFFICES ASSUME Init PROVE Room
  OBVIOUS
<1>1. completed = <<>> /\ phase = "ready" /\ runs = 1 /\ used = 0
  BY DEF Init
<1>2. runs \in 1 .. MaxRuns /\ Len(completed) <= MaxCompleted
  BY <1>1, AttemptBounds, RequestBounds, EmptyList
<1>3. FewHoles(completed, Try - 1)
  <2> DEFINE r == [start |-> 0, end |-> Total]
  <2>1. r \in Span /\ Total \in Nat \ {0}
    BY SpanMade, AttemptBounds
  <2>2. \A byte \in 0 .. Total - 1 : In(byte, r)
    BY <2>1 DEF In
  <2> HIDE DEF r
  <2>3. Holes({r}, completed)
    BY <1>1, <2>1, <2>2, EmptyList, FS_Singleton DEF Holes
  <2>4. Try - 1 = 0 /\ Quota(0) = 1
    <3>1. MaxRetries \in Nat /\ Workers \in Nat
      BY AttemptBounds
    <3>2. Try = (1 - 1) * (MaxRetries + 1) + 0 + 1
      BY <1>1 DEF Try, Tries
    <3>3. (1 - 1) * (MaxRetries + 1) = 0
      BY <3>1
    <3> QED
      BY <3>1, <3>2, <3>3 DEF Quota
  <2>5. Cardinality({r}) <= Quota(Try - 1)
    <3>1. Cardinality({r}) = 1
      BY FS_Singleton
    <3>2. Quota(Try - 1) = 1
      BY <2>4
    <3> QED
      BY <3>1, <3>2
  <2> QED
    BY <2>3, <2>5 DEF FewHoles
<1> QED
  BY <1>1, <1>2, <1>3 DEF Room

LEMMA TryIs ==
  ASSUME Room, used \in 0 .. MaxRetries
  PROVE  /\ Try \in Nat /\ Try - 1 \in Nat /\ Quota(Try - 1) \in Nat /\ Quota(Try) \in Nat
         /\ Quota(Try - 1) <= Quota(Try) /\ Quota(Try) = Quota(Try - 1) + Workers
<1> DEFINE t == Try
<1>1. t \in Nat /\ t - 1 \in Nat
  BY TriesAre DEF Room, Try
<1> HIDE DEF t
<1>2. t - 1 <= t /\ (t - 1) + 1 = t
  BY <1>1
<1>3. /\ Quota(t - 1) \in Nat /\ Quota(t) \in Nat /\ Quota(t - 1) <= Quota(t)
  BY <1>1, <1>2, QuotaGrows
<1>4. Quota((t - 1) + 1) = Quota(t - 1) + Workers
  <2>1. t - 1 <= t - 1
    BY <1>1
  <2> QED
    BY <1>1, <2>1, QuotaGrows
<1> QED
  BY <1>1, <1>2, <1>3, <1>4 DEF t

\* When an attempt ends, its gaps and what its workers lost are the holes it leaves.
LEMMA HolesAfter ==
  ASSUME Cut, Room, used \in 0 .. MaxRetries, NEW done, NEW chunks \in SUBSET Chunks,
         IsFiniteSet(chunks), ApartAll(done, chunks, pending),
         Len(pending) <= Quota(Try - 1), NEW pieces, Lost(pieces, done, chunks, pending)
  PROVE  FewHoles(done, Try)
<1>1. pending \in Seq(Span)
  BY DEF Cut, CutType
<1>2. PICK holes : Holes(holes, done) /\ Cardinality(holes) <= Workers + Len(pending)
  BY <1>1, HolesLeft
<1>3. Cardinality(holes) <= Quota(Try)
  <2>1. Cardinality(holes) \in Nat /\ Len(pending) \in Nat /\ Workers \in Nat
    BY <1>1, <1>2, FS_CardinalityType, ListIs, AttemptBounds DEF Holes
  <2> QED
    BY <1>2, <2>1, TryIs
<1> QED
  BY <1>2, <1>3 DEF FewHoles

LEMMA RoomBegin ==
  ASSUME LimitsSuffice, Cut, Room, used \in 0 .. MaxRetries, BeginAttempt
  PROVE  Room'
<1> DEFINE plan == RequestChunkSize(SizeOf(Missing), workers)
<1>1. /\ phase = "ready" /\ UNCHANGED <<completed, work, runs, used>>
  BY DEF BeginAttempt, retryVars
<1>2. /\ completed \in Seq(Span) /\ Separated(completed) /\ work = {}
      /\ Len(completed) <= MaxCompleted /\ workers \in 1 .. Workers
  <2>1. workers \in {1, 2, 4, 8} /\ workers <= Workers /\ Workers \in Nat
    BY AttemptBounds DEF Cut, CutType
  <2>2. workers \in 1 .. Workers
    BY <2>1
  <2> QED
    BY <1>1, <2>2 DEF Cut, CutType, Room
<1>3. Canonical(Total, completed)
  <2>1. DOMAIN completed = 1 .. Len(completed) /\ Len(completed) \in Nat
        /\ \A k \in 1 .. Len(completed) : completed[k].end <= Total
    BY <1>2, ListIs, SpanIs
  <2>2. ASSUME NEW k \in 2 .. Len(completed) PROVE completed[k - 1].end < completed[k].start
    <3>1. k - 1 \in 1 .. Len(completed) /\ k \in 1 .. Len(completed) /\ k - 1 < k
      BY <2>1
    <3> QED
      BY <1>2, <2>1, <3>1 DEF Separated
  <2> QED
    BY <1>2, <2>1, <2>2 DEF Canonical
<1>4. PlanFits(Missing, plan)
  BY <1>2, PlansFit DEF Missing
<1>5. phase' = "transferring" /\ pending' = Missing
  BY <1>3, <1>4 DEF BeginAttempt
<1>6. FewHoles(completed, Try - 1)
  BY <1>1 DEF Room
<1>7. Len(Missing) <= Quota(Try - 1)
  <2>1. PICK holes : Holes(holes, completed) /\ Cardinality(holes) <= Quota(Try - 1)
    BY <1>6 DEF FewHoles
  <2>2. Len(Missing) <= Cardinality(holes)
    BY <1>2, <2>1, GapsWithinHoles DEF Missing
  <2>3. Len(Missing) \in Nat /\ Cardinality(holes) \in Nat
    BY <1>2, <2>1, MissingIs, ListIs, FS_CardinalityType DEF Missing, Holes
  <2> QED
    BY <2>1, <2>2, <2>3, TryIs
<1>8. SomeLost(phase', completed, work, Missing)
  <2>1. Lost({}, completed, work, Missing)
    <3>1. \A byte \in 0 .. Total - 1 : Covers(completed, byte) \/ Covers(Missing, byte)
      BY <1>2, MissingIs DEF Missing
    <3>2. IsFiniteSet({}) /\ Cardinality({}) = 0 /\ 0 + 0 <= Workers
      BY FS_EmptySet, AttemptBounds
    <3> QED
      BY <1>2, <3>1, <3>2 DEF Lost
  <2> QED
    BY <2>1 DEF SomeLost
<1>9. Try' = Try
  BY <1>1 DEF Try
<1> QED
  BY <1>1, <1>2, <1>5, <1>7, <1>8, <1>9 DEF Room

LEMMA RoomTake ==
  ASSUME Cut, Room, used \in 0 .. MaxRetries, Take
  PROVE  Room'
<1> DEFINE c == Chunk(pending, size)
           a == AfterChunk(pending, size)
           v == [range |-> c, assigned |-> FALSE]
<1>1. /\ phase = "transferring" /\ pending # <<>> /\ Cardinality(work) < workers
      /\ work' = work \cup {v} /\ pending' = a
      /\ UNCHANGED <<phase, completed, runs, used>>
  BY DEF Take, retryVars
<1> HIDE DEF a, c
<1>2. /\ Len(a) <= Len(pending) /\ a \in Seq(Span)
      /\ \A byte \in Nat : Covers(pending, byte) => In(byte, c) \/ Covers(a, byte)
  BY <1>1, ChunkIs DEF Cut, CutType, c, a
<1>3. v.range = c
  OBVIOUS
<1> HIDE DEF v
<1>4. Len(a) <= Quota(Try - 1)
  <2>1. Len(a) \in Nat /\ Len(pending) \in Nat /\ Len(pending) <= Quota(Try - 1)
    BY <1>1, <1>2, ListIs DEF Cut, CutType, Room
  <2> QED
    BY <1>2, <2>1, TryIs
<1>5. Lost({}, completed, work', a)
  <2>1. Lost({}, completed, work, pending)
    BY <1>1 DEF Room, SomeLost
  <2>2. IsFiniteSet({}) /\ Cardinality({}) = 0 /\ 0 + Cardinality(work') <= Workers
    <3>1. IsFiniteSet(work) /\ Cardinality(work) \in Nat /\ workers \in Nat /\ workers <= Workers
      BY FS_CardinalityType DEF Cut, CutType
    <3>2. Cardinality(work') \in {Cardinality(work), Cardinality(work) + 1}
      BY <1>1, <3>1, FS_AddElement
    <3> QED
      BY <1>1, <3>1, <3>2, FS_EmptySet, AttemptBounds
  <2>3. ASSUME NEW byte \in 0 .. Total - 1
        PROVE  \/ Covers(completed, byte) \/ Covers(a, byte)
               \/ \E w \in work' : In(byte, w.range)
    <3>1. byte \in Nat
      BY AttemptBounds
    <3>2. \/ Covers(completed, byte) \/ Covers(pending, byte)
          \/ \E w \in work : In(byte, w.range)
      BY <2>1 DEF Lost
    <3> QED
      BY <1>1, <1>2, <1>3, <3>1, <3>2
  <2> QED
    BY <2>2, <2>3 DEF Lost
<1>6. Try' = Try
  BY <1>1 DEF Try
<1> QED
  BY <1>1, <1>4, <1>5, <1>6 DEF Room, SomeLost

LEMMA RoomAssign ==
  ASSUME Cut, Room, NEW w \in work, Assign(w)
  PROVE  Room'
<1> DEFINE v == [w EXCEPT !.assigned = TRUE]
<1>1. /\ work' = (work \ {w}) \cup {v}
      /\ UNCHANGED <<phase, completed, pending, runs, used>> /\ phase = "transferring"
  BY DEF Assign, retryVars
<1>2. v.range = w.range
  BY DEF Cut, CutType, Chunks
<1> HIDE DEF v
<1>3. PICK pieces : Lost(pieces, completed, work, pending) /\ pieces = {}
  BY <1>1 DEF Room, SomeLost
<1>4. Cardinality(pieces) + Cardinality(work') <= Workers
  <2> DEFINE rest == work \ {w}
  <2>1. IsFiniteSet(work) /\ Cardinality(work) \in Nat /\ Cardinality(pieces) \in Nat
    BY <1>3, FS_CardinalityType DEF Cut, CutType, Lost
  <2>2. IsFiniteSet(rest) /\ Cardinality(rest) = Cardinality(work) - 1
    BY <2>1, FS_RemoveElement
  <2> HIDE DEF rest
  <2>3. work' = rest \cup {v}
    BY <1>1 DEF rest
  <2>4. Cardinality(work') \in {Cardinality(rest), Cardinality(rest) + 1}
    BY <2>2, <2>3, FS_AddElement
  <2>5. Cardinality(pieces) + Cardinality(work) <= Workers
    BY <1>3 DEF Lost
  <2> QED
    BY <2>1, <2>2, <2>4, <2>5, AttemptBounds
<1>5. \A x \in work : \E y \in work' : x.range = y.range
  BY <1>1, <1>2
<1>6. Lost(pieces, completed, work', pending)
  BY <1>3, <1>4, <1>5 DEF Lost
<1>7. Try' = Try
  BY <1>1 DEF Try
<1> QED
  BY <1>1, <1>3, <1>6, <1>7 DEF Room, SomeLost

LEMMA RoomFinish ==
  ASSUME LimitsSuffice, Cut, Cut', Room, used \in 0 .. MaxRetries, NEW w \in work, Finish(w)
  PROVE  Room'
<1> DEFINE new == InsertCompleted(completed, w.range)
<1>1. /\ completed' = new /\ work' = work \ {w}
      /\ UNCHANGED <<phase, pending, runs, used>>
      /\ phase \in {"transferring", "ending"}
  BY DEF Finish, retryVars, Cut, CutType
<1>2. /\ w.range \in Span /\ completed \in Seq(Span) /\ Separated(completed)
      /\ \A k \in DOMAIN completed : Apart(w.range, completed[k])
  BY DEF Cut, CutType, Chunks, ApartAll
<1>3. new \in Seq(Span) /\ Separated(new) /\ Adds(new, completed, w.range)
  BY <1>2, InsertIs
<1> HIDE DEF new
<1>4. PICK pieces : /\ Lost(pieces, completed, work, pending)
                    /\ phase = "transferring" => pieces = {}
  BY <1>1 DEF Room, SomeLost
<1>5. Lost(pieces, new, work', pending)
  <2>1. Cardinality(pieces) + Cardinality(work') <= Workers
    <3>1. IsFiniteSet(work) /\ Cardinality(work) \in Nat /\ Cardinality(pieces) \in Nat
      BY <1>4, FS_CardinalityType DEF Cut, CutType, Lost
    <3>2. Cardinality(work') = Cardinality(work) - 1
      BY <1>1, <3>1, FS_RemoveElement
    <3>3. Cardinality(pieces) + Cardinality(work) <= Workers
      BY <1>4 DEF Lost
    <3> QED
      BY <3>1, <3>2, <3>3, AttemptBounds
  <2>2. ASSUME NEW p \in pieces PROVE \A k \in DOMAIN new : Apart(p, new[k])
    <3>1. /\ p \in Span /\ Apart(p, w.range)
          /\ \A k \in DOMAIN completed : Apart(p, completed[k])
      BY <1>4 DEF Lost
    <3> QED
      BY <1>2, <1>3, <3>1, ApartFromAdded
  <2>3. ASSUME NEW byte \in 0 .. Total - 1
        PROVE  \/ Covers(new, byte) \/ Covers(pending, byte)
               \/ (\E x \in work' : In(byte, x.range)) \/ \E p \in pieces : In(byte, p)
    <3>1. byte \in Nat
      BY AttemptBounds
    <3>2. \/ Covers(completed, byte) \/ Covers(pending, byte)
          \/ (\E x \in work : In(byte, x.range)) \/ \E p \in pieces : In(byte, p)
      BY <1>4 DEF Lost
    <3>3. Covers(completed, byte) \/ In(byte, w.range) => Covers(new, byte)
      BY <1>3, <3>1 DEF Adds
    <3> QED
      BY <1>1, <3>2, <3>3
  <2> QED
    BY <1>1, <1>4, <2>1, <2>2, <2>3 DEF Lost
<1>6. Len(new) <= MaxCompleted
  <2>1. work' \in SUBSET Chunks /\ IsFiniteSet(work') /\ ApartAll(new, work', pending)
    BY <1>1 DEF Cut, CutType
  <2>2. Len(pending) <= Quota(Try - 1)
    BY <1>1 DEF Room
  <2>3. FewHoles(new, Try)
    BY <1>5, <2>1, <2>2, HolesAfter
  <2>4. PICK holes : Holes(holes, new) /\ Cardinality(holes) <= Quota(Try)
    BY <2>3 DEF FewHoles
  <2> QED
    BY <1>3, <2>4, ListFits DEF Room, Try
<1>7. Try' = Try
  BY <1>1 DEF Try
<1> QED
  BY <1>1, <1>4, <1>5, <1>6, <1>7 DEF Room, SomeLost

LEMMA RoomDrop ==
  ASSUME Cut, Room, NEW w \in work, FetchFails(w) \/ CommitFails(w) \/ Leave(w)
  PROVE  Room'
<1>1. /\ work' = work \ {w} /\ phase' = "ending" /\ UNCHANGED <<completed, pending, runs, used>>
      /\ phase \in {"transferring", "ending"}
  BY DEF FetchFails, CommitFails, Leave, retryVars, Cut, CutType
<1>2. PICK pieces : Lost(pieces, completed, work, pending)
  BY <1>1 DEF Room, SomeLost
<1> DEFINE more == pieces \cup {w.range}
<1>3. w.range \in Span /\ ApartAll(completed, work, pending)
  BY DEF Cut, CutType, Chunks
<1>4. IsFiniteSet(more) /\ Cardinality(more) + Cardinality(work') <= Workers
  <2>1. /\ IsFiniteSet(work) /\ Cardinality(work) \in Nat
        /\ IsFiniteSet(pieces) /\ Cardinality(pieces) \in Nat
    BY <1>2, FS_CardinalityType DEF Cut, CutType, Lost
  <2>2. Cardinality(work') = Cardinality(work) - 1
    BY <1>1, <2>1, FS_RemoveElement
  <2>3. /\ IsFiniteSet(more)
        /\ Cardinality(more) \in {Cardinality(pieces), Cardinality(pieces) + 1}
    BY <2>1, FS_AddElement
  <2>4. Cardinality(pieces) + Cardinality(work) <= Workers
    BY <1>2 DEF Lost
  <2> HIDE DEF more
  <2> QED
    BY <2>1, <2>2, <2>3, <2>4, AttemptBounds
<1>5. ASSUME NEW p \in more
      PROVE  /\ \A k \in DOMAIN completed : Apart(p, completed[k])
             /\ \A x \in work' : Apart(p, x.range)
  <2>1. CASE p \in pieces
    BY <1>1, <1>2, <2>1 DEF Lost
  <2>2. CASE p = w.range
    BY <1>1, <1>3, <2>2 DEF ApartAll
  <2> QED
    BY <2>1, <2>2
<1>6. ASSUME NEW byte \in 0 .. Total - 1
      PROVE  \/ Covers(completed, byte) \/ Covers(pending, byte)
             \/ (\E x \in work' : In(byte, x.range)) \/ \E p \in more : In(byte, p)
  <2>1. \/ Covers(completed, byte) \/ Covers(pending, byte)
        \/ (\E x \in work : In(byte, x.range)) \/ \E p \in pieces : In(byte, p)
    BY <1>2 DEF Lost
  <2> QED
    BY <1>1, <2>1
<1>7. more \in SUBSET Span
  BY <1>2, <1>3 DEF Lost
<1> HIDE DEF more
<1>8. Lost(more, completed, work', pending)
  BY <1>4, <1>5, <1>6, <1>7 DEF Lost
<1>9. Try' = Try
  BY <1>1 DEF Try
<1> QED
  BY <1>1, <1>8, <1>9 DEF Room, SomeLost

LEMMA RoomStop ==
  ASSUME Room, used \in 0 .. MaxRetries, Stop
  PROVE  Room'
<1>1. UNCHANGED <<completed, work, pending, runs, used>>
  BY DEF Stop, retryVars
<1>2. Try' = Try
  BY <1>1 DEF Try
<1>3. CASE phase = "waiting"
  <2>1. phase' = "stopped"
    BY <1>3 DEF Stop
  <2>2. PICK holes : Holes(holes, completed) /\ Cardinality(holes) <= Quota(Try - 1)
    BY <1>3 DEF Room, FewHoles
  <2>3. Cardinality(holes) <= Quota(Try)
    <3>1. Cardinality(holes) \in Nat
      BY <2>2, FS_CardinalityType DEF Holes
    <3> QED
      BY <2>2, <3>1, TryIs
  <2> QED
    BY <1>1, <1>2, <2>1, <2>2, <2>3 DEF Room, FewHoles
<1>4. CASE phase \in {"transferring", "ending"}
  <2>1. phase' = "ending"
    BY <1>4 DEF Stop
  <2> QED
    BY <1>1, <1>2, <1>4, <2>1 DEF Room, SomeLost
<1> QED
  BY <1>3, <1>4 DEF Stop

LEMMA RoomEnd ==
  ASSUME Cut, Room, used \in 0 .. MaxRetries, used' \in 0 .. MaxRetries, EndAttempt
  PROVE  Room'
<1>1. /\ work = {} /\ UNCHANGED <<completed, runs>>
      /\ phase \in {"transferring", "ending"} /\ (phase = "transferring" => pending = <<>>)
  BY DEF EndAttempt
<1>2. FewHoles(completed, Try)
  <2>1. PICK pieces : Lost(pieces, completed, work, pending)
    BY <1>1 DEF Room, SomeLost
  <2> QED
    BY <1>1, <2>1, HolesAfter DEF Cut, CutType, Room
<1>3. CASE phase = "transferring"
  <2>1. \A byte \in 0 .. Total - 1 : Covers(completed, byte)
    BY <1>1, <1>3 DEF Cut, CoversAll, Covers
  <2>2. ExactlyCovers(completed, Total)
    BY <2>1, CoverIsWhole DEF Cut, CutType
  <2>3. phase' = "complete"
    BY <1>3, <2>2 DEF EndAttempt
  <2> QED
    BY <1>1, <2>3 DEF Room
<1>4. CASE phase = "ending"
  <2>1. \/ phase' = "stopped" /\ used' = used
        \/ phase' = "waiting" /\ used' = used + 1
    BY <1>4 DEF EndAttempt, ScheduleRetry, retryVars
  <2>2. CASE phase' = "stopped" /\ used' = used
    <3>1. Try' = Try
      BY <1>1, <2>2 DEF Try
    <3> QED
      BY <1>1, <1>2, <2>2, <3>1 DEF Room
  <2>3. CASE phase' = "waiting" /\ used' = used + 1
    <3>1. Tries(runs, used + 1) = Tries(runs, used) + 1 /\ Tries(runs, used) \in Nat
      BY TriesAre DEF Room
    <3>2. Try' - 1 = Try
      BY <1>1, <2>3, <3>1 DEF Try
    <3> QED
      BY <1>1, <1>2, <2>3, <3>2 DEF Room
  <2> QED
    BY <2>1, <2>2, <2>3
<1> QED
  BY <1>1, <1>3, <1>4

LEMMA RoomNextRun ==
  ASSUME Room, used \in 0 .. MaxRetries, NextRun
  PROVE  Room'
<1>1. /\ phase = "stopped" /\ phase' = "ready" /\ runs < MaxRuns /\ runs' = runs + 1
      /\ used' = 0 /\ UNCHANGED completed
  BY DEF NextRun
<1>2. runs' \in 1 .. MaxRuns
  BY <1>1, AttemptBounds DEF Room
<1>3. Try <= Try' - 1 /\ Try' - 1 \in Nat /\ Try \in Nat
  <2>1. Tries(runs, used) <= Tries(runs + 1, 0) - 1 /\ Tries(runs, used) \in Nat
    BY TriesAre DEF Room
  <2>2. 0 \in 0 .. MaxRetries /\ runs + 1 \in 1 .. MaxRuns
    BY <1>1, <1>2, AttemptBounds
  <2>3. Tries(runs + 1, 0) - 1 \in Nat
    BY <2>2, TriesAre
  <2> QED
    BY <1>1, <2>1, <2>3 DEF Try
<1>4. Quota(Try) <= Quota(Try' - 1) /\ Quota(Try) \in Nat /\ Quota(Try' - 1) \in Nat
  BY <1>3, QuotaGrows
<1>5. PICK holes : Holes(holes, completed) /\ Cardinality(holes) <= Quota(Try)
  BY <1>1 DEF Room, FewHoles
<1>6. Cardinality(holes) <= Quota(Try' - 1)
  <2>1. Cardinality(holes) \in Nat
    BY <1>5, FS_CardinalityType DEF Holes
  <2> QED
    BY <1>4, <1>5, <2>1
<1> QED
  BY <1>1, <1>2, <1>5, <1>6 DEF Room, FewHoles

LEMMA RoomStep ==
  ASSUME LimitsSuffice, Cut, Cut', RetryInv, RetryInv', Room, [Next]_vars
  PROVE  Room'
<1>1. used \in 0 .. MaxRetries /\ used' \in 0 .. MaxRetries
  BY DEF RetryInv
<1>2. CASE SampleProgress \/ Waited \/ UNCHANGED vars
  <2>1. UNCHANGED <<completed, work, pending, runs, used>>
    BY <1>2 DEF SampleProgress, Waited, vars, attemptVars, retryVars
  <2>2. phase' = phase \/ (phase = "waiting" /\ phase' = "ready")
    BY <1>2 DEF SampleProgress, Waited, vars
  <2>3. Try' = Try
    BY <2>1 DEF Try
  <2> QED
    BY <2>1, <2>2, <2>3 DEF Room
<1> QED
  BY <1>1, <1>2, RoomBegin, RoomTake, RoomAssign, RoomFinish, RoomDrop, RoomStop, RoomEnd,
     RoomNextRun DEF Next

LEMMA RoomAccepts == Cut /\ Room => NeverRefused
<1> SUFFICES ASSUME Cut, Room PROVE NeverRefused
  OBVIOUS
<1>1. /\ completed \in Seq(Span) /\ Separated(completed)
      /\ Len(completed) <= MaxCompleted /\ phase # "refused"
  BY DEF Cut, CutType, Room
<1>2. DOMAIN completed = 1 .. Len(completed) /\ Len(completed) \in Nat
      /\ \A k \in 1 .. Len(completed) : completed[k].end <= Total
  BY <1>1, ListIs, SpanIs
<1>3. ASSUME NEW k \in 2 .. Len(completed) PROVE completed[k - 1].end < completed[k].start
  <2>1. k - 1 \in 1 .. Len(completed) /\ k \in 1 .. Len(completed) /\ k - 1 < k
    BY <1>2
  <2> QED
    BY <1>1, <1>2, <2>1 DEF Separated
<1> QED
  BY <1>1, <1>2, <1>3 DEF NeverRefused, Canonical

\* However often and wherever attempts fail or are stopped, recovery and the next plan accept the
\* coverage, and an attempt that runs out of work has covered the file: insert_completed keeps the
\* list canonical, and neither validate_recovered_coverage nor validate_request_plan nor the check
\* before publication refuses it, for as many attempts and as large a file as the limits allow.
THEOREM NeverRefusedWithinLimits ==
  ASSUME LimitsSuffice
  PROVE  Spec => []NeverRefused
<1>1. Cut /\ Cut' /\ RetryInv /\ RetryInv' /\ Room /\ [Next]_vars => Room'
  BY RoomStep
<1>2. Spec => []RetryInv
  BY RetryInit, RetryStep, PTL DEF Spec
<1>3. Spec => []Room
  BY <1>1, <1>2, RoomInit, CutAlways, PTL DEF Spec
<1> QED
  BY <1>3, CutAlways, RoomAccepts, PTL
=============================================================================
