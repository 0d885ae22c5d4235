---------------------------- MODULE AdmissionProofs ----------------------------
(***************************************************************************)
(* Theorems about Admission, for every set of requests and origins, all    *)
(* limits, delays and bounds.                                              *)
(***************************************************************************)
EXTENDS Admission, FiniteSetTheorems, SequenceTheorems, TLAPS

Permits == {r \in Request : pc[r] \in Admitted \cup {"slot"}}

LEMMA HalvedIs == ASSUME NEW n \in Nat \ {0} PROVE Halved(n) \in Nat \ {0} /\ Halved(n) <= n
<1>1. n \div 2 \in Nat /\ n \div 2 <= n
  OBVIOUS
<1> DEFINE S == {n \div 2, 1}
<1>2. \E x \in S : \A y \in S : x >= y
  BY <1>1
<1>3. Max(S) \in S /\ \A y \in S : Max(S) >= y
  BY <1>2 DEF Max
<1> QED BY <1>1, <1>3 DEF Halved

LEMMA MaxIs ==
  ASSUME NEW m \in Nat, NEW n \in Nat
  PROVE  Max({m, n}) \in {m, n} /\ Max({m, n}) >= m /\ Max({m, n}) >= n
<1> DEFINE S == {m, n}
<1>1. \E x \in S : \A y \in S : x >= y
  OBVIOUS
<1>2. Max(S) \in S /\ \A y \in S : Max(S) >= y
  BY <1>1 DEF Max
<1> QED BY <1>2

LEMMA MinIs ==
  ASSUME NEW m \in Nat, NEW n \in Nat
  PROVE  Min({m, n}) \in {m, n} /\ Min({m, n}) <= m /\ Min({m, n}) <= n
<1> DEFINE S == {m, n}
<1>1. \E x \in S : \A y \in S : x <= y
  OBVIOUS
<1>2. Min(S) \in S /\ \A y \in S : Min(S) <= y
  BY <1>1 DEF Min
<1> QED BY <1>2

\* What an answer does to its origin
LEMMA ToldIs ==
  ASSUME NEW s \in OriginStates, NEW d \in Nat, now \in Nat
  PROVE  /\ Told(s, d) \in OriginStates
         /\ Told(s, d).active = s.active /\ Told(s, d).limit <= s.limit
         /\ s.blocked => Told(s, d).blocked
         /\ d > MaxDelay => Told(s, d).blocked /\ Told(s, d).notBefore = s.notBefore
         /\ ~(d > MaxDelay) => /\ Told(s, d).notBefore \in {s.notBefore, now + d}
                               /\ Told(s, d).notBefore >= s.notBefore
                               /\ Told(s, d).notBefore >= now + d
                               /\ Told(s, d).retain >= Told(s, d).notBefore
<1>1. s.limit \in Nat \ {0} /\ s.notBefore \in Nat /\ s.active \in Nat /\ s.retain \in Nat
      /\ s.blocked \in BOOLEAN
  BY DEF OriginStates
<1>2. Halved(s.limit) \in Nat \ {0} /\ Halved(s.limit) <= s.limit
  BY <1>1, HalvedIs
<1>3. CASE d > MaxDelay
  <2>1. Told(s, d) = [s EXCEPT !.limit = Halved(s.limit), !.blocked = TRUE]
    BY <1>3 DEF Told
  <2> QED BY <1>1, <1>2, <1>3, <2>1 DEF OriginStates
<1>4. CASE ~(d > MaxDelay)
  <2> DEFINE until == Max({s.notBefore, now + d})
  <2>1. until \in {s.notBefore, now + d} /\ until >= s.notBefore /\ until >= now + d
    BY <1>1, MaxIs
  <2>2. Told(s, d) = [s EXCEPT !.limit = Halved(s.limit), !.notBefore = until,
                               !.retain = until + Memory]
    BY <1>4 DEF Told
  <2>3. until \in Nat /\ until + Memory \in Nat /\ until + Memory >= until
    BY <1>1, <2>1, DelaysAssumption
  <2> HIDE DEF until
  <2> QED BY <1>1, <1>2, <1>4, <2>1, <2>2, <2>3 DEF OriginStates
<1> QED BY <1>3, <1>4

LEMMA InheritedIs ==
  ASSUME NEW s \in OriginStates, NEW l \in Limits
  PROVE  /\ Inherited(s, l) \in OriginStates
         /\ Inherited(s, l).limit <= s.limit /\ Inherited(s, l).limit <= l.perHost
         /\ Inherited(s, l).active = s.active /\ Inherited(s, l).notBefore = s.notBefore
         /\ Inherited(s, l).retain = s.retain /\ Inherited(s, l).blocked = s.blocked
<1>1. s.limit \in Nat \ {0} /\ l.perHost \in Nat \ {0}
  BY LimitsAssumption DEF OriginStates
<1>2. Min({s.limit, l.perHost}) \in Nat \ {0} /\ Min({s.limit, l.perHost}) <= s.limit
      /\ Min({s.limit, l.perHost}) <= l.perHost
  BY <1>1, MinIs
<1> QED BY <1>2 DEF Inherited, OriginStates

-------------------------------------------------------------------------------
(***************************************************************************)
(* The queue.                                                              *)
(***************************************************************************)
\* Whoever waits in the queue of the semaphore does nothing else.
Queued == \A i \in DOMAIN queue : pc[queue[i]] = "queue"

LEMMA QueueHead ==
  ASSUME TypeOK, queue # <<>>
  PROVE  /\ Tail(queue) \in Seq(Request) /\ IsInjective(Tail(queue))
         /\ 1 \in DOMAIN queue /\ Head(queue) = queue[1] /\ Head(queue) \in Request
         /\ \A i \in DOMAIN Tail(queue) :
              \E j \in DOMAIN queue : j # 1 /\ Tail(queue)[i] = queue[j]
<1>1. queue \in Seq(Request) /\ \A i, j \in DOMAIN queue : queue[i] = queue[j] => i = j
  BY DEF TypeOK, IsInjective
<1>2. /\ Tail(queue) \in Seq(Request) /\ Len(Tail(queue)) = Len(queue) - 1
      /\ \A i \in 1 .. Len(Tail(queue)) : Tail(queue)[i] = queue[i + 1]
  BY <1>1, HeadTailProperties
<1>3. Len(queue) \in Nat /\ DOMAIN queue = 1 .. Len(queue)
      /\ DOMAIN Tail(queue) = 1 .. (Len(queue) - 1) /\ Len(queue) >= 1
  BY <1>1, <1>2, EmptySeq
<1>4. \A i \in DOMAIN Tail(queue) :
        i + 1 \in DOMAIN queue /\ i + 1 # 1 /\ Tail(queue)[i] = queue[i + 1]
  BY <1>2, <1>3
<1>5. IsInjective(Tail(queue))
  <2> SUFFICES ASSUME NEW i \in DOMAIN Tail(queue), NEW j \in DOMAIN Tail(queue),
                      Tail(queue)[i] = Tail(queue)[j]
               PROVE  i = j
    BY DEF IsInjective
  <2>1. queue[i + 1] = queue[j + 1] /\ i + 1 \in DOMAIN queue /\ j + 1 \in DOMAIN queue
    BY <1>4
  <2>2. i + 1 = j + 1
    BY <1>1, <2>1
  <2> QED BY <1>3, <2>2
<1>6. 1 \in DOMAIN queue /\ Head(queue) = queue[1] /\ Head(queue) \in Request
  BY <1>1, <1>3
<1> QED BY <1>2, <1>4, <1>5, <1>6

LEMMA QueueAppend ==
  ASSUME TypeOK, Queued, NEW r \in Request, pc[r] # "queue"
  PROVE  /\ Append(queue, r) \in Seq(Request) /\ IsInjective(Append(queue, r))
         /\ \A i \in DOMAIN Append(queue, r) :
              Append(queue, r)[i] = r \/ \E j \in DOMAIN queue : Append(queue, r)[i] = queue[j]
<1> DEFINE q == Append(queue, r)
<1>1. queue \in Seq(Request) /\ \A i, j \in DOMAIN queue : queue[i] = queue[j] => i = j
  BY DEF TypeOK, IsInjective
<1>2. Len(queue) \in Nat /\ DOMAIN queue = 1 .. Len(queue)
  BY <1>1
<1>3. /\ q \in Seq(Request) /\ DOMAIN q = 1 .. (Len(queue) + 1)
      /\ \A i \in DOMAIN queue : q[i] = queue[i]
      /\ q[Len(queue) + 1] = r
  BY <1>1, <1>2
<1> HIDE DEF q
<1>4. \A i \in DOMAIN q : i = Len(queue) + 1 \/ i \in DOMAIN queue
  BY <1>2, <1>3
<1>5. \A i \in DOMAIN queue : queue[i] # r
  BY DEF Queued
<1>6. IsInjective(q)
  BY <1>1, <1>3, <1>4, <1>5 DEF IsInjective
<1>7. \A i \in DOMAIN q : q[i] = r \/ \E j \in DOMAIN queue : q[i] = queue[j]
  BY <1>3, <1>4
<1> QED BY <1>3, <1>6, <1>7 DEF q

LEMMA QueueRemove ==
  ASSUME TypeOK, NEW r
  PROVE  /\ RemoveFirst(queue, r) \in Seq(Request) /\ IsInjective(RemoveFirst(queue, r))
         /\ \A i \in DOMAIN RemoveFirst(queue, r) :
              /\ RemoveFirst(queue, r)[i] # r
              /\ \E j \in DOMAIN queue : RemoveFirst(queue, r)[i] = queue[j]
<1>1. queue \in Seq(Request) /\ \A i, j \in DOMAIN queue : queue[i] = queue[j] => i = j
  BY DEF TypeOK, IsInjective
<1>2. Len(queue) \in Nat /\ DOMAIN queue = 1 .. Len(queue)
  BY <1>1
<1>3. CASE ~\E i \in 1 .. Len(queue) : queue[i] = r
  <2>1. RemoveFirst(queue, r) = queue
    BY <1>3 DEF RemoveFirst
  <2> QED BY <1>1, <1>2, <1>3, <2>1 DEF IsInjective
<1>4. CASE \E i \in 1 .. Len(queue) : queue[i] = r
  <2>1. PICK k \in 1 .. Len(queue) : queue[k] = r
    BY <1>4
  <2>2. SelectInSeq(queue, LAMBDA v : v = r) = k
    <3> DEFINE I == {i \in 1 .. Len(queue) : queue[i] = r}
    <3>1. I = {k}
      BY <1>1, <1>2, <2>1
    <3>2. Min(I) = k
      BY <3>1 DEF Min
    <3> QED BY <3>1, <3>2 DEF SelectInSeq
  <2>3. RemoveFirst(queue, r) = RemoveAt(queue, k)
    BY <1>4, <2>2 DEF RemoveFirst
  <2> DEFINE a == SubSeq(queue, 1, k - 1)
             b == SubSeq(queue, k + 1, Len(queue))
             q == a \o b
  <2>4. /\ a \in Seq(Request) /\ Len(a) = k - 1
        /\ \A i \in 1 .. k - 1 : a[i] = queue[i]
    <3>1. \A i \in 1 .. k - 1 : queue[i] \in Request
      BY <1>1, <1>2
    <3>2. k \in Int /\ k >= 1 /\ k - 1 \in Int
      OBVIOUS
    <3>3. /\ a \in Seq(Request) /\ Len(a) = IF 1 <= k - 1 THEN k - 1 - 1 + 1 ELSE 0
          /\ \A i \in 1 .. (k - 1 - 1 + 1) : a[i] = queue[1 + i - 1]
      BY <3>1, <3>2, SubSeqProperties
    <3> QED BY <3>2, <3>3
  <2>5. /\ b \in Seq(Request) /\ Len(b) = Len(queue) - k
        /\ \A i \in 1 .. Len(queue) - k : b[i] = queue[k + i]
    <3>1. \A i \in k + 1 .. Len(queue) : queue[i] \in Request
      BY <1>1, <1>2
    <3>2. k \in Int /\ k <= Len(queue) /\ k + 1 \in Int /\ Len(queue) \in Int
      BY <1>2
    <3>3. /\ b \in Seq(Request)
          /\ Len(b) = IF k + 1 <= Len(queue) THEN Len(queue) - (k + 1) + 1 ELSE 0
          /\ \A i \in 1 .. (Len(queue) - (k + 1) + 1) : b[i] = queue[k + 1 + i - 1]
      BY <3>1, <3>2, SubSeqProperties
    <3> QED BY <3>2, <3>3
  <2> HIDE DEF a, b
  <2>6. /\ q \in Seq(Request) /\ Len(q) = Len(queue) - 1
        /\ \A i \in 1 .. Len(q) : q[i] = IF i <= k - 1 THEN a[i] ELSE b[i - (k - 1)]
    <3>1. /\ q \in Seq(Request) /\ Len(q) = Len(a) + Len(b)
          /\ \A i \in 1 .. Len(a) + Len(b) :
               q[i] = IF i <= Len(a) THEN a[i] ELSE b[i - Len(a)]
      BY <2>4, <2>5, ConcatProperties
    <3>2. Len(a) = k - 1 /\ Len(a) + Len(b) = Len(queue) - 1
      BY <1>2, <2>4, <2>5
    <3> HIDE DEF q
    <3> QED BY <3>1, <3>2
  <2> DEFINE at0(i) == IF i <= k - 1 THEN i ELSE i + 1
  <2>7. \A i \in 1 .. Len(q) : q[i] = queue[at0(i)] /\ at0(i) \in DOMAIN queue /\ at0(i) # k
    BY <1>2, <2>4, <2>5, <2>6
  <2>8. DOMAIN q = 1 .. Len(q)
    BY <2>6
  <2>9. \A i, j \in 1 .. Len(q) : q[i] = q[j] => i = j
    <3> SUFFICES ASSUME NEW i \in 1 .. Len(q), NEW j \in 1 .. Len(q), q[i] = q[j]
                 PROVE  i = j
      OBVIOUS
    <3>1. at0(i) = at0(j)
      BY <1>1, <2>7
    <3> QED BY <2>6, <3>1
  <2>10. \A i \in 1 .. Len(q) : q[i] # r
    BY <1>1, <1>2, <2>1, <2>7
  <2>11. IsInjective(q)
    BY <2>8, <2>9 DEF IsInjective
  <2>12. RemoveFirst(queue, r) = q
    BY <2>3 DEF RemoveAt, a, b
  <2> HIDE DEF q
  <2>13. \A i \in 1 .. Len(q) : \E j \in DOMAIN queue : q[i] = queue[j]
    BY <2>7
  <2> QED BY <2>6, <2>8, <2>10, <2>11, <2>12, <2>13
<1> QED BY <1>3, <1>4

-------------------------------------------------------------------------------
(***************************************************************************)
(* The parts of the state a step of one request leaves alone.              *)
(***************************************************************************)
Labels == Waiting \cup Admitted \cup {"idle"}

\* Only r moves; it keeps its origin unless it has just arrived.
Moves(r) ==
  /\ \A s \in Request \ {r} : pc'[s] = pc[s] /\ at'[s] = at[s]
  /\ pc' \in [Request -> Labels] /\ at' \in [Request -> Origin]
  /\ pc[r] # "idle" => at' = at

LEMMA GotoIs ==
  ASSUME TypeOK, NEW r \in Request, NEW l \in Labels, Goto(r, l), at' = at
  PROVE  Moves(r) /\ pc'[r] = l
BY DEF TypeOK, Goto, Moves, Labels

LEMMA LeaveIs ==
  ASSUME TypeOK, NEW r \in Request, NEW l \in Labels, Leave(r, l), at' = at
  PROVE  /\ Moves(r) /\ pc'[r] = l
         /\ woken' \in [Request -> BOOLEAN] /\ deadline' \in [Request -> 0 .. Horizon]
<1>1. Moves(r) /\ pc'[r] = l
  BY GotoIs DEF Leave
<1> QED BY <1>1, HorizonAssumption DEF Leave, TypeOK

\* The part of TypeOK about the requests
RequestType ==
  /\ pc \in [Request -> Labels] /\ at \in [Request -> Origin]
  /\ queue \in Seq(Request) /\ IsInjective(queue)
  /\ woken \in [Request -> BOOLEAN] /\ deadline \in [Request -> 0 .. Horizon]

\* The part of TypeOK about the origins
OriginType ==
  /\ now \in 1 .. Horizon /\ limits \in Limits
  /\ DOMAIN origins \subseteq Origin /\ origins \in [DOMAIN origins -> OriginStates]
  /\ told \in [Origin -> 0 .. Horizon + 1]

LEMMA TypeSplits == TypeOK <=> RequestType /\ OriginType
BY DEF TypeOK, RequestType, OriginType, Labels

LEMMA TypeJoins == ASSUME RequestType', OriginType' PROVE TypeOK'
BY DEF TypeOK, RequestType, OriginType, Labels

LEMMA TypeStays ==
  ASSUME TypeOK, RequestType', UNCHANGED <<now, limits, origins, told>> PROVE TypeOK'
BY TypeJoins, TypeSplits DEF OriginType

-------------------------------------------------------------------------------
(***************************************************************************)
(* The inductive invariant.                                                *)
(***************************************************************************)
\* The table: bounded, and with every origin somebody refers to.
Tabled ==
  /\ IsFiniteSet(DOMAIN origins) /\ Cardinality(DOMAIN origins) <= MaxOrigins
  /\ \A o \in Origin : Referenced(o) => o \in DOMAIN origins
  /\ \A o \in DOMAIN origins :
       origins[o].limit <= limits.perHost /\ origins[o].notBefore <= Horizon

\* The counts
Counted ==
  /\ \A o \in DOMAIN origins : origins[o].active = Cardinality(RequestsOf(o))
  /\ \A o \in Origin : Cardinality(RequestsOf(o)) <= limits.perHost
  /\ Cardinality(Permits) <= limits.global

\* Guidance that still matters is in the table, where it will be kept.
Heeded ==
  \A o \in Origin :
    \/ told[o] <= now
    \/ /\ o \in DOMAIN origins
       /\ \/ origins[o].blocked
          \/ told[o] <= origins[o].notBefore /\ origins[o].notBefore <= origins[o].retain

AdmissionInv == TypeOK /\ Queued /\ Tabled /\ Counted /\ Heeded

LEMMA AdmissionInvInit == Init => AdmissionInv
<1> SUFFICES ASSUME Init PROVE AdmissionInv
  OBVIOUS
<1> USE DEF Init
<1>1. DOMAIN origins = {} /\ origins \in [DOMAIN origins -> OriginStates]
  OBVIOUS
<1>2. queue \in Seq(Request) /\ IsInjective(queue) /\ DOMAIN queue = {}
  BY DEF IsInjective
<1>3. RequestType
  BY <1>2, HorizonAssumption DEF RequestType, Labels
<1>4. TypeOK
  BY <1>1, <1>3, HorizonAssumption, TypeSplits DEF OriginType
<1>5. Queued
  BY <1>2 DEF Queued
<1>6. Tabled
  BY <1>1, FS_EmptySet, HorizonAssumption DEF Tabled, Referenced
<1>7. Counted
  <2>1. Permits = {} /\ \A o : RequestsOf(o) = {}
    BY DEF Permits, RequestsOf, Admitted
  <2>2. limits.global \in Nat \ {0} /\ limits.perHost \in Nat \ {0}
    BY LimitsAssumption
  <2>3. Cardinality(Permits) = 0 /\ \A o : Cardinality(RequestsOf(o)) = 0
    BY <2>1, FS_EmptySet
  <2>4. \A o \in DOMAIN origins : FALSE
    BY <1>1
  <2> HIDE DEF Init
  <2> QED BY <2>2, <2>3, <2>4 DEF Counted
<1>8. Heeded
  BY DEF Heeded
<1> QED BY <1>4, <1>5, <1>6, <1>7, <1>8 DEF AdmissionInv

-------------------------------------------------------------------------------
(***************************************************************************)
(* Who is admitted.                                                        *)
(***************************************************************************)
LEMMA SetsFinite ==
  /\ \A o : IsFiniteSet(RequestsOf(o)) /\ Cardinality(RequestsOf(o)) \in Nat
  /\ IsFiniteSet(Permits) /\ Cardinality(Permits) \in Nat
  /\ \A o : IsFiniteSet(RequestsOf(o))' /\ Cardinality(RequestsOf(o))' \in Nat
  /\ IsFiniteSet(Permits)' /\ Cardinality(Permits)' \in Nat
<1>1. /\ \A o : RequestsOf(o) \in SUBSET Request /\ RequestsOf(o)' \in SUBSET Request
      /\ Permits \in SUBSET Request /\ Permits' \in SUBSET Request
  BY DEF RequestsOf, Permits
<1>2. \A S \in SUBSET Request : IsFiniteSet(S) /\ Cardinality(S) \in Nat
  BY RequestAssumption, FS_Subset, FS_CardinalityType
<1> QED BY <1>1, <1>2

LEMMA SetsMove ==
  ASSUME TypeOK, NEW r \in Request, Moves(r)
  PROVE  /\ \A o : RequestsOf(o)' = IF pc'[r] \in Admitted /\ at'[r] = o
                                    THEN RequestsOf(o) \cup {r} ELSE RequestsOf(o) \ {r}
         /\ Permits' = IF pc'[r] \in Admitted \cup {"slot"} THEN Permits \cup {r}
                       ELSE Permits \ {r}
BY DEF Moves, RequestsOf, Permits, Admitted

\* A request that is neither admitted nor becomes it changes no count.
LEMMA QuietCounts ==
  ASSUME TypeOK, Counted, NEW r \in Request, Moves(r), UNCHANGED limits,
         pc[r] \notin Admitted, pc'[r] \notin Admitted,
         pc'[r] = "slot" => pc[r] = "slot"
  PROVE  /\ \A o : RequestsOf(o)' = RequestsOf(o)
         /\ Cardinality(Permits)' <= limits.global
<1>1. \A o : RequestsOf(o)' = RequestsOf(o)
  BY SetsMove DEF RequestsOf
<1>2. limits.global \in Nat
  BY LimitsAssumption DEF TypeOK
<1>3. Permits' \subseteq Permits
  BY SetsMove DEF Permits
<1>4. Cardinality(Permits') <= Cardinality(Permits)
  BY <1>3, SetsFinite, FS_Subset
<1> QED BY <1>1, <1>2, <1>4, SetsFinite DEF Counted

\* A step of a request outside the table
LEMMA QuietKeeps ==
  ASSUME TypeOK, Tabled, Counted, Heeded, NEW r \in Request, Moves(r),
         UNCHANGED <<limits, origins, now, told>>, pc[r] # "idle",
         pc[r] \notin Admitted, pc'[r] \notin Admitted, pc'[r] = "slot" => pc[r] = "slot"
  PROVE  Tabled' /\ Counted' /\ Heeded'
<1>1. \A o : Referenced(o)' => Referenced(o)
  BY DEF Referenced, Moves
<1>2. Tabled'
  BY <1>1 DEF Tabled
<1>3. Counted'
  BY QuietCounts DEF Counted
<1>4. Heeded'
  BY DEF Heeded
<1> QED BY <1>2, <1>3, <1>4

-------------------------------------------------------------------------------
(***************************************************************************)
(* The steps that touch neither the table nor the counts.                  *)
(***************************************************************************)
\* The queue is as it was, and r is not in it unless it stays there.
LEMMA QueueKeeps ==
  ASSUME TypeOK, Queued, NEW r \in Request, Moves(r), UNCHANGED queue,
         pc[r] # "queue" \/ pc'[r] = "queue"
  PROVE  Queued'
<1>1. \A i \in DOMAIN queue : queue[i] \in Request
  BY DEF TypeOK
<1> QED BY <1>1 DEF Queued, Moves

LEMMA CheckKeeps ==
  ASSUME AdmissionInv, NEW r \in Request, Check(r) PROVE AdmissionInv'
<1> USE DEF AdmissionInv
<1>0. pc[r] = "check" /\ UNCHANGED <<now, limits, origins, at, told>>
  BY DEF Check
<1>o. at[r] \in DOMAIN origins /\ State(r) \in OriginStates /\ State(r).notBefore <= Horizon
  <2>1. Referenced(at[r]) /\ at[r] \in Origin
    BY <1>0 DEF Referenced, TypeOK
  <2>2. at[r] \in DOMAIN origins
    BY <2>1 DEF Tabled
  <2> QED BY <2>2 DEF State, TypeOK, Tabled
<1>1. /\ Moves(r) /\ pc'[r] \in {"idle", "queue", "decided"}
      /\ woken' \in [Request -> BOOLEAN] /\ deadline' \in [Request -> 0 .. Horizon]
  <2>1. CASE Leave(r, "idle")
    BY <1>0, <2>1, LeaveIs DEF Labels
  <2>2. CASE Goto(r, "queue") /\ UNCHANGED <<woken, deadline>>
    BY <1>0, <2>2, GotoIs DEF Labels, Waiting, TypeOK
  <2>3. CASE /\ Goto(r, "decided") /\ UNCHANGED woken
             /\ deadline' = [deadline EXCEPT ![r] = State(r).notBefore]
    <3>1. State(r).notBefore \in 0 .. Horizon
      BY <1>o, HorizonAssumption DEF OriginStates
    <3>2. deadline' \in [Request -> 0 .. Horizon]
      BY <2>3, <3>1 DEF TypeOK
    <3> QED BY <1>0, <2>3, <3>2, GotoIs DEF Labels, Waiting, TypeOK
  <2> QED BY <2>1, <2>2, <2>3 DEF Check
<1>2. queue' \in Seq(Request) /\ IsInjective(queue') /\ Queued'
  <2>1. CASE UNCHANGED queue
    BY <1>0, <1>1, <2>1, QueueKeeps DEF TypeOK
  <2>2. CASE queue' = Append(queue, r) /\ pc'[r] = "queue"
    <3>1. /\ Append(queue, r) \in Seq(Request) /\ IsInjective(Append(queue, r))
          /\ \A i \in DOMAIN Append(queue, r) :
               Append(queue, r)[i] = r
               \/ \E j \in DOMAIN queue : Append(queue, r)[i] = queue[j]
      BY <1>0, QueueAppend
    <3>2. \A j \in DOMAIN queue : queue[j] \in Request /\ pc[queue[j]] = "queue"
      BY DEF Queued, TypeOK
    <3>3. \A j \in DOMAIN queue : pc'[queue[j]] = "queue"
      BY <1>1, <2>2, <3>2 DEF Moves
    <3> QED BY <2>2, <3>1, <3>3 DEF Queued
  <2> QED BY <1>1, <2>1, <2>2 DEF Check, Leave, Goto, TypeOK
<1>3. Tabled' /\ Counted' /\ Heeded'
  BY <1>0, <1>1, QuietKeeps DEF Admitted
<1>4. RequestType'
  BY <1>1, <1>2 DEF RequestType, Moves, Labels, Waiting, Admitted
<1>5. TypeOK'
  BY <1>0, <1>4, TypeStays
<1> QED BY <1>2, <1>3, <1>5

LEMMA QuietStep ==
  ASSUME AdmissionInv, NEW r \in Request, ChooseWait(r) \/ Wake(r) \/ Abandon(r)
  PROVE  AdmissionInv'
<1> USE DEF AdmissionInv
<1>0. /\ UNCHANGED <<now, limits, origins, at, told>>
      /\ pc[r] # "idle" /\ pc[r] \notin Admitted
  BY DEF ChooseWait, Wake, Abandon, Waiting, Admitted
<1>1. /\ Moves(r) /\ pc'[r] \in {"idle", "check", "timed", "waiting"}
      /\ woken' \in [Request -> BOOLEAN] /\ deadline' \in [Request -> 0 .. Horizon]
  <2>1. CASE ChooseWait(r)
    BY <1>0, <2>1, GotoIs DEF ChooseWait, Labels, Waiting, TypeOK
  <2>2. CASE Wake(r)
    <3>1. Goto(r, "check") /\ "check" \in Labels
      BY <2>2 DEF Wake, Labels, Waiting
    <3>2. woken' \in [Request -> BOOLEAN] /\ deadline' \in [Request -> 0 .. Horizon]
      <4>1. woken' \in [Request -> BOOLEAN]
        BY <2>2 DEF Wake, TypeOK
      <4>2. 0 \in 0 .. Horizon /\ deadline' = [deadline EXCEPT ![r] = 0]
        BY <2>2, HorizonAssumption DEF Wake
      <4>3. deadline' \in [Request -> 0 .. Horizon]
        BY <4>2 DEF TypeOK
      <4> QED BY <4>1, <4>3
    <3> QED BY <1>0, <3>1, <3>2, GotoIs
  <2>3. CASE Abandon(r)
    BY <1>0, <2>3, LeaveIs DEF Abandon, Labels
  <2> QED BY <2>1, <2>2, <2>3
<1>2. queue' \in Seq(Request) /\ IsInjective(queue') /\ Queued'
  <2>1. CASE ChooseWait(r) \/ Wake(r)
    <3>1. UNCHANGED queue /\ pc[r] # "queue"
      BY <2>1 DEF ChooseWait, Wake
    <3> QED BY <1>1, <3>1, QueueKeeps DEF TypeOK
  <2>2. CASE Abandon(r)
    <3>1. queue' = RemoveFirst(queue, r)
      BY <2>2 DEF Abandon
    <3>2. /\ RemoveFirst(queue, r) \in Seq(Request) /\ IsInjective(RemoveFirst(queue, r))
          /\ \A i \in DOMAIN RemoveFirst(queue, r) :
               /\ RemoveFirst(queue, r)[i] # r
               /\ \E j \in DOMAIN queue : RemoveFirst(queue, r)[i] = queue[j]
      BY QueueRemove
    <3>3. \A j \in DOMAIN queue : queue[j] \in Request /\ pc[queue[j]] = "queue"
      BY DEF Queued, TypeOK
    <3>4. \A j \in DOMAIN queue : queue[j] # r => pc'[queue[j]] = "queue"
      BY <1>1, <3>3 DEF Moves
    <3>5. \A i \in DOMAIN queue' : queue'[i] # r /\ \E j \in DOMAIN queue : queue'[i] = queue[j]
      BY <3>1, <3>2
    <3>6. \A i \in DOMAIN queue' : pc'[queue'[i]] = "queue"
      BY <3>4, <3>5
    <3> QED BY <3>1, <3>2, <3>6 DEF Queued
  <2> QED BY <2>1, <2>2
<1>3. Tabled' /\ Counted' /\ Heeded'
  BY <1>0, <1>1, QuietKeeps DEF Admitted
<1>4. RequestType'
  BY <1>1, <1>2 DEF RequestType, Moves, Labels, Waiting, Admitted
<1>5. TypeOK'
  BY <1>0, <1>4, TypeStays
<1> QED BY <1>2, <1>3, <1>5

\* The global semaphore gives its permit to the head of its queue while it has one.
LEMMA TakeGlobalKeeps ==
  ASSUME AdmissionInv, NEW r \in Request, TakeGlobal(r) PROVE AdmissionInv'
<1> USE DEF AdmissionInv
<1>0. /\ UNCHANGED <<now, limits, origins, at, told, woken, deadline>>
      /\ queue # <<>> /\ queue' = Tail(queue) /\ r = Head(queue)
      /\ Cardinality(Permits) < limits.global
  BY DEF TakeGlobal, Permits
<1>1. /\ Tail(queue) \in Seq(Request) /\ IsInjective(Tail(queue))
      /\ 1 \in DOMAIN queue /\ r = queue[1]
      /\ \A i \in DOMAIN Tail(queue) :
           \E j \in DOMAIN queue : j # 1 /\ Tail(queue)[i] = queue[j]
  BY <1>0, QueueHead
<1>2. pc[r] = "queue"
  BY <1>1 DEF Queued
<1>3. Moves(r) /\ pc'[r] = "slot"
  BY <1>0, GotoIs DEF TakeGlobal, Labels, Waiting
<1>4. Queued'
  <2>1. \A j \in DOMAIN queue : j # 1 => queue[j] \in Request /\ queue[j] # r
                                         /\ pc[queue[j]] = "queue"
    BY <1>1 DEF Queued, TypeOK, IsInjective
  <2>2. \A j \in DOMAIN queue : j # 1 => pc'[queue[j]] = "queue"
    BY <1>3, <2>1 DEF Moves
  <2>3. \A i \in DOMAIN queue' : \E j \in DOMAIN queue : j # 1 /\ queue'[i] = queue[j]
    BY <1>0, <1>1
  <2> QED BY <2>2, <2>3 DEF Queued
<1>5. \A o : Referenced(o)' => Referenced(o)
  BY <1>2, <1>3 DEF Referenced, Moves
<1>6. Tabled'
  BY <1>0, <1>5 DEF Tabled
<1>7. Counted'
  <2>1. \A o : RequestsOf(o)' = RequestsOf(o)
    BY <1>2, <1>3, SetsMove DEF RequestsOf, Admitted
  <2>2. Permits' = Permits \cup {r} /\ r \notin Permits
    BY <1>2, <1>3, SetsMove DEF Permits, Admitted
  <2>3. Cardinality(Permits)' = Cardinality(Permits) + 1
    BY <2>2, SetsFinite, FS_AddElement
  <2>4. limits.global \in Nat
    BY LimitsAssumption DEF TypeOK
  <2>5. Cardinality(Permits)' <= limits.global
    BY <1>0, <2>3, <2>4, SetsFinite
  <2> QED BY <1>0, <2>1, <2>5 DEF Counted
<1>8. Heeded'
  BY <1>0 DEF Heeded
<1>9. RequestType'
  BY <1>0, <1>1, <1>3 DEF RequestType, Moves, TypeOK
<1>10. TypeOK'
  BY <1>0, <1>9, TypeStays
<1> QED BY <1>4, <1>6, <1>7, <1>8, <1>10

-------------------------------------------------------------------------------
(***************************************************************************)
(* The steps of an admitted request.                                       *)
(***************************************************************************)
\* The entry of one origin changes, in a way that keeps its guidance.
LEMMA EntryChanges ==
  ASSUME TypeOK, Tabled, NEW o \in DOMAIN origins, NEW e \in OriginStates,
         origins' = [origins EXCEPT ![o] = e], e.limit <= origins[o].limit
  PROVE  /\ DOMAIN origins' = DOMAIN origins /\ origins' \in [DOMAIN origins -> OriginStates]
         /\ origins'[o] = e /\ \A p \in DOMAIN origins : p # o => origins'[p] = origins[p]
         /\ \A p \in DOMAIN origins : origins'[p].limit <= limits.perHost
<1>1. /\ DOMAIN origins' = DOMAIN origins /\ origins' \in [DOMAIN origins -> OriginStates]
      /\ origins'[o] = e /\ \A p \in DOMAIN origins : p # o => origins'[p] = origins[p]
  BY DEF TypeOK
<1>2. e.limit \in Nat /\ origins[o].limit \in Nat /\ limits.perHost \in Nat
  BY LimitsAssumption DEF TypeOK, OriginStates
<1> QED BY <1>1, <1>2 DEF Tabled

LEMMA InTable ==
  ASSUME TypeOK, Tabled, NEW r \in Request, pc[r] # "idle"
  PROVE  at[r] \in DOMAIN origins /\ State(r) \in OriginStates /\ State(r) = origins[at[r]]
<1>1. Referenced(at[r]) /\ at[r] \in Origin
  BY DEF Referenced, TypeOK
<1> QED BY <1>1 DEF Tabled, State, TypeOK

LEMMA AdmitKeeps ==
  ASSUME AdmissionInv, NEW r \in Request, Admit(r) PROVE AdmissionInv'
<1> USE DEF AdmissionInv
<1>0. pc[r] = "slot" /\ UNCHANGED <<now, limits, queue, at, told>>
  BY DEF Admit
<1>o. at[r] \in DOMAIN origins /\ State(r) \in OriginStates /\ State(r) = origins[at[r]]
  BY <1>0, InTable
<1>1. /\ Moves(r) /\ pc'[r] \in {"idle", "held", "check"}
      /\ woken' \in [Request -> BOOLEAN] /\ deadline' \in [Request -> 0 .. Horizon]
  <2>1. CASE Leave(r, "idle")
    BY <1>0, <2>1, LeaveIs DEF Labels
  <2>2. CASE Leave(r, "held")
    BY <1>0, <2>2, LeaveIs DEF Labels, Admitted
  <2>3. CASE Goto(r, "check") /\ UNCHANGED <<woken, deadline>>
    BY <1>0, <2>3, GotoIs DEF Labels, Waiting, TypeOK
  <2> QED BY <2>1, <2>2, <2>3 DEF Admit
<1>2. Queued'
  BY <1>0, <1>1, QueueKeeps
<1>3. RequestType'
  BY <1>0, <1>1 DEF RequestType, Moves, TypeOK
<1>4. CASE UNCHANGED origins /\ pc'[r] \notin Admitted
  <2>1. Tabled' /\ Counted' /\ Heeded'
    BY <1>0, <1>1, <1>4, QuietKeeps DEF Admitted
  <2> QED BY <1>0, <1>2, <1>3, <1>4, <2>1, TypeStays
<1>5. CASE /\ Ready(r) /\ pc'[r] = "held"
           /\ origins' = [origins EXCEPT ![at[r]].active = @ + 1]
  <2>a. PICK o : o = at[r]
    OBVIOUS
  <2> DEFINE e == [origins[o] EXCEPT !.active = @ + 1]
  <2>0. /\ e \in OriginStates /\ e.active = origins[o].active + 1
        /\ e.limit = origins[o].limit /\ e.notBefore = origins[o].notBefore
        /\ e.retain = origins[o].retain /\ e.blocked = origins[o].blocked
        /\ e.limit \in Nat /\ origins[o].active \in Nat
    BY <1>o, <2>a DEF OriginStates
  <2>1. origins' = [origins EXCEPT ![o] = e]
    BY <1>5, <2>a
  <2>b. o \in DOMAIN origins /\ e.limit <= origins[o].limit
    BY <1>o, <2>0, <2>a
  <2> HIDE DEF e
  <2>2. /\ DOMAIN origins' = DOMAIN origins /\ origins' \in [DOMAIN origins -> OriginStates]
        /\ origins'[o] = e /\ \A p \in DOMAIN origins : p # o => origins'[p] = origins[p]
        /\ \A p \in DOMAIN origins : origins'[p].limit <= limits.perHost
    BY <2>0, <2>1, <2>b, EntryChanges
  <2>3. Tabled'
    <3>1. \A p : Referenced(p)' => Referenced(p)
      BY <1>0, <1>1 DEF Referenced, Moves
    <3> QED BY <1>0, <2>0, <2>2, <3>1 DEF Tabled
  <2>4. Heeded'
    BY <1>0, <2>0, <2>2 DEF Heeded
  <2>5. /\ RequestsOf(o)' = RequestsOf(o) \cup {r} /\ r \notin RequestsOf(o)
        /\ \A p : p # o => RequestsOf(p)' = RequestsOf(p)
        /\ Permits' = Permits
    <3>1. at'[r] = o /\ pc'[r] \in Admitted /\ pc[r] \notin Admitted
      BY <1>0, <1>5, <2>a DEF Admitted
    <3>2. \A p : r \notin RequestsOf(p)
      BY <3>1 DEF RequestsOf
    <3>3. r \in Permits
      BY <1>0 DEF Permits
    <3>4. \A p : RequestsOf(p)' = IF o = p THEN RequestsOf(p) \cup {r} ELSE RequestsOf(p) \ {r}
      BY <1>1, <3>1, SetsMove
    <3>5. Permits' = Permits \cup {r}
      BY <1>1, <3>1, SetsMove
    <3> QED BY <3>2, <3>3, <3>4, <3>5
  <2>6. Cardinality(RequestsOf(o))' = Cardinality(RequestsOf(o)) + 1
    BY <2>5, SetsFinite, FS_AddElement
  <2>7. Counted'
    <3>1. Cardinality(RequestsOf(o)) = origins[o].active /\ origins[o].active < origins[o].limit
          /\ origins[o].limit <= limits.perHost /\ limits.perHost \in Nat
          /\ origins[o].limit \in Nat
      BY <1>5, <2>0, <2>a, <2>b, LimitsAssumption DEF Counted, Tabled, Ready, State, TypeOK
    <3>2. Cardinality(RequestsOf(o))' = origins'[o].active
          /\ Cardinality(RequestsOf(o))' <= limits.perHost
      BY <2>0, <2>2, <2>6, <3>1
    <3>3. \A p \in DOMAIN origins' : origins'[p].active = Cardinality(RequestsOf(p))'
      BY <2>2, <2>5, <3>2 DEF Counted
    <3>4. \A p \in Origin : Cardinality(RequestsOf(p))' <= limits.perHost
      BY <2>5, <3>2 DEF Counted
    <3> QED BY <1>0, <2>5, <3>3, <3>4 DEF Counted
  <2>8. OriginType'
    BY <1>0, <2>2, TypeSplits DEF OriginType
  <2> QED BY <1>2, <1>3, <2>3, <2>4, <2>7, <2>8, TypeJoins
<1> QED BY <1>0, <1>1, <1>4, <1>5 DEF Admit, Leave, Goto, TypeOK, Admitted

LEMMA SignalIs == ASSUME TypeOK, NEW o, Signal(o) PROVE woken' \in [Request -> BOOLEAN]
BY DEF Signal, TypeOK

LEMMA ObserveKeeps ==
  ASSUME AdmissionInv, NEW r \in Request, NEW d \in Delays, Observe(r, d) PROVE AdmissionInv'
<1> USE DEF AdmissionInv
<1>a. PICK o : o = at[r]
  OBVIOUS
<1> DEFINE e == Told(origins[o], d)
<1>0. /\ pc[r] = "held" /\ UNCHANGED <<now, limits, queue, at, deadline>>
      /\ (d <= MaxDelay => now + d + Memory <= Horizon)
      /\ origins' = [origins EXCEPT ![o] = e]
      /\ told' = [told EXCEPT ![o] = Max({@, IF d > MaxDelay THEN Horizon + 1 ELSE now + d})]
      /\ Signal(o) /\ Goto(r, "answered")
  BY <1>a DEF Observe
<1>n. /\ d \in Nat /\ now \in Nat /\ Memory \in Nat /\ Horizon \in Nat /\ MaxDelay \in Nat
      /\ o \in Origin /\ told[o] \in Nat /\ now <= Horizon
  BY <1>a, DelaysAssumption, HorizonAssumption DEF TypeOK
<1>o. o \in DOMAIN origins /\ origins[o] \in OriginStates
  BY <1>0, <1>a, InTable
<1>e. /\ e \in OriginStates /\ e.active = origins[o].active /\ e.limit <= origins[o].limit
      /\ origins[o].blocked => e.blocked
      /\ d > MaxDelay => e.blocked /\ e.notBefore = origins[o].notBefore
      /\ ~(d > MaxDelay) => /\ e.notBefore \in {origins[o].notBefore, now + d}
                            /\ e.notBefore >= origins[o].notBefore
                            /\ e.notBefore >= now + d /\ e.retain >= e.notBefore
  BY <1>n, <1>o, ToldIs
<1> HIDE DEF e
<1>1. Moves(r) /\ pc'[r] = "answered"
  BY <1>0, GotoIs DEF Labels, Admitted
<1>2. /\ DOMAIN origins' = DOMAIN origins /\ origins' \in [DOMAIN origins -> OriginStates]
      /\ origins'[o] = e /\ \A p \in DOMAIN origins : p # o => origins'[p] = origins[p]
      /\ \A p \in DOMAIN origins : origins'[p].limit <= limits.perHost
  BY <1>0, <1>o, <1>e, EntryChanges
<1>3. Queued'
  BY <1>0, <1>1, QueueKeeps
<1>4. RequestType'
  BY <1>0, <1>1, SignalIs DEF RequestType, Moves, TypeOK
<1>5. Tabled'
  <2>1. \A p : Referenced(p)' => Referenced(p)
    BY <1>0, <1>1 DEF Referenced, Moves
  <2>2. e.notBefore <= Horizon
    <3>1. origins[o].notBefore <= Horizon
      BY <1>o DEF Tabled
    <3> QED BY <1>0, <1>n, <1>e, <3>1
  <2> QED BY <1>0, <1>2, <2>1, <2>2 DEF Tabled
<1>6. \A p : RequestsOf(p)' = RequestsOf(p)
  BY <1>0, <1>1, SetsMove DEF RequestsOf, Admitted
<1>7. Permits' = Permits
  BY <1>0, <1>1, SetsMove DEF Permits, Admitted
<1>8. Counted'
  BY <1>0, <1>2, <1>e, <1>6, <1>7 DEF Counted
<1> DEFINE asked == IF d > MaxDelay THEN Horizon + 1 ELSE now + d
<1>9. asked \in Nat /\ asked <= Horizon + 1
  BY <1>0, <1>n
<1>10. told'[o] \in {told[o], asked} /\ told'[o] >= told[o] /\ told'[o] >= asked
       /\ \A p \in Origin : p # o => told'[p] = told[p]
  BY <1>0, <1>n, <1>9, MaxIs DEF TypeOK
<1>11. told' \in [Origin -> 0 .. Horizon + 1]
  <2>1. told'[o] \in 0 .. Horizon + 1
    BY <1>n, <1>9, <1>10 DEF TypeOK
  <2>2. told' = [told EXCEPT ![o] = told'[o]]
    BY <1>0, <1>n DEF TypeOK
  <2> QED BY <2>1, <2>2 DEF TypeOK
<1>12. Heeded'
  <2> SUFFICES ASSUME NEW p \in Origin, ~(told'[p] <= now')
               PROVE  /\ p \in DOMAIN origins'
                      /\ \/ origins'[p].blocked
                         \/ told'[p] <= origins'[p].notBefore
                            /\ origins'[p].notBefore <= origins'[p].retain
    BY DEF Heeded
  <2>1. CASE p # o
    <3>1. ~(told[p] <= now)
      BY <1>0, <1>10, <2>1
    <3> QED BY <1>2, <1>10, <2>1, <3>1 DEF Heeded
  <2>2. CASE p = o /\ d > MaxDelay
    BY <1>2, <1>e, <1>o, <2>2
  <2>3. CASE p = o /\ ~(d > MaxDelay)
    <3>1. asked = now + d
      BY <2>3
    <3>2. CASE told[o] <= now
      <4>1. told'[o] <= now + d
        BY <1>n, <1>10, <3>1, <3>2
      <4>2. e.notBefore \in Nat /\ told'[o] \in Nat
        BY <1>e, <1>n, <1>9, <1>10 DEF OriginStates
      <4>3. told'[o] <= e.notBefore /\ e.notBefore <= e.retain
        BY <1>e, <1>n, <2>3, <4>1, <4>2 DEF OriginStates
      <4> QED BY <1>2, <1>o, <2>3, <4>3
    <3>3. CASE ~(told[o] <= now)
      <4>1. CASE origins[o].blocked
        BY <1>2, <1>e, <1>o, <2>3, <4>1
      <4>2. CASE told[o] <= origins[o].notBefore
        <5>1. e.notBefore \in Nat /\ origins[o].notBefore \in Nat /\ e.retain \in Nat
          BY <1>e, <1>o DEF OriginStates
        <5>2. told'[o] <= e.notBefore /\ e.notBefore <= e.retain
          BY <1>e, <1>n, <1>10, <2>3, <3>1, <4>2, <5>1
        <5> QED BY <1>2, <1>o, <2>3, <5>2
      <4> QED BY <1>n, <3>3, <4>1, <4>2 DEF Heeded
    <3> QED BY <3>2, <3>3
  <2> QED BY <2>1, <2>2, <2>3
<1>13. OriginType'
  BY <1>0, <1>2, <1>11, TypeSplits DEF OriginType
<1> QED BY <1>3, <1>4, <1>5, <1>8, <1>12, <1>13, TypeJoins

LEMMA ReleaseKeeps ==
  ASSUME AdmissionInv, NEW r \in Request, Release(r) PROVE AdmissionInv'
<1> USE DEF AdmissionInv
<1>a. PICK o : o = at[r]
  OBVIOUS
<1> DEFINE e == [origins[o] EXCEPT !.active = @ - 1]
<1>0. /\ pc[r] \in Admitted /\ UNCHANGED <<now, limits, queue, at, deadline, told>>
      /\ Signal(o) /\ Goto(r, "idle") /\ origins' = [origins EXCEPT ![o] = e]
  BY <1>a DEF Release
<1>p. pc[r] # "idle" /\ pc[r] # "queue"
  BY <1>0 DEF Admitted
<1>o. o \in DOMAIN origins /\ origins[o] \in OriginStates
  BY <1>a, <1>p, InTable
<1>1. Moves(r) /\ pc'[r] = "idle"
  BY <1>0, GotoIs DEF Labels
<1>2. /\ r \in RequestsOf(o) /\ RequestsOf(o)' = RequestsOf(o) \ {r}
      /\ \A p : p # o => RequestsOf(p)' = RequestsOf(p)
      /\ Permits' \subseteq Permits
  <2>1. r \in RequestsOf(o) /\ \A p : p # o => r \notin RequestsOf(p)
    BY <1>0, <1>a DEF RequestsOf
  <2>2. pc'[r] \notin Admitted \cup {"slot"}
    BY <1>1 DEF Admitted
  <2>3. \A p : RequestsOf(p)' = RequestsOf(p) \ {r}
    BY <1>1, <2>2, SetsMove
  <2>4. Permits' = Permits \ {r}
    BY <1>1, <2>2, SetsMove
  <2> QED BY <2>1, <2>3, <2>4
<1>3. Cardinality(RequestsOf(o))' = Cardinality(RequestsOf(o)) - 1
      /\ Cardinality(RequestsOf(o))' \in Nat
  BY <1>2, SetsFinite, FS_RemoveElement
<1>e. /\ e \in OriginStates /\ e.active = origins[o].active - 1
      /\ e.limit = origins[o].limit /\ e.notBefore = origins[o].notBefore
      /\ e.retain = origins[o].retain /\ e.blocked = origins[o].blocked
      /\ e.limit <= origins[o].limit
  <2>1. origins[o].active - 1 \in Nat
    BY <1>o, <1>3 DEF Counted
  <2> QED BY <1>o, <2>1 DEF OriginStates
<1> HIDE DEF e
<1>4. /\ DOMAIN origins' = DOMAIN origins /\ origins' \in [DOMAIN origins -> OriginStates]
      /\ origins'[o] = e /\ \A p \in DOMAIN origins : p # o => origins'[p] = origins[p]
      /\ \A p \in DOMAIN origins : origins'[p].limit <= limits.perHost
  BY <1>0, <1>o, <1>e, EntryChanges
<1>5. Queued'
  BY <1>0, <1>1, <1>p, QueueKeeps
<1>6. RequestType'
  BY <1>0, <1>1, SignalIs DEF RequestType, Moves, TypeOK
<1>7. Tabled'
  <2>1. \A p : Referenced(p)' => Referenced(p)
    BY <1>0, <1>1, <1>p DEF Referenced, Moves
  <2> QED BY <1>0, <1>e, <1>4, <2>1 DEF Tabled
<1>8. Counted'
  <2>1. Cardinality(Permits') <= Cardinality(Permits)
    BY <1>2, SetsFinite, FS_Subset
  <2>2. limits.global \in Nat /\ limits.perHost \in Nat
    BY LimitsAssumption DEF TypeOK
  <2>3. Cardinality(Permits)' <= limits.global
    BY <2>1, <2>2, SetsFinite DEF Counted
  <2>4. \A p \in DOMAIN origins' : origins'[p].active = Cardinality(RequestsOf(p))'
    BY <1>2, <1>3, <1>4, <1>e, <1>o DEF Counted
  <2>5. Cardinality(RequestsOf(o)) <= limits.perHost /\ Cardinality(RequestsOf(o)) \in Nat
    BY <1>o, SetsFinite DEF Counted, TypeOK
  <2>6. \A p \in Origin : Cardinality(RequestsOf(p))' <= limits.perHost
    <3>1. Cardinality(RequestsOf(o))' <= limits.perHost
      BY <1>3, <2>2, <2>5
    <3> QED BY <1>2, <3>1 DEF Counted
  <2> QED BY <1>0, <2>3, <2>4, <2>6 DEF Counted
<1>9. Heeded'
  BY <1>0, <1>4, <1>e DEF Heeded
<1>10. OriginType'
  BY <1>0, <1>4, TypeSplits DEF OriginType
<1> QED BY <1>5, <1>6, <1>7, <1>8, <1>9, <1>10, TypeJoins

-------------------------------------------------------------------------------
(***************************************************************************)
(* The steps that reclaim origins.                                         *)
(***************************************************************************)
\* An origin whose guidance may still matter is under pressure.
LEMMA HeededIsPressed ==
  ASSUME TypeOK, Heeded, NEW o \in Origin, ~(told[o] <= now)
  PROVE  o \in DOMAIN origins /\ Pressed(origins[o])
<1>1. /\ o \in DOMAIN origins
      /\ \/ origins[o].blocked
         \/ told[o] <= origins[o].notBefore /\ origins[o].notBefore <= origins[o].retain
  BY DEF Heeded
<1>2. /\ told[o] \in Nat /\ now \in Nat
      /\ origins[o].notBefore \in Nat /\ origins[o].retain \in Nat
  BY <1>1, HorizonAssumption DEF TypeOK, OriginStates
<1> QED BY <1>1, <1>2 DEF Pressed

LEMMA FreshIs ==
  ASSUME TypeOK
  PROVE  /\ Fresh \in OriginStates /\ Fresh.active = 0 /\ Fresh.limit = limits.perHost
         /\ Fresh.notBefore = 0
<1>1. limits.perHost \in Nat \ {0} /\ now \in Nat
  BY LimitsAssumption, HorizonAssumption DEF TypeOK
<1> QED BY <1>1 DEF Fresh, OriginStates

LEMMA ArriveKeeps ==
  ASSUME AdmissionInv, NEW r \in Request, NEW o \in Origin, Arrive(r, o) PROVE AdmissionInv'
<1> USE DEF AdmissionInv
<1>0. pc[r] = "idle" /\ UNCHANGED <<now, limits, queue, deadline, told>>
  BY DEF Arrive
<1>k. Kept \subseteq DOMAIN origins /\ IsFiniteSet(Kept) /\ Cardinality(Kept) \in Nat
      /\ Cardinality(Kept) <= MaxOrigins
  <2>1. Kept \subseteq DOMAIN origins
    BY DEF Kept
  <2>2. IsFiniteSet(Kept) /\ Cardinality(Kept) <= Cardinality(DOMAIN origins)
    BY <2>1, FS_Subset DEF Tabled
  <2>3. Cardinality(Kept) \in Nat /\ Cardinality(DOMAIN origins) \in Nat
    BY <2>2, FS_CardinalityType DEF Tabled
  <2> QED BY <2>1, <2>2, <2>3, HorizonAssumption DEF Tabled
<1>h. \A p \in Origin : ~(told[p] <= now) => p \in Kept
  BY HeededIsPressed DEF Kept
<1>r. \A p \in Origin : Referenced(p) => p \in Kept
  BY DEF Kept, Tabled
<1>1. CASE /\ o \in Kept \/ Cardinality(Kept) < MaxOrigins
           /\ origins' = [p \in Kept \cup {o} |-> IF p \in Kept THEN origins[p] ELSE Fresh]
           /\ at' = [at EXCEPT ![r] = o] /\ woken' = [woken EXCEPT ![r] = FALSE]
           /\ Goto(r, "check")
  <2>1. DOMAIN origins' = Kept \cup {o} /\ (\A p \in Kept : origins'[p] = origins[p])
        /\ (o \notin Kept => origins'[o] = Fresh)
    BY <1>1
  <2>2. Moves(r) /\ pc'[r] = "check" /\ at'[r] = o
    BY <1>0, <1>1 DEF Moves, Goto, TypeOK, Labels, Waiting
  <2>3. Queued'
    <3>1. \A i \in DOMAIN queue : queue[i] \in Request /\ pc[queue[i]] = "queue"
      BY DEF Queued, TypeOK
    <3>2. \A i \in DOMAIN queue : pc'[queue[i]] = "queue"
      BY <1>0, <2>2, <3>1 DEF Moves
    <3> QED BY <1>0, <3>2 DEF Queued
  <2>4. RequestType'
    BY <1>0, <1>1, <2>2 DEF RequestType, Moves, TypeOK
  <2>5. OriginType'
    <3>1. \A p \in Kept \cup {o} : origins'[p] \in OriginStates
      BY <1>k, <2>1, FreshIs DEF TypeOK
    <3>2. origins' \in [Kept \cup {o} -> OriginStates]
      BY <1>1, <2>1, <3>1
    <3> QED BY <1>0, <1>k, <2>1, <3>2, TypeSplits DEF OriginType
  <2>6. Tabled'
    <3>1. IsFiniteSet(Kept \cup {o}) /\ Cardinality(Kept \cup {o}) <= MaxOrigins
      <4>1. IsFiniteSet(Kept \cup {o})
            /\ Cardinality(Kept \cup {o}) =
                 IF o \in Kept THEN Cardinality(Kept) ELSE Cardinality(Kept) + 1
        BY <1>k, FS_AddElement
      <4> QED BY <1>1, <1>k, <4>1, HorizonAssumption
    <3>2. \A p \in Origin : Referenced(p)' => p = o \/ Referenced(p)
      BY <2>2 DEF Referenced, Moves
    <3>3. \A p \in Origin : Referenced(p)' => p \in DOMAIN origins'
      BY <1>r, <2>1, <3>2
    <3>4. limits.perHost <= limits.perHost /\ 0 <= Horizon
      BY LimitsAssumption, HorizonAssumption DEF TypeOK
    <3>5. \A p \in DOMAIN origins' :
            origins'[p].limit <= limits.perHost /\ origins'[p].notBefore <= Horizon
      BY <1>k, <2>1, <3>4, FreshIs DEF Tabled
    <3> QED BY <1>0, <2>1, <3>1, <3>3, <3>5 DEF Tabled
  <2>7. Counted'
    <3>1. \A p : RequestsOf(p)' = RequestsOf(p)
      BY <1>0, <2>2, SetsMove DEF RequestsOf, Admitted
    <3>2. Permits' = Permits
      BY <1>0, <2>2, SetsMove DEF Permits, Admitted
    <3>3. o \notin Kept => Cardinality(RequestsOf(o)) = 0
      <4> SUFFICES ASSUME o \notin Kept PROVE RequestsOf(o) = {}
        BY FS_EmptySet
      <4>1. ~Referenced(o)
        BY <1>r
      <4> QED BY <4>1 DEF RequestsOf, Referenced, Admitted
    <3>4. \A p \in DOMAIN origins' : origins'[p].active = Cardinality(RequestsOf(p))
      BY <1>k, <2>1, <3>3, FreshIs DEF Counted
    <3> QED BY <1>0, <3>1, <3>2, <3>4 DEF Counted
  <2>8. Heeded'
    BY <1>0, <1>h, <2>1 DEF Heeded
  <2> QED BY <2>3, <2>4, <2>5, <2>6, <2>7, <2>8, TypeJoins
<1>2. CASE origins' = [p \in Kept |-> origins[p]] /\ UNCHANGED requestVars
  <2>1. DOMAIN origins' = Kept /\ \A p \in Kept : origins'[p] = origins[p]
    BY <1>2
  <2>2. UNCHANGED <<pc, at, woken>>
    BY <1>2 DEF requestVars
  <2>3. Queued' /\ RequestType'
    BY <1>0, <2>2 DEF Queued, RequestType, TypeOK, Labels
  <2>4. OriginType'
    <3>1. origins' \in [Kept -> OriginStates]
      BY <1>2, <1>k DEF TypeOK
    <3> QED BY <1>0, <1>k, <2>1, <3>1, TypeSplits DEF OriginType
  <2>5. Tabled'
    <3>1. \A p \in Origin : Referenced(p)' => p \in DOMAIN origins'
      BY <1>r, <2>1, <2>2 DEF Referenced
    <3> QED BY <1>0, <1>k, <2>1, <3>1 DEF Tabled
  <2>6. Counted'
    <3>1. (\A p : RequestsOf(p)' = RequestsOf(p)) /\ Permits' = Permits
      BY <2>2 DEF RequestsOf, Permits
    <3> QED BY <1>0, <1>k, <2>1, <3>1 DEF Counted
  <2>7. Heeded'
    BY <1>0, <1>h, <2>1 DEF Heeded
  <2> QED BY <2>3, <2>4, <2>5, <2>6, <2>7, TypeJoins
<1> QED BY <1>1, <1>2 DEF Arrive

LEMMA ReconfigureKeeps ==
  ASSUME AdmissionInv, NEW l \in Limits, Reconfigure(l) PROVE AdmissionInv'
<1> USE DEF AdmissionInv
<1> DEFINE D == {p \in DOMAIN origins : Pressed(origins[p])}
<1>0. /\ \A r \in Request : pc[r] = "idle"
      /\ limits' = l /\ UNCHANGED <<now, queue, pc, at, woken, deadline, told>>
      /\ origins' = [o \in D |-> Inherited(origins[o], l)]
  BY DEF Reconfigure, requestVars
<1>1. D \subseteq DOMAIN origins /\ DOMAIN origins' = D
      /\ \A o \in D : origins'[o] = Inherited(origins[o], l) /\ origins[o] \in OriginStates
  BY <1>0 DEF TypeOK
<1>2. \A o \in D : /\ origins'[o] \in OriginStates /\ origins'[o].limit <= l.perHost
                   /\ origins'[o].active = origins[o].active
                   /\ origins'[o].notBefore = origins[o].notBefore
                   /\ origins'[o].retain = origins[o].retain
                   /\ origins'[o].blocked = origins[o].blocked
  BY <1>1, InheritedIs
<1>3. \A o \in Origin : ~(told[o] <= now) => o \in D
  BY HeededIsPressed
<1>4. IsFiniteSet(D) /\ Cardinality(D) <= MaxOrigins
  <2>1. IsFiniteSet(D) /\ Cardinality(D) <= Cardinality(DOMAIN origins)
    BY FS_Subset DEF Tabled
  <2>2. Cardinality(D) \in Nat /\ Cardinality(DOMAIN origins) \in Nat
    BY <2>1, FS_CardinalityType DEF Tabled
  <2> QED BY <2>1, <2>2, HorizonAssumption DEF Tabled
<1> HIDE DEF D
<1>5. Queued' /\ RequestType'
  BY <1>0 DEF Queued, RequestType, TypeOK, Labels
<1>6. OriginType'
  <2>1. origins' \in [D -> OriginStates]
    BY <1>0, <1>1, <1>2
  <2> QED BY <1>0, <1>1, <2>1, TypeSplits DEF OriginType
<1>7. Tabled'
  <2>1. \A o : ~Referenced(o)'
    BY <1>0 DEF Referenced
  <2> QED BY <1>0, <1>1, <1>2, <1>4, <2>1 DEF Tabled
<1>8. Counted'
  <2>1. /\ \A o : RequestsOf(o)' = {} /\ RequestsOf(o) = {}
        /\ Permits' = {}
    BY <1>0 DEF RequestsOf, Permits, Admitted
  <2>2. Cardinality(Permits') = 0 /\ \A o : Cardinality(RequestsOf(o)') = 0
        /\ Cardinality(RequestsOf(o)) = 0
    BY <2>1, FS_EmptySet
  <2>3. l.global \in Nat /\ l.perHost \in Nat
    BY LimitsAssumption
  <2> QED BY <1>0, <1>1, <1>2, <2>2, <2>3 DEF Counted
<1>9. Heeded'
  BY <1>0, <1>1, <1>2, <1>3 DEF Heeded
<1> QED BY <1>5, <1>6, <1>7, <1>8, <1>9, TypeJoins

LEMMA TickKeeps == ASSUME AdmissionInv, Tick \/ UNCHANGED vars PROVE AdmissionInv'
<1> USE DEF AdmissionInv
<1>0. /\ UNCHANGED <<limits, origins, queue, pc, at, woken, deadline, told>>
      /\ now' \in 1 .. Horizon /\ now <= now'
  BY HorizonAssumption DEF Tick, vars, requestVars, TypeOK
<1>1. Queued' /\ RequestType'
  BY <1>0 DEF Queued, RequestType, TypeOK, Labels
<1>2. OriginType'
  BY <1>0, TypeSplits DEF OriginType
<1>3. Tabled'
  BY <1>0 DEF Tabled, Referenced
<1>4. Counted'
  <2>1. (\A p : RequestsOf(p)' = RequestsOf(p)) /\ Permits' = Permits
    BY <1>0 DEF RequestsOf, Permits
  <2> QED BY <1>0, <2>1 DEF Counted
<1>5. Heeded'
  <2>1. \A o \in Origin : told[o] <= now => told[o] <= now'
    BY <1>0, HorizonAssumption DEF TypeOK
  <2> QED BY <1>0, <2>1 DEF Heeded
<1> QED BY <1>1, <1>2, <1>3, <1>4, <1>5, TypeJoins

-------------------------------------------------------------------------------
(***************************************************************************)
(* The theorems.                                                           *)
(***************************************************************************)
LEMMA AdmissionInvInductive == Spec => []AdmissionInv
<1>1. AdmissionInv /\ [Next]_vars => AdmissionInv'
  <2> SUFFICES ASSUME AdmissionInv, [Next]_vars PROVE AdmissionInv'
    OBVIOUS
  <2>1. ASSUME NEW r \in Request, NEW o \in Origin, Arrive(r, o) PROVE AdmissionInv'
    BY <2>1, ArriveKeeps
  <2>2. ASSUME NEW r \in Request, Check(r) PROVE AdmissionInv'
    BY <2>2, CheckKeeps
  <2>3. ASSUME NEW r \in Request, ChooseWait(r) \/ Wake(r) \/ Abandon(r) PROVE AdmissionInv'
    BY <2>3, QuietStep
  <2>4. ASSUME NEW r \in Request, TakeGlobal(r) PROVE AdmissionInv'
    BY <2>4, TakeGlobalKeeps
  <2>5. ASSUME NEW r \in Request, Admit(r) PROVE AdmissionInv'
    BY <2>5, AdmitKeeps
  <2>6. ASSUME NEW r \in Request, NEW d \in Delays, Observe(r, d) PROVE AdmissionInv'
    BY <2>6, ObserveKeeps
  <2>7. ASSUME NEW r \in Request, Release(r) PROVE AdmissionInv'
    BY <2>7, ReleaseKeeps
  <2>8. ASSUME NEW l \in Limits, Reconfigure(l) PROVE AdmissionInv'
    BY <2>8, ReconfigureKeeps
  <2>9. CASE Tick \/ UNCHANGED vars
    BY <2>9, TickKeeps
  <2> QED BY <2>1, <2>2, <2>3, <2>4, <2>5, <2>6, <2>7, <2>8, <2>9 DEF Next
<1> QED BY <1>1, AdmissionInvInit, PTL DEF Spec

\* The caps hold, every count is exact, and the table stays within its bound and holds every
\* origin in use, however requests arrive, wait, end or are dropped.
THEOREM CapsAlwaysHold == Spec => []CapsHold
<1>1. AdmissionInv => CapsHold
  <2> SUFFICES ASSUME AdmissionInv PROVE CapsHold
    OBVIOUS
  <2> USE DEF AdmissionInv
  <2>1. \A o \in DOMAIN origins : origins[o].limit >= 1
    BY DEF TypeOK, OriginStates
  <2>2. Cardinality({r \in Request : pc[r] \in Admitted}) <= limits.global
    <3>1. {r \in Request : pc[r] \in Admitted} \in SUBSET Permits
      BY DEF Permits
    <3>2. /\ IsFiniteSet({r \in Request : pc[r] \in Admitted})
          /\ Cardinality({r \in Request : pc[r] \in Admitted}) <= Cardinality(Permits)
      BY <3>1, SetsFinite, FS_Subset
    <3>3. Cardinality({r \in Request : pc[r] \in Admitted}) \in Nat /\ limits.global \in Nat
      BY <3>2, FS_CardinalityType, LimitsAssumption DEF TypeOK
    <3> QED BY <3>2, <3>3, SetsFinite DEF Counted
  <2> QED BY <2>1, <2>2 DEF CapsHold, Counted, Tabled
<1> QED BY <1>1, AdmissionInvInductive, PTL

\* No request is admitted before the latest time an answer of its origin has asked for.
THEOREM GuidanceAlwaysHonoured == Spec => GuidanceHonoured
<1> DEFINE Honoured == \A r \in Request :
             pc[r] \notin Admitted /\ pc'[r] \in Admitted => now >= told[at'[r]]
<1>1. AdmissionInv /\ [Next]_vars => [Honoured]_vars
  <2> SUFFICES ASSUME AdmissionInv, Next, NEW r \in Request,
                      pc[r] \notin Admitted, pc'[r] \in Admitted
               PROVE  now >= told[at'[r]]
    OBVIOUS
  <2> USE DEF AdmissionInv
  <2>1. Admit(r)
    <3>1. pc' # pc /\ pc \in [Request -> Labels]
      BY TypeSplits DEF RequestType
    <3>2. ASSUME NEW s \in Request, NEW l, pc' = [pc EXCEPT ![s] = l] PROVE s = r /\ l \in Admitted
      BY <3>1, <3>2
    <3>3. ASSUME NEW s \in Request, NEW l, l \notin Admitted PROVE pc' # [pc EXCEPT ![s] = l]
      BY <3>2, <3>3
    <3>4. "check" \notin Admitted /\ "idle" \notin Admitted /\ "queue" \notin Admitted
          /\ "decided" \notin Admitted /\ "timed" \notin Admitted /\ "waiting" \notin Admitted
          /\ "slot" \notin Admitted
      BY DEF Admitted
    <3>5. \A s \in Request :
            /\ ~\E o \in Origin : Arrive(s, o)
            /\ ~Check(s) /\ ~ChooseWait(s) /\ ~Wake(s) /\ ~TakeGlobal(s)
            /\ ~Release(s) /\ ~Abandon(s)
      BY <3>1, <3>3, <3>4 DEF Arrive, Check, ChooseWait, Wake, TakeGlobal, Release, Abandon,
                              Goto, Leave, requestVars
    <3>6. \A s \in Request : \A d \in Delays : ~Observe(s, d)
      <4> SUFFICES ASSUME NEW s \in Request, NEW d \in Delays, Observe(s, d) PROVE FALSE
        OBVIOUS
      <4>1. s = r
        BY <3>2 DEF Observe, Goto
      <4> QED BY <4>1 DEF Observe, Admitted
    <3>7. ~Tick /\ \A l \in Limits : ~Reconfigure(l)
      BY <3>1 DEF Tick, Reconfigure, requestVars
    <3>8. PICK s \in Request : Admit(s)
      BY <3>5, <3>6, <3>7 DEF Next
    <3>9. s = r
      BY <3>1, <3>2, <3>8 DEF Admit, Goto, Leave
    <3> QED BY <3>8, <3>9
  <2>2. pc[r] = "slot" /\ at' = at
    BY <2>1 DEF Admit
  <2>3. ~State(r).blocked /\ Ready(r)
    BY <2>1 DEF Admit, Leave, Goto, TypeOK, Admitted
  <2>4. at[r] \in DOMAIN origins /\ State(r) \in OriginStates /\ State(r) = origins[at[r]]
        /\ at[r] \in Origin
    BY <2>2, InTable DEF TypeOK
  <2>5. now >= origins[at[r]].notBefore /\ ~origins[at[r]].blocked
    BY <2>3, <2>4 DEF Ready
  <2>6. told[at[r]] <= now \/ told[at[r]] <= origins[at[r]].notBefore
    BY <2>4, <2>5 DEF Heeded
  <2>7. told[at[r]] \in Nat /\ now \in Nat /\ origins[at[r]].notBefore \in Nat
    BY <2>4, HorizonAssumption DEF TypeOK, OriginStates
  <2> QED BY <2>2, <2>5, <2>6, <2>7
<1>2. Spec => [][Honoured]_vars
  BY <1>1, AdmissionInvInductive, PTL DEF Spec
<1> QED BY <1>2 DEF GuidanceHonoured

\* An origin under pressure stays in the table and is never given more room.
THEOREM PressureAlwaysRemembered == Spec => PressureRemembered
<1> DEFINE Remembered == \A o \in DOMAIN origins : Pressed(origins[o]) =>
             o \in DOMAIN origins' /\ origins'[o].limit <= origins[o].limit
<1>1. AdmissionInv /\ [Next]_vars => [Remembered]_vars
  <2> SUFFICES ASSUME AdmissionInv, Next, NEW o \in DOMAIN origins, Pressed(origins[o])
               PROVE  o \in DOMAIN origins' /\ origins'[o].limit <= origins[o].limit
    OBVIOUS
  <2> USE DEF AdmissionInv
  <2>1. origins[o] \in OriginStates /\ origins[o].limit \in Nat
    BY DEF TypeOK, OriginStates
  <2>2. CASE UNCHANGED origins
    BY <2>1, <2>2
  <2>3. ASSUME NEW r \in Request, NEW p \in Origin, Arrive(r, p)
        PROVE  o \in DOMAIN origins' /\ origins'[o].limit <= origins[o].limit
    <3>1. o \in Kept
      BY DEF Kept
    <3> QED BY <2>1, <2>3, <3>1 DEF Arrive
  <2>4. ASSUME NEW e, NEW p \in DOMAIN origins, origins' = [origins EXCEPT ![p] = e],
               e.limit <= origins[p].limit
        PROVE  o \in DOMAIN origins' /\ origins'[o].limit <= origins[o].limit
    BY <2>1, <2>4 DEF TypeOK
  <2>5. ASSUME NEW r \in Request, NEW d \in Delays, Observe(r, d)
        PROVE  o \in DOMAIN origins' /\ origins'[o].limit <= origins[o].limit
    <3>1. at[r] \in DOMAIN origins /\ origins[at[r]] \in OriginStates
      BY <2>5, InTable DEF Observe
    <3>2. d \in Nat /\ now \in Nat
      BY DelaysAssumption, HorizonAssumption DEF TypeOK
    <3>3. Told(origins[at[r]], d).limit <= origins[at[r]].limit
      BY <3>1, <3>2, ToldIs
    <3> QED BY <2>4, <2>5, <3>1, <3>3 DEF Observe
  <2>6. ASSUME NEW r \in Request, Admit(r) \/ Release(r)
        PROVE  o \in DOMAIN origins' /\ origins'[o].limit <= origins[o].limit
    <3>1. at[r] \in DOMAIN origins /\ origins[at[r]] \in OriginStates
      BY <2>6, InTable DEF Admit, Release, Admitted
    <3>2. \A n : [origins[at[r]] EXCEPT !.active = n].limit <= origins[at[r]].limit
      BY <3>1 DEF OriginStates
    <3> QED BY <2>2, <2>4, <2>6, <3>1, <3>2 DEF Admit, Release
  <2>7. ASSUME NEW l \in Limits, Reconfigure(l)
        PROVE  o \in DOMAIN origins' /\ origins'[o].limit <= origins[o].limit
    BY <2>1, <2>7, InheritedIs DEF Reconfigure
  <2> QED BY <2>2, <2>3, <2>5, <2>6, <2>7
      DEF Next, Check, ChooseWait, Wake, TakeGlobal, Abandon, Tick
<1>2. Spec => [][Remembered]_vars
  BY <1>1, AdmissionInvInductive, PTL DEF Spec
<1> QED BY <1>2 DEF PressureRemembered
===============================================================================
