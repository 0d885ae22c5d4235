-------------------------- MODULE RangeTransferProofs --------------------------
(***************************************************************************)
(* Theorems about RangeTransfer, for every set of workers and every number *)
(* of ranges.                                                              *)
(***************************************************************************)
EXTENDS RangeTransfer, FiniteSetTheorems, TLAPS

\* Workers that hold an attempt of the range, and workers that write or have written it.
Holders(r) == {w \in Worker : work[w] = r /\ pc[w] \in Fetching}

Writing == {"commit", "committed", "torn"}

(***************************************************************************)
(* Where each range is, and who holds it.                                  *)
(***************************************************************************)
Assigned ==
  /\ pending \cap DOMAIN flight = {} /\ pending \cap done = {}
  /\ \A r \in DOMAIN flight : flight[r].phase = "InFlight" => r \notin done
  /\ \A w \in Worker : pc[w] \in Fetching \cup Writing => work[w] \in Ranges \ pending
  /\ \A w \in Worker : pc[w] \in Writing =>
       work[w] \in DOMAIN flight /\ flight[work[w]].phase = "Committing"
  /\ \A w \in Worker : pc[w] = "commit" => work[w] \notin done
  /\ \A w \in Worker : pc[w] = "committed" => work[w] \in done
  /\ \A v, w \in Worker :
       (v # w /\ pc[v] \in Writing /\ pc[w] \in Writing) => work[v] # work[w]

\* The count of an attempt may lag behind the workers that have left it, once the transfer
\* is stopped, but never before, and never the other way.
Counted ==
  \A r \in DOMAIN flight :
    /\ flight[r].active <= flight[r].started
    /\ Cardinality(Holders(r)) <= flight[r].active
    /\ ~Stopped => Cardinality(Holders(r)) = flight[r].active

\* No range is lost unless a failure is on its way to the result.
Complete ==
  /\ aborted => failed \/ \E w \in Worker : pc[w] = "failed"
  /\ ~aborted => Ranges \subseteq done \cup pending \cup DOMAIN flight
  /\ \A w \in Worker : pc[w] = "failed" => aborted
  /\ failed => aborted
  /\ ~Stopped => \A w \in Worker :
       pc[w] \in {"exit", "joined"} => pending = {} /\ DOMAIN flight = {}
  /\ outcome # "running" => \A w \in Worker : pc[w] = "joined"

-------------------------------------------------------------------------------
LEMMA HoldersFinite == \A r : IsFiniteSet(Holders(r)) /\ Cardinality(Holders(r)) \in Nat
<1> SUFFICES ASSUME NEW r PROVE IsFiniteSet(Holders(r)) /\ Cardinality(Holders(r)) \in Nat
  OBVIOUS
<1>1. Holders(r) \subseteq Worker
  BY DEF Holders
<1> QED BY <1>1, WorkerAssumption, FS_Subset, FS_CardinalityType

\* A worker takes up an attempt, leaves it, or neither.
LEMMA HolderJoins ==
  ASSUME NEW r, NEW w, w \notin Holders(r), Holders(r)' = Holders(r) \cup {w}
  PROVE  Cardinality(Holders(r))' = Cardinality(Holders(r)) + 1
BY HoldersFinite, FS_AddElement

LEMMA HolderLeaves ==
  ASSUME NEW r, NEW w, w \in Holders(r), Holders(r)' = Holders(r) \ {w}
  PROVE  /\ Cardinality(Holders(r))' = Cardinality(Holders(r)) - 1
         /\ Cardinality(Holders(r)) >= 1
<1>1. Cardinality(Holders(r) \ {w}) = Cardinality(Holders(r)) - 1
  BY HoldersFinite, FS_RemoveElement
<1>2. IsFiniteSet(Holders(r) \ {w})
  BY HoldersFinite, FS_RemoveElement
<1>3. Cardinality(Holders(r) \ {w}) \in Nat
  BY <1>2, FS_CardinalityType
<1> QED BY <1>1, <1>3, HoldersFinite

LEMMA NoHolder == ASSUME NEW r, Holders(r) = {} PROVE Cardinality(Holders(r)) = 0
BY FS_EmptySet

\* Two workers with the same attempt
LEMMA TwoHolders ==
  ASSUME NEW r, NEW v \in Holders(r), NEW w \in Holders(r), v # w
  PROVE  Cardinality(Holders(r)) >= 2
<1>1. IsFiniteSet({v}) /\ Cardinality({v}) = 1 /\ IsFiniteSet({v, w})
  BY FS_EmptySet, FS_AddElement, {v} = {} \cup {v}
<1>2. Cardinality({v} \cup {w}) = 2
  BY <1>1, FS_AddElement
<1>3. {v} \cup {w} \subseteq Holders(r)
  OBVIOUS
<1> QED BY <1>2, <1>3, HoldersFinite, FS_Subset

-------------------------------------------------------------------------------
(***************************************************************************)
(* What the coordinator's operations do to a table of attempts.            *)
(***************************************************************************)
LEMMA LessActiveIs ==
  ASSUME TypeOK, NEW r \in DOMAIN flight
  PROVE  /\ LessActive(r) \in [DOMAIN flight -> Attempts]
         /\ \A s \in DOMAIN flight :
              /\ LessActive(r)[s].phase = flight[s].phase
              /\ LessActive(r)[s].started = flight[s].started
              /\ s # r => LessActive(r)[s] = flight[s]
         /\ LessActive(r)[r].active =
              IF flight[r].active = 0 THEN 0 ELSE flight[r].active - 1
BY DEF LessActive, TypeOK, Attempts

LEMMA WithIs ==
  ASSUME TypeOK, NEW r, NEW a \in Attempts
  PROVE  /\ With(r, a) \in [DOMAIN flight \cup {r} -> Attempts]
         /\ \A s \in DOMAIN flight \ {r} : With(r, a)[s] = flight[s]
         /\ With(r, a)[r] = a
BY DEF With, TypeOK

LEMMA WithoutIs ==
  ASSUME TypeOK, NEW r
  PROVE  /\ Without(r) \in [DOMAIN flight \ {r} -> Attempts]
         /\ \A s \in DOMAIN flight \ {r} : Without(r)[s] = flight[s]
BY DEF Without, TypeOK

First == [phase |-> "InFlight", started |-> 1, active |-> 1, due |-> FALSE]

LEMMA FirstIs ==
  ASSUME TypeOK, NEW r
  PROVE  /\ With(r, First) \in [DOMAIN flight \cup {r} -> Attempts]
         /\ \A s \in DOMAIN flight \ {r} : With(r, First)[s] = flight[s]
         /\ With(r, First)[r] = First
<1>1. First \in Attempts
  BY DEF First, Attempts
<1> QED BY <1>1, WithIs

\* The table after a hedge, after time has passed, and after a claim
LEMMA HedgedIs ==
  ASSUME TypeOK, Counted, NEW r, SoleTail(r),
         flight' = [flight EXCEPT ![r].started = 2, ![r].active = @ + 1]
  PROVE  /\ r \in DOMAIN flight /\ flight' \in [DOMAIN flight -> Attempts]
         /\ flight'[r].phase = "InFlight" /\ flight[r].phase = "InFlight"
         /\ flight'[r].started = 2 /\ flight'[r].active = flight[r].active + 1
         /\ flight'[r].active <= 2
         /\ \A s \in DOMAIN flight : s = r
<1>1. r \in DOMAIN flight /\ flight[r].active <= 1 /\ flight[r] \in Attempts
  BY DEF TypeOK, Counted, SoleTail, Attempts
<1> QED BY <1>1 DEF TypeOK, SoleTail, Attempts

LEMMA ElapsedIs ==
  ASSUME TypeOK, NEW r \in DOMAIN flight, flight' = [flight EXCEPT ![r].due = TRUE]
  PROVE  /\ flight' \in [DOMAIN flight -> Attempts]
         /\ \A s \in DOMAIN flight :
              /\ flight'[s].phase = flight[s].phase /\ flight'[s].started = flight[s].started
              /\ flight'[s].active = flight[s].active
BY DEF TypeOK, Attempts

LEMMA ClaimedIs ==
  ASSUME TypeOK, NEW r \in DOMAIN flight,
         flight' = [LessActive(r) EXCEPT ![r].phase = "Committing"]
  PROVE  /\ flight' \in [DOMAIN flight -> Attempts]
         /\ flight'[r].phase = "Committing"
         /\ \A s \in DOMAIN flight :
              /\ flight'[s].started = flight[s].started
              /\ flight'[s].active = LessActive(r)[s].active
              /\ s # r => flight'[s] = flight[s]
<1> DEFINE f == LessActive(r)
<1>1. f \in [DOMAIN flight -> Attempts]
  BY LessActiveIs
<1>2. \A s \in DOMAIN flight : f[s].started = flight[s].started /\ (s # r => f[s] = flight[s])
  BY LessActiveIs
<1>3. flight' = [f EXCEPT ![r].phase = "Committing"]
  OBVIOUS
<1> HIDE DEF f
<1>5. f[r] \in Attempts /\ [f[r] EXCEPT !.phase = "Committing"] \in Attempts
  BY <1>1 DEF Attempts
<1>6. flight' = [f EXCEPT ![r] = [f[r] EXCEPT !.phase = "Committing"]]
  BY <1>3
<1>7. /\ [f[r] EXCEPT !.phase = "Committing"].phase = "Committing"
      /\ [f[r] EXCEPT !.phase = "Committing"].started = f[r].started
      /\ [f[r] EXCEPT !.phase = "Committing"].active = f[r].active
  BY <1>5 DEF Attempts
<1>4. /\ flight' \in [DOMAIN flight -> Attempts]
      /\ flight'[r].phase = "Committing"
      /\ \A s \in DOMAIN flight : /\ flight'[s].started = f[s].started
                                  /\ flight'[s].active = f[s].active
                                  /\ s # r => flight'[s] = f[s]
  BY <1>1, <1>5, <1>6, <1>7
<1> QED BY <1>2, <1>4 DEF f

-------------------------------------------------------------------------------
(***************************************************************************)
(* The parts of the state a step of one worker leaves alone.               *)
(***************************************************************************)
\* Only w moves, and it keeps its range or takes up one in flight.
Moves(w) ==
  /\ \A v \in Worker \ {w} : pc'[v] = pc[v] /\ work'[v] = work[v]
  /\ pc' \in [Worker -> Steps] /\ work' \in [Worker -> 0 .. Total]

LEMMA StepMoves ==
  ASSUME TypeOK, NEW w \in Worker, NEW l \in Steps, Goto(w, l),
         \/ UNCHANGED work
         \/ \E r \in Ranges : work' = [work EXCEPT ![w] = r]
  PROVE  Moves(w) /\ pc'[w] = l
BY TotalAssumption DEF TypeOK, Moves, Goto, Ranges

LEMMA WorkMoves ==
  ASSUME TypeOK, NEW w \in Worker, Work(w) \/ Answer(w)
  PROVE  Moves(w)
<1> USE DEF workerVars, coordinator, resultVars
<1>2. CASE Answer(w)
  BY <1>2, StepMoves DEF Answer, Deliver, FetchFails, Steps, Fetching
<1>3. CASE NextNone(w) \/ NextSleep(w) \/ Wake(w) \/ Recheck(w)
  <2>1. CASE Recheck(w) /\ ~ShouldCancel(w)
    BY <2>1 DEF Recheck, Moves, TypeOK
  <2> QED BY <1>3, <2>1, StepMoves DEF NextNone, NextSleep, Wake, Recheck, Steps, Fetching
<1>4. ASSUME NEW r \in Ranges, NextPending(w, r) \/ NextHedge(w, r) PROVE Moves(w)
  BY <1>4, StepMoves DEF NextPending, NextHedge, Begin, Steps, Fetching
<1>5. CASE FinishSuperseded(w) \/ FinishFailed(w) \/ Claim(w)
  BY <1>5, StepMoves DEF FinishSuperseded, FinishFailed, Claim, Steps, Fetching
<1>6. CASE Commit(w) \/ FinishCommit(w) \/ Join(w)
  <2>1. CASE Commit(w)
    BY <2>1, StepMoves DEF Commit, Steps
  <2>2. CASE FinishCommit(w)
    BY <2>2, StepMoves DEF FinishCommit, Steps
  <2>3. CASE Join(w)
    BY <2>3, StepMoves DEF Join, Steps
  <2> QED BY <1>6, <2>1, <2>2, <2>3
<1> QED BY <1>2, <1>3, <1>4, <1>5, <1>6 DEF Work, Answer

-------------------------------------------------------------------------------
(***************************************************************************)
(* Types.                                                                  *)
(***************************************************************************)
FlightType == DOMAIN flight \subseteq Ranges /\ flight \in [DOMAIN flight -> Attempts]

LEMMA FlightTyped ==
  ASSUME TypeOK, NEW D \in SUBSET Ranges, flight' \in [D -> Attempts]
  PROVE  FlightType'
<1>1. DOMAIN flight' = D
  OBVIOUS
<1> QED BY <1>1 DEF FlightType, Ranges

LEMMA FlightStays == ASSUME TypeOK, UNCHANGED flight PROVE FlightType'
BY DEF FlightType, TypeOK, Ranges

LEMMA TypeNext == ASSUME TypeOK, Assigned, Counted, [Next]_vars PROVE TypeOK'
<1> USE DEF workerVars, coordinator, resultVars
<1>F. DOMAIN flight \subseteq Ranges
  BY DEF TypeOK
<1>a. ASSUME NEW r \in DOMAIN flight, flight' = LessActive(r) PROVE FlightType'
  BY <1>a, <1>F, LessActiveIs, FlightTyped
<1>b. ASSUME NEW r, flight' = Without(r) PROVE FlightType'
  <2>1. DOMAIN flight \ {r} \subseteq Ranges
    BY <1>F
  <2> QED BY <1>b, <2>1, WithoutIs, FlightTyped
<1>1. ASSUME NEW w \in Worker, Work(w) \/ Answer(w) PROVE TypeOK'
  <2>0. Moves(w)
    BY <1>1, WorkMoves
  <2>w. work[w] \in Ranges \/ pc[w] \notin Fetching \cup Writing
    BY DEF Assigned
  <2>1. CASE Answer(w)
    BY <2>0, <2>1 DEF Answer, Deliver, FetchFails, Moves, TypeOK, Ranges
  <2>2. CASE NextNone(w) \/ NextSleep(w) \/ Wake(w)
    <3>1. timer' \in [Worker -> BOOLEAN] /\ woken' \in [Worker -> BOOLEAN]
      BY <2>2 DEF NextNone, NextSleep, Wake, TypeOK
    <3> QED BY <2>0, <2>2, <3>1 DEF NextNone, NextSleep, Wake, Moves, TypeOK, Ranges
  <2>3. CASE Recheck(w)
    BY <2>0, <2>3 DEF Recheck, Moves, TypeOK, Ranges
  <2>4. ASSUME NEW r \in Ranges, NextPending(w, r) \/ NextHedge(w, r) PROVE TypeOK'
    <3>1. hedge' \in [Worker -> BOOLEAN] /\ woken' \in [Worker -> BOOLEAN]
      BY <2>4 DEF NextPending, NextHedge, Begin, TypeOK
    <3>2. CASE NextPending(w, r)
      <4>1. flight' \in [DOMAIN flight \cup {r} -> Attempts]
        BY <3>2, FirstIs DEF NextPending, First
      <4>2. FlightType'
        BY <4>1, <1>F, <2>4, FlightTyped
      <4> QED BY <2>0, <3>1, <3>2, <4>2 DEF NextPending, Moves, TypeOK, FlightType, Ranges
    <3>3. CASE NextHedge(w, r)
      <4>1. FlightType'
        BY <3>3, <1>F, HedgedIs, FlightTyped DEF NextHedge
      <4> QED BY <2>0, <3>1, <3>3, <4>1 DEF NextHedge, Moves, TypeOK, FlightType, Ranges
    <3> QED BY <2>4, <3>2, <3>3
  <2>s. Signal => woken' \in [Worker -> BOOLEAN]
    BY DEF Signal
  <2>5. CASE FinishSuperseded(w)
    <3>1. FlightType'
      BY <2>5, <1>a, FlightStays DEF FinishSuperseded
    <3> QED BY <2>0, <2>5, <2>s, <3>1 DEF FinishSuperseded, Moves, TypeOK, FlightType, Ranges
  <2>6. CASE FinishFailed(w)
    <3>1. FlightType'
      BY <2>6, <1>a, <1>b, FlightStays DEF FinishFailed
    <3>2. woken' \in [Worker -> BOOLEAN] /\ aborted' \in BOOLEAN
      BY <2>6, <2>s DEF FinishFailed, TypeOK
    <3> QED BY <2>0, <2>6, <3>1, <3>2 DEF FinishFailed, Moves, TypeOK, FlightType, Ranges
  <2>7. CASE Claim(w)
    <3>1. FlightType'
      <4>1. CASE flight' = [LessActive(work[w]) EXCEPT ![work[w]].phase = "Committing"]
                 /\ work[w] \in DOMAIN flight
        BY <4>1, <1>F, ClaimedIs, FlightTyped
      <4> QED BY <2>7, <4>1, <1>a, FlightStays DEF Claim
    <3>2. woken' \in [Worker -> BOOLEAN]
      BY <2>7, <2>s DEF Claim, TypeOK
    <3> QED BY <2>0, <2>7, <3>1, <3>2 DEF Claim, Moves, TypeOK, FlightType, Ranges
  <2>8. CASE Commit(w)
    <3>1. done' \subseteq Ranges
      BY <2>8, <2>w DEF Commit, TypeOK, Writing
    <3> QED BY <2>0, <2>8, <3>1 DEF Commit, Moves, TypeOK, Ranges
  <2>9. CASE FinishCommit(w)
    <3>1. FlightType'
      BY <2>9, <1>b DEF FinishCommit
    <3> QED BY <2>0, <2>9, <2>s, <3>1 DEF FinishCommit, Moves, TypeOK, FlightType, Ranges
  <2>10. CASE Join(w)
    <3>1. woken' \in [Worker -> BOOLEAN] /\ aborted' \in BOOLEAN /\ failed' \in BOOLEAN
      BY <2>10, <2>s DEF Join, TypeOK
    <3> QED BY <2>0, <2>10, <3>1 DEF Join, Moves, TypeOK, Ranges
  <2> QED BY <1>1, <2>1, <2>2, <2>3, <2>4, <2>5, <2>6, <2>7, <2>8, <2>9, <2>10 DEF Work
<1>2. ASSUME NEW r \in Ranges, Elapse(r) PROVE TypeOK'
  <2>1. FlightType'
    BY <1>2, <1>F, ElapsedIs, FlightTyped DEF Elapse
  <2> QED BY <1>2, <2>1 DEF Elapse, TypeOK, FlightType, Ranges
<1>3. CASE Return
  BY <1>3 DEF Return, TypeOK, Ranges
<1>4. CASE Cancel
  BY <1>4 DEF Cancel, Signal, TypeOK, Ranges
<1>5. CASE UNCHANGED vars
  BY <1>5 DEF vars, TypeOK, Ranges
<1> QED BY <1>1, <1>2, <1>3, <1>4, <1>5 DEF Next

-------------------------------------------------------------------------------
(***************************************************************************)
(* Where each range is.                                                    *)
(***************************************************************************)
\* A step that gives w no range and lets it write none, and that neither ends the commit of
\* another range nor turns an attempt back.
LEMMA AssignedKeeps ==
  ASSUME TypeOK, Assigned, NEW w \in Worker, Moves(w), UNCHANGED <<pending, work, done>>,
         pc'[w] \in Fetching => pc[w] \in Fetching,
         pc'[w] \notin Writing,
         flight' \in [DOMAIN flight' -> Attempts], DOMAIN flight' \subseteq DOMAIN flight,
         \A r \in DOMAIN flight' : flight'[r].phase = flight[r].phase,
         \A v \in Worker \ {w} : pc[v] \in Writing => work[v] \in DOMAIN flight'
  PROVE  Assigned'
<1>1. Writing = {"commit", "committed", "torn"}
  BY DEF Writing
<1> QED BY <1>1 DEF Assigned, Moves, Ranges

LEMMA AssignedNext == ASSUME TypeOK, Assigned, Counted, [Next]_vars PROVE Assigned'
<1> USE DEF workerVars, coordinator, resultVars
<1>1. ASSUME NEW w \in Worker, Work(w) \/ Answer(w) PROVE Assigned'
  <2>0. Moves(w)
    BY <1>1, WorkMoves
  <2>k. ASSUME UNCHANGED <<pending, work, done, flight>>,
               pc'[w] \in Fetching => pc[w] \in Fetching, pc'[w] \notin Writing
        PROVE  Assigned'
    BY <2>0, <2>k, AssignedKeeps DEF Assigned, TypeOK
  <2>1. CASE Answer(w)
    BY <2>1, <2>k DEF Answer, Deliver, FetchFails, Goto, TypeOK, Fetching, Writing
  <2>2. CASE NextNone(w) \/ NextSleep(w) \/ Wake(w) \/ Join(w)
    BY <2>2, <2>k DEF NextNone, NextSleep, Wake, Join, Goto, TypeOK, Fetching, Writing
  <2>3. CASE Recheck(w)
    BY <2>3, <2>k DEF Recheck, Goto, TypeOK, Fetching, Writing
  <2>4. ASSUME NEW r \in Ranges, NextPending(w, r) PROVE Assigned'
    <3>0. flight' = With(r, First)
      BY <2>4 DEF NextPending, First
    <3>1. /\ flight' \in [DOMAIN flight \cup {r} -> Attempts]
          /\ \A s \in DOMAIN flight \ {r} : flight'[s] = flight[s]
      BY <3>0, FirstIs
    <3>2. DOMAIN flight' = DOMAIN flight \cup {r}
      BY <3>1
    <3>3. pc'[w] = "fetch" /\ work'[w] = r /\ pending' = pending \ {r} /\ done' = done
          /\ r \in pending
      BY <2>4 DEF NextPending, Begin, Goto, TypeOK
    <3>4. \A v \in Worker : pc[v] \in Fetching \cup Writing => work[v] # r
      BY <3>3 DEF Assigned
    <3>5. pc'[w] \in Fetching /\ pc'[w] \notin Writing
      BY <3>3 DEF Fetching, Writing
    <3>6. \A v \in Worker : pc'[v] \in Writing =>
            v # w /\ pc[v] \in Writing /\ work'[v] = work[v] /\ pc'[v] = pc[v]
            /\ work[v] # r
      BY <2>0, <3>4, <3>5 DEF Moves
    <3>7. pending' \cap DOMAIN flight' = {} /\ pending' \cap done' = {}
      BY <3>2, <3>3 DEF Assigned
    <3>8. \A s \in DOMAIN flight' : flight'[s].phase = "InFlight" => s \notin done'
      BY <3>1, <3>2, <3>3 DEF Assigned
    <3>9. \A v \in Worker : pc'[v] \in Fetching \cup Writing => work'[v] \in Ranges \ pending'
      BY <2>0, <3>3 DEF Assigned, Moves
    <3>10. \A v \in Worker : pc'[v] \in Writing =>
             work'[v] \in DOMAIN flight' /\ flight'[work'[v]].phase = "Committing"
      BY <3>1, <3>2, <3>6 DEF Assigned
    <3>11. \A v \in Worker : pc'[v] = "commit" => work'[v] \notin done'
      BY <3>3, <3>6 DEF Assigned, Writing
    <3>12. \A v \in Worker : pc'[v] = "committed" => work'[v] \in done'
      BY <3>3, <3>6 DEF Assigned, Writing
    <3>13. \A u, v \in Worker :
             (u # v /\ pc'[u] \in Writing /\ pc'[v] \in Writing) => work'[u] # work'[v]
      BY <3>6 DEF Assigned
    <3>14. Ranges' = Ranges /\ Writing' = Writing /\ Fetching' = Fetching
      BY DEF Ranges, Writing, Fetching
    <3> QED
      BY <3>7, <3>8, <3>9, <3>10, <3>11, <3>12, <3>13, <3>14 DEF Assigned
  <2>5. ASSUME NEW r \in Ranges, NextHedge(w, r) PROVE Assigned'
    <3>1. /\ r \in DOMAIN flight /\ flight' \in [DOMAIN flight -> Attempts]
          /\ flight'[r].phase = "InFlight" /\ flight[r].phase = "InFlight"
          /\ \A s \in DOMAIN flight : s = r
      BY <2>5, HedgedIs DEF NextHedge
    <3>2. pc'[w] = "fetch" /\ work'[w] = r /\ UNCHANGED <<pending, done>>
      BY <2>5 DEF NextHedge, Begin, Goto, TypeOK
    <3>3. r \notin pending /\ r \notin done
      BY <3>1 DEF Assigned
    <3>4. \A v \in Worker : pc[v] \notin Writing
      BY <3>1 DEF Assigned
    <3>5. \A v \in Worker : pc'[v] \notin Writing
      BY <2>0, <3>2, <3>4 DEF Moves, Writing
    <3>6. \A v \in Worker : pc'[v] \in Fetching \cup Writing => work'[v] \in Ranges \ pending'
      BY <2>0, <3>2, <3>3 DEF Assigned, Moves
    <3>7. DOMAIN flight' = DOMAIN flight
      BY <3>1
    <3> QED BY <3>1, <3>2, <3>3, <3>5, <3>6, <3>7 DEF Assigned, Ranges, Writing, Fetching
  <2>6. CASE FinishSuperseded(w)
    <3>1. /\ flight' \in [DOMAIN flight -> Attempts]
          /\ \A s \in DOMAIN flight : flight'[s].phase = flight[s].phase
      BY <2>6, LessActiveIs DEF FinishSuperseded, TypeOK
    <3>2. DOMAIN flight' = DOMAIN flight
      BY <3>1
    <3>3. pc'[w] \notin Fetching /\ pc'[w] \notin Writing /\ UNCHANGED <<pending, work, done>>
      BY <2>6 DEF FinishSuperseded, Goto, TypeOK, Fetching, Writing
    <3> QED BY <2>0, <3>1, <3>2, <3>3, AssignedKeeps DEF Assigned
  <2>7. CASE FinishFailed(w)
    <3>3. pc'[w] \notin Fetching /\ pc'[w] \notin Writing /\ UNCHANGED <<pending, work, done>>
      BY <2>7 DEF FinishFailed, Goto, TypeOK, Fetching, Writing
    <3>4. CASE UNCHANGED flight
      BY <3>3, <3>4, <2>k
    <3>5. CASE work[w] \in DOMAIN flight /\ flight' = LessActive(work[w])
      <4>1. /\ flight' \in [DOMAIN flight -> Attempts]
            /\ \A s \in DOMAIN flight : flight'[s].phase = flight[s].phase
        BY <3>5, LessActiveIs
      <4>2. DOMAIN flight' = DOMAIN flight
        BY <4>1
      <4> QED BY <2>0, <4>1, <4>2, <3>3, AssignedKeeps DEF Assigned
    <3>6. CASE InFlight(work[w]) /\ flight' = Without(work[w])
      <4>1. /\ flight' \in [DOMAIN flight \ {work[w]} -> Attempts]
            /\ \A s \in DOMAIN flight \ {work[w]} : flight'[s] = flight[s]
        BY <3>6, WithoutIs
      <4>2. DOMAIN flight' = DOMAIN flight \ {work[w]}
        BY <4>1
      <4>3. \A v \in Worker : pc[v] \in Writing => work[v] # work[w]
        BY <3>6 DEF Assigned, InFlight
      <4> QED BY <2>0, <4>1, <4>2, <4>3, <3>3, AssignedKeeps DEF Assigned
    <3> QED BY <2>7, <3>4, <3>5, <3>6 DEF FinishFailed
  <2>8. CASE Claim(w)
    <3>3. UNCHANGED <<pending, work, done>>
      BY <2>8 DEF Claim
    <3>4. CASE pc'[w] = "next" /\ UNCHANGED flight
      BY <3>3, <3>4, <2>k DEF Fetching, Writing
    <3>5. CASE pc'[w] = "next" /\ work[w] \in DOMAIN flight /\ flight' = LessActive(work[w])
      <4>1. /\ flight' \in [DOMAIN flight -> Attempts]
            /\ \A s \in DOMAIN flight : flight'[s].phase = flight[s].phase
        BY <3>5, LessActiveIs
      <4>2. DOMAIN flight' = DOMAIN flight
        BY <4>1
      <4>3. pc'[w] \notin Fetching /\ pc'[w] \notin Writing
        BY <3>5 DEF Fetching, Writing
      <4> QED BY <2>0, <4>1, <4>2, <4>3, <3>3, AssignedKeeps DEF Assigned
    <3>6. CASE /\ pc'[w] = "commit" /\ pc[w] = "body" /\ InFlight(work[w])
               /\ flight' = [LessActive(work[w]) EXCEPT ![work[w]].phase = "Committing"]
      <4> DEFINE r == work[w]
      <4>0. r \in DOMAIN flight /\ flight[r].phase = "InFlight" /\ r \notin done
        BY <3>6 DEF InFlight, Assigned
      <4>1. /\ flight' \in [DOMAIN flight -> Attempts] /\ flight'[r].phase = "Committing"
            /\ \A s \in DOMAIN flight : s # r => flight'[s] = flight[s]
        BY <3>6, <4>0, ClaimedIs
      <4>2. DOMAIN flight' = DOMAIN flight
        BY <4>1
      <4>3. \A v \in Worker : pc[v] \in Writing => v # w /\ work[v] # r
        BY <3>6, <4>0 DEF Assigned, Writing
      <4>4. pc[w] \in Fetching
        BY <3>6 DEF Fetching
      <4>5. \A v \in Worker : v # w => pc'[v] = pc[v] /\ work'[v] = work[v]
        BY <2>0 DEF Moves
      <4>6. pending' \cap DOMAIN flight' = {} /\ pending' \cap done' = {}
        BY <3>3, <4>2 DEF Assigned
      <4>7. \A s \in DOMAIN flight' : flight'[s].phase = "InFlight" => s \notin done'
        BY <3>3, <4>1, <4>2 DEF Assigned
      <4>8. \A v \in Worker : pc'[v] \in Fetching \cup Writing => work'[v] \in Ranges \ pending'
        BY <3>3, <4>4, <4>5 DEF Assigned
      <4>9. \A v \in Worker : pc'[v] \in Writing =>
              work'[v] \in DOMAIN flight' /\ flight'[work'[v]].phase = "Committing"
        BY <3>3, <4>0, <4>1, <4>2, <4>3, <4>5 DEF Assigned
      <4>10. \A v \in Worker : pc'[v] = "commit" => work'[v] \notin done'
        BY <3>3, <4>0, <4>5 DEF Assigned
      <4>11. \A v \in Worker : pc'[v] = "committed" => work'[v] \in done'
        BY <3>3, <3>6, <4>5 DEF Assigned
      <4>12. \A u, v \in Worker :
               (u # v /\ pc'[u] \in Writing /\ pc'[v] \in Writing) => work'[u] # work'[v]
        BY <3>3, <4>3, <4>5 DEF Assigned
      <4>13. Ranges' = Ranges /\ Writing' = Writing /\ Fetching' = Fetching
        BY DEF Ranges, Writing, Fetching
      <4> QED BY <4>6, <4>7, <4>8, <4>9, <4>10, <4>11, <4>12, <4>13 DEF Assigned
    <3> QED BY <2>8, <3>4, <3>5, <3>6 DEF Claim, Goto, TypeOK
  <2>9. CASE Commit(w)
    <3>1. pc[w] = "commit" /\ pc[w] \in Writing /\ pc'[w] \in {"committed", "torn"}
          /\ pc'[w] \in Writing /\ UNCHANGED <<pending, flight, work>>
      BY <2>9 DEF Commit, Goto, TypeOK, Writing
    <3>2. (pc'[w] = "committed" => work[w] \in done')
          /\ (done' = done \/ done' = done \cup {work[w]})
      BY <2>9 DEF Commit, Goto, TypeOK
    <3>3. work[w] \notin pending /\ flight[work[w]].phase = "Committing"
          /\ \A v \in Worker \ {w} : pc[v] \in Writing => work[v] # work[w]
      BY <3>1 DEF Assigned
    <3>4. \A v \in Worker : v # w => pc'[v] = pc[v]
      BY <2>0 DEF Moves
    <3>5. \A v \in Worker : pc'[v] = "commit" => v # w /\ pc[v] = "commit" /\ pc[v] \in Writing
      BY <3>1, <3>4 DEF Writing
    <3>6. \A v \in Worker : pc'[v] = "commit" => work'[v] \notin done'
      BY <3>1, <3>2, <3>3, <3>5 DEF Assigned
    <3>7. \A v \in Worker : pc'[v] \in Writing => pc[v] \in Writing
      BY <3>1, <3>4
    <3>8. \A v \in Worker : pc'[v] = "committed" => work'[v] \in done'
      BY <3>1, <3>2, <3>4 DEF Assigned
    <3>9. pending' \cap done' = {}
      BY <3>1, <3>2, <3>3 DEF Assigned
    <3>10. \A v \in Worker : pc'[v] \in Fetching => pc[v] \in Fetching
      BY <3>1, <3>4 DEF Fetching
    <3>11. \A r \in DOMAIN flight : flight[r].phase = "InFlight" => r \notin done'
      BY <3>2, <3>3 DEF Assigned
    <3> QED BY <3>1, <3>6, <3>7, <3>8, <3>9, <3>10, <3>11 DEF Assigned, Ranges, Writing, Fetching
  <2>10. CASE FinishCommit(w)
    <3>1. pc[w] \in Writing /\ pc'[w] \notin Writing /\ pc'[w] \notin Fetching
          /\ UNCHANGED <<pending, work, done>>
      BY <2>10 DEF FinishCommit, Goto, TypeOK, Writing, Fetching
    <3>2. /\ flight' \in [DOMAIN flight \ {work[w]} -> Attempts]
          /\ \A s \in DOMAIN flight \ {work[w]} : flight'[s] = flight[s]
      BY <2>10, WithoutIs DEF FinishCommit
    <3>3. DOMAIN flight' = DOMAIN flight \ {work[w]}
      BY <3>2
    <3>4. \A v \in Worker \ {w} : pc[v] \in Writing => work[v] # work[w]
      BY <3>1 DEF Assigned
    <3> QED BY <2>0, <3>1, <3>2, <3>3, <3>4, AssignedKeeps DEF Assigned
  <2> QED BY <1>1, <2>1, <2>2, <2>3, <2>4, <2>5, <2>6, <2>7, <2>8, <2>9, <2>10 DEF Work
<1>2. ASSUME NEW r \in Ranges, Elapse(r) PROVE Assigned'
  <2>1. /\ flight' \in [DOMAIN flight -> Attempts]
        /\ \A s \in DOMAIN flight : flight'[s].phase = flight[s].phase
    BY <1>2, ElapsedIs DEF Elapse
  <2>2. DOMAIN flight' = DOMAIN flight
    BY <2>1
  <2> QED BY <1>2, <2>1, <2>2 DEF Elapse, Assigned, Ranges, Writing, Fetching
<1>3. CASE Return \/ Cancel \/ UNCHANGED vars
  BY <1>3 DEF Return, Cancel, vars, Assigned, Ranges, Writing, Fetching
<1> QED BY <1>1, <1>2, <1>3 DEF Next

-------------------------------------------------------------------------------
(***************************************************************************)
(* Who holds each range.                                                   *)
(***************************************************************************)
LEMMA HoldersMove ==
  ASSUME TypeOK, NEW w \in Worker, Moves(w), NEW r
  PROVE  Holders(r)' = IF work'[w] = r /\ pc'[w] \in Fetching THEN Holders(r) \cup {w}
                       ELSE Holders(r) \ {w}
BY DEF Holders, Moves, Fetching

\* w keeps its attempt, or had none and has none.
LEMMA HoldersStay ==
  ASSUME TypeOK, NEW w \in Worker, Moves(w), UNCHANGED work,
         pc'[w] \in Fetching <=> pc[w] \in Fetching, NEW r
  PROVE  Holders(r)' = Holders(r)
BY HoldersMove DEF Holders

\* w leaves its attempt.
LEMMA HoldersLess ==
  ASSUME TypeOK, NEW w \in Worker, Moves(w),
         UNCHANGED work, pc[w] \in Fetching, pc'[w] \notin Fetching, NEW r
  PROVE  /\ Cardinality(Holders(r))' <= Cardinality(Holders(r))
         /\ r # work[w] => Cardinality(Holders(r))' = Cardinality(Holders(r))
         /\ r = work[w] => /\ Cardinality(Holders(r))' = Cardinality(Holders(r)) - 1
                           /\ Cardinality(Holders(r)) >= 1
<1>1. Holders(r)' = Holders(r) \ {w}
  BY HoldersMove
<1>2. CASE r = work[w]
  <2>1. w \in Holders(r)
    BY <1>2 DEF Holders
  <2> QED BY <1>1, <1>2, <2>1, HolderLeaves, HoldersFinite
<1>3. CASE r # work[w]
  <2>1. Holders(r)' = Holders(r)
    BY <1>1, <1>3 DEF Holders
  <2> QED BY <1>3, <2>1, HoldersFinite
<1> QED BY <1>2, <1>3

\* Nobody's attempt changes, and the counts do not.
LEMMA CountedKeeps ==
  ASSUME Counted, \A r : Holders(r)' = Holders(r), ~Stopped' => ~Stopped,
         DOMAIN flight' \subseteq DOMAIN flight,
         \A r \in DOMAIN flight' : flight'[r].active = flight[r].active
                                   /\ flight'[r].started = flight[r].started
  PROVE  Counted'
BY DEF Counted

\* w leaves its attempt, and the coordinator drops the range, counts one less, or has been
\* stopped.
LEMMA CountedLess ==
  ASSUME TypeOK, Counted, NEW w \in Worker, Moves(w), UNCHANGED work,
         pc[w] \in Fetching, pc'[w] \notin Fetching,
         ~Stopped' => ~Stopped, DOMAIN flight' \subseteq DOMAIN flight,
         \A r \in DOMAIN flight' : flight'[r].started = flight[r].started,
         \A r \in DOMAIN flight' \ {work[w]} : flight'[r].active = flight[r].active,
         work[w] \in DOMAIN flight' =>
           \/ flight'[work[w]].active = flight[work[w]].active /\ Stopped'
           \/ flight'[work[w]].active =
                IF flight[work[w]].active = 0 THEN 0 ELSE flight[work[w]].active - 1
  PROVE  Counted'
<1> SUFFICES ASSUME NEW r \in DOMAIN flight'
             PROVE  /\ flight'[r].active <= flight'[r].started
                    /\ Cardinality(Holders(r))' <= flight'[r].active
                    /\ ~Stopped' => Cardinality(Holders(r))' = flight'[r].active
  BY DEF Counted
<1>1. r \in DOMAIN flight /\ flight[r].active \in Nat /\ flight[r].started \in Nat
  BY DEF TypeOK, Attempts
<1>2. /\ flight[r].active <= flight[r].started
      /\ Cardinality(Holders(r)) <= flight[r].active
      /\ ~Stopped => Cardinality(Holders(r)) = flight[r].active
  BY <1>1 DEF Counted
<1>3. Cardinality(Holders(r)) \in Nat
  BY HoldersFinite
<1>4. CASE r # work[w]
  BY <1>1, <1>2, <1>4, HoldersLess
<1>5. CASE r = work[w]
  <2>1. /\ Cardinality(Holders(r))' = Cardinality(Holders(r)) - 1
        /\ Cardinality(Holders(r)) >= 1
    BY <1>5, HoldersLess
  <2> QED BY <1>1, <1>2, <1>3, <1>5, <2>1
<1> QED BY <1>4, <1>5

LEMMA CountedNext == ASSUME TypeOK, Assigned, Counted, [Next]_vars PROVE Counted'
<1> USE DEF workerVars, coordinator, resultVars
<1>s. ~Stopped' => ~Stopped
  BY DEF Next, Work, Answer, NextNone, NextSleep, Wake, Recheck, NextPending, NextHedge,
         FinishSuperseded, FinishFailed, Claim, Commit, FinishCommit, Join, Deliver,
         FetchFails, Elapse, Return, Cancel, Stopped, vars
<1>1. ASSUME NEW w \in Worker, Work(w) \/ Answer(w) PROVE Counted'
  <2>0. Moves(w)
    BY <1>1, WorkMoves
  <2>k. ASSUME UNCHANGED <<work, flight>>, pc'[w] \in Fetching <=> pc[w] \in Fetching
        PROVE  Counted'
    BY <1>s, <2>0, <2>k, HoldersStay, CountedKeeps
  <2>1. CASE Answer(w)
    BY <2>1, <2>k DEF Answer, Deliver, FetchFails, Goto, TypeOK, Fetching
  <2>2. CASE NextNone(w) \/ NextSleep(w) \/ Wake(w) \/ Join(w)
    BY <2>2, <2>k DEF NextNone, NextSleep, Wake, Join, Goto, TypeOK, Fetching
  <2>3. CASE Recheck(w) \/ Commit(w)
    BY <2>3, <2>k DEF Recheck, Commit, Goto, TypeOK, Fetching
  <2>j. ASSUME NEW r \in Ranges, NextPending(w, r) \/ NextHedge(w, r)
        PROVE  /\ \A s : s # r => Holders(s)' = Holders(s)
               /\ Cardinality(Holders(r))' = Cardinality(Holders(r)) + 1
    <3>1. pc[w] \notin Fetching /\ pc'[w] \in Fetching /\ work'[w] = r
      BY <2>j DEF NextPending, NextHedge, Begin, Goto, TypeOK, Fetching
    <3>2. \A s : w \notin Holders(s)
      BY <3>1 DEF Holders
    <3>3. \A s : Holders(s)' = IF s = r THEN Holders(s) \cup {w} ELSE Holders(s) \ {w}
      BY <2>0, <3>1, HoldersMove
    <3>4. \A s : s # r => Holders(s)' = Holders(s)
      BY <3>2, <3>3
    <3>5. Holders(r)' = Holders(r) \cup {w}
      BY <3>3
    <3> QED BY <3>2, <3>4, <3>5, HolderJoins
  <2>4. ASSUME NEW r \in Ranges, NextPending(w, r) PROVE Counted'
    <3>1. flight' = With(r, First) /\ r \in pending
      BY <2>4 DEF NextPending, First
    <3>2. /\ flight' \in [DOMAIN flight \cup {r} -> Attempts] /\ flight'[r] = First
          /\ \A s \in DOMAIN flight \ {r} : flight'[s] = flight[s]
      BY <3>1, FirstIs
    <3>3. Holders(r) = {}
      BY <3>1 DEF Holders, Assigned
    <3>4. Cardinality(Holders(r))' = 1
      BY <2>4, <2>j, <3>3, NoHolder
    <3>5. First.active = 1 /\ First.started = 1
      BY DEF First
    <3>6. \A s \in DOMAIN flight' : s # r => s \in DOMAIN flight /\ flight'[s] = flight[s]
      BY <3>2
    <3>7. \A s : s # r => Holders(s)' = Holders(s)
      BY <2>4, <2>j
    <3> SUFFICES ASSUME NEW s \in DOMAIN flight'
                 PROVE  /\ flight'[s].active <= flight'[s].started
                        /\ Cardinality(Holders(s))' <= flight'[s].active
                        /\ ~Stopped' => Cardinality(Holders(s))' = flight'[s].active
      BY DEF Counted
    <3>8. CASE s = r
      BY <3>2, <3>4, <3>5, <3>8
    <3>9. CASE s # r
      BY <1>s, <3>6, <3>7, <3>9 DEF Counted
    <3> QED BY <3>8, <3>9
  <2>5. ASSUME NEW r \in Ranges, NextHedge(w, r) PROVE Counted'
    <3>1. /\ r \in DOMAIN flight /\ flight' \in [DOMAIN flight -> Attempts]
          /\ flight'[r].started = 2 /\ flight'[r].active = flight[r].active + 1
          /\ flight'[r].active <= 2 /\ \A s \in DOMAIN flight : s = r
      BY <2>5, HedgedIs DEF NextHedge
    <3>2. Cardinality(Holders(r))' = Cardinality(Holders(r)) + 1
      BY <2>5, <2>j
    <3>3. /\ Cardinality(Holders(r)) <= flight[r].active
          /\ ~Stopped => Cardinality(Holders(r)) = flight[r].active
      BY <3>1 DEF Counted
    <3>4. flight[r].active \in Nat /\ Cardinality(Holders(r)) \in Nat
      BY <3>1, HoldersFinite DEF TypeOK, Attempts
    <3>5. /\ flight'[r].active <= flight'[r].started
          /\ Cardinality(Holders(r))' <= flight'[r].active
          /\ ~Stopped' => Cardinality(Holders(r))' = flight'[r].active
      BY <1>s, <3>1, <3>2, <3>3, <3>4
    <3>6. \A s \in DOMAIN flight' : s = r
      BY <3>1
    <3> QED BY <3>5, <3>6 DEF Counted
  <2>l. ASSUME UNCHANGED work, pc[w] \in Fetching, pc'[w] \notin Fetching,
               work[w] \in DOMAIN flight, flight' = LessActive(work[w])
        PROVE  Counted'
    <3>1. flight' \in [DOMAIN flight -> Attempts]
      BY <2>l, LessActiveIs
    <3>2. \A s \in DOMAIN flight' : flight'[s].started = flight[s].started
                                    /\ (s # work[w] => flight'[s] = flight[s])
      BY <2>l, <3>1, LessActiveIs
    <3>3. flight'[work[w]].active =
            IF flight[work[w]].active = 0 THEN 0 ELSE flight[work[w]].active - 1
      BY <2>l, LessActiveIs
    <3>4. DOMAIN flight' = DOMAIN flight
      BY <3>1
    <3> QED BY <1>s, <2>0, <2>l, <3>2, <3>3, <3>4, CountedLess
  <2>d. ASSUME UNCHANGED work, pc[w] \in Fetching, pc'[w] \notin Fetching,
               flight' = Without(work[w])
        PROVE  Counted'
    <3>1. /\ flight' \in [DOMAIN flight \ {work[w]} -> Attempts]
          /\ \A s \in DOMAIN flight \ {work[w]} : flight'[s] = flight[s]
      BY <2>d, WithoutIs
    <3>2. DOMAIN flight' = DOMAIN flight \ {work[w]}
      BY <3>1
    <3> QED BY <1>s, <2>0, <2>d, <3>1, <3>2, CountedLess
  <2>n. ASSUME UNCHANGED <<work, flight>>, pc[w] \in Fetching, pc'[w] \notin Fetching,
               work[w] \notin DOMAIN flight \/ Stopped'
        PROVE  Counted'
    BY <1>s, <2>0, <2>n, CountedLess
  <2>6. CASE FinishSuperseded(w)
    <3>1. UNCHANGED work /\ pc[w] \in Fetching /\ pc'[w] \notin Fetching
      BY <2>6 DEF FinishSuperseded, Goto, TypeOK, Fetching
    <3> QED BY <2>6, <2>l, <2>n, <3>1 DEF FinishSuperseded
  <2>7. CASE FinishFailed(w)
    <3>1. UNCHANGED work /\ pc[w] \in Fetching /\ pc'[w] \notin Fetching
      BY <2>7 DEF FinishFailed, Goto, TypeOK, Fetching
    <3> QED BY <2>7, <2>l, <2>d, <2>n, <3>1 DEF FinishFailed
  <2>8. CASE Claim(w)
    <3>1. UNCHANGED work /\ pc[w] \in Fetching /\ pc'[w] \notin Fetching
      BY <2>8 DEF Claim, Goto, TypeOK, Fetching
    <3>2. CASE work[w] \in DOMAIN flight
               /\ flight' = [LessActive(work[w]) EXCEPT ![work[w]].phase = "Committing"]
      <4>1. flight' \in [DOMAIN flight -> Attempts]
        BY <3>2, ClaimedIs
      <4>2. \A s \in DOMAIN flight : /\ flight'[s].started = flight[s].started
                                     /\ flight'[s].active = LessActive(work[w])[s].active
                                     /\ s # work[w] => flight'[s] = flight[s]
        BY <3>2, ClaimedIs
      <4>3. LessActive(work[w])[work[w]].active =
              IF flight[work[w]].active = 0 THEN 0 ELSE flight[work[w]].active - 1
        BY <3>2, LessActiveIs
      <4>4. DOMAIN flight' = DOMAIN flight
        BY <4>1
      <4> QED BY <1>s, <2>0, <3>1, <3>2, <4>2, <4>3, <4>4, CountedLess
    <3>3. CASE UNCHANGED flight /\ (Stopped \/ work[w] \notin DOMAIN flight)
      <4>1. Stopped' = Stopped
        BY <2>8 DEF Claim, Stopped
      <4> QED BY <2>n, <3>1, <3>3, <4>1
    <3> QED BY <2>8, <2>l, <3>1, <3>2, <3>3 DEF Claim, InFlight
  <2>9. CASE FinishCommit(w)
    <3>1. UNCHANGED work /\ pc[w] \notin Fetching /\ pc'[w] \notin Fetching
      BY <2>9 DEF FinishCommit, Goto, TypeOK, Fetching
    <3>2. /\ flight' \in [DOMAIN flight \ {work[w]} -> Attempts]
          /\ \A s \in DOMAIN flight \ {work[w]} : flight'[s] = flight[s]
      BY <2>9, WithoutIs DEF FinishCommit
    <3>3. DOMAIN flight' = DOMAIN flight \ {work[w]}
      BY <3>2
    <3> QED BY <1>s, <2>0, <3>1, <3>2, <3>3, HoldersStay, CountedKeeps
  <2> QED BY <1>1, <2>1, <2>2, <2>3, <2>4, <2>5, <2>6, <2>7, <2>8, <2>9 DEF Work
<1>2. ASSUME UNCHANGED <<pc, work>> PROVE \A r : Holders(r)' = Holders(r)
  BY <1>2 DEF Holders, Fetching
<1>3. ASSUME NEW r \in Ranges, Elapse(r) PROVE Counted'
  <2>1. flight' \in [DOMAIN flight -> Attempts]
    BY <1>3, ElapsedIs DEF Elapse
  <2>2. \A s \in DOMAIN flight : flight'[s].started = flight[s].started
                                 /\ flight'[s].active = flight[s].active
    BY <1>3, ElapsedIs DEF Elapse
  <2>3. DOMAIN flight' = DOMAIN flight
    BY <2>1
  <2> QED BY <1>s, <1>2, <1>3, <2>2, <2>3, CountedKeeps DEF Elapse
<1>4. CASE Return \/ Cancel \/ UNCHANGED vars
  BY <1>s, <1>2, <1>4, CountedKeeps DEF Return, Cancel, vars
<1> QED BY <1>1, <1>3, <1>4 DEF Next

-------------------------------------------------------------------------------
(***************************************************************************)
(* Nothing is lost.                                                        *)
(***************************************************************************)
\* Ranges stay where they are or move on, and no worker leaves the transfer or fails.
LEMMA CompleteKeeps ==
  ASSUME TypeOK, Complete, NEW w \in Worker, Moves(w),
         UNCHANGED <<aborted, cancelled, failed, outcome>>,
         pc[w] \notin {"failed", "exit", "joined"},
         pc'[w] \notin {"failed", "exit", "joined"},
         done \cup pending \cup DOMAIN flight \subseteq done' \cup pending' \cup DOMAIN flight',
         (pending = {} /\ DOMAIN flight = {}) => (pending' = {} /\ DOMAIN flight' = {})
  PROVE  Complete'
<1>1. \A v \in Worker : pc[v] = "failed" <=> pc'[v] = "failed"
  BY DEF Moves
<1>2. \A v \in Worker : pc'[v] \in {"exit", "joined"} => pc[v] \in {"exit", "joined"}
  BY DEF Moves
<1>3. Stopped' = Stopped
  BY DEF Stopped
<1>4. outcome' = "running"
  BY DEF Complete
<1> QED BY <1>1, <1>2, <1>3, <1>4 DEF Complete, Ranges

LEMMA CompleteNext ==
  ASSUME TypeOK, Assigned, Counted, Complete, [Next]_vars PROVE Complete'
<1> USE DEF workerVars, coordinator, resultVars
<1>1. ASSUME NEW w \in Worker, Work(w) \/ Answer(w) PROVE Complete'
  <2>0. Moves(w)
    BY <1>1, WorkMoves
  <2>k. ASSUME UNCHANGED <<aborted, cancelled, failed, outcome, pending>>,
               pc[w] \notin {"failed", "exit", "joined"},
               pc'[w] \notin {"failed", "exit", "joined"},
               done \subseteq done', DOMAIN flight' = DOMAIN flight
        PROVE  Complete'
    BY <2>0, <2>k, CompleteKeeps
  \* The worker fails, and with it the transfer.
  <2>f. ASSUME aborted', pc[w] \notin {"failed", "exit", "joined"}, pc'[w] = "failed",
               UNCHANGED <<cancelled, failed, outcome>>
        PROVE  Complete'
    BY <2>0, <2>f DEF Complete, Moves, Stopped
  <2>1. CASE Answer(w)
    BY <2>1, <2>k DEF Answer, Deliver, FetchFails, Goto, TypeOK
  <2>2. CASE NextSleep(w) \/ Wake(w) \/ Recheck(w) \/ Commit(w)
    BY <2>2, <2>k DEF NextSleep, Wake, Recheck, Commit, Goto, TypeOK
  <2>3. CASE NextNone(w)
    <3>1. pc[w] = "next" /\ pc'[w] = "exit"
          /\ UNCHANGED <<pending, flight, aborted, cancelled, done, failed, outcome>>
      BY <2>3 DEF NextNone, Goto, TypeOK
    <3>2. Stopped \/ (pending = {} /\ DOMAIN flight = {})
      BY <2>3 DEF NextNone
    <3> QED BY <2>0, <3>1, <3>2 DEF Complete, Moves, Stopped, Ranges
  <2>4. ASSUME NEW r \in Ranges, NextPending(w, r) PROVE Complete'
    <3>1. flight' = With(r, First) /\ r \in pending /\ pending' = pending \ {r}
          /\ pc[w] = "next" /\ pc'[w] = "fetch"
          /\ UNCHANGED <<aborted, cancelled, failed, outcome, done>>
      BY <2>4 DEF NextPending, Begin, Goto, First, TypeOK
    <3>2. DOMAIN flight' = DOMAIN flight \cup {r}
      BY <3>1, FirstIs
    <3> QED BY <2>0, <3>1, <3>2, CompleteKeeps
  <2>5. ASSUME NEW r \in Ranges, NextHedge(w, r) PROVE Complete'
    <3>1. DOMAIN flight' = DOMAIN flight
      BY <2>5, HedgedIs DEF NextHedge
    <3> QED BY <2>5, <2>k, <3>1 DEF NextHedge, Begin, Goto, TypeOK
  <2>l. ASSUME work[w] \in DOMAIN flight, flight' = LessActive(work[w])
        PROVE  DOMAIN flight' = DOMAIN flight
    BY <2>l, LessActiveIs
  <2>6. CASE FinishSuperseded(w)
    BY <2>6, <2>k, <2>l DEF FinishSuperseded, Goto, TypeOK
  <2>7. CASE FinishFailed(w)
    <3>1. pc[w] = "error" /\ UNCHANGED <<pending, done, cancelled, failed, outcome>>
      BY <2>7 DEF FinishFailed
    <3>2. CASE pc'[w] = "next" /\ UNCHANGED aborted /\ DOMAIN flight' = DOMAIN flight
      BY <2>k, <3>1, <3>2
    <3>3. CASE pc'[w] = "failed" /\ aborted'
      BY <2>f, <3>1, <3>3
    <3> QED BY <2>7, <2>l, <3>2, <3>3 DEF FinishFailed, Goto, TypeOK
  <2>8. CASE Claim(w)
    <3>1. DOMAIN flight' = DOMAIN flight
      <4>1. CASE work[w] \in DOMAIN flight
                 /\ flight' = [LessActive(work[w]) EXCEPT ![work[w]].phase = "Committing"]
        BY <4>1, ClaimedIs
      <4> QED BY <2>8, <2>l, <4>1 DEF Claim, InFlight
    <3> QED BY <2>8, <2>k, <3>1 DEF Claim, Goto, TypeOK
  <2>9. CASE FinishCommit(w)
    <3>1. UNCHANGED <<pending, done, cancelled, failed, outcome>>
      BY <2>9 DEF FinishCommit
    <3>2. DOMAIN flight' = DOMAIN flight \ {work[w]}
      BY <2>9, WithoutIs DEF FinishCommit
    <3>3. CASE pc[w] = "torn"
      BY <2>9, <2>f, <3>1, <3>3 DEF FinishCommit, Goto, TypeOK
    <3>4. CASE pc[w] = "committed"
      <4>1. work[w] \in done
        BY <3>4 DEF Assigned
      <4>2. pc'[w] = "next" /\ UNCHANGED aborted
        BY <2>9, <3>4 DEF FinishCommit, Goto, TypeOK
      <4> QED BY <2>0, <3>1, <3>2, <3>4, <4>1, <4>2, CompleteKeeps
    <3> QED BY <2>9, <3>3, <3>4 DEF FinishCommit
  <2>10. CASE Join(w)
    <3>0. pc'[w] = "joined" /\ pc[w] \in {"failed", "exit"}
          /\ UNCHANGED <<pending, flight, cancelled, done, outcome>>
      BY <2>10 DEF Join, Goto, TypeOK
    <3>1. CASE pc[w] = "failed"
      <4>1. failed' /\ aborted'
        BY <2>10, <3>1 DEF Join
      <4> QED BY <2>0, <3>0, <4>1 DEF Complete, Moves, Stopped
    <3>2. CASE pc[w] = "exit"
      <4>1. UNCHANGED <<failed, aborted>>
        BY <2>10, <3>2 DEF Join
      <4>2. \A v \in Worker : pc'[v] = "failed" <=> pc[v] = "failed"
        BY <2>0, <3>0, <3>2 DEF Moves
      <4>3. \A v \in Worker : pc'[v] \in {"exit", "joined"} => pc[v] \in {"exit", "joined"}
        BY <2>0, <3>2 DEF Moves
      <4>4. outcome' = "running"
        BY <3>0 DEF Complete
      <4> QED BY <3>0, <4>1, <4>2, <4>3, <4>4 DEF Complete, Stopped, Ranges
    <3> QED BY <3>0, <3>1, <3>2
  <2> QED BY <1>1, <2>1, <2>2, <2>3, <2>4, <2>5, <2>6, <2>7, <2>8, <2>9, <2>10 DEF Work
<1>2. ASSUME NEW r \in Ranges, Elapse(r) PROVE Complete'
  <2>1. DOMAIN flight' = DOMAIN flight
    BY <1>2, ElapsedIs DEF Elapse
  <2> QED BY <1>2, <2>1 DEF Elapse, Complete, Stopped, Ranges
<1>3. CASE Return
  BY <1>3 DEF Return, Complete, Stopped, Ranges
<1>4. CASE Cancel
  BY <1>4 DEF Cancel, Complete, Stopped, Ranges
<1>5. CASE UNCHANGED vars
  BY <1>5 DEF vars, Complete, Stopped, Ranges
<1> QED BY <1>1, <1>2, <1>3, <1>4, <1>5 DEF Next

-------------------------------------------------------------------------------
(***************************************************************************)
(* The theorems.                                                           *)
(***************************************************************************)
TransferInv == TypeOK /\ Assigned /\ Counted /\ Complete

LEMMA TransferInvInit == Init => TransferInv
<1> SUFFICES ASSUME Init PROVE TransferInv
  OBVIOUS
<1> USE DEF Init
<1>1. TypeOK
  <2>1. DOMAIN flight = {} /\ flight \in [DOMAIN flight -> Attempts]
    OBVIOUS
  <2>2. done \subseteq Ranges /\ pending \subseteq Ranges
    OBVIOUS
  <2>3. pc \in [Worker -> Steps] /\ work \in [Worker -> 0 .. Total]
    BY TotalAssumption DEF Steps
  <2> QED BY <2>1, <2>2, <2>3 DEF TypeOK
<1>2. Assigned
  BY DEF Assigned, Fetching, Writing
<1>3. Counted
  BY DEF Counted
<1>4. Complete
  BY DEF Complete
<1> QED BY <1>1, <1>2, <1>3, <1>4 DEF TransferInv

LEMMA TransferInvInductive == Spec => []TransferInv
<1>1. TransferInv /\ [Next]_vars => TransferInv'
  BY TypeNext, AssignedNext, CountedNext, CompleteNext DEF TransferInv
<1> QED BY <1>1, TransferInvInit, PTL DEF Spec

\* No range has two writers, none is written again once it is complete, and until something
\* stops the transfer the coordinator's counts are the workers that hold each range.
THEOREM AttemptsAlwaysAccounted == Spec => []AttemptsAccounted
<1>1. TransferInv => AttemptsAccounted
  <2> SUFFICES ASSUME TransferInv PROVE AttemptsAccounted
    OBVIOUS
  <2>1. \A w \in Worker : pc[w] = "commit" =>
          /\ work[w] \notin done
          /\ \A v \in Worker \ {w} : pc[v] \in {"commit", "committed"} => work[v] # work[w]
    BY DEF TransferInv, Assigned, Writing
  <2>2. ~Stopped => \A r \in DOMAIN flight : flight[r].active = Cardinality(Holders(r))
    BY DEF TransferInv, Counted
  <2> QED BY <2>1, <2>2 DEF TransferInv, AttemptsAccounted, Holders
<1> QED BY <1>1, TransferInvInductive, PTL

\* A worker that fails is the last one that could have delivered its range: the counts are
\* never below the workers that hold it.
THEOREM FailuresAreFinal == Spec => FailureIsFinal
<1> DEFINE Final == \A w \in Worker : (pc[w] = "error" /\ pc'[w] = "failed") =>
                      \A v \in Worker \ {w} :
                        work[v] = work[w] => pc[v] \notin {"fetch", "body", "commit"}
<1>1. TransferInv /\ [Next]_vars => [Final]_vars
  <2> SUFFICES ASSUME TransferInv, Next, NEW w \in Worker, pc[w] = "error", pc'[w] = "failed",
                      NEW v \in Worker \ {w}, work[v] = work[w]
               PROVE  pc[v] \notin {"fetch", "body", "commit"}
    OBVIOUS
  <2>1. FinishFailed(w)
    <3>1. \A u \in Worker : Work(u) \/ Answer(u) => u = w
      BY WorkMoves DEF TransferInv, Moves
    <3>2. Work(w) \/ Answer(w)
      BY <3>1 DEF Next, Elapse, Return, Cancel
    <3> QED
      BY <3>2 DEF Work, Answer, NextNone, NextSleep, Wake, Recheck, NextPending, NextHedge,
                  FinishSuperseded, Claim, Commit, FinishCommit, Join, Deliver, FetchFails
  <2>2. InFlight(work[w]) /\ ~(flight[work[w]].active > 1)
    BY <2>1 DEF FinishFailed, Goto, TransferInv, TypeOK
  <2>3. work[w] \in DOMAIN flight /\ flight[work[w]].phase = "InFlight"
        /\ flight[work[w]].active \in Nat /\ flight[work[w]].active <= 1
    BY <2>2 DEF InFlight, TransferInv, TypeOK, Attempts
  <2>4. Cardinality(Holders(work[w])) <= 1
    BY <2>3, HoldersFinite DEF TransferInv, Counted
  <2>5. w \in Holders(work[w])
    BY DEF Holders, Fetching
  <2>6. v \notin Holders(work[w])
    BY <2>4, <2>5, TwoHolders, HoldersFinite
  <2>7. pc[v] # "commit"
    BY <2>3 DEF TransferInv, Assigned, Writing
  <2> QED BY <2>6, <2>7 DEF Holders, Fetching
<1>2. Spec => [][Final]_vars
  BY <1>1, TransferInvInductive, PTL DEF Spec
<1> QED BY <1>2 DEF FailureIsFinal

\* The transfer implements RangeCoverage: it records a range once, stops recording when it
\* has returned, and reports success only with every range recorded.
THEOREM CoverageAlwaysKept == Spec => CoverageKept
<1>1. Init => Coverage!Init
  BY DEF Init, Coverage!Init
<1>2. TransferInv /\ [Next]_vars => [Coverage!Next]_(Coverage!vars)
  <2> SUFFICES ASSUME TransferInv, [Next]_vars PROVE [Coverage!Next]_(Coverage!vars)
    OBVIOUS
  <2> USE DEF workerVars, coordinator, resultVars
  <2>s. (UNCHANGED <<done, cancelled, outcome>>) => UNCHANGED Coverage!vars
    BY DEF Coverage!vars
  <2>1. ASSUME NEW w \in Worker, Work(w) \/ Answer(w)
        PROVE  [Coverage!Next]_(Coverage!vars)
    <3>1. CASE Commit(w)
      <4>1. pc[w] = "commit" /\ pc[w] \in Writing /\ UNCHANGED <<cancelled, outcome>>
        BY <3>1 DEF Commit, Writing
      <4>2. work[w] \in Ranges /\ work[w] \notin done /\ outcome = "running"
        BY <4>1 DEF TransferInv, Assigned, Complete
      <4>3. CASE UNCHANGED done
        BY <2>s, <4>1, <4>3
      <4>4. CASE done' = done \cup {work[w]}
        <5>1. Coverage!Commit(work[w])
          BY <4>1, <4>2, <4>4 DEF Coverage!Commit
        <5> QED BY <4>2, <5>1 DEF Coverage!Next
      <4> QED BY <3>1, <4>3, <4>4 DEF Commit
    <3>2. CASE ~Commit(w)
      BY <2>1, <2>s, <3>2
      DEF Work, Answer, NextNone, NextSleep, Wake, Recheck, NextPending, NextHedge,
          FinishSuperseded, FinishFailed, Claim, FinishCommit, Join, Deliver, FetchFails
    <3> QED BY <3>1, <3>2
  <2>2. ASSUME NEW r \in Ranges, Elapse(r) PROVE [Coverage!Next]_(Coverage!vars)
    BY <2>2, <2>s DEF Elapse
  <2>3. CASE Return
    <3>1. outcome = "running" /\ UNCHANGED <<done, cancelled>>
          /\ \A w \in Worker : pc[w] = "joined"
      BY <2>3 DEF Return
    <3>2. ~cancelled /\ ~failed => done = Ranges
      <4> SUFFICES ASSUME ~cancelled, ~failed PROVE done = Ranges
        OBVIOUS
      <4>1. ~aborted
        BY <3>1 DEF TransferInv, Complete
      <4>2. pending = {} /\ DOMAIN flight = {}
        BY <3>1, <4>1, WorkerAssumption DEF TransferInv, Complete, Stopped
      <4> QED BY <4>1, <4>2 DEF TransferInv, Complete, TypeOK
    <3>3. \/ outcome' = "cancelled" /\ cancelled
          \/ outcome' = "failed" /\ ~cancelled
          \/ outcome' = "ok" /\ done = Ranges
      BY <2>3, <3>2 DEF Return
    <3>4. Coverage!Return
      BY <3>1, <3>3 DEF Coverage!Return
    <3> QED BY <3>4 DEF Coverage!Next
  <2>4. CASE Cancel
    <3>1. Coverage!Cancel
      BY <2>4 DEF Cancel, Coverage!Cancel
    <3> QED BY <3>1 DEF Coverage!Next
  <2>5. CASE UNCHANGED vars
    BY <2>5, <2>s DEF vars
  <2> QED BY <2>1, <2>2, <2>3, <2>4, <2>5 DEF Next
<1>3. Spec => Coverage!Spec
  BY <1>1, <1>2, TransferInvInductive, PTL DEF Spec, Coverage!Spec
<1> QED BY <1>3 DEF CoverageKept
===============================================================================
