----------------------------- MODULE RangeTransfer -----------------------------
(***************************************************************************)
(* A segmented transfer (transfer_segmented and WorkCoordinator in         *)
(* crates/engine/src/scheduler.rs): workers take ranges from a shared      *)
(* coordinator, fetch them, and commit them to the partial file.  When one *)
(* range is left in flight, an idle worker may fetch it a second time; the *)
(* first attempt with a complete body commits.                             *)
(*                                                                         *)
(* A step is one critical section of the coordinator's mutex, or what one  *)
(* worker does between two of them.  A worker that waits notices a change  *)
(* only if whoever made it signals the watch channel, so wake-ups are part *)
(* of the state.                                                           *)
(***************************************************************************)
EXTENDS Naturals, FiniteSets

CONSTANTS
  Worker,     \* the tasks of the transfer's join set
  Total,      \* ranges 1 .. Total, already cut to the request size
  Hedging,    \* SchedulerOptions::tail_hedging
  Stalled     \* for liveness: a range whose first request may never be answered

ASSUME WorkerAssumption == IsFiniteSet(Worker) /\ Worker # {}
ASSUME TotalAssumption == Total \in Nat \ {0}
ASSUME HedgingAssumption == Hedging \in BOOLEAN
ASSUME StalledAssumption == Stalled \in 1 .. Total

VARIABLES
  pending,    \* WorkState.pending
  flight,     \* WorkState.in_flight: the ranges taken, with their attempts
  aborted,    \* WorkState.aborted
  cancelled,  \* TransferCancellation
  pc,         \* what each worker does next
  work,       \* the range a worker holds
  hedge,      \* whether its attempt is the second one
  woken,      \* a channel holds a change the waiting worker has not looked at
  timer,      \* the worker sleeps with a hedge timer
  done,       \* ranges the partial file has recorded as complete
  failed,     \* first_error
  outcome     \* the result of the transfer

coordinator == <<pending, flight, aborted>>
workerVars  == <<work, hedge, timer>>
resultVars  == <<failed, outcome>>
vars == <<pending, flight, aborted, cancelled, pc, work, hedge, woken, timer, done,
          failed, outcome>>

Ranges == 1 .. Total

\* due: the hedge delay has elapsed since the first attempt started.
Attempts == [phase : {"InFlight", "Committing"}, started : 1 .. 2, active : 0 .. 2,
             due : BOOLEAN]

\* Where a worker holds an attempt that may still deliver its range
Fetching == {"fetch", "body", "superseded", "error"}

Steps == Fetching \cup {"next", "asleep", "commit", "committed", "torn", "failed", "exit",
                        "joined"}

\* A complete file returns before any worker is spawned.
Init ==
  /\ done \in SUBSET Ranges /\ done # Ranges
  /\ pending = Ranges \ done
  /\ flight = [r \in {} |-> 0] /\ aborted = FALSE /\ cancelled = FALSE
  /\ pc = [w \in Worker |-> "next"] /\ work = [w \in Worker |-> 0]
  /\ hedge = [w \in Worker |-> FALSE]
  /\ woken = [w \in Worker |-> FALSE] /\ timer = [w \in Worker |-> FALSE]
  /\ failed = FALSE /\ outcome = "running"

-------------------------------------------------------------------------------
(***************************************************************************)
(* The coordinator.                                                        *)
(***************************************************************************)
Goto(w, l) == pc' = [pc EXCEPT ![w] = l]

\* WorkCoordinator::signal
Signal == woken' = [w \in Worker |-> TRUE]

Stopped == aborted \/ cancelled

InFlight(r) == r \in DOMAIN flight /\ flight[r].phase = "InFlight"

\* WorkCoordinator::should_cancel
ShouldCancel(w) == Stopped \/ ~InFlight(work[w])

Without(r) == [s \in DOMAIN flight \ {r} |-> flight[s]]

With(r, attempts) ==
  [s \in DOMAIN flight \cup {r} |-> IF s = r THEN attempts ELSE flight[s]]

LessActive(r) == [flight EXCEPT ![r].active = IF @ = 0 THEN 0 ELSE @ - 1]

\* The one range next_work may give out a second time.
SoleTail(r) ==
  /\ Hedging /\ DOMAIN flight = {r}
  /\ flight[r].phase = "InFlight" /\ flight[r].started = 1

\* next_work has nothing left for this worker.
NextNone(w) ==
  /\ pc[w] = "next"
  /\ Stopped \/ (pending = {} /\ DOMAIN flight = {})
  /\ Goto(w, "exit")
  /\ UNCHANGED <<coordinator, cancelled, workerVars, woken, done, resultVars>>

\* A worker with a new attempt looks at should_cancel once before it waits.
Begin(w, r, second) ==
  /\ work' = [work EXCEPT ![w] = r] /\ hedge' = [hedge EXCEPT ![w] = second]
  /\ woken' = [woken EXCEPT ![w] = TRUE] /\ Goto(w, "fetch")

\* next_work pops the first pending range (pop_chunk).
NextPending(w, r) ==
  /\ pc[w] = "next" /\ ~Stopped
  /\ r \in pending /\ \A s \in pending : r <= s
  /\ pending' = pending \ {r}
  /\ flight' = With(r, [phase |-> "InFlight", started |-> 1, active |-> 1, due |-> FALSE])
  /\ Begin(w, r, FALSE)
  /\ UNCHANGED <<aborted, cancelled, timer, done, resultVars>>

\* next_work gives out the last range in flight once more.
NextHedge(w, r) ==
  /\ pc[w] = "next" /\ ~Stopped /\ pending = {}
  /\ SoleTail(r) /\ flight[r].due
  /\ flight' = [flight EXCEPT ![r].started = 2, ![r].active = @ + 1]
  /\ Begin(w, r, TRUE)
  /\ UNCHANGED <<pending, aborted, cancelled, timer, done, resultVars>>

\* Mutant: a worker waits for a change without a timer.
NextSleepUntimed(w) ==
  /\ pc[w] = "next" /\ ~Stopped /\ pending = {} /\ DOMAIN flight # {}
  /\ \A r \in DOMAIN flight : ~(SoleTail(r) /\ flight[r].due)
  /\ woken' = [woken EXCEPT ![w] = FALSE] /\ Goto(w, "asleep")
  /\ UNCHANGED <<coordinator, cancelled, workerVars, done, resultVars>>

\* next_work waits, with a timer only if it saw a tail whose delay has not elapsed.
NextSleep(w) ==
  /\ pc[w] = "next" /\ ~Stopped /\ pending = {} /\ DOMAIN flight # {}
  /\ \A r \in DOMAIN flight : ~(SoleTail(r) /\ flight[r].due)
  /\ timer' = [timer EXCEPT ![w] = \E r \in DOMAIN flight : SoleTail(r)]
  /\ woken' = [woken EXCEPT ![w] = FALSE] /\ Goto(w, "asleep")
  /\ UNCHANGED <<coordinator, cancelled, work, hedge, done, resultVars>>

Wake(w) ==
  /\ pc[w] = "asleep"
  /\ woken[w] \/ (timer[w] /\ \A r \in DOMAIN flight : flight[r].due)
  /\ timer' = [timer EXCEPT ![w] = FALSE] /\ Goto(w, "next")
  /\ UNCHANGED <<coordinator, cancelled, work, hedge, woken, done, resultVars>>

\* Time passes.
Elapse(r) ==
  /\ Hedging /\ r \in DOMAIN flight /\ ~flight[r].due
  /\ flight' = [flight EXCEPT ![r].due = TRUE]
  /\ UNCHANGED <<pending, aborted, cancelled, pc, workerVars, woken, done, resultVars>>

-------------------------------------------------------------------------------
(***************************************************************************)
(* A worker's attempt: fetch_range and the three ways it ends.             *)
(***************************************************************************)
\* acquire_or_cancel, send_or_cancel and next_chunk_or_cancel look again after a change.
Recheck(w) ==
  /\ pc[w] = "fetch" /\ woken[w]
  /\ IF ShouldCancel(w)
     THEN Goto(w, "superseded") /\ UNCHANGED woken
     ELSE woken' = [woken EXCEPT ![w] = FALSE] /\ UNCHANGED pc
  /\ UNCHANGED <<coordinator, cancelled, workerVars, done, resultVars>>

\* The server answers (external): with a complete body for the requested range, unless
\* the range needs it no longer, or with anything else.
Deliver(w) ==
  /\ pc[w] = "fetch"
  /\ Goto(w, IF ShouldCancel(w) THEN "superseded" ELSE "body")
  /\ UNCHANGED <<coordinator, cancelled, workerVars, woken, done, resultVars>>

FetchFails(w) ==
  /\ pc[w] = "fetch" /\ Goto(w, "error")
  /\ UNCHANGED <<coordinator, cancelled, workerVars, woken, done, resultVars>>

FinishSuperseded(w) ==
  /\ pc[w] = "superseded"
  /\ flight' = IF work[w] \in DOMAIN flight THEN LessActive(work[w]) ELSE flight
  /\ Signal /\ Goto(w, "next")
  /\ UNCHANGED <<pending, aborted, cancelled, workerVars, done, resultVars>>

\* Mutant: a failed attempt ends the transfer although its twin may still succeed.
FinishFailedAtOnce(w) ==
  /\ pc[w] = "error"
  /\ IF work[w] \notin DOMAIN flight
     THEN Goto(w, "next") /\ UNCHANGED <<flight, aborted, woken>>
     ELSE flight' = Without(work[w]) /\ aborted' = TRUE /\ Goto(w, "failed") /\ Signal
  /\ UNCHANGED <<pending, cancelled, workerVars, done, resultVars>>

\* finish_failed_attempt
FinishFailed(w) ==
  /\ pc[w] = "error"
  /\ IF work[w] \notin DOMAIN flight
     THEN Goto(w, "next") /\ UNCHANGED <<flight, aborted, woken>>
     ELSE /\ IF ~InFlight(work[w]) \/ flight[work[w]].active > 1
             THEN flight' = LessActive(work[w]) /\ UNCHANGED aborted /\ Goto(w, "next")
             ELSE flight' = Without(work[w]) /\ aborted' = TRUE /\ Goto(w, "failed")
          /\ Signal
  /\ UNCHANGED <<pending, cancelled, workerVars, done, resultVars>>

\* Mutant: a second attempt may claim a range that is being committed.
ClaimTwice(w) ==
  /\ pc[w] = "body"
  /\ IF Stopped \/ work[w] \notin DOMAIN flight
     THEN Goto(w, "next") /\ UNCHANGED <<flight, woken>>
     ELSE /\ flight' = [LessActive(work[w]) EXCEPT ![work[w]].phase = "Committing"]
          /\ Signal /\ Goto(w, "commit")
  /\ UNCHANGED <<pending, aborted, cancelled, workerVars, done, resultVars>>

\* claim_commit
Claim(w) ==
  /\ pc[w] = "body"
  /\ IF Stopped \/ work[w] \notin DOMAIN flight
     THEN Goto(w, "next") /\ UNCHANGED <<flight, woken>>
     ELSE IF InFlight(work[w])
     THEN /\ flight' = [LessActive(work[w]) EXCEPT ![work[w]].phase = "Committing"]
          /\ Signal /\ Goto(w, "commit")
     ELSE flight' = LessActive(work[w]) /\ Goto(w, "next") /\ UNCHANGED woken
  /\ UNCHANGED <<pending, aborted, cancelled, workerVars, done, resultVars>>

\* commit_range writes and records the whole range, or fails and records nothing.
Commit(w) ==
  /\ pc[w] = "commit"
  /\ \/ done' = done \cup {work[w]} /\ Goto(w, "committed")
     \/ UNCHANGED done /\ Goto(w, "torn")
  /\ UNCHANGED <<coordinator, cancelled, workerVars, woken, resultVars>>

\* Mutant: a range that could not be written is dropped without a failure.
FinishCommitUnreported(w) ==
  /\ pc[w] \in {"committed", "torn"}
  /\ flight' = Without(work[w])
  /\ Signal /\ Goto(w, "next")
  /\ UNCHANGED <<pending, aborted, cancelled, workerVars, done, resultVars>>

\* finish_commit
FinishCommit(w) ==
  /\ pc[w] \in {"committed", "torn"}
  /\ flight' = Without(work[w])
  /\ aborted' = (aborted \/ pc[w] = "torn")
  /\ Signal /\ Goto(w, IF pc[w] = "torn" THEN "failed" ELSE "next")
  /\ UNCHANGED <<pending, cancelled, workerVars, done, resultVars>>

-------------------------------------------------------------------------------
(***************************************************************************)
(* The transfer that joins the workers, and the run that may stop it.      *)
(***************************************************************************)
Join(w) ==
  /\ pc[w] \in {"failed", "exit"} /\ Goto(w, "joined")
  /\ IF pc[w] = "failed"
     THEN failed' = TRUE /\ aborted' = TRUE /\ Signal
     ELSE UNCHANGED <<failed, aborted, woken>>
  /\ UNCHANGED <<pending, flight, cancelled, workerVars, done, outcome>>

Return ==
  /\ outcome = "running" /\ \A w \in Worker : pc[w] = "joined"
  /\ outcome' = IF cancelled THEN "cancelled"
                ELSE IF failed THEN "failed"
                ELSE IF done = Ranges THEN "ok"
                ELSE "InvalidCompletedCoverage"
  /\ UNCHANGED <<coordinator, cancelled, pc, workerVars, woken, done, failed>>

\* Mutant: the flag is set and nobody is woken.
CancelSilently ==
  /\ ~cancelled /\ cancelled' = TRUE
  /\ UNCHANGED <<coordinator, pc, workerVars, woken, done, resultVars>>

\* TransferCancellation::cancel; its watch channel wakes every waiting worker.
Cancel ==
  /\ ~cancelled /\ cancelled' = TRUE /\ Signal
  /\ UNCHANGED <<coordinator, pc, workerVars, done, resultVars>>

-------------------------------------------------------------------------------
\* The steps a worker takes without waiting for the server.
Work(w) ==
  \/ NextNone(w) \/ NextSleep(w) \/ Wake(w) \/ Recheck(w)
  \/ \E r \in Ranges : NextPending(w, r) \/ NextHedge(w, r)
  \/ FinishSuperseded(w) \/ FinishFailed(w) \/ Claim(w) \/ Commit(w) \/ FinishCommit(w)
  \/ Join(w)

Answer(w) == Deliver(w) \/ FetchFails(w)

Next ==
  \/ \E w \in Worker : Work(w) \/ Answer(w)
  \/ \E r \in Ranges : Elapse(r)
  \/ Return \/ Cancel

Spec == Init /\ [][Next]_vars

\* The runtime runs every worker that can run.  Nothing is assumed of the server.
FairSpec ==
  /\ Spec
  /\ \A w \in Worker : WF_vars(Work(w))
  /\ WF_vars(Return)

-------------------------------------------------------------------------------
(***************************************************************************)
(* Properties.                                                             *)
(***************************************************************************)
TypeOK ==
  /\ pending \subseteq Ranges
  /\ DOMAIN flight \subseteq Ranges /\ flight \in [DOMAIN flight -> Attempts]
  /\ aborted \in BOOLEAN /\ cancelled \in BOOLEAN
  /\ pc \in [Worker -> Steps] /\ work \in [Worker -> 0 .. Total]
  /\ hedge \in [Worker -> BOOLEAN]
  /\ woken \in [Worker -> BOOLEAN] /\ timer \in [Worker -> BOOLEAN]
  /\ done \subseteq Ranges /\ failed \in BOOLEAN
  /\ outcome \in {"running", "ok", "cancelled", "failed", "InvalidCompletedCoverage"}

\* Every attempt is accounted for.  A range is assigned to at most one writer at a time and
\* to none once it is complete: the partial file would refuse anything else and fail a
\* transfer that has succeeded.  And, as long as nothing has stopped the transfer, the
\* coordinator counts the workers that hold an attempt, although attempts end in five ways.
AttemptsAccounted ==
  /\ TypeOK
  /\ \A w \in Worker : pc[w] = "commit" =>
       /\ work[w] \notin done
       /\ \A v \in Worker \ {w} : pc[v] \in {"commit", "committed"} => work[v] # work[w]
  /\ ~Stopped => \A r \in DOMAIN flight :
       flight[r].active = Cardinality({w \in Worker : work[w] = r /\ pc[w] \in Fetching})

\* A worker reports a failure only when no other attempt can still deliver its range.
FailureIsFinal ==
  [][\A w \in Worker : (pc[w] = "error" /\ pc'[w] = "failed") =>
       \A v \in Worker \ {w} :
         work[v] = work[w] => pc[v] \notin {"fetch", "body", "commit"}]_vars

\* The transfer is a RangeCoverage: in particular its own check of the coverage never
\* fails, and nothing is written once it has returned.
Coverage == INSTANCE RangeCoverage WITH
  Range <- Ranges, done <- done, cancelled <- cancelled, outcome <- outcome

CoverageKept == Coverage!Spec

\* A failure or a cancellation ends the transfer even if no other request is ever answered.
StopEndsTransfer == Stopped ~> outcome # "running"

\* Time passes, and the server answers every request except, possibly, the first one for
\* the stalled range, whose second one does not fail.
Served ==
  /\ \A r \in Ranges : WF_vars(Elapse(r))
  /\ \A w \in Worker : WF_vars(Answer(w) /\ (work[w] # Stalled \/ hedge[w]))
  /\ [](\A w \in Worker : ~(pc[w] = "error" /\ work[w] = Stalled /\ hedge[w]))

\* With a second worker, one request that is never answered does not keep the transfer from
\* ending.
StallSurvived == Served => <>(outcome # "running")
===============================================================================
