-------------------------- MODULE TransferAttempts --------------------------
(***************************************************************************)
(* The numbers of a segmented download, attempt after attempt and run      *)
(* after run: the coverage of the partial file and its table of            *)
(* assignments, the requests cut from what is missing, the retries with    *)
(* their delays, and the speed and time left that are shown meanwhile.     *)
(*                                                                         *)
(* How workers wait for each other, hedge the tail and are joined is       *)
(* RangeTransfer's subject, and records and crashes are TaskLifecycle's.   *)
(* Here a chunk in flight has one attempt, and the end of a run leaves its *)
(* coverage to the next.                                                   *)
(***************************************************************************)
EXTENDS ByteRanges, RateEstimate

CONSTANTS
  Total,                    \* bytes of the file
  Workers,                  \* WorkerCount of the task
  MaxRetries, BaseDelay, MaxDelay, MaxRetryAfter,   \* RetryPolicy
  Guidance,                 \* values of Retry-After
  Entropy,                  \* values of entropy
  Steps,                    \* ticks that may pass between two samples
  MaxRuns                   \* bound: runs

ASSUME AttemptBounds ==
  /\ {Total, BaseDelay, MaxDelay, MaxRetryAfter} \subseteq Nat \ {0}
  /\ Total <= MaxRate
  /\ BaseDelay <= MaxDelay
  /\ Workers \in {1, 2, 4, 8}
  /\ MaxRetries \in Nat /\ MaxRuns \in Nat \ {0}
  /\ Guidance \subseteq Nat /\ Entropy \subseteq Nat
  /\ Steps \subseteq Nat /\ IsFiniteSet(Steps)

VARIABLES
  phase,        \* where the run is
  completed,    \* Inner.state.completed
  work,         \* chunks in flight, and whether the partial has assigned them
  pending,      \* WorkState.pending
  size,         \* WorkCoordinator.chunk_size
  failed,       \* the attempt ends with an error that may be retried
  workers, used,            \* RetryBudget
  delay, guidance,          \* the wait before the next attempt, and what was asked
  samples, estimate,        \* ManagedState.estimator and what progress shows of it
  elapsed,      \* history: ticks since the attempt began, up to a bound
  runs

attemptVars == <<work, pending, size, failed>>
retryVars == <<workers, used, delay, guidance>>
rateVars == <<samples, estimate, elapsed>>
vars == <<phase, completed, attemptVars, retryVars, rateVars, runs>>

Phases == {"ready", "transferring", "ending", "waiting", "stopped", "refused", "complete"}

Init ==
  /\ phase = "ready" /\ completed = <<>>
  /\ work = {} /\ pending = <<>> /\ size = MinRequest /\ failed = FALSE
  /\ workers = Workers /\ used = 0 /\ delay = 0 /\ guidance = Absent
  /\ samples = <<>> /\ estimate = NoEstimate /\ elapsed = 0
  /\ runs = 1

\* More ticks than the oldest sample can count.
Far == SpeedWindow + 2 * Max(Steps \cup {0}) + 1

Missing == MissingRanges(Total, completed)

-----------------------------------------------------------------------------
(* One attempt *)

\* transfer_segmented up to the spawning of the workers.
BeginAttempt ==
  /\ phase = "ready"
  /\ LET plan == RequestChunkSize(SizeOf(Missing), workers) IN
       IF Canonical(Total, completed) /\ PlanFits(Missing, plan)
       THEN /\ phase' = "transferring"
            /\ pending' = Missing /\ size' = plan
       ELSE /\ phase' = "refused"
            /\ UNCHANGED <<pending, size>>
  /\ failed' = FALSE /\ elapsed' = 0
  /\ UNCHANGED <<completed, work, retryVars, samples, estimate, runs>>

\* next_work of an idle worker
Take ==
  /\ phase = "transferring"
  /\ pending # <<>> /\ Cardinality(work) < workers
  /\ work' = work \cup {[range |-> Chunk(pending, size), assigned |-> FALSE]}
  /\ pending' = AfterChunk(pending, size)
  /\ UNCHANGED <<phase, completed, size, failed, retryVars, rateVars, runs>>

\* claim_commit, and PartialFile::assign of commit_range
Assign(w) ==
  /\ phase = "transferring" /\ ~w.assigned
  /\ \A k \in DOMAIN completed : ~Overlaps(w.range, completed[k])
  /\ \A other \in work : other.assigned => ~Overlaps(w.range, other.range)
  /\ work' = (work \ {w}) \cup {[w EXCEPT !.assigned = TRUE]}
  /\ UNCHANGED <<phase, completed, pending, size, failed, retryVars, rateVars, runs>>

\* SegmentWriter::write of the whole body, and finish
Finish(w) ==
  /\ w.assigned
  /\ completed' = InsertCompleted(completed, w.range)
  /\ work' = work \ {w}
  /\ UNCHANGED <<phase, pending, size, failed, retryVars, rateVars, runs>>

\* A request fails: the attempt is over, and may be retried.
FetchFails(w) ==
  /\ phase = "transferring" /\ ~w.assigned
  /\ phase' = "ending" /\ failed' = TRUE
  /\ work' = work \ {w}
  /\ UNCHANGED <<completed, pending, size, retryVars, rateVars, runs>>

\* An assignment or a write fails: the writer is dropped, and the run ends, unless another
\* error came first.
CommitFails(w) ==
  /\ w.assigned
  /\ phase' = "ending" /\ failed' = (phase = "ending" /\ failed)
  /\ work' = work \ {w}
  /\ UNCHANGED <<completed, pending, size, retryVars, rateVars, runs>>

\* A stop is accepted; it comes before any error.
Stop ==
  /\ phase \in {"transferring", "ending", "waiting"}
  /\ phase' = IF phase = "waiting" THEN "stopped" ELSE "ending"
  /\ failed' = FALSE
  /\ UNCHANGED <<completed, work, pending, size, retryVars, rateVars, runs>>

\* A worker finds the transfer aborted or cancelled.
Leave(w) ==
  /\ phase = "ending" /\ ~w.assigned
  /\ work' = work \ {w}
  /\ UNCHANGED <<phase, completed, pending, size, failed, retryVars, rateVars, runs>>

-----------------------------------------------------------------------------
(* Progress *)

Later(ticks) == IF elapsed + ticks > Far THEN Far ELSE elapsed + ticks

\* Both sample the estimator: sample_progress at a tick, checkpoint_boundary at the end.
Sampled(ticks) ==
  /\ samples' = WithSample(Aged(samples, ticks), SizeOf(completed))
  /\ estimate' = Estimate(samples', Total)
  /\ elapsed' = Later(ticks)

SampleProgress ==
  /\ phase \in {"transferring", "ending"}
  /\ \E ticks \in Steps : Sampled(ticks)
  /\ UNCHANGED <<phase, completed, attemptVars, retryVars, runs>>

Forgotten == samples' = <<>> /\ estimate' = NoEstimate /\ UNCHANGED elapsed

\* Mutant: what is shown is cleared and the samples are kept.
HiddenOnly == estimate' = NoEstimate /\ UNCHANGED <<samples, elapsed>>

\* mark_retry_wait
MarkRetryWait == Forgotten

-----------------------------------------------------------------------------
(* Retries *)

\* 1 << n
Shifted[n \in 0 .. MaxRetries] == IF n = 0 THEN 1 ELSE 2 * Shifted[n - 1]

\* The exponential ceiling of RetryPolicy::delay_for
DelayCeiling(retry) == Min({BaseDelay * Shifted[retry - 1], MaxDelay})

Jittered(ceiling, entropy) == (ceiling \div 2) + (entropy % (ceiling - ceiling \div 2 + 1))

\* Mutant: the server's guidance is an upper bound.
AtMostGuided(jittered, after) == IF after = Absent THEN jittered ELSE Min({jittered, after})

Guided(jittered, after) == IF after = Absent THEN jittered ELSE Max({jittered, after})

MayRetry(after) == used < MaxRetries /\ after <= MaxRetryAfter

Halved(count) == IF count = 1 THEN 1 ELSE count \div 2

\* schedule_retry
ScheduleRetry(after) ==
  \E entropy \in Entropy :
    /\ used' = used + 1
    /\ delay' = Guided(Jittered(DelayCeiling(used + 1), entropy), after)
    /\ guidance' = after

\* The workers are joined, the coverage is checkpointed, and run_task goes on.
EndAttempt ==
  /\ work = {}
  /\ phase = "ending" \/ (phase = "transferring" /\ pending = <<>>)
  /\ work' = {} /\ pending' = <<>> /\ failed' = FALSE
  /\ \/ /\ phase = "transferring"
        /\ phase' = IF ExactlyCovers(completed, Total) THEN "complete" ELSE "refused"
        /\ \E ticks \in Steps : Sampled(ticks)
        /\ UNCHANGED retryVars
     \/ /\ phase = "ending" /\ ~failed
        /\ phase' = "stopped"
        /\ \E ticks \in Steps : Sampled(ticks)
        /\ UNCHANGED retryVars
     \/ /\ phase = "ending" /\ failed
        /\ workers' = Halved(workers)
        /\ \E after \in Guidance \cup {Absent} :
             \/ /\ MayRetry(after)
                /\ phase' = "waiting"
                /\ ScheduleRetry(after)
                /\ MarkRetryWait
             \/ /\ ~MayRetry(after)
                /\ phase' = "stopped"
                /\ \E ticks \in Steps : Sampled(ticks)
                /\ UNCHANGED <<used, delay, guidance>>
  /\ UNCHANGED <<completed, size, runs>>

\* wait_retry
Waited ==
  /\ phase = "waiting"
  /\ phase' = "ready" /\ delay' = 0 /\ guidance' = Absent
  /\ UNCHANGED <<completed, attemptVars, workers, used, rateVars, runs>>

\* resume or retry of a task that keeps its partial: reset_progress, RetryBudget::new
NextRun ==
  /\ phase = "stopped" /\ runs < MaxRuns
  /\ runs' = runs + 1
  /\ phase' = "ready"
  /\ workers' = Workers /\ used' = 0 /\ delay' = 0 /\ guidance' = Absent
  /\ Forgotten
  /\ UNCHANGED <<completed, attemptVars>>

Next ==
  \/ BeginAttempt \/ Take
  \/ \E w \in work :
       Assign(w) \/ Finish(w) \/ FetchFails(w) \/ CommitFails(w) \/ Leave(w)
  \/ Stop \/ SampleProgress \/ EndAttempt \/ Waited \/ NextRun

Spec == Init /\ [][Next]_vars

-----------------------------------------------------------------------------
\* What is covered, in flight and still to be requested divides the file: no byte is
\* requested twice in an attempt, none is forgotten, and assign never refuses.
WorkIsExact ==
  phase = "transferring" =>
    LET parts == {[kind |-> "completed", of |-> completed[k]] : k \in DOMAIN completed}
                 \cup {[kind |-> "work", of |-> w.range] : w \in work}
                 \cup {[kind |-> "pending", of |-> pending[k]] : k \in DOMAIN pending}
    IN \A byte \in 0 .. Total - 1 : Cardinality({p \in parts : byte \in Bytes(p.of)}) = 1

\* The limits have room for a file of this size: no more ranges can be complete with a byte
\* between any two, or so many attempts that leave a gap for each worker cannot take place, and
\* no plan for what may be missing is too long.
LimitsSuffice ==
  /\ \/ Total <= 2 * MaxCompleted
     \/ Workers * MaxRuns * (MaxRetries + 1) + 2 <= MaxCompleted
  /\ \A missing \in 1 .. Total, gaps \in 1 .. MaxCompleted + 1, count \in 1 .. Workers :
       missing + gaps <= Total + 1 =>
         LET plan == RequestChunkSize(missing, count)
         IN missing + gaps * (plan - 1) < (MaxRequests + 1) * plan

\* However often and wherever attempts fail or are stopped, what is covered stays a list
\* that recovery and the next plan accept, within the limits of both, and an attempt that
\* ran out of work has covered the file.
NeverRefused == Canonical(Total, completed) /\ phase # "refused"

\* A speed that is shown was measured in the present attempt, lies between the slowest and
\* the fastest of its intervals, and a time left is what that speed needs, rounded up.
EstimateIsCurrent ==
  estimate.speed # Absent =>
    LET rates == IntervalRates(samples)
        left == Total - Newest(samples).bytes
    IN /\ samples[1].age - Newest(samples).age <= elapsed
       /\ Min(rates) <= estimate.speed /\ estimate.speed <= Max(rates)
       /\ (estimate.eta # Absent /\ left > 0) =>
            /\ estimate.eta * estimate.speed >= left
            /\ (estimate.eta - 1) * estimate.speed < left

\* A retry waits at least as long as the server asks and as half of its own backoff, and no
\* longer than the greater bound of the two.
RetryIsPolite ==
  phase = "waiting" =>
    /\ used \in 1 .. MaxRetries
    /\ delay >= guidance /\ 2 * delay + 1 >= DelayCeiling(used)
    /\ delay <= Max({MaxDelay, MaxRetryAfter})
=============================================================================
