---------------------------- MODULE TaskLifecycle ----------------------------
(***************************************************************************)
(* One download task of the helper, from creation to removal: the commands *)
(* of TaskEngine, the run controller run_task that a command spawns, the   *)
(* durable record in the task store, the partial file and the published    *)
(* names in the destination, and crashes with recovery.                    *)
(*                                                                         *)
(* A step is one critical section of the task's mutex or one operation of  *)
(* the run controller between two of them.  A section with several effects *)
(* on disk is cut into one step per effect, so that a crash can fall       *)
(* between them; until its last step it keeps the mutex (Locked), so that  *)
(* no command interleaves.                                                 *)
(***************************************************************************)
EXTENDS TaskRecord, Sequences

CONSTANTS
  Offers,                 \* the resources the server may present (external)
  Checksums,              \* what a user may ask a download to be checked against
  KeepPartialOnFailure,   \* TaskEngineOptions::keep_partial_on_failure
  MaxRetries,             \* automatic retries of one run
  NoFile,                 \* no open PartialFile handle
  NoRun,                  \* no run controller
  MaxPartials,            \* bounds of the model: partial files ever created,
  MaxRuns,                \*   runs ever started,
  MaxFaults,              \*   failed writes of the task store,
  MaxCrashes,             \*   crashes,
  MaxChanges              \*   changes of the remote resource

ASSUME OffersAssumption == Offers \subseteq Resource /\ Offers # {}
ASSUME ChecksumsAssumption == Checksums \subseteq Body \cup {Blank}
ASSUME PolicyAssumption == KeepPartialOnFailure \in BOOLEAN
ASSUME BoundsAssumption ==
  /\ MaxRetries \in Nat /\ MaxPartials \in Nat /\ MaxRuns \in Nat
  /\ MaxFaults \in Nat /\ MaxCrashes \in Nat /\ MaxChanges \in Nat
ASSUME AbsenceAssumption ==
  /\ NoTask \notin Tasks(Nat, Nat) /\ NoResource \notin Identities \cup Resource

VARIABLES
  up,         \* the engine is open
  closing,    \* stdin reached EOF: TaskEngine::shutdown was called
  mem,        \* ManagedState.metadata, NoTask when the engine has no such task
  disk,       \* the record in the task store
  running,    \* ManagedState.running
  pc,         \* what the run controller, or the section holding the mutex, does next
  cancelled,  \* ManagedState.cancellation
  stop,       \* ManagedState.stop_request
  run,        \* the controller's locals
  file,       \* ManagedState.partial
  content,    \* bytes of each partial's inode
  synced,     \* chunks of each inode whose bytes would survive a power loss
  made,       \* partial files created so far
  parts,      \* partial names present in the destination
  finals,     \* published names, each with the inode it links
  served,     \* what the server offers now (external)
  runs, faults, crashes, changes

ioVars     == <<file, content, synced, made, parts, finals>>
ctlVars    == <<running, cancelled, stop>>
engineVars == <<up, closing>>
boundVars  == <<served, runs, crashes, changes>>
vars == <<up, closing, mem, disk, running, pc, cancelled, stop, run, file,
          content, synced, made, parts, finals, served, runs, faults, crashes, changes>>

Inode == 1 .. MaxPartials

Files == [ino : Inode, done : SUBSET Chunk, sized : BOOLEAN,
          life : {"Active", "Validating", "Validated", "Published"}]

ASSUME HandleAssumption == NoFile \notin Files

\* kind: RunKind; source: the accepted probe; stream: the body a single response
\* is delivering; broken: a progress checkpoint failed; tries: the retry budget.
Runs == [kind : {"Initial", "Resume"}, source : Resource \cup {NoResource},
         stream : Body \cup {Blank}, broken : BOOLEAN, tries : 0 .. MaxRetries]

NewRun(k) == [kind |-> k, source |-> NoResource, stream |-> Blank,
              broken |-> FALSE, tries |-> 0]

Locks == {"attach", "discard", "forget", "purge"}

Steps == Locks \cup
  {"idle", "probe", "prepare", "transfer", "settled", "errored", "complete", "validate",
   "lease", "publish", "linked", "recorded", "cleaned", "finish", "completed",
   "stop", "halt", "fail"}

Init ==
  /\ up = TRUE /\ closing = FALSE
  /\ mem = NoTask /\ disk = NoTask
  /\ running = FALSE /\ pc = "idle" /\ cancelled = FALSE /\ stop = "none"
  /\ run = NoRun /\ file = NoFile
  /\ content = [i \in Inode |-> [c \in Chunk |-> Blank]]
  /\ synced = [i \in Inode |-> Chunk]
  /\ made = 0 /\ parts = {} /\ finals = <<>>
  /\ served \in Offers
  /\ runs = 0 /\ faults = 0 /\ crashes = 0 /\ changes = 0

-------------------------------------------------------------------------------
(***************************************************************************)
(* TaskStore::checkpoint with critical urgency.  A failed write leaves the *)
(* old record in place.                                                    *)
(***************************************************************************)
Stale(m) == disk # NoTask /\ disk.rev > m.rev

\* Mutant: a critical write may be deferred like a progress one.
SavedLater(m) ==
  /\ ValidTask(m) /\ ~Stale(m)
  /\ disk' = m \/ UNCHANGED disk
  /\ UNCHANGED faults

Saved(m) ==
  /\ ValidTask(m) /\ ~Stale(m)
  /\ disk' = IF disk # NoTask /\ disk.rev = m.rev THEN disk ELSE m
  /\ UNCHANGED faults

WriteFault == faults < MaxFaults /\ faults' = faults + 1

NotSaved(m) ==
  /\ UNCHANGED disk
  /\ IF ValidTask(m) /\ ~Stale(m) THEN WriteFault ELSE UNCHANGED faults

Goto(l) == pc' = l

\* finish_running, and the release of the mutex by a section that held it
EndRun ==
  /\ running' = FALSE /\ cancelled' = FALSE /\ stop' = "none"
  /\ run' = NoRun /\ Goto("idle")

-------------------------------------------------------------------------------
(***************************************************************************)
(* Commands.  Each runs in the mutex, and none is sent once the host has   *)
(* seen EOF.                                                               *)
(***************************************************************************)
Commandable == up /\ ~closing /\ pc \notin Locks

Managed == Commandable /\ mem # NoTask

Create(sum) ==
  /\ Commandable /\ mem = NoTask /\ disk = NoTask
  /\ \/ Saved(NewTask(sum)) /\ mem' = NewTask(sum)
     \/ NotSaved(NewTask(sum)) /\ UNCHANGED mem
  /\ UNCHANGED <<engineVars, ctlVars, pc, run, ioVars, boundVars>>

BeginRun(k) ==
  /\ runs < MaxRuns /\ runs' = runs + 1
  /\ running' = TRUE /\ cancelled' = FALSE /\ stop' = "none"
  /\ run' = NewRun(k) /\ Goto("probe")

\* TaskEngine::start, and the second critical section of TaskEngine::retry
Start ==
  /\ Managed /\ ~running /\ MayMove(mem, "Probing")
  /\ LET m == MoveTo(mem, "Probing") IN
       \/ Saved(m) /\ mem' = m /\ BeginRun("Initial")
       \/ NotSaved(m) /\ UNCHANGED <<mem, ctlVars, pc, run, runs>>
  /\ UNCHANGED <<engineVars, ioVars, served, crashes, changes>>

\* TaskEngine::resume of a paused task
Resume ==
  /\ Managed /\ ~running /\ mem.state = "Paused"
  /\ BeginRun("Resume")
  /\ UNCHANGED <<engineVars, mem, disk, ioVars, served, faults, crashes, changes>>

\* The first critical section of TaskEngine::retry
Retry ==
  /\ Managed /\ ~running /\ mem.state = "Failed"
  /\ LET m == MoveTo(mem, "Queued") IN
       \/ Saved(m) /\ mem' = m
       \/ NotSaved(m) /\ UNCHANGED mem
  /\ UNCHANGED <<engineVars, ctlVars, pc, run, ioVars, boundVars>>

\* TaskEngine::pause up to its wait
Pause ==
  /\ Managed /\ running /\ mem.state = "Downloading" /\ stop = "none"
  /\ stop' = "pause" /\ cancelled' = TRUE
  /\ UNCHANGED <<engineVars, mem, disk, running, pc, run, ioVars, boundVars, faults>>

\* TaskEngine::cancel of an active task up to its wait
CancelActive(s) ==
  /\ Managed /\ running /\ Allows(mem.state, "Cancelled") /\ stop = "none"
  /\ stop' = s /\ cancelled' = TRUE
  /\ UNCHANGED <<engineVars, mem, disk, running, pc, run, ioVars, boundVars, faults>>

\* cancel_inactive; deletion continues at "discard"
CancelInactive(s) ==
  /\ Managed /\ ~running /\ Allows(mem.state, "Cancelled")
  /\ LET m == MoveTo(mem, "Cancelled") IN
       \/ /\ Saved(m) /\ mem' = m
          /\ Goto(IF s = "cancelDelete" /\ m.partial # 0 THEN "discard" ELSE "idle")
       \/ NotSaved(m) /\ UNCHANGED <<mem, pc>>
  /\ UNCHANGED <<engineVars, ctlVars, run, ioVars, boundVars>>

\* TaskEngine::remove through TaskStore::cleanup_terminal, as far as deleting the
\* partial.  A retained partial with delete_partial false changes nothing.
Remove ==
  /\ Managed /\ ~running /\ mem.state \in Terminal
  /\ (mem.state = "Completed" /\ mem.partial \in parts) =>
        finals[mem.final] = mem.partial
  /\ parts' = parts \ {mem.partial}
  /\ Goto("purge")
  /\ UNCHANGED <<engineVars, mem, disk, ctlVars, run, file, content, synced, made,
                 finals, boundVars, faults>>

\* ... and its last step, deleting the state file
Purge ==
  /\ pc = "purge"
  /\ \/ disk' = NoTask /\ mem' = NoTask /\ file' = NoFile /\ UNCHANGED faults
     \/ WriteFault /\ UNCHANGED <<disk, mem, file>>
  /\ Goto("idle")
  /\ UNCHANGED <<engineVars, ctlVars, run, content, synced, made, parts, finals, boundVars>>

\* Mutant: shutdown passes over a paused task whose resumption is still probing.
ShutdownDownloads ==
  /\ Commandable /\ closing' = TRUE
  /\ IF running /\ stop = "none" /\ mem.state \notin {"Promoting", "Paused"}
     THEN stop' = "shutdown" /\ cancelled' = TRUE
     ELSE UNCHANGED <<stop, cancelled>>
  /\ UNCHANGED <<up, mem, disk, running, pc, run, ioVars, boundVars, faults>>

\* TaskEngine::shutdown up to its wait
Shutdown ==
  /\ Commandable /\ closing' = TRUE
  /\ IF running /\ stop = "none" /\ mem.state # "Promoting"
     THEN stop' = "shutdown" /\ cancelled' = TRUE
     ELSE UNCHANGED <<stop, cancelled>>
  /\ UNCHANGED <<up, mem, disk, running, pc, run, ioVars, boundVars, faults>>

-------------------------------------------------------------------------------
(***************************************************************************)
(* Preparation of a run: prepare_initial and prepare_resume.               *)
(***************************************************************************)
Reopened(m) == [ino |-> m.partial, done |-> m.done, sized |-> m.res.sized,
                life |-> "Active"]

\* The handle a run uses: the one still open, or the recorded partial reopened.
Handle(m) == IF file # NoFile THEN file ELSE Reopened(m)

CanReopen(m) == file # NoFile \/ m.partial \in parts

\* Mutant: only a first run listens for cancellation while it probes.
ProbeStopsInitial ==
  /\ pc = "probe" /\ cancelled /\ run.kind = "Initial" /\ Goto("stop")
  /\ UNCHANGED <<engineVars, mem, disk, ctlVars, run, ioVars, boundVars, faults>>

ProbeStops ==
  /\ pc = "probe" /\ cancelled /\ Goto("stop")
  /\ UNCHANGED <<engineVars, mem, disk, ctlVars, run, ioVars, boundVars, faults>>

\* Mutant: a retry is scheduled whatever the budget has left.
ScheduleRetryAlways == run' = [run EXCEPT !.tries = @ + 1]

\* schedule_retry: probes and transfers of one run draw on one budget.
ScheduleRetry ==
  /\ run.tries < MaxRetries
  /\ run' = [run EXCEPT !.tries = @ + 1]

\* The probe fails in a way that may pass: it is sent again, after a wait that a stop cuts
\* short.
ProbeRetries ==
  /\ pc = "probe" /\ ScheduleRetry
  /\ UNCHANGED <<engineVars, mem, disk, pc, ctlVars, ioVars, boundVars, faults>>

\* The probe fails for good, or the budget is used up.
ProbeFails ==
  /\ pc = "probe" /\ Goto("fail")
  /\ UNCHANGED <<engineVars, mem, disk, ctlVars, run, ioVars, boundVars, faults>>

\* The probe answers.  What it found is used in the mutex, a step later: a stop may be
\* accepted, and the server may change, in between.
ProbeAnswers ==
  /\ pc = "probe" /\ ~cancelled
  /\ run' = [run EXCEPT !.source = served] /\ Goto("prepare")
  /\ UNCHANGED <<engineVars, mem, disk, ctlVars, ioVars, boundVars, faults>>

\* transfer_controlled refuses a handle that disagrees with the probe, and coverage
\* that no strong validator ties to it.
Refused(h, src) ==
  \/ h.done # {} /\ ~src.strong
  \/ h.sized # Identity(src).sized

\* Enter the transfer with record m and handle h.  When the checkpoint fails, the
\* record in memory keeps the refused changes.
EnterTransfer(m, h, src) ==
  /\ MayMove(m, "Downloading")
  /\ LET d == MoveTo(m, "Downloading") IN
       /\ mem' = d
       /\ \/ /\ Saved(d) /\ file' = h
             /\ Goto(IF Refused(h, src) THEN "errored" ELSE "transfer")
          \/ NotSaved(d) /\ UNCHANGED file /\ Goto("fail")

Preparing(k) == pc = "prepare" /\ run.kind = k

\* Retained bytes do not belong to what the probe found.
PrepareRefused ==
  /\ pc = "prepare"
  /\ mem.partial # 0 /\ ~Reusable(mem, run.source)
  /\ Goto("fail")
  /\ UNCHANGED <<engineVars, mem, disk, ctlVars, run, ioVars, boundVars, faults>>

PrepareResume ==
  /\ Preparing("Resume") /\ Reusable(mem, run.source)
  /\ \/ CanReopen(mem) /\ EnterTransfer(mem, Handle(mem), run.source)
     \/ file = NoFile /\ Goto("fail") /\ UNCHANGED <<mem, disk, file, faults>>
  /\ UNCHANGED <<engineVars, ctlVars, run, content, synced, made, parts, finals, boundVars>>

PrepareRetained ==
  /\ Preparing("Initial") /\ mem.partial # 0 /\ Reusable(mem, run.source)
  /\ LET m == WithResource(mem, Identity(run.source)) IN
       \/ CanReopen(m) /\ EnterTransfer(m, Handle(m), run.source)
       \/ file = NoFile /\ mem' = m /\ Goto("fail") /\ UNCHANGED <<disk, file, faults>>
  /\ UNCHANGED <<engineVars, ctlVars, run, content, synced, made, parts, finals, boundVars>>

\* PartialFile::create and create_streaming: a new name, preallocated and flushed
\* before anything records it.  A file of length zero already holds the empty body.
CreatePartial ==
  /\ Preparing("Initial") /\ mem.partial = 0
  /\ LET m == WithResource(mem, Identity(run.source)) IN
       \/ /\ made < MaxPartials /\ made' = made + 1
          /\ parts' = parts \cup {made + 1}
          /\ content' = IF run.source.mode = "empty"
                        THEN [content EXCEPT ![made + 1] = [c \in Chunk |-> run.source.body]]
                        ELSE content
          /\ mem' = WithPartial(m, made + 1)
          /\ Goto("attach")
       \/ mem' = m /\ Goto("fail") /\ UNCHANGED <<made, parts, content>>
  /\ UNCHANGED <<engineVars, disk, ctlVars, run, file, synced, finals, boundVars, faults>>

\* ... and the first checkpoint that names the new partial
Attach ==
  /\ pc = "attach"
  /\ EnterTransfer(mem, Reopened(mem), run.source)
  /\ UNCHANGED <<engineVars, ctlVars, run, content, synced, made, parts, finals, boundVars>>

-------------------------------------------------------------------------------
(***************************************************************************)
(* run_transfer_attempt: the scheduler writes into the partial while the   *)
(* ticker checkpoints progress.  The workers of a segmented transfer are   *)
(* modelled one by one in RangeTransfer; here they commit ranges in any    *)
(* order, each carrying bytes whose validators matched the accepted probe. *)
(***************************************************************************)
Uncovered == Extent(mem.res) \ file.done

\* Mutant: the validators of a response are not compared with the accepted probe's.
MatchesAny == TRUE

Matches == Identity(served) = Identity(run.source)

Put(c, b) ==
  /\ content' = [content EXCEPT ![file.ino][c] = b]
  /\ synced' = [synced EXCEPT ![file.ino] = @ \ {c}]

\* commit_range: the write and SegmentWriter::finish.  A commit claimed before the
\* stop may still land after it.
CommitRange(c) ==
  /\ pc = "transfer" /\ run.source.mode = "segmented" /\ Matches
  /\ c \in Uncovered
  /\ Put(c, served.body)
  /\ file' = [file EXCEPT !.done = @ \cup {c}]
  /\ UNCHANGED <<engineVars, mem, disk, ctlVars, pc, run, made, parts, finals,
                 boundVars, faults>>

\* Mutant: a worker may be given a range that is already covered.
TearAnyRange(c) ==
  /\ pc = "transfer" /\ run.source.mode = "segmented"
  /\ Put(c, Blank)
  /\ UNCHANGED <<engineVars, mem, disk, ctlVars, pc, run, file, made, parts, finals,
                 boundVars, faults>>

\* A write that fails part way: bytes without coverage.
TearRange(c) ==
  /\ pc = "transfer" /\ run.source.mode = "segmented"
  /\ c \in Uncovered
  /\ Put(c, Blank)
  /\ UNCHANGED <<engineVars, mem, disk, ctlVars, pc, run, file, made, parts, finals,
                 boundVars, faults>>

\* transfer_single: one response for the whole file.  An undeclared length
\* truncates what an earlier attempt left (begin_stream).
BeginStream ==
  /\ pc = "transfer" /\ run.source.mode \in {"single", "stream"} /\ Matches
  /\ ~cancelled /\ run.stream = Blank /\ file.done = {}
  /\ run' = [run EXCEPT !.stream = served.body]
  /\ IF run.source.mode = "stream"
     THEN /\ ~file.sized
          /\ content' = [content EXCEPT ![file.ino] = [c \in Chunk |-> Blank]]
          /\ synced' = [synced EXCEPT ![file.ino] = {}]
     ELSE UNCHANGED <<content, synced>>
  /\ UNCHANGED <<engineVars, mem, disk, ctlVars, pc, file, made, parts, finals,
                 boundVars, faults>>

StreamWrite(c) ==
  /\ pc = "transfer" /\ run.stream # Blank
  /\ c \in Uncovered /\ content[file.ino][c] # run.stream
  /\ Put(c, run.stream)
  /\ UNCHANGED <<engineVars, mem, disk, ctlVars, pc, run, file, made, parts, finals,
                 boundVars, faults>>

\* Mutant: the bytes an earlier response left count towards the declared length.
EndStreamAnyBytes ==
  /\ pc = "transfer" /\ run.stream # Blank /\ ~cancelled
  /\ \A c \in Chunk : content[file.ino][c] # Blank
  /\ file' = [file EXCEPT !.done = Chunk, !.sized = TRUE]
  /\ synced' = IF file.sized THEN synced ELSE [synced EXCEPT ![file.ino] = Chunk]
  /\ run' = [run EXCEPT !.stream = Blank]
  /\ UNCHANGED <<engineVars, mem, disk, ctlVars, pc, content, made, parts, finals,
                 boundVars, faults>>

\* SegmentWriter::finish over the whole file, or StreamingWriter::finish, which
\* flushes and seals the length it found
EndStream ==
  /\ pc = "transfer" /\ run.stream # Blank /\ ~cancelled
  /\ \A c \in Chunk : content[file.ino][c] = run.stream
  /\ file' = [file EXCEPT !.done = Chunk, !.sized = TRUE]
  /\ synced' = IF file.sized THEN synced ELSE [synced EXCEPT ![file.ino] = Chunk]
  /\ run' = [run EXCEPT !.stream = Blank]
  /\ UNCHANGED <<engineVars, mem, disk, ctlVars, pc, content, made, parts, finals,
                 boundVars, faults>>

Durable == Refreshed(mem, file.done, file.sized)

\* Mutant: coverage is read without flushing the bytes it covers.
FlushNothing == UNCHANGED synced

\* durable_completed_ranges flushes every byte written so far.
Flush == synced' = [synced EXCEPT ![file.ino] = Chunk]

\* refresh_completed and a checkpoint that fail: the flush fails and nothing changes,
\* or the store refuses the refreshed record, which stays in memory.
NotRefreshed ==
  \/ WriteFault /\ UNCHANGED <<mem, disk, synced>>
  \/ Flush /\ mem' = Durable /\ NotSaved(Durable)

\* checkpoint_progress.  The store may defer the write; a failure stops the attempt.
CheckpointProgress ==
  /\ pc = "transfer" /\ ~run.broken
  /\ \/ /\ Durable # disk /\ Flush /\ mem' = Durable
        /\ Saved(Durable) \/ UNCHANGED <<disk, faults>>
        /\ UNCHANGED <<cancelled, run>>
     \/ NotRefreshed /\ cancelled' = TRUE /\ run' = [run EXCEPT !.broken = TRUE]
  /\ UNCHANGED <<engineVars, running, stop, pc, file, content, made, parts, finals,
                 boundVars>>

\* The attempt returns once no worker is left.  A worker's error fails it even when
\* the others covered everything.
TransferReturns ==
  /\ pc = "transfer"
  /\ run' = [run EXCEPT !.stream = Blank]
  /\ \/ run.broken /\ Goto("fail")
     \/ ~run.broken /\ cancelled /\ Goto("stop")
     \/ ~cancelled /\ Uncovered = {} /\ Goto("settled")
     \/ ~cancelled /\ Goto("errored")
  /\ UNCHANGED <<engineVars, mem, disk, ctlVars, ioVars, boundVars, faults>>

\* checkpoint_boundary, then what its caller goes on to
Boundary(next) ==
  \/ Flush /\ mem' = Durable /\ Saved(Durable) /\ next
  \/ NotRefreshed /\ Goto("fail") /\ UNCHANGED run

\* What the scheduler refused outright is not tried again.
Retryable == ~Refused(file, run.source)

AfterTransfer ==
  /\ pc \in {"settled", "errored"}
  /\ Boundary(
       \/ cancelled /\ Goto("stop") /\ UNCHANGED run
       \/ ~cancelled /\ pc = "settled" /\ Goto("complete") /\ UNCHANGED run
       \/ /\ ~cancelled /\ pc = "errored" /\ Retryable
          /\ ScheduleRetry /\ Goto("transfer")
       \/ ~cancelled /\ pc = "errored" /\ Goto("fail") /\ UNCHANGED run)
  /\ UNCHANGED <<engineVars, ctlVars, file, content, made, parts, finals, boundVars>>

-------------------------------------------------------------------------------
(***************************************************************************)
(* complete_run.                                                           *)
(***************************************************************************)
\* Mutant: a pending stop is not noticed between the phases of completion.
AdvanceRegardless(s, next, onStop, onFault) ==
  /\ MayMove(mem, s)
  /\ \/ Saved(MoveTo(mem, s)) /\ mem' = MoveTo(mem, s) /\ Goto(next)
     \/ NotSaved(MoveTo(mem, s)) /\ UNCHANGED mem /\ Goto(onFault)

\* transition_for_run: a pending stop wins, a failed checkpoint rolls back.
Advance(s, next, onStop, onFault) ==
  \/ /\ cancelled /\ Goto(onStop) /\ UNCHANGED <<mem, disk, faults>>
  \/ /\ ~cancelled /\ MayMove(mem, s)
     /\ Saved(MoveTo(mem, s)) /\ mem' = MoveTo(mem, s) /\ Goto(next)
  \/ /\ ~cancelled /\ MayMove(mem, s)
     /\ NotSaved(MoveTo(mem, s)) /\ UNCHANGED mem /\ Goto(onFault)

WithLife(l) == [file EXCEPT !.life = l]

EnterValidating ==
  /\ pc = "complete"
  /\ Advance("Validating", "validate", "stop", "fail")
  /\ UNCHANGED <<engineVars, ctlVars, run, ioVars, boundVars>>

\* Mutant: the checksum is not computed.
ChecksumSkipped == TRUE

ChecksumHolds ==
  mem.checksum = Blank \/ \A c \in Chunk : content[file.ino][c] = mem.checksum

\* PartialFile::validate, on a blocking thread.  Every failure, a checksum mismatch
\* included, releases the lease.
Validate ==
  /\ pc = "validate"
  /\ \/ /\ file.life = "Active" /\ file.done = Extent(mem.res) /\ file.ino \in parts
        /\ ChecksumHolds
        /\ file' = WithLife("Validated") /\ Flush /\ Goto("lease")
     \/ Goto(IF cancelled THEN "stop" ELSE "fail") /\ UNCHANGED <<file, synced>>
  /\ UNCHANGED <<engineVars, mem, disk, ctlVars, run, content, made, parts, finals,
                 boundVars, faults>>

\* Dropping the lease on any other outcome reopens the partial.
EnterPromoting ==
  /\ pc = "lease"
  /\ Advance("Promoting", "publish", "stop", "fail")
  /\ file' = IF pc' = "publish" THEN file ELSE WithLife("Active")
  /\ UNCHANGED <<engineVars, ctlVars, run, content, synced, made, parts, finals,
                 boundVars>>

\* promote_validated: the create-new hard link.  The check of the new name after
\* linking may itself fail, which leaves the name behind.
Publish ==
  /\ pc = "publish"
  /\ \/ /\ file.ino \in parts /\ finals' = Append(finals, file.ino)
        /\ \/ file' = WithLife("Published") /\ Goto("linked")
           \/ file' = WithLife("Active") /\ Goto("fail")
     \/ UNCHANGED finals /\ file' = WithLife("Active") /\ Goto("fail")
  /\ UNCHANGED <<engineVars, mem, disk, ctlVars, run, content, synced, made, parts,
                 boundVars, faults>>

\* record_promotion; a failed write leaves the task in Promoting with no run
\* (leave_promoting_failure).
RecordPromotion ==
  /\ pc \in {"linked", "cleaned"}
  /\ LET m == WithFinal(mem, Len(finals), pc = "linked") IN
       /\ mem' = m
       /\ \/ /\ Saved(m) /\ Goto(IF pc = "linked" THEN "recorded" ELSE "finish")
             /\ UNCHANGED <<ctlVars, run>>
          \/ NotSaved(m) /\ EndRun
  /\ UNCHANGED <<engineVars, ioVars, boundVars>>

\* Promotion::cleanup_partial; its failure is not fatal.
CleanupPartial ==
  /\ pc = "recorded"
  /\ \/ parts' = parts \ {file.ino} /\ Goto("cleaned")
     \/ UNCHANGED parts /\ Goto("finish")
  /\ UNCHANGED <<engineVars, mem, disk, ctlVars, run, file, content, synced, made,
                 finals, boundVars, faults>>

EnterCompleted ==
  /\ pc = "finish"
  /\ LET m == MoveTo(mem, "Completed") IN
       \/ Saved(m) /\ mem' = m /\ Goto("completed") /\ UNCHANGED <<ctlVars, run>>
       \/ NotSaved(m) /\ UNCHANGED mem /\ EndRun
  /\ UNCHANGED <<engineVars, ioVars, boundVars>>

\* The events go out before finish_running.
Completed ==
  /\ pc = "completed" /\ EndRun
  /\ UNCHANGED <<engineVars, mem, disk, ioVars, boundVars, faults>>

-------------------------------------------------------------------------------
(***************************************************************************)
(* finish_stop and fail_run.                                               *)
(***************************************************************************)
\* The boundary checkpoint of finish_stop
StopBoundary ==
  /\ pc = "stop"
  /\ IF mem.state \in {"Downloading", "Paused", "Validating"} /\ file # NoFile
     THEN Boundary(Goto("halt") /\ UNCHANGED run)
     ELSE Goto("halt") /\ UNCHANGED <<mem, disk, run, synced, faults>>
  /\ UNCHANGED <<engineVars, ctlVars, file, content, made, parts, finals, boundVars>>

\* apply_stop: the state a stop leads to.  Shutdown leaves an interrupted resume
\* paused.
StopTarget ==
  CASE stop = "pause" -> "Paused"
    [] stop \in {"cancelKeep", "cancelDelete"} -> "Cancelled"
    [] stop = "shutdown" /\ mem.state = "Downloading" -> "Paused"
    [] OTHER -> "Failed"

\* mark_stop_failed ignores the outcome of its own checkpoint.
MarkStopFailed ==
  LET m == MoveTo(mem, "Failed") IN
    /\ mem' = m
    /\ \/ disk' = m /\ WriteFault
       \/ UNCHANGED disk /\ faults + 2 <= MaxFaults /\ faults' = faults + 2

ApplyStop ==
  /\ pc = "halt"
  /\ LET m == MoveTo(mem, StopTarget) IN
       \/ /\ stop = "shutdown" /\ mem.state = "Paused"
          /\ EndRun /\ UNCHANGED <<mem, disk, faults>>
       \/ /\ ~(stop = "shutdown" /\ mem.state = "Paused")
          /\ MayMove(mem, StopTarget) /\ Saved(m) /\ mem' = m
          /\ IF stop = "cancelDelete" /\ m.partial # 0
             THEN Goto("discard") /\ UNCHANGED <<ctlVars, run>>
             ELSE EndRun
       \/ /\ ~(stop = "shutdown" /\ mem.state = "Paused")
          /\ MarkStopFailed /\ EndRun
  /\ UNCHANGED <<engineVars, ioVars, boundVars>>

\* fail_run: the record in memory fails whether or not the store accepts it.
FailRun ==
  /\ pc = "fail"
  /\ IF MayMove(mem, "Failed")
     THEN mem' = MoveTo(mem, "Failed") /\ (Saved(mem') \/ NotSaved(mem'))
     ELSE UNCHANGED <<mem, disk, faults>>
  /\ IF ~KeepPartialOnFailure /\ mem'.state = "Failed" /\ mem'.partial # 0
     THEN Goto("discard") /\ UNCHANGED <<ctlVars, run>>
     ELSE EndRun
  /\ UNCHANGED <<engineVars, ioVars, boundVars>>

\* discard_terminal_partial deletes the file, or fails and changes nothing, ...
Discard ==
  /\ pc = "discard"
  /\ \/ parts' = parts \ {mem.partial} /\ Goto("forget") /\ UNCHANGED <<ctlVars, run>>
     \/ UNCHANGED parts /\ EndRun
  /\ UNCHANGED <<engineVars, mem, disk, file, content, synced, made, finals, boundVars,
                 faults>>

\* ... and then records the deletion.  When that fails the record in memory keeps
\* naming the deleted file.
Forget ==
  /\ pc = "forget" /\ EndRun
  /\ \/ Saved(WithoutPartial(mem)) /\ mem' = WithoutPartial(mem) /\ file' = NoFile
     \/ NotSaved(WithoutPartial(mem)) /\ UNCHANGED <<mem, file>>
  /\ UNCHANGED <<engineVars, content, synced, made, parts, finals, boundVars>>

-------------------------------------------------------------------------------
(***************************************************************************)
(* The process.                                                            *)
(***************************************************************************)
\* Everything the process held in memory is gone.
Down ==
  /\ up' = FALSE /\ closing' = FALSE
  /\ mem' = NoTask /\ file' = NoFile /\ EndRun

\* run_host returns once shutdown has seen every run stop.
Exit ==
  /\ up /\ closing /\ ~running /\ pc = "idle"
  /\ Down
  /\ UNCHANGED <<disk, content, synced, made, parts, finals, boundVars, faults>>

\* A kill or a power loss at any point.  Bytes never flushed may be lost.
Crash ==
  /\ up /\ crashes < MaxCrashes /\ crashes' = crashes + 1
  /\ Down
  /\ \E lost \in SUBSET { x \in Inode \X Chunk :
                            x[2] \notin synced[x[1]] /\ content[x[1]][x[2]] # Blank } :
       content' = [i \in Inode |-> [c \in Chunk |->
                     IF <<i, c>> \in lost THEN Blank ELSE content[i][c]]]
  /\ synced' = [i \in Inode |-> Chunk]
  /\ UNCHANGED <<disk, made, parts, finals, served, runs, faults, changes>>

\* Mutant: recovery leaves a probing task as it was.
NormalizedLazily(m) ==
  CASE m.state \in {"Failed", "Cancelled"} /\ m.partial # 0 /\ m.partial \notin parts ->
         WithoutPartial(m)
    [] m.state = "Downloading" -> MoveTo(m, "Paused")
    [] m.state = "Promoting" /\ m.final # 0 -> MoveTo(m, "Completed")
    [] m.state = "Validating" \/ (m.state = "Promoting" /\ m.final = 0) ->
         MoveTo(m, "Failed")
    [] OTHER -> m

\* normalize_recovered_task
Normalized(m) ==
  CASE m.state \in {"Failed", "Cancelled"} /\ m.partial # 0 /\ m.partial \notin parts ->
         WithoutPartial(m)
    [] m.state = "Downloading" -> MoveTo(m, "Paused")
    [] m.state = "Promoting" /\ m.final # 0 -> MoveTo(m, "Completed")
    [] m.state \in {"Probing", "Validating"} \/ (m.state = "Promoting" /\ m.final = 0) ->
         MoveTo(m, "Failed")
    [] OTHER -> m

\* TaskEngine::open.  A record that fails validation is left alone and its task is not
\* loaded; a normalization that cannot be saved fails the open.
Open ==
  /\ ~up
  /\ IF disk # NoTask /\ Loadable(disk, parts, finals)
     THEN \/ /\ Saved(Normalized(disk)) /\ mem' = Normalized(disk) /\ up' = TRUE
          \/ /\ Normalized(disk) # disk /\ NotSaved(Normalized(disk))
             /\ UNCHANGED <<mem, up>>
     ELSE up' = TRUE /\ UNCHANGED <<mem, disk, faults>>
  /\ UNCHANGED <<closing, ctlVars, pc, run, ioVars, boundVars>>

\* The server starts to present another resource (external).
ServerChanges ==
  /\ changes < MaxChanges /\ changes' = changes + 1
  /\ served' \in Offers \ {served}
  /\ UNCHANGED <<engineVars, mem, disk, ctlVars, pc, run, ioVars, runs, crashes, faults>>

-------------------------------------------------------------------------------
Command ==
  \/ \E sum \in Checksums : Create(sum)
  \/ Start \/ Resume \/ Retry \/ Pause \/ Remove \/ Shutdown
  \/ \E s \in {"cancelKeep", "cancelDelete"} : CancelActive(s) \/ CancelInactive(s)

Prepare ==
  \/ ProbeStops \/ ProbeRetries \/ ProbeFails \/ ProbeAnswers
  \/ PrepareRefused \/ PrepareResume \/ PrepareRetained \/ CreatePartial \/ Attach

Transfer ==
  \/ \E c \in Chunk : CommitRange(c) \/ TearRange(c) \/ StreamWrite(c)
  \/ BeginStream \/ EndStream \/ CheckpointProgress

Settle == TransferReturns \/ AfterTransfer

Complete ==
  \/ EnterValidating \/ Validate \/ EnterPromoting \/ Publish \/ RecordPromotion
  \/ CleanupPartial \/ EnterCompleted \/ Completed

Finish == StopBoundary \/ ApplyStop \/ FailRun \/ Discard \/ Forget \/ Purge

Next ==
  \/ Command \/ Prepare \/ Transfer \/ Settle \/ Complete \/ Finish
  \/ Exit \/ Crash \/ Open \/ ServerChanges

Spec == Init /\ [][Next]_vars

(***************************************************************************)
(* The runtime keeps driving a spawned run wherever it does not wait for   *)
(* the network, and a cancellation wakes every wait that does.  Nothing is *)
(* assumed of the server: a probe or a response may never come.            *)
(***************************************************************************)
FairSpec ==
  /\ Spec
  /\ WF_vars(pc # "probe" /\ Prepare) /\ WF_vars(ProbeStops)
  /\ WF_vars(cancelled /\ TransferReturns) /\ WF_vars(AfterTransfer)
  /\ WF_vars(Complete) /\ WF_vars(Finish)
  /\ WF_vars(Exit)

-------------------------------------------------------------------------------
(***************************************************************************)
(* Properties.                                                             *)
(***************************************************************************)
\* Every variable has its type.  In particular the probe and the transfer of a run together
\* retry no more often than its budget allows.
TypeOK ==
  /\ up \in BOOLEAN /\ closing \in BOOLEAN
  /\ mem \in Tasks(Inode, Nat) \cup {NoTask}
  /\ disk \in Tasks(Inode, Nat) \cup {NoTask}
  /\ running \in BOOLEAN /\ pc \in Steps /\ cancelled \in BOOLEAN
  /\ stop \in {"none", "pause", "cancelKeep", "cancelDelete", "shutdown"}
  /\ run \in Runs \cup {NoRun}
  /\ file \in Files \cup {NoFile}
  /\ content \in [Inode -> [Chunk -> Body \cup {Blank}]]
  /\ synced \in [Inode -> SUBSET Chunk]
  /\ made \in 0 .. MaxPartials /\ parts \subseteq Inode /\ finals \in Seq(Inode)
  /\ served \in Offers
  /\ runs \in Nat /\ faults \in Nat /\ crashes \in Nat /\ changes \in Nat

Uniform(i, b, cs) == \A c \in cs : content[i][c] = b /\ c \in synced[i]

\* Every published name holds all the bytes of one version of the resource, flushed,
\* whatever stops, retries, faults and crashes the download went through.
PublishedWhole ==
  \A n \in DOMAIN finals : \E b \in Body : Uniform(finals[n], b, Chunk)

\* A record that says Completed names a published file with exactly the bytes the task
\* accepted: those its strong validator identifies and its checksum demands.
CompletedIsVerified ==
  (disk # NoTask /\ disk.state = "Completed") =>
    /\ disk.final \in DOMAIN finals
    /\ \E b \in Body :
         /\ Uniform(finals[disk.final], b, Chunk)
         /\ disk.res.strong => disk.res.tag = b
         /\ disk.checksum # Blank => disk.checksum = b

\* Bytes first: whatever the durable record claims as covered is in the partial, flushed
\* before the record was written, and comes from one version of the resource.
CoverageTrustworthy ==
  (disk # NoTask /\ disk.partial # 0) =>
    \E b \in Body : /\ Uniform(disk.partial, b, disk.done)
                    /\ (disk.done # {} /\ disk.res.strong) => disk.res.tag = b

\* Equal revisions mean equal records, so that the store may skip the write of a revision
\* it already holds, and no checkpoint of a live task is ever stale, across all the paths
\* that roll a failed transition back and those that do not.
RevisionIdentifiesRecord ==
  mem # NoTask =>
    /\ disk # NoTask
    /\ disk.rev <= mem.rev
    /\ disk.rev = mem.rev => disk = mem

\* What the engine reports of a task at rest is durable, except for a failure that could
\* not be saved and for a publication whose bookkeeping failed.  A pause or a
\* cancellation is therefore acknowledged only when a crash can no longer undo it.
RestIsDurable ==
  (mem # NoTask /\ ~running /\ pc = "idle" /\ mem.state \notin {"Failed", "Promoting"})
    => disk = mem

\* An accepted stop decides the run: a paused or cancelled run publishes nothing and ends
\* as asked or as failed, however late in the transfer or validation it was accepted.
AcceptedStopHonoured ==
  [][/\ stop \in {"pause", "cancelKeep", "cancelDelete"} => finals' = finals
     /\ (running /\ ~running' /\ up') =>
          /\ stop = "pause" => mem'.state \in {"Paused", "Failed"}
          /\ stop \in {"cancelKeep", "cancelDelete"} => mem'.state \in {"Cancelled", "Failed"}
          /\ stop = "shutdown" => mem'.state \in {"Paused", "Failed", "Completed"}]_vars

\* A run never stops without knowing why: the default of requested_stop, which would turn
\* an internal cancellation into a pause or a cancellation by the user, is never used.
StopHasReason == pc \in {"stop", "halt"} => stop # "none"

\* A task without a run is never left in a state only a run can leave, whichever of its
\* failure and stop paths ended the run; a publication whose bookkeeping failed is the
\* exception the code makes, until the next start.
NotStranded ==
  (mem # NoTask /\ ~running) => mem.state \notin {"Probing", "Downloading", "Validating"}

Promise == INSTANCE Download WITH
  names <- [n \in DOMAIN finals |-> content[finals[n]]],
  record <- IF disk = NoTask THEN [state |-> "Absent", partial |-> 0, done |-> {}]
            ELSE [state |-> disk.state, partial |-> disk.partial,
                  done |-> IF disk.partial = 0 THEN {} ELSE disk.done],
  stop <- stop

\* The lifecycle implements Download: in particular no write ever reaches the bytes of a
\* published name, although the partial stays linked to the same inode until the promotion
\* is recorded, and for good when a crash comes first and the task is retried; and durable
\* coverage only grows until the partial itself is given up.
ImplementsDownload == Promise!Spec

\* As long as no write of the store fails, a crash at any point leaves a record recovery
\* accepts.
RecordLoads ==
  (disk # NoTask /\ faults = 0) => Loadable(disk, parts, finals)

\* An accepted pause, cancellation or shutdown ends the run even if the server never
\* answers again.
StopAnswered == (stop # "none") ~> ~running

\* After EOF the process exits, even if the server never answers again.
ShutdownExits == closing ~> ~up

-------------------------------------------------------------------------------
(***************************************************************************)
(* Statements of the documentation that the code does not keep.            *)
(***************************************************************************)
\* "Unknown-length interruption still restarts from zero": a stopped task whose server
\* still presents the resource the task accepted can be continued.
UnchangedResourceContinues ==
  (mem # NoTask /\ ~running /\ mem.state \in {"Paused", "Failed"} /\ mem.partial # 0) =>
    \A r \in Offers :
      (r.strong /\ [Identity(r) EXCEPT !.sized = mem.res.sized] = mem.res) =>
        Reusable(mem, r)
===============================================================================
