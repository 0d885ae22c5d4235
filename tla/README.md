# A verification project for the Firefox download manager

The program is a download helper for Firefox: a Rust process that a browser
extension drives over Native Messaging.  The extension only shows and commands;
the helper owns every download, its durable state and its files.  This directory
models the helper's core in TLA+, checks it with TLC and proves part of it with
TLAPS.

All paths are relative to the repository's root; `engine/` abbreviates
`crates/engine/src/`.

## 1. Inventory

| Component | State it keeps | Operations | Modelled in |
| --- | --- | --- | --- |
| Task engine (`engine/task.rs`) | per task: metadata, running, generation, cancellation, stop request, open partial | create, start, resume, retry, pause, cancel, remove, shutdown, the run controller `run_task` | `TaskLifecycle` |
| Task record and store (`engine/persistence.rs`) | one JSON record per task, with a revision; the lock of the state root | transitions, checkpoint, load_all, discard_terminal_partial, cleanup_terminal | `TaskRecord`, `TaskLifecycle` |
| Partial file (`engine/storage.rs`) | the `.part` file, its completed ranges, its lifecycle | create, recover, assign, write, stream, validate, promote, cleanup | `TaskLifecycle`; assignments and the list of ranges in `TransferAttempts` |
| Scheduler (`engine/scheduler.rs`) | ranges pending and in flight, cancellation | transfer: range workers with a hedged tail, or one stream | `RangeTransfer`, `RangeCoverage`; what is requested in `TransferAttempts`, `ByteRanges`; the stream in `TaskLifecycle` |
| Admission (`engine/admission.rs`) | global semaphore, per origin: active, limit, deadline, blocked | acquire, observe, drop, inherit_pressure | `Admission` |
| Probe (`engine/network.rs`) | none | probe, validation of range responses | outcomes, in `TaskLifecycle` |
| Retry policy (`engine/task.rs`) | attempt counter of a run | delay_for, halving of the workers | `TransferAttempts`; the budget also in `TaskLifecycle` |
| Event buffer (`engine/task.rs`) | bounded queue, overflow flag, sequence | emit, next, overflow snapshot | `EventStream` |
| Progress (`engine/progress.rs`) | samples of one run | sample, trim, speed, time left | `RateEstimate`, `TransferAttempts` |
| Authentication context (`engine/auth.rs`) | the headers and cookies of one task, in memory and never changed | filter by origin, path and expiry for each request | not modelled |
| Integrity (`engine/integrity.rs`) | none | parse an expected SHA-256 | not modelled |
| Native host (`crates/native-host`) | session: sequence, list cursor, settings | negotiate, dispatch one command at a time, forward events, EOF | dispatch and events in `EventStream`, start, negotiation and settings in `ExtensionConnection`, exit in `TaskLifecycle` |
| Settings (`crates/native-host/src/settings.rs`) | settings.json, the settings in force | load, validate, save and reconfigure | `HostSettings` |
| Protocol (`crates/protocol`) | none | framing, strict decoding | not modelled |
| Extension (`extension/src`) | port, pending commands, task table | command, reconnect, snapshot and event handling | `ExtensionConnection`; the task table in `EventStream` |
| Setup (`crates/setup`) | generations, receipt, journal, registry | install, repair, recover, uninstall | `SetupTransaction` |
| Test server, scripts, packaging | | | not part of the running system |

### How they interact

The host dispatches commands serially to the engine.  A command takes the
mutex of its task, changes the record, saves it and, if it starts a run, spawns
`run_task`.  The controller probes the server, opens or creates the partial
file, hands it to the scheduler, saves progress while the scheduler runs, and
then validates, publishes and completes, taking the same mutex for each of these
steps and releasing it in between.  Commands that stop a run only leave a
request and cancel its network waits; the controller acts on it when all workers
have been joined.  Every HTTP request obtains a permit from admission first.
Events go to one bounded buffer that the host drains between two commands; a command
that waits for a run holds this up.  What the buffer had to drop the host replaces by a
snapshot of all tasks.

The extension's background page owns one port, and with it one helper process.  It opens the
port for the first action of a page, waits for the answer to `hello` and for the last page of
the first snapshot, and only then posts commands; each has an identifier and a timer.  Whatever
goes wrong, a message out of place, a timer, the end of the process, costs the connection, and
the next action opens another.  A second helper cannot start while the first holds the lock
of the state root.

The setup program runs apart from all this.  It copies a generation of the helper, names
it in the registry, where Firefox looks for it, and keeps a receipt of what is installed
and a journal of what it is doing.

The store replaces a record by writing a temporary file and renaming it, and
skips the write of a revision it already holds.  Publication is a hard link of
the partial under the final name, so that both share their bytes until the
partial's name is removed.

### What is hard

* Commands race with the end of a run; the mutex is released between the check
  of a stop request and the next phase.
* A failed write of the store leaves memory ahead of the disk.  Some callers roll
  back, some do not.
* A crash may fall between any two effects: creating the partial, saving the
  record, linking the final name, saving the publication, deleting the partial.
* The server may change the resource between any two requests.  A resource
  without a strong validator cannot be recognised at all.
* Two workers may fetch the same range; workers sleep on shared state and must
  be woken for every change that matters to them.
* Admission waits for two resources and a clock, and gives up one while it waits
  for another.
* A transfer is cut into requests anew at every attempt, from what the attempts and runs
  before it have left, and the lists it starts from have limits of their own.
* Events are emitted after the mutex was released, dropped when the buffer is full, and
  overtaken by responses; the extension must still end up with the truth.
* An installation has effects in three places, the file system, the registry and the
  records, and may die between any two of them, also while it undoes another.
* The background page awaits connections that may be lost, replaced or completed before it
  goes on; commands are lost with a connection, and their pages must know what became of them.
* A change of settings takes effect in the engine, in a file and in the session, and each
  of the steps may fail or be the last one before a death.

`PROJECT.json` lists each hazard at its line with the properties that cover it.

### What makes each component correct

* Lifecycle: what is published has all bytes of one version and satisfies the
  validator and the checksum; a durable claim of coverage is true; a stop that
  was accepted decides the run; a state reported at rest survives a crash;
  no task is left where no command applies.
* Store: a revision names one record; a record written by the store is accepted
  by recovery, whenever the process died.
* Scheduler: one writer per range, coverage that only grows and is exact on
  success, failure only if no attempt can still succeed, an end to every stopped
  transfer.
* Admission: caps, no request before a deadline the server has set, no origin
  starved by another, no wait beyond the cooldown.
* Attempts: each missing byte is requested once, what is left can always be taken up again,
  a retry waits as long as it was asked to, and what is shown of the speed is about now.
* Events: no gap the extension would reject, and in the end the table of the extension is
  the engine's.
* Setup: what is registered can be started at every instant; an operation is done or
  undone; what is unknown is left alone; recovery accepts whatever an interruption leaves,
  unless it is torn.
* Connection: a page that is told ok knows that its command ran, one that is refused that it
  never will, no command takes effect twice, what is shown as connected is what the present
  helper says, no page waits for ever.
* Settings: file, session and engine agree between two updates, unless an engine could not be
  taken back to the settings it had.

## 2. Modules

**`TaskRecord`** is the record and its pure operations: the transition table
(`Allows` is `TaskState::allows`), creation, adoption of a resource, attaching a
partial, refreshing coverage, recording a publication or a deletion, each with
its bump of the revision, and the two validations, `ValidTask`
(`validate_task`) and `Loadable` (`validate_recovery_file`).

**`TaskLifecycle`** is one task.  `mem` is the engine's `ManagedState.metadata`,
`disk` the record in the store, `file` the open `PartialFile`, `content` the bytes
of each partial's inode and `synced` the chunks of it that are flushed, `parts` and
`finals` the names in the destination.  `pc` is the place of the run controller, or
of a section that holds the mutex while it has several effects on disk
(`Locked`): such a section is cut at each effect, so that a crash can fall in
between, but no command can.  `stop`, `cancelled` and `running` are the fields of
`ManagedState`; a run's locals are in `run`.  The generation of a run is not kept:
a run is spawned only when none is running, so it always matches.

| Code | Actions |
| --- | --- |
| commands | `Create`, `Start`, `Resume`, `Retry`, `Pause`, `CancelActive`, `CancelInactive`, `Remove` with `Purge`, `Shutdown` |
| `prepare_run`, `probe_with_retries` | `ProbeAnswers`, `ProbeRetries`, `ProbeFails`, `ProbeStops` |
| `schedule_retry` | `ScheduleRetry`, for the probe in `ProbeRetries` and for the transfer in `AfterTransfer` |
| `prepare_initial`, `prepare_resume` | `PrepareRefused`, `PrepareResume`, `PrepareRetained`, `CreatePartial` with `Attach` |
| the scheduler and storage, as a run sees them | `CommitRange`, `TearRange`, `BeginStream`, `StreamWrite`, `EndStream`, `TransferReturns` |
| `checkpoint_progress`, `checkpoint_boundary` | `Flush`, `CheckpointProgress`, `Boundary`, `AfterTransfer` |
| `complete_run` | `EnterValidating`, `Validate`, `EnterPromoting`, `Publish`, `RecordPromotion`, `CleanupPartial`, `EnterCompleted`, `Completed` |
| `finish_stop`, `apply_stop`, `fail_run` | `StopBoundary`, `ApplyStop`, `MarkStopFailed`, `FailRun`, `Discard`, `Forget` |
| `run_host`, a kill, the next start | `Exit`, `Crash`, `Open` |

`ServerChanges` is the environment.  A `Saved` write of the store may fail
(`NotSaved`) as long as `faults` allows; what the caller does then is part of its
action.  Data are abstract: a file is a function from a few chunks to the version of
the resource a chunk's bytes come from; a tag and a checksum identify a version.

**`Download`** is what the helper promises about one task to somebody who sees only the
destination directory and the durable record: names appear whole, and not against the user's
word; `Completed` needs a name; final states stay; coverage grows until its partial is given
up.  `TaskLifecycle!Promise` instantiates it, with the names mapped to the bytes behind
them.

**`RangeTransfer`** is one segmented transfer: `pending`, `flight` and `aborted` are
`WorkState`, `pc`, `work` and `hedge` belong to the workers, and `woken` says that
the watch channel a worker waits on has changed since it last looked.  A step is one
critical section of the coordinator's mutex.  **`RangeCoverage`** is what such a
transfer promises to its run; `TaskLifecycle` uses only that: ranges are covered one
at a time, the result is truthful, and nothing is written after it.

**`TransferAttempts`** is the arithmetic of a segmented download over several attempts and
runs.  Its operators are in **`ByteRanges`** (the canonical list of completed ranges,
the gaps it leaves, the size of requests and how they are cut, from `storage.rs` and
`scheduler.rs`) and **`RateEstimate`** (`SpeedEstimator` of `progress.rs`).  `completed` is
the coverage of the partial, `work` the chunks in flight and whether they have an assignment,
`pending` and `size` the plan of the coordinator; `used`, `workers`, `delay` and `guidance`
are the retry budget and the wait it ordered, `samples` and `estimate` the progress.  Requests,
commits, their failures and a stop happen in any order; an attempt ends when its workers
are joined.  `elapsed` is a history variable.

**`Admission`** is the admission of HTTP requests.  A step is one critical section of
an origin's mutex, one operation on the global semaphore or one reading of the clock.
`told` is a history variable: the latest deadline the answers of an origin have ever
set, whatever the table remembers of it.

**`EventStream`** composes the engine's side of the events, the host's loop and the
extension's table.  `tasks` is what the engine knows, `view` what the extension shows.  A run
or a command changes a task in one step and `owed` keeps the events it will emit after
it has released the mutex; `queue` and `overflowed` are the `EventBuffer`.  `at` is the
place in `run_active_session`: it selects a command (`Request`) or an event (`Forward`), waits
for a run (`EndWait`), emits and answers (`EmitCommand`, `Spawn`, `Respond`), and repairs an
overflow at the top of the loop (`Top`, `TakeSnapshot`, `SendPage`).  The pipe keeps the
order and the extension only listens, so a message is received in the step that sends it.
Of a run only what it announces is kept (`Advance`, `Complete`, `Stop`, `Fail`, `Strand`,
`Mention`); `TaskLifecycle` has the rest, and its `AcceptedStopHonoured` and `StopAnswered`
are what the guards and the fairness of runs rely on here.  Progress and retry events carry
nothing the model keeps; their place in the buffer is what matters.

**`ExtensionConnection`** is the other side of that pipe: `link`, `commands` and `shown` are the
fields of `NativeConnection`, `actions` what pages have asked for and how far each has come,
`ports` each port with the messages under way in both directions and the process behind it.
A step is one turn of the background page's event loop, or one continuation of an `await`
(`Continue`), and continuations go first (`Settled`).  `Ask`, `Deliver`, `Disconnected`,
`HandshakeTimeout` and `CommandTimeout` are the turns; `RejectWith` is `#reject`.  A helper
starts (`StartHelper`), negotiates (`Greet`), sends its first snapshot, repeats it
after an overflow, answers one command at a time (`Dispatch`, `Apply`) and ends (`Exit`, `Die`).
A snapshot counts by its two pages and their sequence numbers; what it says is
`EventStream`'s.  **`HostSettings`**, which it extends, holds the settings: the file, its
temporary file, `current`, `destination` and `engine`, and an update one effect at a
time.

**`SetupTransaction`** is the setup program.  `registration`, `receipt`, `journal`, `dirs`,
`files` and `litter` are durable; `pc` is the next effect of the operation under way and
`work` its journal.  `Install`, `Repair`, `BeginRemoval` (removal and cleanup) and `Recover` begin an
operation; each later action is one effect of it: `WriteJournal`, `WriteFile`, `Probe`,
`Register`, `WriteReceipt`, `Finish`, the `Undo...` steps of a rollback, the removal of a
generation file by file.  Where the code looks at what others may change and then acts on
it, the look is one step and each call after it another, and `act` is the call the look
allows: `ReplaceIfUnchanged` looks at the registration, opens or creates the key and looks again
(`LookRegistered`), then sets the value (`SetValue`), or deletes the value, looks whether the key
is empty and deletes it (`DeleteValue`, `LookEmpty`, `DeleteKey`); `DeleteNext` looks at a file
and then deletes it.  Anything may happen in between.  An effect may fail (`Fault`), and the
process may die before it or half way through it (`Crash`): a torn copy, a torn record, and,
between two steps of `ReplaceIfUnchanged`, a registry key without its value.  `Meddle` and
`ForeignLeaves` are another program of the user, and `raced` remembers that it has changed just
what setup had looked at and not yet acted on.

**`MCTaskLifecycle`**, **`MCRangeTransfer`**, **`MCTransferAttempts`**, **`MCAdmission`**,
**`MCEventStream`**, **`MCExtensionConnection`** and **`MCSetupTransaction`** hold the values
the runs use, and the symmetry.  **`TaskLifecycleProofs`** and **`TaskPromiseProofs`**, which
extends it, **`RangeTransferProofs`**, **`TransferAttemptsProofs`**, **`AdmissionProofs`**,
**`EventStreamProofs`**, **`ExtensionConnectionProofs`** and **`SetupTransactionProofs`** hold
the theorems.
Definitions commented "Mutant" are plausible mistakes in the definition that follows;
no specification uses them.  Each property fails when its mutant takes the place of
the definition, as listed in `PROJECT.json`.

## 3. Runs

| Run | Question | Result |
| --- | --- | --- |
| `lifecycle_segmented` | Is everything a task publishes, records and reports right over a strongly identified resource, and does the lifecycle implement `Download`? | 2 million states |
| `lifecycle_single` | Are two versions of a resource that one response delivers ever mixed, whether it has no strong validator, no length or no bytes?  Does an accepted stop end its run, and EOF the process, if the server never answers? | 0.3 million |
| `range_transfer` | Three workers, three ranges: one commit per range, no lost wake-up, an end to every stopped transfer, and does the transfer implement `RangeCoverage`? | 0.6 million |
| `transfer_attempts` | Four workers over several attempts and two runs: do requests divide what is missing, is every list acceptable to the next plan, is the speed of this attempt, does a retry keep its bounds? | 0.9 million |
| `admission` | Caps, deadlines and widths under new settings, and does a cooled origin hold up another? | 1 million |
| `event_stream` | Two tasks, two runs, a buffer of two events: does the extension end up with what the engine knows, never meet a gap, and has every wait of the host an end in sight? | 1.9 million |
| `extension_connection` | Two pages, up to three helpers one after the other, with faults: does ok mean that a command ran, once, and a refusal that it never will, is what is shown current, no page busy for ever, and do the settings agree? | 0.3 million |
| `setup` | Is the registered generation whole at every instant, every operation done or undone, what a look finds unknown left alone, and recovery blocked by nothing but what was torn or changed by others? | 0.3 million |
| `unknown_length`, `lost_wakeup`, `removed_task`, `second_port` | Statements of documentation or comments | violated, see below |

No run checks for deadlock: the helper rests when no command is given, a bounded model
stops at its bounds, a transfer stops when it has returned, and setup rests between two
operations.  That something must
not stop is stated as a liveness property instead.

### Findings

* **A finished stream of unknown length** (`UnchangedResourceContinues`).  If a run is
  stopped after the stream's end, the record knows the length; the server's unchanged
  resource still has none, so the identities differ and every later run fails as if the
  resource had changed.  STATE.md says such a download restarts from zero.
* **A lost wake-up** (`WaitsOnlyWhileClosed`).  `acquire` finds the cooldown still
  running, then reads the clock again to choose its timer; if the cooldown ended in
  between it waits without a timer for a change nobody makes.  It continues when another
  request of the origin ends, or when its task is stopped.  The window is short and the
  consequence is a download that stands still.
* **A removed task that returns** (`RemovedStaysRemoved`).  `fail_run` and `finish_stop` end the
  run under the mutex and emit afterwards.  A `remove` that comes in between purges the
  buffer and is answered; then the run emits the state it had reached, and the extension
  shows the removed task again until the next snapshot.  In the same way an event of a run
  that has ended may follow one of the next command, and show an older state; `Converges`
  names the tasks this has happened to (`late`).  The only other difference that remains when
  all is delivered is the unannounced task below.
* **A second port** (`OneOpenPort`).  A port whose helper is sending a later snapshot, after an
  overflow, is not `Usable`: `connect()` opens another one, as if there were none.  The first
  is neither closed nor listened to any more; its helper goes on and holds the lock of the
  state root, so that the new helper gives up and the action fails.  The comment on the class
  says that it owns one port.  What pages are told stays true all the same, and no page waits
  for ever (`AnswersAreTrue`, `ActionsSettle`).

### Limits

* A record is only as recoverable as the store is reliable.  `fail_run` goes on to
  `discard_terminal_partial` even if saving `Failed` has failed; the durable record is then
  still `Downloading` when its partial is deleted, and a crash before the second write leaves a
  record recovery rejects.  `cleanup_terminal` relies in the same way on the state in memory.
  `RecordLoads` therefore speaks of executions with no failed write.
* A command given while no port is open any more is posted nowhere and waits for its timer of
  two minutes, which then gives up whatever connection there is.  Likewise `shown`, the settings
  on display, outlives the connection they came from; `ReadyIsCurrent` is about the table of
  tasks only.
* If the engine can neither save new settings nor be configured with the old ones again, it
  runs with settings that no file has, and the page is told that they were not applied;
  `unrestored` names this case and `SettingsAgree` exempts it until the next successful update.
  A save that fails may also leave its temporary file behind.
* What a page is told when a command was refused, or when its connection broke, may be the
  same words ("may have succeeded", `creation.ts`).  The verdicts of the model are the errors
  of `NativeConnection`, not their wording.
* `add` creates a task and then starts it; if the start fails, the answer is an error and no
  event tells of the task, which stays queued.  The extension does not show it until an event
  or a snapshot does.  `Converges` allows this of a queued task that is not shown
  (`Unannounced`), and of no other.
* Recovery of setup refuses what it cannot prove, and a death can leave such states: a torn copy
  of a file, a first receipt torn while it was written, a registry key created and still
  without its value.  A torn journal does not decode and disables recovery altogether; then no
  other effect has taken place.  INSTALLATION.md (line 48) leaves torn copies and malformed
  journals to the owner; it does not name the empty key, which every operation refuses as
  well.  `RecoverableUnlessTorn` says that these are all: whatever else an interruption leaves,
  recovery accepts.
* Setup looks before every effect, but its looks are no compare-and-swap, as `registry.rs` and
  `files.rs` say: what another program changes between the look and the very next call is
  overwritten or deleted.  `UnknownKept` exempts exactly this (`raced`).

### Bounds, and why they are enough

* Lifecycle: two chunks (partial coverage is distinct from none and all), two versions of
  the resource, one partial file, two runs (a run, and one that resumes or retries what it
  left), one failed write, one crash, one change of the resource, one automatic retry.
  `lifecycle_single` checks liveness and has no automatic retry, where a resumed run does the
  same, and no failed write.  Each property's mutant needs at most these.  Three runs or three
  chunks multiply the states without a new kind of interleaving: a run keeps nothing of the run
  before the last one except the record and the partial.  A task whose partial was discarded
  can begin a second one only with `MaxPartials` 2, with which `lifecycle_single` passes as
  well (0.8 million states); it adds nothing.
* Range transfer: three workers are enough for two attempts at the tail and one worker
  that waits; three ranges for a tail that others precede.  Initial coverage is any
  incomplete set.  Tails are hedged in the model; the scheduler's defaults leave this off
  (`scheduler.rs:151`), so `AttemptsAccounted`, `FailureIsFinal` and `StallSurvived` speak of two
  attempts at a range only where the option is set.
* Attempts: six bytes, requests of one or two, four workers, so that a list of three ranges,
  the most that is accepted here, really occurs and a plan may need four requests, the most
  that is allowed; a failed attempt goes on with two workers; two retries and two runs.
  Delays of two and three ticks reach the ceiling, a `Retry-After` of four is obeyed and one
  of six refused; four ticks are a second and also the window of the samples, which are
  trimmed both by age and by number.  Rates saturate at eight.
* Admission: two requests, three origins in a table of two, three settings of the caps, a
  clock of three instants, delays of zero, one and "too long", a memory of one instant.
  `Horizon` bounds the clock, and answers that would outlast it are not given.  The clock
  does not have to advance.
* Event stream: two tasks (a snapshot of two pages, and a second task that fills the buffer),
  two runs (late events of a run after the next one has begun), a buffer of two events, which
  a single run overflows while the host waits for it.  Sequence numbers are counted modulo
  two, enough to notice one that is missing.  Tasks start paused or absent, in any
  combination.
* Connection: two pages and one pending command at most, so that one page is refused while the
  other waits; two actions, three ports (one left over, one in use, one reconnection), one
  overflow, two faults: a lost process, a failed start, a refused handshake or a failed save.
* Setup: three generations of which two may be recorded at once (a third is refused), two
  deaths and two faults or interferences, so that a recovery can itself die and be
  recovered, a rollback fail, and another program come between a look and its effect.

### Fairness, and why the code justifies it

* `TaskLifecycle!FairSpec`: weak fairness of the controller's own steps and of the steps
  that answer a cancellation.  These are tokio tasks that can run, file operations that
  return and `select!`s on the cancellation channel.  There is none for the server's
  answers, for commands, crashes or retries of failed writes.
* `RangeTransfer!FairSpec`: weak fairness of every worker that does not wait for the
  server, and of the join; nothing of the server.  `StallSurvived` alone assumes `Served`:
  time passes and requests are answered, except the first one for `Stalled`, whose second
  one does not fail.  If the second one failed as well, only the client's timeout of thirty
  seconds would end the first.
* `Admission!FairSpec`: weak fairness of a task's steps and of the end of its request,
  which the client's timeout forces.  The global semaphore is first come first served,
  as tokio documents.
* `ExtensionConnection!FairSpec`: weak fairness of the page's continuations and of its timers,
  which are all it can count on: the browser's event loop runs them.  There is none for the
  helper, which may hang, and none for the pipe.
* `EventStream`, `TransferAttempts` and `SetupTransaction` have safety properties only.
  `WaitHasEnd` is the safety half of the host's progress: whenever it waits for a run, that run
  has ended, was told to stop, or has yet to get over the probe of its resumption; `StopAnswered` has the other half.

### Refinements

`CoverageKept` says that `RangeTransfer` implements `RangeCoverage`, the contract on which
`TaskLifecycle` rests, and `ImplementsDownload` that `TaskLifecycle` implements `Download`.  The
second is where a write into an inode that is already published, a publication after an accepted
pause, or durable coverage that shrinks under a living partial would show.  Type invariants are
conjuncts of the first invariant of a run where no proof needs them by name
(`AttemptsAccounted`, `CapsHold`, `RecoverableUnlessTorn`, `InStep`).

## 4. Proofs

Every safety property and every step property that a passing run checks is a theorem.  Two
modules have those of `TaskLifecycle`, for all sets of chunks, bodies and offers and all bounds;
the second uses the invariants of the first.

`TaskLifecycleProofs`:

* **`TypeCorrect`**: `Spec => []TypeOK`.  `TypeOK` alone is not inductive: the actions
  of a run read `run`, `file` and `mem` where these exist, so it is proved together with
  `Placed`, which says at which `pc` a controller and an open file exist.
* **`RevisionsIdentify`**: `Spec => []RevisionIdentifiesRecord`.  Every operation of a
  record either leaves it alone or raises its revision (the lemmas named after
  `TaskRecord`'s operations); a write makes disk equal to memory, and a failed one either
  rolls memory back or leaves it ahead.
* **`StopsHaveReasons`**: `Spec => []StopHasReason`.  The inductive invariant is
  `Reasoned`: whoever cancels a run leaves a request under the same mutex, and only the
  end of the run clears it.
* **`NeverStranded`** and **`RestAlwaysDurable`**: `NotStranded` and `RestIsDurable`.  Both
  speak of a task at rest and need `Fits`, which says of every step of a run in which state it
  finds the record (`Staged`), that the run transfers the resource the record names
  (`RunFits`), and that the open handle's coverage is of that resource (`FileFits`).
  `SavedSoFar` adds where, within a run, memory and disk are still or again the same.

`TaskPromiseProofs`:

* **`PublishedAlwaysWhole`**, **`CoverageAlwaysTrustworthy`** and
  **`CompletedAlwaysVerified`**: `PublishedWhole`, `CoverageTrustworthy` and
  `CompletedIsVerified`.  The inductive invariant is `Genuine`: what a record or an open
  handle claims to cover is on disk and of one body (`Records`, `Handles`), that body is the
  one the strong validator identifies (`Sourced`), a run that publishes has checked it
  (`Phased`), and an inode with a name is covered completely, hence never written again
  (`Names`).  `Signed` adds that a record of a completed task names a file.
* **`PromiseKept`**: `Spec => ImplementsDownload`, by a step simulation.  `Ahead` says
  that memory is onward of the disk and may have given up a partial the disk still names only
  where a publication could not be recorded; `Advances` and `Forgets` classify the writes,
  `NamesKept` the publications and `StopStep` the stops.
* **`StopsDecide`**: `Spec => AcceptedStopHonoured`.  `Prompt` says which stops a run that
  is about to publish may have been given, and `Unstopped` that a publication which fails was
  not stopped.
* **`RecordsAlwaysLoad`**: `Spec => []RecordLoads`.  `Recoverable` says, of memory and
  disk, that the partial or the published name a record needs exists, at every step at which
  the process may die.

`RangeTransferProofs`, for every set of workers and every number of ranges:

* **`AttemptsAlwaysAccounted`**, **`FailuresAreFinal`** and **`CoverageAlwaysKept`**:
  `AttemptsAccounted`, `FailureIsFinal`, and the simulation of `RangeCoverage`.  The
  inductive invariant has a part for each: `Assigned` (where each range is, and that a writer's
  range is marked as being committed), `Counted` (the coordinator's count of a range is never
  below its holders, and exact until something stops the transfer) and `Complete` (no range is
  lost unless a failure is on its way to the result).  Exactness alone is not inductive: a
  worker that leaves after a stop is not counted down.

`TransferAttemptsProofs`, for every length of the file, size of requests, number of workers,
delay, window and budget:

* **`WorkAlwaysExact`**: `WorkIsExact`.  The inductive invariant `Cut` says it of ranges
  instead of bytes, and where `WorkIsExact` says nothing, between attempts: the completed ranges
  are in order with a byte missing between any two, the gaps of the plan in order, no two
  parts overlap (`ApartAll`), and while an attempt transfers no byte is outside them all
  (`CoversAll`).  It rests on what the operators of `ByteRanges` do to any list: that
  `InsertCompleted` adds a range and nothing else and keeps the list canonical (`InsertIs`), that
  `MissingRanges` are what such a list leaves out (`MissingIs`), that `Chunk` cuts a piece off
  the first gap (`ChunkIs`).
* **`NeverRefusedWithinLimits`**: `NeverRefused`, under the hypothesis `LimitsSuffice`.  The code has
  limits, and a long enough history of failures reaches them: it then refuses, as it should.  The
  theorem says how long.  A worker that leaves loses at most the one piece it had, so an
  attempt leaves at most one more hole for each worker (`Quota`), and no more ranges can be
  complete than there are holes and one (`RangesBetweenHoles`).  `Room` says so at every step: the
  holes are ghosts, a set of pieces that exists (`Lost`, `FewHoles`), because the ranges
  themselves may become fewer or more with each commit.  `PlansFit` is the same for the number of
  requests.  With the constants of the code - 8192 ranges, a million requests of 1 to 8 MiB,
  8 workers, 20 retries - the hypothesis holds for every file up to 16 KiB, and for 48 runs
  that each fail in every attempt (8 * 48 * 21 + 2 <= 8192) of a file of up to 7.5 TiB.
* **`EstimatesAlwaysCurrent`**: `EstimateIsCurrent`.  `RateInv` says that the samples are those of the
  attempt under way, newest last, each older than the next and none ahead of it in bytes, and the
  estimate is of those samples.  What remains is arithmetic: the speed over the window is a
  mean of the speeds over its intervals (`RateBetween`), also after rounding and saturation, which
  needs that the file is no longer than the greatest rate (`Total <= MaxRate`); the record
  rejects a file longer than `MAX_SAFE_INTEGER` (`persistence.rs:296`).
* **`RetriesAlwaysPolite`**: `RetryIsPolite` is nearly inductive; `DelayIs` shows that a delay with
  jitter is between half the ceiling and the ceiling, and when guidance replaces it.

Lists of any length need induction.  The library's induction theorems cannot be used, but a
least counterexample can: `Climbs` takes it from the well-founded order of intervals, and what a
fold computes is a function over its indices (`FoldExists`), to which `Climbs` applies.

`AdmissionProofs`, for every set of requests and origins, all limits, delays and bounds:

* **`CapsAlwaysHold`**, **`GuidanceAlwaysHonoured`** and **`PressureAlwaysRemembered`**:
  `CapsHold`, `GuidanceHonoured` and `PressureRemembered`.  `Queued` says that whoever is in
  the semaphore's queue does nothing else, `Tabled` that origins in use are in the table,
  `Counted` relates the counts to the requests, including those that hold a global permit
  and no slot, and `Heeded` says that guidance whose time has not come is in the table, where
  nothing reclaims it: an origin is remembered at least until its deadline.

`EventStreamProofs`, for every finite set of tasks, every capacity of the buffer, number of
runs and commands, and modulus of the sequence numbers:

* **`AlwaysConverges`**: `Converges` speaks of moments at which nothing is under way, so it is
  not inductive.  `Truth` says where the truth about a task is at any other moment
  (`Coming`), but for a queued task that nothing has announced: a run or the command still owes the event, an overflow has lost it and will be
  made good, it is the last word on the task in the queue, or it is shown - by the table, by the
  answer of the command under way, or by the pages of the snapshot under way.  `EmitKeeps` is
  what the buffer owes to that: whoever emits, it keeps the last word on every task or admits an
  overflow.
* **`AlwaysInStep`**: `InStep`.  Its part in the invariant is small (`StepInv`), but an event
  between the pages of a snapshot would break it: `PagesInv` says when one is under way, and
  that no task is in it twice.
* **`WaitAlwaysEnds`**: `WaitHasEnd`.  `CommandInv` and `RunsInv` say that a command that waits
  has given its stop to the only run of the task that is alive.

`ExtensionConnectionProofs`, for every number of pages, ports, actions and faults:

* **`ConnectionTypeCorrect`**: `Spec => []TypeOK`, and with it what every message under way
  is (`PortsOK`), and that the pending commands are those whose actions wait for them.
* **`AnswersAlwaysTrue`**: `AnswersAreTrue` relates what a page was told to what a helper did,
  which lie several messages apart.  `Truthful` fills the distance: an action is posted at
  most once, and then one pipe holds it and it has not run, or a reply is on its way that says
  what became of it, or it has been settled or lost.  `ListenStepKeeps` shows that this lasts
  when nothing is posted or run, `PostKeeps` when a command is posted and `AnswerKeeps` when a
  helper runs and answers one.
* **`ReadyAlwaysCurrent`**: `ReadyIsCurrent`, which `Current` strengthens with what the
  connection says of its port while it is being negotiated.
* **`SettingsAlwaysAgree`**: `Spec => []SettingsAgree`.  `SettingsAgree` says nothing while an
  update is under way, so it cannot be inductive: `SettingsInv` adds what an update has changed
  and has not, that `current` and `destination` still are what the file says and that only the
  engine may be ahead, and stays ahead only after the double fault (`unrestored`).
  `OnlySettingsSteps` shows that every step of the connection changes
  the settings by one of the operations of `HostSettings` or not at all, and
  `SettingsInvInductive` that each of those keeps `SettingsInv`.

`SetupTransactionProofs`, for every set of generations, and any number of deaths, faults and
interferences, every property of `SetupTransaction`:

* **`RegisteredAlwaysWhole`**, **`NeverOrphaned`** and **`AlwaysRecoverable`**:
  `RegisteredIsWhole`, `NoOrphans` and `RecoverableUnlessTorn`.  None is inductive: that a
  generation may be deleted without harm to the registration depends on what an operation
  has done before.  The inductive invariant has three parts.  `Lasting` speaks of what is durable,
  and so holds wherever the process dies: besides the properties, that the generation a
  rollback would register again still stands (`PreviousKept`), that the receipt is one of the
  journal's two or torn, and that, unless somebody else has changed it, the registration is one
  the journal allows (`Fits`) or the key without its value.  `Underway` says for each `pc` what
  the operation has done when it is there (`At`), and `Acting` what the last look has found out
  about the effect to come, as long as nothing has raced it.
* **`OperationsAllOrNothing`**: `AllOrNothing`, from what `At` says of the end (`Done`,
  `Undone`) and from `OnlyFinishEnds`.
* **`UnknownAlwaysKept`**: `UnknownKept`.  A file of a new generation is written once, where
  there is none (`Unpublished`), so no copy can hit bytes of somebody else, and a deletion has
  looked (`FilesSpared`); a registration is replaced only if it was one of the journal's when
  it was looked at (`ReplaceSpares`, `ForeignSpared`).  Both rest on `Acting`: without `raced`, what
  the look has found is still so.

They rest on the named assumptions of the constants, all of them about the models' sets
and bounds, and on nothing about the code; `LimitsSuffice` is the hypothesis of one theorem and
TLC evaluates it on the run's values (`LimitsSufficeHere`).  Model-checked only are the liveness
properties, which with fairness are outside the prover: `StopAnswered`, `ShutdownExits`,
`StopEndsTransfer`, `StallSurvived`, `UnrelatedProceeds` and `ActionsSettle`.

## 5. Not modelled, and abstractions to know about

* Bytes are chunks; a torn write leaves a chunk neither old nor new and its coverage
  unrecorded.  Flushing is explicit, but a power loss that undoes a rename is not
  modelled; `Crash` is the death of the process.
* The cadence of progress checkpoints is a free choice: any cadence is covered.
* `prepare_initial` and `prepare_resume` look once more for a stop after the probe has answered
  (`task.rs:1824`, `task.rs:1909`); the model may then go on to the transfer, which notices it: it
  has more behaviours than the code.
* A response 416 makes the controller probe again, once, before it retries the transfer
  (`revalidate_worker_range`).  Its outcomes - a stop, a failure, a retry - are those of
  `AfterTransfer`, but the wait for that probe is not a step of its own.
* `Loadable` says which files a record needs when it is loaded; that recovery also rejects a
  partial or a published file of another length than the record's (`persistence.rs:2278`,
  `persistence.rs:2320`) is left out, as the model keeps no lengths of files.
* The retries of a probe are counted in `TaskLifecycle`; in `TransferAttempts`, which has no
  probe, the whole budget is the transfer's.
* Names: a publication takes a fresh name; the numbering of collisions is not modelled.
* One task.  Tasks share the store's gate, the scheduler and admission, but no state that
  a property here speaks of.
* Events: the phases of an active task are one state; the two lists of a session (`list`
  cursors), `get`, `open_folder`, recovery warnings and the end of the sequence
  numbers are left out.  A snapshot of several tasks is taken at once, which no property can
  tell from one after the other.
* Connection: the limit of commands is counted at the extension; malformed messages are one
  kind of message out of place; `disconnect()`, which nothing but tests calls, is left out.
  Of a command only whether it took effect is kept.
* Settings: a value is abstract; which field is invalid, the migration of an older file and the
  diagnostic log are left out.
* Attempts: a chunk in flight has one attempt (the hedged tail is `RangeTransfer`'s), the body
  of a response is written in one step, and a crash loses nothing of the coverage (what a crash
  loses is `TaskLifecycle`'s).  The cadence of samples and progress events is a free choice.
* Setup: the package is taken as verified; the resolution of paths, leases on directories and
  the launch of the probe are left out.  So are unknown files next to the known ones: with one,
  `remove_empty` keeps the directory and the removal goes on (`transaction.rs:497`), so what
  `AllOrNothing` says of directories that are gone holds for directories without such files.
  Other programs change the registration and installed files, but not the receipt or the
  journal, which only setup writes, under its lock.  When setting the value of a new key fails, the
  look whether it is still empty and its deletion are one step, and so are the two looks
  around the creation of the key.  A death between the creation of a generation's directory
  and its journal leaves a directory that is not on record, as the documentation says.
* Paths, reparse points, access rights, parsing and the wire format.

## 6. Plan

1. Done: `TaskRecord`, `TaskLifecycle` and their runs; `Download`, refined by
   `TaskLifecycle`, and its two proof modules; `RangeCoverage`, and `RangeTransfer` with
   `RangeTransferProofs`; `Admission` with `AdmissionProofs`; `EventStream` with
   `EventStreamProofs`; `SetupTransaction` with `SetupTransactionProofs`; `ByteRanges`,
   `RateEstimate` and `TransferAttempts` with `TransferAttemptsProofs`; `HostSettings`
   and `ExtensionConnection` with `ExtensionConnectionProofs`.
2. `HostSession`: the cursors of two lists, and errors of the negotiation.
3. Power loss in `TaskLifecycle`.
4. The table of tasks: its limit, and contexts of several tasks.

Theorems: with each of these, its safety properties.
