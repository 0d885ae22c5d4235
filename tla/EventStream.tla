---------------------------- MODULE EventStream ----------------------------
(***************************************************************************)
(* How the extension learns what the engine does.  Runs and commands       *)
(* change tasks under the mutex of the task and emit their events after it *)
(* is released.  Events go to one bounded buffer (EventBuffer); the host   *)
(* forwards them, answers commands one at a time, and replaces what an     *)
(* overflow lost by a snapshot of all tasks.  The extension applies what   *)
(* arrives to its own table of tasks.                                      *)
(*                                                                         *)
(* Of the snapshot of a task only its state matters here; "active" stands  *)
(* for probing, downloading, validating and promoting, which TaskLifecycle *)
(* tells apart.                                                            *)
(***************************************************************************)
EXTENDS Naturals, Sequences, FiniteSets, SequencesExt, FiniteSetsExt

CONSTANTS
  Tasks,
  Capacity,         \* capacity of the event buffer
  MaxRuns,          \* bound: how many runs are spawned
  Numbers,          \* bound: sequence numbers are counted modulo this
  Absent            \* no task, no message, no snapshot under assembly

\* MAX_MANAGED_TASKS
ASSUME FiniteTasks == IsFiniteSet(Tasks)

ASSUME EventStreamBounds ==
  /\ Capacity \in Nat \ {0}
  /\ MaxRuns \in Nat
  /\ Numbers \in Nat \ {0, 1}

VARIABLES
  tasks,            \* TaskEngineInner.tasks: the snapshot of each managed task
  runs,             \* the runs spawned so far, with the events each still owes
  queue,            \* EventState.queue
  overflowed,       \* EventBuffer.overflowed
  at,               \* where the host's loop is
  command,          \* the command under way, and the events it still owes
  pages,            \* the pages of a snapshot the host still has to send
  sequence,         \* Session.sequence
  view,             \* #tasks of the extension
  assembly,         \* #snapshot of the extension: the pages received so far
  nextSequence,     \* #nextSequence of the extension
  broken,           \* the extension has rejected the connection
  removed,          \* history: tasks that were removed
  late              \* history: tasks whose last word came from an ended run

engine == <<tasks, runs, queue, overflowed>>
host == <<at, command, pages, sequence>>
extension == <<view, assembly, nextSequence, broken>>
history == <<removed, late>>
vars == <<engine, host, extension, history>>

States == {"queued", "active", "paused", "completed", "failed", "cancelled"}
Terminal == {"completed", "failed", "cancelled"}

\* A page of a snapshot: one task.
Page == [task : Tasks, state : States]

\* No state and no page is None.
ASSUME AbsentIsNone == Absent \notin States /\ Absent \notin Page

\* StateChanged, Completed and Failed carry a whole task.
TaskEvents == [kind : {"task"}, task : Tasks, state : States]
ReplaceableEvents == [kind : {"progress", "retry"}, task : Tasks]
Events == TaskEvents \cup ReplaceableEvents

\* event_is_replaceable
Replaceable(e) == e.kind \in {"progress", "retry"}

Word(t, state) == [kind |-> "task", task |-> t, state |-> state]
Hint(kind, t) == [kind |-> kind, task |-> t]

Running(t) == \E r \in DOMAIN runs : runs[r].task = t /\ runs[r].live

\* A command that emits these words, spawns a run or not, and answers; one that
\* waits for a run.
Answering(t, words, spawn, reply) ==
  [task |-> t, until |-> "none", owed |-> words, reply |-> reply, spawn |-> spawn]
Awaiting(t, until) ==
  [task |-> t, until |-> until, owed |-> <<>>, reply |-> Absent, spawn |-> FALSE]
Idle == Awaiting(Absent, "none")

Init ==
  /\ \E recovered \in SUBSET Tasks :
       tasks = [t \in Tasks |-> IF t \in recovered THEN "paused" ELSE Absent]
  /\ runs = <<>>
  /\ queue = <<>>
  /\ overflowed = FALSE
  /\ at = "snapshot"
  /\ command = Idle
  /\ pages = <<>>
  /\ sequence = 0
  /\ view = [t \in Tasks |-> Absent]
  /\ assembly = <<>>
  /\ nextSequence = 0
  /\ broken = FALSE
  /\ removed = {}
  /\ late = {}

-----------------------------------------------------------------------------
(* The buffer *)

HasRoom(q) == Len(q) < Capacity

\* VecDeque::remove at the first of these places, if there is one
WithoutFirst(q, places) == IF places = {} THEN q ELSE RemoveAt(q, Min(places))

\* VecDeque::retain: what is at these places, in order
Retained(q, places) ==
  LET Place(k) == CHOOSE i \in places : Cardinality({j \in places : j <= i}) = k
  IN [k \in 1 .. Cardinality(places) |-> q[Place(k)]]

\* Mutant: a change that finds no room is dropped like progress.
LossyOverflow(e) == overflowed

\* Whether the loss of e makes continuity uncertain.
Overflow(e) == overflowed \/ ~Replaceable(e)

\* EventBuffer::emit
Emit(e) ==
  LET kept == WithoutFirst(queue, {i \in DOMAIN queue : e.kind = "progress" /\ queue[i] = e})
      replaceable == {i \in DOMAIN kept : Replaceable(kept[i])}
  IN \/ /\ HasRoom(kept)
        /\ queue' = Append(kept, e)
        /\ UNCHANGED overflowed
     \/ /\ ~HasRoom(kept)
        /\ replaceable # {}
        /\ queue' = Append(WithoutFirst(kept, replaceable), e)
        /\ UNCHANGED overflowed
     \/ /\ ~HasRoom(kept)
        /\ replaceable = {}
        /\ queue' = kept
        /\ overflowed' = Overflow(e)

-----------------------------------------------------------------------------
(* Runs *)

\* Nobody looks at the request of a run that has ended.
Owes(r, events, live) ==
  runs' = [runs EXCEPT ![r] = [task |-> @.task, live |-> live, owed |-> events,
                               stop |-> IF live THEN @.stop ELSE "none"]]

\* A live run goes on when its events are out.
In(r, states) ==
  /\ runs[r].live
  /\ runs[r].owed = <<>>
  /\ tasks[runs[r].task] \in states

Move(r, state, live, events) ==
  /\ tasks' = [tasks EXCEPT ![runs[r].task] = state]
  /\ Owes(r, events, live)
  /\ UNCHANGED <<queue, overflowed, host, extension, history>>

\* ensure_generation: a run that was told to stop announces no other state.
Unstopped(r) == runs[r].stop = "none"

\* enter_run_state: to downloading, validating or promoting.
Advance(r) ==
  /\ Unstopped(r)
  /\ In(r, {"active", "paused"})
  /\ Move(r, "active", TRUE, <<Word(runs[r].task, "active")>>)

\* The end of complete_run: both events are emitted while the run is alive.
Complete(r) ==
  LET word == Word(runs[r].task, "completed") IN
  /\ Unstopped(r)
  /\ In(r, {"active"})
  /\ Move(r, "completed", TRUE, <<word, word>>)

FinishRunning(r) ==
  /\ In(r, {"completed"})
  /\ Owes(r, <<>>, FALSE)
  /\ UNCHANGED <<tasks, queue, overflowed, host, extension, history>>

\* finish_stop: the request is honoured; deleting the partial may fail.
Stop(r) ==
  LET state == IF runs[r].stop = "pause" THEN "paused" ELSE "cancelled"
      word == Word(runs[r].task, state)
  IN /\ ~Unstopped(r)
     /\ In(r, {"active"})
     /\ \/ Move(r, state, FALSE, <<word>>)
        \/ state = "cancelled" /\ Move(r, state, FALSE, <<word, word>>)

\* fail_run, and finish_stop whose checkpoint fails.
Fail(r) ==
  LET word == Word(runs[r].task, "failed") IN
  /\ In(r, {"active", "paused"})
  /\ Move(r, "failed", FALSE, <<word, word>>)

\* leave_promoting_failure: the run is gone, the task stays as it is.
Strand(r) ==
  /\ Unstopped(r)
  /\ In(r, {"active"})
  /\ Move(r, "active", FALSE, <<Word(runs[r].task, "active")>>)

\* emit_progress and schedule_retry: the event says nothing that could be stale.
Mention(r, kind) ==
  /\ In(r, {"active"})
  /\ Emit(Hint(kind, runs[r].task))
  /\ UNCHANGED <<tasks, runs, host, extension, history>>

\* A word that is older than the task itself is the last one until the task
\* speaks again, and is heard.
LateAfter(e) ==
  IF e.kind # "task" THEN late
  ELSE IF tasks[e.task] # e.state THEN late \cup {e.task}
  ELSE IF overflowed' THEN late
  ELSE late \ {e.task}

\* The events of a run go out one by one, after the mutex was released.
EmitOwed(r) ==
  /\ runs[r].owed # <<>>
  /\ Emit(Head(runs[r].owed))
  /\ late' = LateAfter(Head(runs[r].owed))
  /\ Owes(r, Tail(runs[r].owed), runs[r].live)
  /\ UNCHANGED <<tasks, host, extension, removed>>

RunStep(r) ==
  \/ Advance(r) \/ Complete(r) \/ FinishRunning(r) \/ Stop(r) \/ Fail(r) \/ Strand(r)
  \/ (\E kind \in {"progress", "retry"} : Mention(r, kind))
  \/ EmitOwed(r)

-----------------------------------------------------------------------------
(* The extension.  It only listens, and the pipe keeps the order: a message is *)
(* received when it is sent.                                                   *)

Show(t, state) == view' = [view EXCEPT ![t] = state]

\* #receiveResponse
ReceiveResponse(message) ==
  /\ \/ message.kind = "error" /\ UNCHANGED view
     \/ message.kind = "task" /\ Show(message.task, message.state)
     \/ message.kind = "removed" /\ Show(message.task, Absent)
  /\ UNCHANGED <<assembly, nextSequence, broken>>

\* #receiveSnapshot: the table is replaced when the last page is there.
ReceivePage(message) ==
  LET received == IF message.page = Absent THEN assembly ELSE Append(assembly, message.page)
      shown == [t \in Tasks |->
                  IF \E i \in DOMAIN received : received[i].task = t
                  THEN received[CHOOSE i \in DOMAIN received : received[i].task = t].state
                  ELSE Absent]
  IN /\ message.kind = "page"
     /\ IF message.complete THEN assembly' = <<>> /\ view' = shown
        ELSE assembly' = received /\ UNCHANGED view

\* #receiveEvent: an event out of sequence, or between two pages, is rejected.
ReceiveEvent(message, number) ==
  IF number # nextSequence \/ (message.kind # "page" /\ assembly # <<>>)
  THEN broken' = TRUE /\ UNCHANGED <<view, assembly, nextSequence>>
  ELSE /\ nextSequence' = (nextSequence + 1) % Numbers
       /\ \/ ReceivePage(message)
          \/ message.kind = "task" /\ Show(message.task, message.state) /\ UNCHANGED assembly
          \/ message.kind = "progress" /\ UNCHANGED <<view, assembly>>
       /\ UNCHANGED broken

-----------------------------------------------------------------------------
(* The host: commands *)

\* A command changes t to the snapshots of words, in turn, and emits them; then
\* it spawns a run or not, and answers.
Begin(t, words, spawn, reply) ==
  /\ at = "select"
  /\ at' = "emit"
  /\ command' = Answering(t, words, spawn, reply)
  /\ spawn => Len(runs) < MaxRuns
  /\ tasks' = [tasks EXCEPT ![t] = Last(words).state]
  /\ UNCHANGED <<runs, queue, overflowed, pages, sequence, extension, removed>>

Refusal == [kind |-> "error"]

\* add: create_task, which emits nothing, and start.  A task that was created but
\* could not be started stays queued, and only the error is reported.
Add(t) ==
  LET word == Word(t, "active") IN
  /\ tasks[t] = Absent
  /\ t \notin removed
  /\ \/ Begin(t, <<word>>, TRUE, word) /\ UNCHANGED late
     \/ /\ at = "select"
        /\ at' = "emit"
        /\ tasks' = [tasks EXCEPT ![t] = "queued"]
        /\ command' = Answering(t, <<>>, FALSE, Refusal)
        /\ UNCHANGED <<runs, queue, overflowed, pages, sequence, extension, history>>

Restable(t, state) ==
  /\ tasks[t] = state
  /\ ~Running(t)

\* start, for resume of a queued task.
Start(t) ==
  LET word == Word(t, "active") IN
  /\ Restable(t, "queued")
  /\ Begin(t, <<word>>, TRUE, word)
  /\ UNCHANGED late

\* retry: to queued, and then to probing unless the second checkpoint fails.
Retry(t) ==
  LET queued == Word(t, "queued")
      probing == Word(t, "active")
  IN /\ Restable(t, "failed")
     /\ \/ Begin(t, <<queued, probing>>, TRUE, probing)
        \/ Begin(t, <<queued>>, FALSE, Refusal)
     /\ UNCHANGED late

\* cancel_inactive; deleting the partial may fail after the task was cancelled.
CancelInactive(t) ==
  LET word == Word(t, "cancelled") IN
  /\ \E state \in {"queued", "paused"} : Restable(t, state)
  /\ \/ Begin(t, <<word>>, FALSE, word)
     \/ Begin(t, <<word, word>>, FALSE, Refusal)
  /\ UNCHANGED late

\* begin_run
NewRun(t) == Append(runs, [task |-> t, live |-> TRUE, stop |-> "none", owed |-> <<>>])

\* resume of a paused task: the run is spawned first, and awaited.
Resume(t) ==
  /\ at = "select"
  /\ Restable(t, "paused")
  /\ Len(runs) < MaxRuns
  /\ runs' = NewRun(t)
  /\ at' = "wait"
  /\ command' = Awaiting(t, "resumed")
  /\ UNCHANGED <<tasks, queue, overflowed, pages, sequence, extension, history>>

\* pause, and cancel of an active task: the run is told to stop, and awaited.
RequestStop(t, stop) ==
  /\ at = "select"
  /\ at' = "wait"
  /\ command' = Awaiting(t, stop)
  /\ \E r \in DOMAIN runs :
       /\ runs[r].task = t
       /\ runs[r].live
       /\ runs[r].stop = "none"
       /\ tasks[t] = "active"
       /\ runs' = [runs EXCEPT ![r].stop = stop]
  /\ UNCHANGED <<tasks, queue, overflowed, pages, sequence, extension, history>>

\* Mutant: the wait lasts until the events of the run have been forwarded, too.
EndedAndTold(t) == ~Running(t) /\ queue = <<>>

Ended(t) == ~Running(t) \/ (command.until = "resumed" /\ tasks[t] # "paused")

\* What a wait is answered with; a cancellation that could not delete the partial
\* is answered with the error.
Answers(t) ==
  CASE command.until = "resumed" -> {Word(t, tasks[t])}
    [] command.until = "pause" ->
         {IF tasks[t] = "paused" THEN Word(t, tasks[t]) ELSE Refusal}
    [] command.until = "cancel" ->
         IF tasks[t] = "cancelled" THEN {Word(t, tasks[t]), Refusal} ELSE {Refusal}

\* wait_until: the host does nothing else meanwhile.
EndWait ==
  /\ at = "wait"
  /\ Ended(command.task)
  /\ at' = "emit"
  /\ \E reply \in Answers(command.task) :
       command' = Answering(command.task, <<>>, FALSE, reply)
  /\ UNCHANGED <<engine, pages, sequence, extension, history>>

\* remove, with EventBuffer::remove_task
RemoveTask(t) ==
  /\ at = "select"
  /\ \E state \in Terminal : Restable(t, state)
  /\ tasks' = [tasks EXCEPT ![t] = Absent]
  /\ removed' = removed \cup {t}
  /\ queue' = Retained(queue, {i \in DOMAIN queue : queue[i].task # t})
  /\ at' = "emit"
  /\ command' = Answering(t, <<>>, FALSE, [kind |-> "removed", task |-> t])
  /\ UNCHANGED <<runs, overflowed, pages, sequence, extension, late>>

\* The events of the command itself.
EmitCommand ==
  /\ at = "emit"
  /\ command.owed # <<>>
  /\ Emit(Head(command.owed))
  /\ late' = LateAfter(Head(command.owed))
  /\ command' = [command EXCEPT !.owed = Tail(@)]
  /\ UNCHANGED <<tasks, runs, at, pages, sequence, extension, removed>>

\* spawn_run: the run may get ahead of the answer.
Spawn ==
  /\ at = "emit"
  /\ command.owed = <<>>
  /\ command.spawn
  /\ runs' = NewRun(command.task)
  /\ command' = [command EXCEPT !.spawn = FALSE]
  /\ UNCHANGED <<tasks, queue, overflowed, at, pages, sequence, extension, history>>

\* The one response of the command.
Respond ==
  /\ at = "emit"
  /\ command.owed = <<>>
  /\ ~command.spawn
  /\ ReceiveResponse(command.reply)
  /\ at' = "top"
  /\ command' = Idle
  /\ UNCHANGED <<engine, pages, sequence, history>>

-----------------------------------------------------------------------------
(* The host: events and snapshots *)

\* The top of run_active_session's loop: reset_after_overflow.
Top ==
  /\ at = "top"
  /\ IF overflowed
     THEN /\ overflowed' = FALSE
          /\ queue' = <<>>
          /\ late' = {}
          /\ at' = "snapshot"
     ELSE /\ at' = "select"
          /\ UNCHANGED <<queue, overflowed, late>>
  /\ UNCHANGED <<tasks, runs, command, pages, sequence, extension, removed>>

\* A snapshot of all tasks, one to a page, in the order of their random identities;
\* without tasks, one empty page.
Snapshots ==
  LET present == {t \in Tasks : tasks[t] # Absent}
  IN IF present = {} THEN {<<Absent>>}
     ELSE {[i \in DOMAIN order |-> [task |-> order[i], state |-> tasks[order[i]]]] :
             order \in Bijection(1 .. Cardinality(present), present)}

\* snapshots: each task is read under its own mutex, but no property compares two.
TakeSnapshot ==
  /\ at = "snapshot"
  /\ pages' \in Snapshots
  /\ at' = "pages"
  /\ UNCHANGED <<engine, command, sequence, extension, history>>

SendEvent(message) ==
  /\ ReceiveEvent(message, sequence)
  /\ sequence' = (sequence + 1) % Numbers

\* send_snapshot_events
SendPage ==
  /\ at = "pages"
  /\ SendEvent([kind |-> "page", page |-> Head(pages), complete |-> Tail(pages) = <<>>])
  /\ pages' = Tail(pages)
  /\ at' = IF Tail(pages) = <<>> THEN "top" ELSE "pages"
  /\ UNCHANGED <<engine, command, history>>

\* Mutant: bookkeeping that is not sent takes a sequence number nevertheless.
FilterCounting(e) == sequence' = (sequence + 1) % Numbers /\ UNCHANGED extension

\* A retry is bookkeeping: nothing is sent and no sequence number taken.
Filter(e) == UNCHANGED <<sequence, extension>>

\* next_event and send_engine_event
Forward ==
  /\ at = "select"
  /\ queue # <<>>
  /\ IF Head(queue).kind = "retry" THEN Filter(Head(queue)) ELSE SendEvent(Head(queue))
  /\ queue' = Tail(queue)
  /\ at' = "top"
  /\ UNCHANGED <<tasks, runs, overflowed, command, pages, history>>
-----------------------------------------------------------------------------
Request(t) ==
  \/ Add(t) \/ Start(t) \/ Retry(t) \/ CancelInactive(t) \/ Resume(t) \/ RemoveTask(t)
  \/ \E stop \in {"pause", "cancel"} : RequestStop(t, stop)

HostStep == EndWait \/ EmitCommand \/ Spawn \/ Respond \/ Top \/ TakeSnapshot \/ SendPage \/ Forward

Next ==
  \/ \E r \in DOMAIN runs : RunStep(r)
  \/ \E t \in Tasks : Request(t)
  \/ HostStep

Spec == Init /\ [][Next]_vars

-----------------------------------------------------------------------------
(* Properties *)

Replies == TaskEvents \cup {Refusal} \cup [kind : {"removed"}, task : Tasks]

\* The types, and the bound of the buffer.
TypeOK ==
  /\ tasks \in [Tasks -> States \cup {Absent}]
  /\ Len(runs) <= MaxRuns
  /\ \A r \in DOMAIN runs :
       /\ runs[r].task \in Tasks
       /\ runs[r].live \in BOOLEAN
       /\ runs[r].stop \in {"none", "pause", "cancel"}
       /\ \A i \in DOMAIN runs[r].owed : runs[r].owed[i] \in Events
  /\ Len(queue) <= Capacity
  /\ \A i \in DOMAIN queue : queue[i] \in Events
  /\ overflowed \in BOOLEAN
  /\ at \in {"top", "select", "emit", "wait", "snapshot", "pages"}
  /\ command.task \in Tasks \cup {Absent}
  /\ command.until \in {"none", "resumed", "pause", "cancel"}
  /\ \A i \in DOMAIN command.owed : command.owed[i] \in TaskEvents
  /\ command.reply \in Replies \cup {Absent}
  /\ Len(pages) <= Max({1, Cardinality(Tasks)})
  /\ sequence \in 0 .. Numbers - 1 /\ nextSequence \in 0 .. Numbers - 1
  /\ view \in [Tasks -> States \cup {Absent}]
  /\ Len(assembly) <= Cardinality(Tasks)
  /\ broken \in BOOLEAN
  /\ removed \in SUBSET Tasks /\ late \in SUBSET Tasks

\* The buffer keeps to its bound (TypeOK), and the extension never meets a gap in the
\* sequence or an event between two pages: commands, overflow and bookkeeping that is
\* filtered out leave no hole.
InStep == TypeOK /\ ~broken

\* All that was emitted has been delivered.
Quiet ==
  /\ \A r \in DOMAIN runs : runs[r].owed = <<>>
  /\ queue = <<>> /\ ~overflowed
  /\ at \in {"top", "select", "wait"}

\* A task that add created and could not start, and that is not shown: no event
\* says that it is there, and the answer was an error.
Unannounced(t, shown) == tasks[t] = "queued" /\ shown = Absent

\* Whatever was coalesced, dropped, overtaken by a response or lost in an overflow,
\* in the end the extension shows what the engine knows.  It may be wrong in two
\* cases only: on a task whose last word came from a run that had already ended
\* (late), and by not showing a queued task that nothing has announced.
Converges ==
  Quiet /\ ~broken =>
    \A t \in Tasks \ late : view[t] = tasks[t] \/ Unannounced(t, view[t])

\* The host forwards nothing while it waits, so a wait must have its end in sight:
\* it is over, or the run it waits for is live and was told to stop, or is the one
\* that has yet to resume.  It is never for the events that fill the buffer meanwhile,
\* nor for a run that nobody has stopped.
WaitHasEnd ==
  at = "wait" =>
    \/ Ended(command.task)
    \/ \E r \in DOMAIN runs :
         /\ runs[r].task = command.task
         /\ runs[r].live
         /\ IF command.until = "resumed" THEN tasks[command.task] = "paused"
                                         ELSE runs[r].stop = command.until

\* What the state documentation says of history that was removed: pending events
\* are purged, so the task does not come back.
RemovedStaysRemoved == Quiet => \A t \in removed : view[t] = Absent

=============================================================================
