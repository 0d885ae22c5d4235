-------------------------- MODULE TaskLifecycleProofs --------------------------
(***************************************************************************)
(* Theorems about TaskLifecycle, for every set of chunks, bodies and       *)
(* offers, every policy and every value of the bounds: the types, the      *)
(* revisions, the reasons of stops, and then the end of a run.             *)
(***************************************************************************)
EXTENDS TaskLifecycle, TLAPS

Rec == Tasks(Inode, Nat)

\* The steps of a run with a prepared transfer, and all the steps of a run that no
\* command shares.
FileSteps == {"transfer", "settled", "errored", "complete", "validate", "lease",
              "publish", "linked", "recorded", "cleaned"}

RunSteps == FileSteps \cup {"attach", "probe", "prepare", "finish", "completed", "stop", "halt",
                            "fail"}

(***************************************************************************)
(* What the next step finds in place.  TypeOK alone is not inductive: that *)
(* a step keeps the types depends on there being a record, a run, an open  *)
(* handle and a probed resource when the step needs them.                  *)
(***************************************************************************)
Placed ==
  /\ ~up => mem = NoTask /\ file = NoFile /\ pc = "idle"
  /\ file # NoFile => mem \in Rec /\ mem.res \in Identities
  /\ pc # "idle" => mem \in Rec
  /\ pc \in RunSteps => running
  /\ running => run \in Runs /\ pc \notin {"idle", "purge"}
  /\ pc = "attach" => mem.partial \in Inode /\ mem.res \in Identities
  /\ pc \in FileSteps \cup {"attach", "prepare"} => run.source \in Resource
  /\ pc \in FileSteps => file \in Files /\ mem.res \in Identities

\* Why a cancelled run knows the reason: only a refused progress checkpoint cancels
\* without a stop, and it leads to the failure path.
Reasoned ==
  /\ cancelled => running
  /\ cancelled => stop # "none" \/ run.broken
  /\ (running /\ run.broken) => cancelled /\ pc \in {"transfer", "fail", "discard", "forget"}
  /\ StopHasReason

-------------------------------------------------------------------------------
(***************************************************************************)
(* The operations on a record keep its shape and move its revision on.     *)
(***************************************************************************)

\* The identity of any resource a server may present is one a record can hold.
LEMMA IdentityType == ASSUME NEW r \in Resource PROVE Identity(r) \in Identities
BY DEF Resource, Identity, Identities

LEMMA MoveToType ==
  ASSUME NEW m \in Rec, NEW s \in States
  PROVE  /\ MoveTo(m, s) \in Rec
         /\ MoveTo(m, s).rev = m.rev + 1
         /\ MoveTo(m, s).res = m.res
         /\ MoveTo(m, s).partial = m.partial
         /\ MoveTo(m, s).state = s
<1>1. m.rev + 1 \in Nat
  BY DEF Rec, Tasks
<1> QED BY <1>1 DEF Rec, Tasks, MoveTo

LEMMA WithResourceType ==
  ASSUME NEW m \in Rec, NEW id \in Identities
  PROVE  /\ WithResource(m, id) \in Rec
         /\ WithResource(m, id).rev = m.rev + 1
         /\ WithResource(m, id).res = id
         /\ WithResource(m, id).partial = m.partial
<1>1. m.rev + 1 \in Nat
  BY DEF Rec, Tasks
<1> QED BY <1>1 DEF Rec, Tasks, WithResource

LEMMA WithPartialType ==
  ASSUME NEW m \in Rec, NEW i \in Inode
  PROVE  /\ WithPartial(m, i) \in Rec
         /\ WithPartial(m, i).rev = m.rev + 1
         /\ WithPartial(m, i).res = m.res
         /\ WithPartial(m, i).partial = i
<1>1. m.rev + 1 \in Nat
  BY DEF Rec, Tasks
<1> QED BY <1>1 DEF Rec, Tasks, WithPartial

LEMMA WithoutPartialType ==
  ASSUME NEW m \in Rec
  PROVE  /\ WithoutPartial(m) \in Rec
         /\ WithoutPartial(m).rev = m.rev + 1
         /\ WithoutPartial(m).res = m.res
<1>1. m.rev + 1 \in Nat
  BY DEF Rec, Tasks
<1> QED BY <1>1 DEF Rec, Tasks, WithoutPartial

LEMMA WithFinalType ==
  ASSUME NEW m \in Rec, NEW n \in Nat, NEW keep \in BOOLEAN
  PROVE  /\ WithFinal(m, n, keep) \in Rec
         /\ WithFinal(m, n, keep).rev = m.rev + 1
         /\ WithFinal(m, n, keep).res = m.res
<1>1. m.rev + 1 \in Nat
  BY DEF Rec, Tasks
<1> QED BY <1>1 DEF Rec, Tasks, WithFinal

\* Refreshing is the one operation that may leave the record as it was, and then its
\* revision too.
LEMMA RefreshedType ==
  ASSUME NEW m \in Rec, m.res \in Identities,
         NEW done \in SUBSET Chunk, NEW sized \in BOOLEAN
  PROVE  /\ Refreshed(m, done, sized) \in Rec
         /\ \/ Refreshed(m, done, sized) = m
            \/ Refreshed(m, done, sized).rev = m.rev + 1
         /\ Refreshed(m, done, sized).res \in Identities
         /\ Refreshed(m, done, sized).state = m.state
<1>1. CASE done = m.done /\ sized = m.res.sized
  BY <1>1 DEF Refreshed
<1>2. CASE ~(done = m.done /\ sized = m.res.sized)
  <2> DEFINE r == [m.res EXCEPT !.sized = sized]
  <2>1. r \in Identities
    BY DEF Identities
  <2>2. Refreshed(m, done, sized) = [m EXCEPT !.done = done, !.res = r, !.rev = m.rev + 1]
    BY <1>2 DEF Refreshed, Rec, Tasks, Identities
  <2>3. m.rev + 1 \in Nat
    BY DEF Rec, Tasks
  <2> QED BY <2>1, <2>2, <2>3 DEF Rec, Tasks
<1> QED BY <1>1, <1>2

LEMMA NewTaskType ==
  ASSUME NEW sum \in Body \cup {Blank} PROVE NewTask(sum) \in Rec
BY DEF NewTask, Rec, Tasks, States

LEMMA NormalizedType ==
  ASSUME NEW m \in Rec
  PROVE  /\ Normalized(m) \in Rec
         /\ Normalized(m) = m \/ Normalized(m).rev = m.rev + 1
BY MoveToType, WithoutPartialType DEF Normalized, States

LEMMA ReopenedType ==
  ASSUME NEW m \in Rec, m.res \in Identities, m.partial \in Inode
  PROVE  Reopened(m) \in Files
BY DEF Reopened, Files, Rec, Tasks, Identities

LEMMA AbsentTask == NoTask \notin Rec
<1>1. Rec \subseteq Tasks(Nat, Nat)
  BY BoundsAssumption DEF Rec, Tasks, Inode
<1> QED BY <1>1, AbsenceAssumption

LEMMA NewRunType ==
  ASSUME NEW k \in {"Initial", "Resume"} PROVE NewRun(k) \in Runs
BY BoundsAssumption DEF NewRun, Runs

\* Whatever becomes of a checkpoint, the store holds a record and the fault is counted.
LEMMA SavedType ==
  ASSUME NEW m \in Rec, disk \in Rec \cup {NoTask}, faults \in Nat,
         Saved(m) \/ NotSaved(m)
  PROVE  disk' \in Rec \cup {NoTask} /\ faults' \in Nat
BY DEF Saved, NotSaved, WriteFault

-------------------------------------------------------------------------------
(***************************************************************************)
(* Type correctness.                                                       *)
(***************************************************************************)
LEMMA TypedInit == Init => TypeOK /\ Placed
<1> SUFFICES ASSUME Init PROVE TypeOK /\ Placed
  OBVIOUS
<1>1. finals \in Seq(Inode) /\ content \in [Inode -> [Chunk -> Body \cup {Blank}]]
      /\ synced \in [Inode -> SUBSET Chunk] /\ made \in 0 .. MaxPartials
  BY BoundsAssumption DEF Init
<1>2. TypeOK
  BY <1>1 DEF Init, TypeOK, Steps
<1>3. Placed
  BY DEF Init, Placed, RunSteps, FileSteps
<1> QED BY <1>2, <1>3

LEMMA TypedCommand == ASSUME TypeOK, Placed, Command PROVE TypeOK' /\ Placed'
<1> USE DEF TypeOK, Placed, Rec, Goto, ioVars, ctlVars, engineVars, boundVars,
            Commandable, Managed, RunSteps, FileSteps, Steps, Locks
<1>0. runs + 1 \in Nat
  OBVIOUS
<1>1. ASSUME NEW sum \in Body \cup {Blank}, Create(sum) PROVE TypeOK' /\ Placed'
  BY <1>1, NewTaskType, AbsentTask, SavedType DEF Create
<1>2. CASE Start
  <2> DEFINE m == MoveTo(mem, "Probing")
  <2>1. m \in Rec /\ m.res = mem.res
    BY <1>2, MoveToType DEF Start, States
  <2>2. disk' \in Rec \cup {NoTask} /\ faults' \in Nat
    BY <1>2, <2>1, SavedType DEF Start
  <2>3. CASE Saved(m) /\ mem' = m /\ BeginRun("Initial")
    BY <1>0, <1>2, <2>1, <2>2, <2>3, NewRunType DEF Start, BeginRun
  <2>4. CASE UNCHANGED <<mem, ctlVars, pc, run, runs>>
    BY <1>2, <2>2, <2>4 DEF Start
  <2> QED BY <1>2, <2>3, <2>4 DEF Start
<1>3. CASE Resume
  BY <1>0, <1>3, NewRunType DEF Resume, BeginRun
<1>4. CASE Retry
  BY <1>4, MoveToType, SavedType DEF Retry, States
<1>5. CASE Pause
  BY <1>5 DEF Pause
<1>6. CASE Remove
  BY <1>6 DEF Remove
<1>7. CASE Shutdown
  BY <1>7 DEF Shutdown
<1>8. ASSUME NEW s \in {"cancelKeep", "cancelDelete"}, CancelActive(s)
      PROVE  TypeOK' /\ Placed'
  BY <1>8 DEF CancelActive
<1>9. ASSUME NEW s \in {"cancelKeep", "cancelDelete"}, CancelInactive(s)
      PROVE  TypeOK' /\ Placed'
  BY <1>9, MoveToType, SavedType DEF CancelInactive, States
<1> QED
  BY <1>1, <1>2, <1>3, <1>4, <1>5, <1>6, <1>7, <1>8, <1>9, ChecksumsAssumption DEF Command

LEMMA HandleType ==
  ASSUME TypeOK, Placed, NEW m \in Rec, m.res \in Identities, CanReopen(m)
  PROVE  Handle(m) \in Files
<1>1. CASE file # NoFile
  BY <1>1 DEF Handle, TypeOK
<1>2. CASE file = NoFile
  <2>1. m.partial \in Inode
    BY <1>2 DEF CanReopen, TypeOK
  <2> QED BY <1>2, <2>1, ReopenedType DEF Handle
<1> QED BY <1>1, <1>2

LEMMA EnterTransferType ==
  ASSUME TypeOK, NEW m \in Rec, m.res \in Identities, NEW h \in Files, NEW src,
         EnterTransfer(m, h, src)
  PROVE  /\ mem' \in Rec /\ mem'.res \in Identities /\ mem'.rev = m.rev + 1
         /\ disk' \in Rec \cup {NoTask} /\ faults' \in Nat
         /\ \/ file' = h /\ pc' \in {"errored", "transfer"}
            \/ file' = file /\ pc' = "fail"
<1>1. /\ MoveTo(m, "Downloading") \in Rec
      /\ MoveTo(m, "Downloading").rev = m.rev + 1
      /\ MoveTo(m, "Downloading").res = m.res
  BY MoveToType DEF States
<1>2. disk' \in Rec \cup {NoTask} /\ faults' \in Nat
  BY <1>1, SavedType DEF EnterTransfer, TypeOK, Rec
<1> QED BY <1>1, <1>2 DEF EnterTransfer, Goto

LEMMA TypedPrepare == ASSUME TypeOK, Placed, Prepare PROVE TypeOK' /\ Placed'
<1> USE DEF TypeOK, Placed, Rec, Goto, ioVars, ctlVars, engineVars, boundVars,
            RunSteps, FileSteps, Steps, Locks
<1> DEFINE id == Identity(run.source)
<1>0. served \in Resource /\ (pc = "prepare" => id \in Identities)
  BY OffersAssumption, IdentityType
<1>1. CASE ProbeStops
  BY <1>1 DEF ProbeStops
<1>2. CASE ProbeFails
  BY <1>2 DEF ProbeFails
<1>3. CASE PrepareRefused
  BY <1>3 DEF PrepareRefused
<1>4. CASE PrepareResume
  <2>1. mem \in Rec /\ mem.res \in Identities /\ run.source \in Resource
    BY <1>0, <1>4 DEF PrepareResume, Preparing, Reusable
  <2>2. CASE CanReopen(mem) /\ EnterTransfer(mem, Handle(mem), run.source)
    <3>1. Handle(mem) \in Files
      BY <2>1, <2>2, HandleType
    <3>2. /\ mem' \in Rec /\ mem'.res \in Identities
          /\ disk' \in Rec \cup {NoTask} /\ faults' \in Nat
          /\ \/ file' = Handle(mem) /\ pc' \in {"errored", "transfer"}
             \/ file' = file /\ pc' = "fail"
      BY <2>1, <2>2, <3>1, EnterTransferType
    <3> QED BY <1>4, <2>1, <3>1, <3>2 DEF PrepareResume, Preparing
  <2>3. CASE Goto("fail") /\ UNCHANGED <<mem, disk, file, faults>>
    BY <1>4, <2>3 DEF PrepareResume, Preparing
  <2> QED BY <1>4, <2>2, <2>3 DEF PrepareResume
<1>5. CASE PrepareRetained
  <2> DEFINE m == WithResource(mem, id)
  <2>1. m \in Rec /\ m.res \in Identities /\ run.source \in Resource
    BY <1>0, <1>5, WithResourceType DEF PrepareRetained, Preparing
  <2>2. CASE CanReopen(m) /\ EnterTransfer(m, Handle(m), run.source)
    <3>1. Handle(m) \in Files
      BY <2>1, <2>2, HandleType
    <3>2. /\ mem' \in Rec /\ mem'.res \in Identities
          /\ disk' \in Rec \cup {NoTask} /\ faults' \in Nat
          /\ \/ file' = Handle(m) /\ pc' \in {"errored", "transfer"}
             \/ file' = file /\ pc' = "fail"
      BY <2>1, <2>2, <3>1, EnterTransferType
    <3> QED BY <1>5, <2>1, <3>1, <3>2 DEF PrepareRetained, Preparing
  <2>3. CASE mem' = m /\ Goto("fail") /\ UNCHANGED <<disk, file, faults>>
    BY <1>5, <2>1, <2>3 DEF PrepareRetained, Preparing
  <2> QED BY <1>5, <2>2, <2>3 DEF PrepareRetained
<1>6. CASE CreatePartial
  <2> DEFINE m == WithResource(mem, id)
  <2>1. m \in Rec /\ m.res \in Identities /\ run.source \in Resource
    BY <1>0, <1>6, WithResourceType DEF CreatePartial, Preparing
  <2>2. CASE made < MaxPartials /\ mem' = WithPartial(m, made + 1)
    <3>1. made + 1 \in Inode /\ made + 1 \in 0 .. MaxPartials
      BY <2>2, BoundsAssumption DEF Inode
    <3>2. mem' \in Rec /\ mem'.res \in Identities /\ mem'.partial \in Inode
      BY <2>1, <2>2, <3>1, WithPartialType
    <3>3. content' \in [Inode -> [Chunk -> Body \cup {Blank}]]
      BY <1>6, <2>1 DEF CreatePartial, Resource
    <3> QED BY <1>6, <2>1, <2>2, <3>1, <3>2, <3>3 DEF CreatePartial, Preparing
  <2>3. CASE mem' = m /\ Goto("fail") /\ UNCHANGED <<made, parts, content>>
    BY <1>6, <2>1, <2>3 DEF CreatePartial, Preparing
  <2> QED BY <1>6, <2>2, <2>3 DEF CreatePartial
<1>7. CASE Attach
  <2>1. Reopened(mem) \in Files /\ mem \in Rec /\ mem.res \in Identities
    BY <1>7, ReopenedType DEF Attach
  <2>2. /\ mem' \in Rec /\ mem'.res \in Identities
        /\ disk' \in Rec \cup {NoTask} /\ faults' \in Nat
        /\ \/ file' = Reopened(mem) /\ pc' \in {"errored", "transfer"}
           \/ file' = file /\ pc' = "fail"
    BY <1>7, <2>1, EnterTransferType DEF Attach
  <2> QED BY <1>7, <2>1, <2>2 DEF Attach
<1>8. CASE ProbeAnswers
  <2>1. run' \in Runs /\ run'.source \in Resource
    BY <1>0, <1>8 DEF ProbeAnswers, Runs
  <2> QED BY <1>8, <2>1 DEF ProbeAnswers
<1>9. CASE ProbeRetries
  <2>1. run \in Runs /\ run.tries + 1 \in 0 .. MaxRetries
    BY <1>9, BoundsAssumption DEF ProbeRetries, ScheduleRetry, Runs
  <2>2. run' \in Runs /\ run'.source = run.source
    BY <1>9, <2>1 DEF ProbeRetries, ScheduleRetry, Runs
  <2> QED BY <1>9, <2>2 DEF ProbeRetries
<1> QED BY <1>1, <1>2, <1>3, <1>4, <1>5, <1>6, <1>7, <1>8, <1>9 DEF Prepare

LEMMA DurableType ==
  ASSUME file \in Files, mem \in Rec, mem.res \in Identities
  PROVE  /\ Durable \in Rec /\ Durable.res \in Identities /\ Durable.state = mem.state
         /\ Durable = mem \/ Durable.rev = mem.rev + 1
BY RefreshedType DEF Durable, Files

\* A checkpoint of the durable coverage, whether it succeeds, is deferred or fails.
LEMMA RefreshType ==
  ASSUME TypeOK, file \in Files, mem \in Rec, mem.res \in Identities,
         \/ Flush /\ mem' = Durable /\ (Saved(Durable) \/ UNCHANGED <<disk, faults>>)
         \/ NotRefreshed
  PROVE  /\ mem' \in Rec /\ mem'.res \in Identities /\ mem'.state = mem.state
         /\ disk' \in Rec \cup {NoTask} /\ faults' \in Nat
         /\ synced' \in [Inode -> SUBSET Chunk]
<1>1. mem' \in Rec /\ mem'.res \in Identities /\ mem'.state = mem.state
  BY DurableType DEF NotRefreshed
<1>2. disk' \in Rec \cup {NoTask} /\ faults' \in Nat
  BY DurableType, SavedType DEF NotRefreshed, TypeOK, Rec, WriteFault
<1>3. synced' \in [Inode -> SUBSET Chunk]
  BY DEF NotRefreshed, Flush, TypeOK
<1> QED BY <1>1, <1>2, <1>3

LEMMA PutType ==
  ASSUME TypeOK, file \in Files, NEW c \in Chunk, NEW b \in Body \cup {Blank}, Put(c, b)
  PROVE  /\ content' \in [Inode -> [Chunk -> Body \cup {Blank}]]
         /\ synced' \in [Inode -> SUBSET Chunk]
BY DEF TypeOK, Put, Files

LEMMA TypedTransfer ==
  ASSUME TypeOK, Placed, Transfer \/ Settle PROVE TypeOK' /\ Placed'
<1> USE DEF TypeOK, Placed, Rec, Goto, ioVars, ctlVars, engineVars, boundVars,
            RunSteps, FileSteps, Steps, Locks
<1>0. served \in Resource
  BY OffersAssumption
<1>1. ASSUME NEW c \in Chunk, CommitRange(c) PROVE TypeOK' /\ Placed'
  <2>1. /\ content' \in [Inode -> [Chunk -> Body \cup {Blank}]]
        /\ synced' \in [Inode -> SUBSET Chunk]
    BY <1>0, <1>1, PutType DEF CommitRange, Resource
  <2>2. file' \in Files
    BY <1>1 DEF CommitRange, Files
  <2> QED BY <1>1, <2>1, <2>2 DEF CommitRange
<1>2. ASSUME NEW c \in Chunk, TearRange(c) PROVE TypeOK' /\ Placed'
  <2>1. /\ content' \in [Inode -> [Chunk -> Body \cup {Blank}]]
        /\ synced' \in [Inode -> SUBSET Chunk]
    BY <1>2, PutType DEF TearRange
  <2> QED BY <1>2, <2>1 DEF TearRange
<1>3. ASSUME NEW c \in Chunk, StreamWrite(c) PROVE TypeOK' /\ Placed'
  <2>1. /\ content' \in [Inode -> [Chunk -> Body \cup {Blank}]]
        /\ synced' \in [Inode -> SUBSET Chunk]
    BY <1>3, PutType DEF StreamWrite, Runs
  <2> QED BY <1>3, <2>1 DEF StreamWrite
<1>4. CASE BeginStream
  <2>1. run' \in Runs /\ run'.source = run.source
    BY <1>0, <1>4 DEF BeginStream, Runs, Resource
  <2>2. /\ content' \in [Inode -> [Chunk -> Body \cup {Blank}]]
        /\ synced' \in [Inode -> SUBSET Chunk]
    <3>1. file.ino \in Inode
      BY <1>4 DEF BeginStream, Files
    <3>2. CASE UNCHANGED <<content, synced>>
      BY <3>2
    <3>3. CASE /\ content' = [content EXCEPT ![file.ino] = [c \in Chunk |-> Blank]]
               /\ synced' = [synced EXCEPT ![file.ino] = {}]
      BY <3>1, <3>3
    <3> QED BY <1>4, <3>2, <3>3 DEF BeginStream
  <2> QED BY <1>4, <2>1, <2>2 DEF BeginStream
<1>5. CASE EndStream
  <2>1. run' \in Runs /\ run'.source = run.source
    BY <1>5 DEF EndStream, Runs
  <2>2. file' \in Files /\ synced' \in [Inode -> SUBSET Chunk]
    BY <1>5 DEF EndStream, Files
  <2> QED BY <1>5, <2>1, <2>2 DEF EndStream
<1>6. CASE CheckpointProgress
  <2>1. /\ mem' \in Rec /\ mem'.res \in Identities
        /\ disk' \in Rec \cup {NoTask} /\ faults' \in Nat
        /\ synced' \in [Inode -> SUBSET Chunk]
    BY <1>6, RefreshType DEF CheckpointProgress
  <2>2. cancelled' \in BOOLEAN /\ run' \in Runs /\ run'.source = run.source
    BY <1>6 DEF CheckpointProgress, Runs
  <2> QED BY <1>6, <2>1, <2>2 DEF CheckpointProgress
<1>7. CASE TransferReturns
  <2>1. run' \in Runs /\ run'.source = run.source
    BY <1>7 DEF TransferReturns, Runs
  <2> QED BY <1>7, <2>1 DEF TransferReturns
<1>8. CASE AfterTransfer
  <2>1. /\ mem' \in Rec /\ mem'.res \in Identities
        /\ disk' \in Rec \cup {NoTask} /\ faults' \in Nat
        /\ synced' \in [Inode -> SUBSET Chunk]
    BY <1>8, RefreshType DEF AfterTransfer, Boundary
  <2>2. CASE run' = run /\ pc' \in {"stop", "complete", "fail"}
    BY <1>8, <2>1, <2>2 DEF AfterTransfer
  <2>3. CASE ScheduleRetry /\ pc' = "transfer"
    <3>1. run.tries + 1 \in 0 .. MaxRetries
      BY <1>8, <2>3, BoundsAssumption DEF AfterTransfer, ScheduleRetry, Runs
    <3>2. run' \in Runs /\ run'.source = run.source
      BY <1>8, <2>3, <3>1 DEF AfterTransfer, ScheduleRetry, Runs
    <3> QED BY <1>8, <2>1, <2>3, <3>2 DEF AfterTransfer
  <2> QED BY <1>8, <2>2, <2>3 DEF AfterTransfer, Boundary
<1> QED BY <1>1, <1>2, <1>3, <1>4, <1>5, <1>6, <1>7, <1>8 DEF Transfer, Settle

LEMMA TypedComplete == ASSUME TypeOK, Placed, Complete PROVE TypeOK' /\ Placed'
<1> USE DEF TypeOK, Placed, Rec, Goto, ioVars, ctlVars, engineVars, boundVars,
            RunSteps, FileSteps, Steps, Locks
<1>1. ASSUME NEW s \in States, NEW next, NEW onStop, NEW onFault, mem \in Rec,
             Advance(s, next, onStop, onFault)
      PROVE  /\ mem' \in Rec /\ mem'.res = mem.res
             /\ disk' \in Rec \cup {NoTask} /\ faults' \in Nat
             /\ pc' \in {next, onStop, onFault}
  BY <1>1, MoveToType, SavedType DEF Advance
<1>2. ASSUME file \in Files,
             NEW l \in {"Active", "Validating", "Validated", "Published"}
      PROVE  WithLife(l) \in Files
  BY <1>2 DEF WithLife, Files
<1>3. CASE EnterValidating
  <2>1. /\ mem' \in Rec /\ mem'.res = mem.res
        /\ disk' \in Rec \cup {NoTask} /\ faults' \in Nat
        /\ pc' \in {"validate", "stop", "fail"}
    BY <1>1, <1>3 DEF EnterValidating, States
  <2> QED BY <1>3, <2>1 DEF EnterValidating
<1>4. CASE Validate
  <2>1. file' \in Files /\ synced' \in [Inode -> SUBSET Chunk]
    BY <1>2, <1>4 DEF Validate, Flush
  <2> QED BY <1>4, <2>1 DEF Validate
<1>5. CASE EnterPromoting
  <2>1. /\ mem' \in Rec /\ mem'.res = mem.res
        /\ disk' \in Rec \cup {NoTask} /\ faults' \in Nat
        /\ pc' \in {"publish", "stop", "fail"}
    BY <1>1, <1>5 DEF EnterPromoting, States
  <2>2. file' \in Files
    BY <1>2, <1>5 DEF EnterPromoting
  <2> QED BY <1>5, <2>1, <2>2 DEF EnterPromoting
<1>6. CASE Publish
  <2>1. file' \in Files /\ finals' \in Seq(Inode) /\ pc' \in {"linked", "fail"}
    <3>1. file.ino \in Inode
      BY <1>6 DEF Publish, Files
    <3>2. Append(finals, file.ino) \in Seq(Inode)
      BY <3>1
    <3>3. file' \in Files
      BY <1>2, <1>6 DEF Publish
    <3> QED BY <1>6, <3>2, <3>3 DEF Publish
  <2> QED BY <1>6, <2>1 DEF Publish
<1>7. CASE RecordPromotion
  <2> DEFINE m == WithFinal(mem, Len(finals), pc = "linked")
  <2>1. m \in Rec /\ m.res = mem.res
    <3>1. Len(finals) \in Nat /\ (pc = "linked") \in BOOLEAN
      OBVIOUS
    <3> QED BY <1>7, <3>1, WithFinalType DEF RecordPromotion
  <2>2. mem' = m /\ (Saved(m) \/ NotSaved(m))
    BY <1>7 DEF RecordPromotion
  <2>3. disk' \in Rec \cup {NoTask} /\ faults' \in Nat
    BY <2>1, <2>2, SavedType
  <2> HIDE DEF m
  <2>4. CASE pc' \in {"recorded", "finish"} /\ UNCHANGED <<ctlVars, run>>
    BY <1>7, <2>1, <2>2, <2>3, <2>4 DEF RecordPromotion
  <2>5. CASE EndRun
    BY <1>7, <2>1, <2>2, <2>3, <2>5 DEF RecordPromotion, EndRun
  <2> QED BY <1>7, <2>4, <2>5 DEF RecordPromotion
<1>8. CASE CleanupPartial
  BY <1>8 DEF CleanupPartial
<1>9. CASE EnterCompleted
  <2>0. MoveTo(mem, "Completed") \in Rec /\ MoveTo(mem, "Completed").res = mem.res
    BY <1>9, MoveToType DEF EnterCompleted, States
  <2>1. /\ mem' \in Rec /\ mem'.res = mem.res
        /\ disk' \in Rec \cup {NoTask} /\ faults' \in Nat
    BY <1>9, <2>0, SavedType DEF EnterCompleted
  <2> QED BY <1>9, <2>1 DEF EnterCompleted, EndRun
<1>10. CASE Completed
  BY <1>10 DEF Completed, EndRun
<1> QED BY <1>3, <1>4, <1>5, <1>6, <1>7, <1>8, <1>9, <1>10 DEF Complete

LEMMA TypedFinish == ASSUME TypeOK, Placed, Finish PROVE TypeOK' /\ Placed'
<1> USE DEF TypeOK, Placed, Rec, Goto, ioVars, ctlVars, engineVars, boundVars,
            RunSteps, FileSteps, Steps, Locks
<1>1. CASE StopBoundary
  <2>1. CASE UNCHANGED <<mem, disk, run, synced, faults>> /\ Goto("halt")
    BY <1>1, <2>1 DEF StopBoundary
  <2>2. CASE file # NoFile /\ Boundary(Goto("halt") /\ UNCHANGED run)
    <3>1. /\ mem' \in Rec /\ mem'.res \in Identities
          /\ disk' \in Rec \cup {NoTask} /\ faults' \in Nat
          /\ synced' \in [Inode -> SUBSET Chunk]
      BY <2>2, RefreshType DEF Boundary
    <3>2. run' = run /\ pc' \in {"halt", "fail"}
      BY <2>2 DEF Boundary
    <3> QED BY <1>1, <3>1, <3>2 DEF StopBoundary
  <2> QED BY <1>1, <2>1, <2>2 DEF StopBoundary
<1>2. CASE ApplyStop
  <2>1. StopTarget \in States
    BY DEF StopTarget, States
  <2>2. /\ MoveTo(mem, StopTarget) \in Rec /\ MoveTo(mem, StopTarget).res = mem.res
        /\ MoveTo(mem, "Failed") \in Rec /\ MoveTo(mem, "Failed").res = mem.res
    BY <1>2, <2>1, MoveToType DEF ApplyStop, States
  <2>3. mem' \in Rec /\ mem'.res = mem.res /\ disk' \in Rec \cup {NoTask}
    BY <1>2, <2>2, SavedType DEF ApplyStop, MarkStopFailed
  <2>4. faults' \in Nat
    <3>1. faults + 1 \in Nat /\ faults + 2 \in Nat
      OBVIOUS
    <3> QED BY <1>2, <2>2, <3>1, SavedType DEF ApplyStop, MarkStopFailed, WriteFault
  <2> QED BY <1>2, <2>3, <2>4 DEF ApplyStop, EndRun
<1>3. CASE FailRun
  <2>1. mem' \in Rec /\ mem'.res = mem.res /\ disk' \in Rec \cup {NoTask} /\ faults' \in Nat
    BY <1>3, MoveToType, SavedType DEF FailRun, States
  <2>2. CASE Goto("discard") /\ UNCHANGED <<ctlVars, run>>
    BY <1>3, <2>1, <2>2 DEF FailRun
  <2>3. CASE EndRun
    BY <1>3, <2>1, <2>3 DEF FailRun, EndRun
  <2> QED BY <1>3, <2>2, <2>3 DEF FailRun
<1>4. CASE Discard
  <2>1. CASE Goto("forget") /\ UNCHANGED <<ctlVars, run>>
    BY <1>4, <2>1 DEF Discard
  <2>2. CASE EndRun
    BY <1>4, <2>2 DEF Discard, EndRun
  <2> QED BY <1>4, <2>1, <2>2 DEF Discard
<1>5. CASE Forget
  <2>1. mem' \in Rec /\ mem'.res = mem.res /\ disk' \in Rec \cup {NoTask} /\ faults' \in Nat
    BY <1>5, WithoutPartialType, SavedType DEF Forget
  <2> QED BY <1>5, <2>1 DEF Forget, EndRun
<1>6. CASE Purge
  <2>1. faults' \in Nat
    BY <1>6 DEF Purge, WriteFault
  <2> QED BY <1>6, <2>1 DEF Purge
<1> QED BY <1>1, <1>2, <1>3, <1>4, <1>5, <1>6 DEF Finish

LEMMA TypedNext == ASSUME TypeOK, Placed, [Next]_vars PROVE TypeOK' /\ Placed'
<1> USE DEF TypeOK, Placed, Rec, Goto, ioVars, ctlVars, engineVars, boundVars,
            RunSteps, FileSteps, Steps, Locks
<1>1. CASE Exit
  BY <1>1 DEF Exit, Down, EndRun
<1>2. CASE Crash
  <2>1. content' \in [Inode -> [Chunk -> Body \cup {Blank}]]
    BY <1>2 DEF Crash
  <2>2. crashes' \in Nat /\ synced' \in [Inode -> SUBSET Chunk]
    BY <1>2 DEF Crash
  <2> QED BY <1>2, <2>1, <2>2 DEF Crash, Down, EndRun
<1>3. CASE Open
  <2>1. CASE disk # NoTask /\ Loadable(disk, parts, finals)
    <3>1. Normalized(disk) \in Rec
      BY <2>1, NormalizedType
    <3>2. disk' \in Rec \cup {NoTask} /\ faults' \in Nat
      BY <1>3, <2>1, <3>1, SavedType DEF Open
    <3> QED BY <1>3, <2>1, <3>1, <3>2 DEF Open
  <2>2. CASE ~(disk # NoTask /\ Loadable(disk, parts, finals))
    BY <1>3, <2>2 DEF Open
  <2> QED BY <2>1, <2>2
<1>4. CASE ServerChanges
  <2>1. changes' \in Nat /\ served' \in Offers
    BY <1>4 DEF ServerChanges
  <2> QED BY <1>4, <2>1 DEF ServerChanges
<1>5. CASE UNCHANGED vars
  BY <1>5 DEF vars
<1> QED BY <1>1, <1>2, <1>3, <1>4, <1>5, TypedCommand, TypedPrepare, TypedTransfer,
           TypedComplete, TypedFinish DEF Next

LEMMA Typed == Spec => [](TypeOK /\ Placed)
BY TypedInit, TypedNext, PTL DEF Spec

\* Every variable keeps its type, whatever the sets and the bounds: every step finds the
\* record, the run, the handle and the probed resource it works on.
THEOREM TypeCorrect == Spec => []TypeOK
BY Typed, PTL

-------------------------------------------------------------------------------
(***************************************************************************)
(* Revisions.                                                              *)
(***************************************************************************)
\* What every step does that changes the record of a task the engine holds: the record
\* stays or moves to a later revision, and the store keeps its own or takes the new one.
RecordStep ==
  \E m \in Rec : /\ mem' = m
                 /\ m = mem \/ m.rev > mem.rev
                 /\ Saved(m) \/ disk' = disk \/ disk' = m

LEMMA RecordStepKeepsRevisions ==
  ASSUME TypeOK, mem \in Rec, RevisionIdentifiesRecord, RecordStep
  PROVE  RevisionIdentifiesRecord'
<1>1. PICK m \in Rec : /\ mem' = m
                       /\ m = mem \/ m.rev > mem.rev
                       /\ Saved(m) \/ disk' = disk \/ disk' = m
  BY DEF RecordStep
<1>2. mem # NoTask /\ m # NoTask
  BY AbsentTask
<1>3. disk \in Rec /\ disk.rev <= mem.rev /\ (disk.rev = mem.rev => disk = mem)
  BY <1>2 DEF RevisionIdentifiesRecord, TypeOK, Rec
<1>4. mem.rev \in Nat /\ m.rev \in Nat /\ disk.rev \in Nat
  BY <1>3 DEF Rec, Tasks
<1>5. CASE disk' = disk
  BY <1>1, <1>2, <1>3, <1>4, <1>5, AbsentTask DEF RevisionIdentifiesRecord
<1>6. CASE disk' = m
  BY <1>1, <1>2, <1>4, <1>6 DEF RevisionIdentifiesRecord
<1> QED BY <1>1, <1>5, <1>6 DEF Saved

LEMMA RecordStepUnchanged ==
  ASSUME mem \in Rec, UNCHANGED <<mem, disk>> PROVE RecordStep
BY DEF RecordStep

LEMMA RecordStepRefresh ==
  ASSUME TypeOK, file \in Files, mem \in Rec, mem.res \in Identities,
         \/ mem' = Durable /\ (Saved(Durable) \/ UNCHANGED disk)
         \/ NotRefreshed
  PROVE  RecordStep
<1>1. Durable \in Rec /\ (Durable = mem \/ Durable.rev > mem.rev)
  BY DurableType DEF Rec, Tasks
<1> QED BY <1>1 DEF RecordStep, NotRefreshed, NotSaved

LEMMA RecordStepMove ==
  ASSUME mem \in Rec, NEW s \in States,
         \/ mem' = MoveTo(mem, s) /\ (\/ Saved(MoveTo(mem, s))
                                    \/ NotSaved(MoveTo(mem, s))
                                    \/ disk' = MoveTo(mem, s))
         \/ mem' = mem /\ NotSaved(MoveTo(mem, s))
  PROVE  RecordStep
<1>1. MoveTo(mem, s) \in Rec /\ MoveTo(mem, s).rev > mem.rev
  BY MoveToType DEF Rec, Tasks
<1> QED BY <1>1 DEF RecordStep, NotSaved

LEMMA RecordStepEnter ==
  ASSUME mem \in Rec, NEW m \in Rec, m.rev >= mem.rev, NEW h, NEW src,
         EnterTransfer(m, h, src)
  PROVE  RecordStep
<1>1. MoveTo(m, "Downloading") \in Rec /\ MoveTo(m, "Downloading").rev > mem.rev
  BY MoveToType DEF States, Rec, Tasks
<1> QED BY <1>1 DEF RecordStep, EnterTransfer, NotSaved

LEMMA RecordStepCommand ==
  ASSUME TypeOK, Placed, mem \in Rec, Command PROVE RecordStep
<1> USE DEF States, ioVars, ctlVars, engineVars, boundVars
<1>1. ASSUME NEW sum \in Body \cup {Blank}, Create(sum) PROVE RecordStep
  BY <1>1, AbsentTask DEF Create
<1>2. CASE Start
  BY <1>2, RecordStepMove DEF Start
<1>3. CASE Retry
  BY <1>3, RecordStepMove DEF Retry
<1>4. ASSUME NEW s \in {"cancelKeep", "cancelDelete"}, CancelInactive(s)
      PROVE  RecordStep
  BY <1>4, RecordStepMove DEF CancelInactive
<1>5. ASSUME NEW s \in {"cancelKeep", "cancelDelete"}, CancelActive(s)
      PROVE  RecordStep
  BY <1>5, RecordStepUnchanged DEF CancelActive
<1>6. CASE Resume \/ Pause \/ Remove \/ Shutdown
  BY <1>6, RecordStepUnchanged DEF Resume, Pause, Remove, Shutdown
<1> QED BY <1>1, <1>2, <1>3, <1>4, <1>5, <1>6, ChecksumsAssumption DEF Command

LEMMA RecordStepPrepare ==
  ASSUME TypeOK, Placed, mem \in Rec, Prepare PROVE RecordStep
<1> USE DEF ioVars, ctlVars, engineVars, boundVars
<1> DEFINE m == WithResource(mem, Identity(run.source))
<1>0. mem.rev \in Nat
  BY DEF Rec, Tasks
<1>9. pc = "prepare" => m \in Rec /\ m.rev > mem.rev /\ m.rev \in Nat
  <2>1. pc = "prepare" => Identity(run.source) \in Identities
    BY IdentityType DEF Placed
  <2> QED BY <2>1, WithResourceType DEF Rec, Tasks
<1> HIDE DEF m
<1>1. CASE ProbeStops \/ ProbeRetries \/ ProbeFails \/ ProbeAnswers \/ PrepareRefused
  BY <1>1, RecordStepUnchanged
     DEF ProbeStops, ProbeRetries, ProbeFails, ProbeAnswers, PrepareRefused
<1>2. CASE PrepareResume
  <2>1. CASE EnterTransfer(mem, Handle(mem), run.source)
    BY <1>0, <2>1, RecordStepEnter
  <2>2. CASE UNCHANGED <<mem, disk>>
    BY <2>2, RecordStepUnchanged
  <2> QED BY <1>2, <2>1, <2>2 DEF PrepareResume
<1>3. CASE PrepareRetained
  <2>0. m \in Rec /\ m.rev > mem.rev /\ m.rev \in Nat
    BY <1>3, <1>9 DEF PrepareRetained, Preparing
  <2>1. CASE EnterTransfer(m, Handle(m), run.source)
    BY <1>0, <2>0, <2>1, RecordStepEnter
  <2>2. CASE mem' = m /\ disk' = disk
    BY <2>0, <2>2 DEF RecordStep
  <2> QED BY <1>3, <2>1, <2>2 DEF PrepareRetained, m
<1>4. CASE CreatePartial
  <2>0. m \in Rec /\ m.rev > mem.rev /\ m.rev \in Nat
    BY <1>4, <1>9 DEF CreatePartial, Preparing
  <2>1. CASE mem' = m
    BY <2>0, <1>4, <2>1 DEF RecordStep, CreatePartial
  <2>2. CASE made < MaxPartials /\ mem' = WithPartial(m, made + 1)
    <3>1. made + 1 \in Inode
      BY <2>2, BoundsAssumption DEF TypeOK, Inode
    <3>2. WithPartial(m, made + 1) \in Rec /\ WithPartial(m, made + 1).rev = m.rev + 1
      BY <2>0, <3>1, WithPartialType
    <3>3. WithPartial(m, made + 1).rev > mem.rev
      BY <1>0, <2>0, <3>2
    <3> QED BY <1>4, <2>2, <3>2, <3>3 DEF RecordStep, CreatePartial
  <2> QED BY <1>4, <2>1, <2>2 DEF CreatePartial, m
<1>5. CASE Attach
  BY <1>0, <1>5, RecordStepEnter DEF Attach
<1> QED BY <1>1, <1>2, <1>3, <1>4, <1>5 DEF Prepare

LEMMA RecordStepTransfer ==
  ASSUME TypeOK, Placed, mem \in Rec, Transfer \/ Settle PROVE RecordStep
<1> USE DEF ioVars, ctlVars, engineVars, boundVars
<1>1. ASSUME NEW c \in Chunk, CommitRange(c) \/ TearRange(c) \/ StreamWrite(c)
      PROVE  RecordStep
  BY <1>1, RecordStepUnchanged DEF CommitRange, TearRange, StreamWrite
<1>2. CASE BeginStream \/ EndStream \/ TransferReturns
  BY <1>2, RecordStepUnchanged DEF BeginStream, EndStream, TransferReturns
<1>3. CASE CheckpointProgress
  BY <1>3, RecordStepRefresh DEF CheckpointProgress, Placed, FileSteps
<1>4. CASE AfterTransfer
  BY <1>4, RecordStepRefresh DEF AfterTransfer, Boundary, Placed, FileSteps
<1> QED BY <1>1, <1>2, <1>3, <1>4 DEF Transfer, Settle

LEMMA RecordStepComplete ==
  ASSUME TypeOK, Placed, mem \in Rec, Complete PROVE RecordStep
<1> USE DEF ioVars, ctlVars, engineVars, boundVars, States
<1>1. CASE EnterValidating
  BY <1>1, RecordStepMove, RecordStepUnchanged DEF EnterValidating, Advance
<1>2. CASE EnterPromoting
  BY <1>2, RecordStepMove, RecordStepUnchanged DEF EnterPromoting, Advance
<1>3. CASE RecordPromotion
  <2> DEFINE m == WithFinal(mem, Len(finals), pc = "linked")
  <2>1. Len(finals) \in Nat /\ (pc = "linked") \in BOOLEAN
    BY DEF TypeOK
  <2>2. m \in Rec /\ m.rev > mem.rev
    <3>1. m \in Rec /\ m.rev = mem.rev + 1
      BY <2>1, WithFinalType
    <3>2. mem.rev \in Nat
      BY DEF Rec, Tasks
    <3> QED BY <3>1, <3>2
  <2>3. mem' = m /\ (Saved(m) \/ NotSaved(m))
    BY <1>3 DEF RecordPromotion
  <2> QED BY <2>2, <2>3 DEF RecordStep, NotSaved
<1>4. CASE EnterCompleted
  BY <1>4, RecordStepMove DEF EnterCompleted
<1>5. CASE Validate \/ Publish \/ CleanupPartial \/ Completed
  BY <1>5, RecordStepUnchanged DEF Validate, Publish, CleanupPartial, Completed
<1> QED BY <1>1, <1>2, <1>3, <1>4, <1>5 DEF Complete

LEMMA RecordStepFinish ==
  ASSUME TypeOK, Placed, mem \in Rec, Finish, mem' # NoTask PROVE RecordStep
<1> USE DEF ioVars, ctlVars, engineVars, boundVars, States
<1>1. CASE StopBoundary
  <2>1. CASE UNCHANGED <<mem, disk>>
    BY <2>1, RecordStepUnchanged
  <2>2. CASE file # NoFile /\ Boundary(Goto("halt") /\ UNCHANGED run)
    BY <2>2, RecordStepRefresh DEF Boundary, Placed, TypeOK
  <2> QED BY <1>1, <2>1, <2>2 DEF StopBoundary
<1>2. CASE ApplyStop
  <2>1. StopTarget \in States
    BY DEF StopTarget
  <2>2. \/ UNCHANGED <<mem, disk>>
        \/ Saved(MoveTo(mem, StopTarget)) /\ mem' = MoveTo(mem, StopTarget)
        \/ mem' = MoveTo(mem, "Failed") /\ disk' \in {disk, MoveTo(mem, "Failed")}
    BY <1>2 DEF ApplyStop, MarkStopFailed
  <2>3. MoveTo(mem, "Failed") \in Rec /\ MoveTo(mem, "Failed").rev > mem.rev
    BY MoveToType DEF Rec, Tasks
  <2> QED BY <2>1, <2>2, <2>3, RecordStepUnchanged, RecordStepMove DEF RecordStep
<1>3. CASE FailRun
  BY <1>3, RecordStepMove, RecordStepUnchanged DEF FailRun
<1>4. CASE Discard
  BY <1>4, RecordStepUnchanged DEF Discard
<1>5. CASE Forget
  <2>1. WithoutPartial(mem) \in Rec /\ WithoutPartial(mem).rev > mem.rev
    BY WithoutPartialType DEF Rec, Tasks
  <2> QED BY <1>5, <2>1 DEF Forget, RecordStep, NotSaved
<1>6. CASE Purge
  BY <1>6, RecordStepUnchanged DEF Purge
<1> QED BY <1>1, <1>2, <1>3, <1>4, <1>5, <1>6 DEF Finish

LEMMA RevisionsNext ==
  ASSUME TypeOK, Placed, RevisionIdentifiesRecord, [Next]_vars
  PROVE  RevisionIdentifiesRecord'
<1> USE DEF ioVars, ctlVars, engineVars, boundVars
<1>1. CASE mem' = NoTask
  BY <1>1 DEF RevisionIdentifiesRecord
<1>2. CASE mem \in Rec /\ mem' # NoTask
  <2>1. CASE Exit \/ Crash
    BY <1>2, <2>1 DEF Exit, Crash, Down
  <2>2. CASE Open
    BY <1>2, <2>2, AbsentTask DEF Open, Placed
  <2>3. CASE ServerChanges \/ UNCHANGED vars
    BY <1>2, <2>3, RecordStepUnchanged, RecordStepKeepsRevisions DEF ServerChanges, vars
  <2> QED BY <1>2, <2>1, <2>2, <2>3, RecordStepCommand, RecordStepPrepare,
             RecordStepTransfer, RecordStepComplete, RecordStepFinish,
             RecordStepKeepsRevisions DEF Next
<1>3. CASE mem = NoTask /\ mem' # NoTask
  <2>1. pc = "idle"
    BY <1>3, AbsentTask DEF Placed, TypeOK
  <2>2. \/ \E sum \in Body \cup {Blank} : Create(sum)
        \/ Open
    BY <1>3, <2>1, ChecksumsAssumption
       DEF Next, vars, Command, Start, Resume, Retry, Pause, Remove, Shutdown, CancelActive,
           CancelInactive, Managed, Prepare, ProbeStops, ProbeRetries, ProbeFails, ProbeAnswers,
           PrepareRefused, Preparing, PrepareResume, PrepareRetained, CreatePartial, Attach, Transfer,
           CommitRange, TearRange, StreamWrite, BeginStream, EndStream, CheckpointProgress, Settle,
           TransferReturns, AfterTransfer, Complete, EnterValidating, Validate,
           EnterPromoting, Publish, RecordPromotion, CleanupPartial, EnterCompleted,
           Completed, Finish, StopBoundary, ApplyStop, FailRun, Discard, Forget, Purge,
           Exit, Crash, Down, ServerChanges
  <2>3. ASSUME NEW sum \in Body \cup {Blank}, Create(sum)
        PROVE  RevisionIdentifiesRecord'
    <3>1. NewTask(sum) \in Rec /\ NewTask(sum) # NoTask /\ NewTask(sum).rev \in Nat
      BY NewTaskType, AbsentTask DEF Rec, Tasks
    <3> QED BY <1>3, <2>3, <3>1 DEF Create, Saved, RevisionIdentifiesRecord
  <2>4. CASE Open
    <3>1. disk \in Rec /\ mem' = Normalized(disk) /\ Saved(Normalized(disk))
      BY <1>3, <2>4 DEF Open, TypeOK, Rec
    <3>2. /\ Normalized(disk) \in Rec /\ disk.rev \in Nat
          /\ Normalized(disk) = disk \/ Normalized(disk).rev = disk.rev + 1
      BY <3>1, NormalizedType DEF Rec, Tasks
    <3>3. disk' = Normalized(disk) /\ disk' # NoTask /\ disk'.rev \in Nat
      BY <3>1, <3>2, AbsentTask DEF Saved, Rec, Tasks
    <3> QED BY <3>1, <3>3 DEF RevisionIdentifiesRecord
  <2> QED BY <2>2, <2>3, <2>4
<1> QED BY <1>1, <1>2, <1>3 DEF TypeOK, Rec

\* No two records of a task share a revision, so the store may skip the write of a
\* revision it already holds, and no checkpoint of a live task is stale.
THEOREM RevisionsIdentify == Spec => []RevisionIdentifiesRecord
<1>1. Init => RevisionIdentifiesRecord
  BY DEF Init, RevisionIdentifiesRecord
<1>2. (TypeOK /\ Placed) /\ RevisionIdentifiesRecord /\ [Next]_vars
        => RevisionIdentifiesRecord'
  BY RevisionsNext
<1> QED BY <1>1, <1>2, Typed, PTL DEF Spec

-------------------------------------------------------------------------------
(***************************************************************************)
(* The reason of a stop.                                                   *)
(***************************************************************************)
LEMMA ReasonedNext ==
  ASSUME TypeOK, Placed, Reasoned, [Next]_vars PROVE Reasoned'
<1> USE DEF Reasoned, StopHasReason, Placed, RunSteps, FileSteps, Goto, ioVars, ctlVars,
            engineVars, boundVars
<1>1. CASE Command
  <2>1. ASSUME NEW sum \in Body \cup {Blank}, Create(sum) PROVE Reasoned'
    BY <2>1 DEF Create
  <2>2. CASE Start
    BY <2>2 DEF Start, Managed, Commandable, BeginRun, NewRun
  <2>3. CASE Resume
    BY <2>3 DEF Resume, BeginRun, NewRun
  <2>4. CASE Retry \/ Remove
    BY <2>4 DEF Retry, Remove
  <2>5. CASE Pause
    BY <2>5 DEF Pause
  <2>6. CASE Shutdown
    BY <2>6 DEF Shutdown
  <2>7. ASSUME NEW s \in {"cancelKeep", "cancelDelete"}, CancelActive(s) \/ CancelInactive(s)
        PROVE  Reasoned'
    BY <2>7 DEF CancelActive, CancelInactive
  <2> QED
    BY <1>1, <2>1, <2>2, <2>3, <2>4, <2>5, <2>6, <2>7, ChecksumsAssumption DEF Command
<1>2. CASE Prepare
  <2>1. CASE ProbeStops \/ ProbeRetries \/ ProbeFails \/ ProbeAnswers \/ PrepareRefused
    BY <2>1 DEF ProbeStops, ProbeRetries, ScheduleRetry, ProbeFails, ProbeAnswers,
                PrepareRefused, Runs
  <2>2. CASE PrepareResume
    BY <2>2 DEF PrepareResume, Preparing, EnterTransfer
  <2>3. CASE PrepareRetained
    BY <2>3 DEF PrepareRetained, Preparing, EnterTransfer
  <2>4. CASE CreatePartial
    BY <2>4 DEF CreatePartial, Preparing
  <2>5. CASE Attach
    BY <2>5 DEF Attach, EnterTransfer
  <2> QED BY <1>2, <2>1, <2>2, <2>3, <2>4, <2>5 DEF Prepare
<1>3. CASE Transfer
  <2>1. ASSUME NEW c \in Chunk, CommitRange(c) \/ TearRange(c) \/ StreamWrite(c)
        PROVE  Reasoned'
    BY <2>1 DEF CommitRange, TearRange, StreamWrite
  <2>2. CASE BeginStream \/ EndStream
    BY <2>2 DEF BeginStream, EndStream, Runs
  <2>3. CASE CheckpointProgress
    BY <2>3 DEF CheckpointProgress, Runs
  <2> QED BY <1>3, <2>1, <2>2, <2>3 DEF Transfer
<1>4. CASE Settle
  <2>1. CASE TransferReturns
    BY <2>1 DEF TransferReturns, Runs
  <2>2. CASE AfterTransfer
    BY <2>2 DEF AfterTransfer, ScheduleRetry, Boundary, Runs
  <2> QED BY <1>4, <2>1, <2>2 DEF Settle
<1>5. CASE Complete
  <2>1. CASE EnterValidating
    BY <2>1 DEF EnterValidating, Advance
  <2>2. CASE Validate
    BY <2>2 DEF Validate
  <2>3. CASE EnterPromoting
    BY <2>3 DEF EnterPromoting, Advance
  <2>4. CASE Publish \/ CleanupPartial
    BY <2>4 DEF Publish, CleanupPartial
  <2>5. CASE RecordPromotion \/ EnterCompleted \/ Completed
    BY <2>5 DEF RecordPromotion, EnterCompleted, Completed, EndRun
  <2> QED BY <1>5, <2>1, <2>2, <2>3, <2>4, <2>5 DEF Complete
<1>6. CASE Finish
  <2>1. CASE StopBoundary
    BY <2>1 DEF StopBoundary, Boundary
  <2>2. CASE ApplyStop
    BY <2>2 DEF ApplyStop, EndRun
  <2>3. CASE FailRun
    BY <2>3 DEF FailRun, EndRun
  <2>4. CASE Discard \/ Forget \/ Purge
    BY <2>4 DEF Discard, Forget, Purge, EndRun
  <2> QED BY <1>6, <2>1, <2>2, <2>3, <2>4 DEF Finish
<1>7. CASE Exit \/ Crash
  BY <1>7 DEF Exit, Crash, Down, EndRun
<1>8. CASE Open \/ ServerChanges \/ UNCHANGED vars
  BY <1>8 DEF Open, ServerChanges, vars
<1> QED BY <1>1, <1>2, <1>3, <1>4, <1>5, <1>6, <1>7, <1>8 DEF Next

\* A run that stops knows why: no reachable state uses the default of requested_stop, so
\* an internal cancellation is never reported as a pause or a cancellation by the user.
THEOREM StopsHaveReasons == Spec => []StopHasReason
<1>1. Init => Reasoned
  BY DEF Init, Reasoned, StopHasReason
<1>2. (TypeOK /\ Placed) /\ Reasoned /\ [Next]_vars => Reasoned'
  BY ReasonedNext
<1>3. Reasoned => StopHasReason
  BY DEF Reasoned
<1> QED BY <1>1, <1>2, <1>3, Typed, PTL DEF Spec

-----------------------------------------------------------------------------
(***************************************************************************)
(* The end of a run of TaskLifecycle: no task is stranded, and what is     *)
(* reported at rest is durable.  Both depend on what each step of a run    *)
(* finds: the state of the record, and a handle and coverage that fit it,  *)
(* because a record that has to fail must be one the store would accept.   *)
(***************************************************************************)

\* A record the store may accept in some state, whether or not it accepts it in its own.
KeptRecord(m) ==
  /\ m.res = NoResource => m.partial = 0 /\ m.done = {}
  /\ m.res # NoResource => /\ m.done \subseteq Extent(m.res)
                           /\ m.res.sized \/ (m.res.mode = "stream" /\ m.done = {})
  /\ m.final # 0 => m.state \in {"Promoting", "Completed"}
  /\ (m.partial = 0 /\ m.final = 0) => m.done = {}

Kept ==
  /\ mem # NoTask => KeptRecord(mem)
  /\ disk # NoTask => KeptRecord(disk)

\* The coverage of the open handle belongs to the resource of the record.
FileFits ==
  file # NoFile =>
    /\ file.done \subseteq Extent(mem.res)
    /\ file.sized \/ (mem.res.mode = "stream" /\ file.done = {})
    /\ mem.final = 0 => mem.partial # 0

Transferring == {"transfer", "settled", "errored"}

\* The run transfers the resource of the record, by one response or by ranges.
RunFits ==
  /\ pc \in Transferring \cup {"attach"} => mem.res.mode = run.source.mode
  /\ (running /\ run.stream # Blank) =>
        pc = "transfer" /\ run.source.mode \in {"single", "stream"}
  /\ pc \in {"linked", "recorded", "cleaned"} => finals # <<>>

\* The state each step of a run finds.
Staged ==
  /\ pc \in {"probe", "prepare"} =>
       mem.state = IF run.kind = "Initial" THEN "Probing" ELSE "Paused"
  /\ pc = "attach" => mem.state = "Probing"
  /\ pc \in Transferring \cup {"complete"} => mem.state = "Downloading"
  /\ pc \in {"validate", "lease"} => mem.state = "Validating"
  /\ pc \in {"publish", "linked", "recorded", "cleaned", "finish"} => mem.state = "Promoting"
  /\ pc = "completed" => mem.state = "Completed"
  /\ pc \in {"stop", "halt"} => mem.state \in {"Probing", "Paused", "Downloading", "Validating"}
  /\ pc = "fail" =>
       mem.state \in {"Probing", "Paused", "Downloading", "Validating", "Promoting"}
  /\ pc \in {"discard", "forget"} => mem.state \in {"Failed", "Cancelled"}
  /\ pc = "purge" => mem.state \in Terminal
  /\ NotStranded

\* Where the record in memory and the one on disk are the same, although a run is going on:
\* at the end of one, and while a resumption has not touched the record yet.
SavedSoFar ==
  /\ (pc \in {"idle", "purge", "discard", "forget"} /\ mem # NoTask
        /\ mem.state \notin {"Failed", "Promoting"}) => disk = mem
  /\ pc = "completed" => disk = mem
  /\ (pc \in {"probe", "prepare", "stop", "halt"} /\ mem.state = "Paused") => disk = mem

Fits == Kept /\ FileFits /\ RunFits /\ Staged
-------------------------------------------------------------------------------
(***************************************************************************)
(* The operations on a record keep it well kept.                           *)
(***************************************************************************)
LEMMA UnknownResource == NoResource \notin Identities
BY AbsenceAssumption

LEMMA KeptMove ==
  ASSUME NEW m \in Rec, KeptRecord(m), NEW s \in States,
         m.final # 0 => s \in {"Promoting", "Completed"}
  PROVE  /\ KeptRecord(MoveTo(m, s))
         /\ MoveTo(m, s).final = m.final
         /\ MoveTo(m, s).done = m.done
BY DEF Rec, Tasks, MoveTo, KeptRecord

LEMMA KeptMayMove ==
  ASSUME NEW m \in Rec, KeptRecord(m), NEW s \in States,
         MayMove(m, s) \/ ValidTask(MoveTo(m, s))
  PROVE  /\ KeptRecord(MoveTo(m, s))
         /\ MoveTo(m, s).final = m.final
         /\ MoveTo(m, s).done = m.done
<1>1. ValidTask(MoveTo(m, s))
  BY DEF MayMove, MoveTo
<1>2. MoveTo(m, s).final = m.final /\ MoveTo(m, s).state = s
  BY DEF Rec, Tasks, MoveTo
<1>3. m.final # 0 => s \in {"Promoting", "Completed"}
  BY <1>1, <1>2 DEF ValidTask
<1> QED BY <1>3, KeptMove

LEMMA KeptWithResource ==
  ASSUME NEW m \in Rec, KeptRecord(m), NEW r \in Resource,
         m.done = {} \/ m.res = Identity(r)
  PROVE  /\ KeptRecord(WithResource(m, Identity(r)))
         /\ WithResource(m, Identity(r)).final = m.final
         /\ WithResource(m, Identity(r)).done = m.done
         /\ WithResource(m, Identity(r)).state = m.state
<1>1. Identity(r) \in Identities /\ Identity(r) # NoResource
  BY IdentityType, UnknownResource
<1>2. Identity(r).sized \/ Identity(r).mode = "stream"
  BY DEF Identity
<1> DEFINE w == WithResource(m, Identity(r))
<1>3. /\ w.res = Identity(r) /\ w.partial = m.partial /\ w.final = m.final
      /\ w.done = m.done /\ w.state = m.state
  BY DEF Rec, Tasks, WithResource
<1> HIDE DEF w
<1>4. KeptRecord(w)
  BY <1>1, <1>2, <1>3 DEF KeptRecord, Extent
<1> QED BY <1>3, <1>4 DEF w

LEMMA KeptWithPartial ==
  ASSUME NEW m \in Rec, KeptRecord(m), NEW i \in Inode, m.res # NoResource
  PROVE  /\ KeptRecord(WithPartial(m, i))
         /\ WithPartial(m, i).state = m.state
<1>1. i # 0
  BY BoundsAssumption DEF Inode
<1> QED BY <1>1 DEF Rec, Tasks, WithPartial, KeptRecord

LEMMA KeptRefreshed ==
  ASSUME NEW m \in Rec, KeptRecord(m), m.res \in Identities,
         NEW done \in SUBSET Chunk, NEW sized \in BOOLEAN,
         done \subseteq Extent(m.res),
         sized \/ (m.res.mode = "stream" /\ done = {}),
         m.final = 0 => m.partial # 0
  PROVE  /\ KeptRecord(Refreshed(m, done, sized))
         /\ Refreshed(m, done, sized).final = m.final
         /\ Refreshed(m, done, sized).partial = m.partial
         /\ Refreshed(m, done, sized).res.mode = m.res.mode
<1>1. CASE done = m.done /\ sized = m.res.sized
  BY <1>1 DEF Refreshed
<1>2. CASE ~(done = m.done /\ sized = m.res.sized)
  <2> DEFINE r == [m.res EXCEPT !.sized = sized]
  <2>1. r \in Identities /\ r.mode = m.res.mode /\ r.sized = sized
    BY DEF Identities
  <2>2. r # NoResource /\ Extent(r) = Extent(m.res)
    BY <2>1, UnknownResource DEF Extent
  <2> DEFINE w == Refreshed(m, done, sized)
  <2>3. w = [m EXCEPT !.done = done, !.res = r, !.rev = m.rev + 1]
    BY <1>2 DEF Refreshed, Rec, Tasks, Identities
  <2> HIDE DEF r, w
  <2>4. /\ w.done = done /\ w.res = r /\ w.state = m.state /\ w.partial = m.partial
        /\ w.final = m.final
    BY <2>3 DEF Rec, Tasks
  <2>5. KeptRecord(w)
    BY <2>1, <2>2, <2>4 DEF KeptRecord
  <2> QED BY <2>1, <2>4, <2>5 DEF w
<1> QED BY <1>1, <1>2

LEMMA KeptWithoutPartial ==
  ASSUME NEW m \in Rec, KeptRecord(m)
  PROVE  KeptRecord(WithoutPartial(m)) /\ WithoutPartial(m).state = m.state
BY DEF Rec, Tasks, WithoutPartial, KeptRecord, Identities

LEMMA KeptWithFinal ==
  ASSUME NEW m \in Rec, KeptRecord(m), NEW n \in Nat \ {0}, NEW keep \in BOOLEAN,
         m.state = "Promoting", m.res # NoResource
  PROVE  /\ KeptRecord(WithFinal(m, n, keep))
         /\ WithFinal(m, n, keep).state = "Promoting"
         /\ WithFinal(m, n, keep).final # 0
         /\ WithFinal(m, n, keep).done = m.done
BY DEF Rec, Tasks, WithFinal, KeptRecord

LEMMA KeptNew ==
  ASSUME NEW sum \in Body \cup {Blank} PROVE KeptRecord(NewTask(sum))
BY DEF NewTask, KeptRecord

LEMMA KeptNormalized ==
  ASSUME NEW m \in Rec, KeptRecord(m)
  PROVE  /\ KeptRecord(Normalized(m))
         /\ Normalized(m).state \notin {"Probing", "Downloading", "Validating"}
<1>1. CASE m.state \in {"Failed", "Cancelled"} /\ m.partial # 0 /\ m.partial \notin parts
  BY <1>1, KeptWithoutPartial DEF Normalized
<1>2. CASE m.state = "Downloading"
  <2>1. Normalized(m) = MoveTo(m, "Paused")
    BY <1>2 DEF Normalized
  <2>2. m.final # 0 => "Paused" \in {"Promoting", "Completed"}
    BY <1>2 DEF KeptRecord
  <2>3. "Paused" \in States
    BY DEF States
  <2> QED BY <2>1, <2>2, <2>3, KeptMove, MoveToType
<1>3. CASE m.state = "Promoting" /\ m.final # 0
  <2>1. Normalized(m) = MoveTo(m, "Completed")
    BY <1>3 DEF Normalized
  <2>2. m.final # 0 => "Completed" \in {"Promoting", "Completed"}
    BY <1>3 DEF KeptRecord
  <2>3. "Completed" \in States
    BY DEF States
  <2> QED BY <2>1, <2>2, <2>3, KeptMove, MoveToType
<1>4. CASE m.state \in {"Probing", "Validating"} \/ (m.state = "Promoting" /\ m.final = 0)
  <2>1. Normalized(m) = MoveTo(m, "Failed")
    BY <1>4 DEF Normalized
  <2>2. m.final # 0 => "Failed" \in {"Promoting", "Completed"}
    BY <1>4 DEF KeptRecord
  <2>3. "Failed" \in States
    BY DEF States
  <2> QED BY <2>1, <2>2, <2>3, KeptMove, MoveToType
<1> QED BY <1>1, <1>2, <1>3, <1>4 DEF Normalized

\* A checkpoint leaves a well kept record in the store, whether or not it succeeds.
LEMMA KeptSaved ==
  ASSUME NEW m \in Rec, KeptRecord(m), disk # NoTask => KeptRecord(disk),
         Saved(m) \/ NotSaved(m) \/ UNCHANGED disk \/ disk' = m
  PROVE  disk' # NoTask => KeptRecord(disk')
BY DEF Saved, NotSaved

\* Where only a run can leave a state, the record can fail.
LEMMA CanFail ==
  ASSUME NEW m \in Rec, KeptRecord(m),
         m.state \in {"Probing", "Paused", "Downloading", "Validating"}
  PROVE  MayMove(m, "Failed")
<1> DEFINE w == [m EXCEPT !.state = "Failed", !.rev = @ + 1]
<1>1. /\ w.state = "Failed" /\ w.res = m.res /\ w.partial = m.partial
      /\ w.final = m.final /\ w.done = m.done
  BY DEF Rec, Tasks
<1>2. m.final = 0
  BY DEF KeptRecord
<1> HIDE DEF w
<1>3. ValidTask(w)
  BY <1>1, <1>2 DEF ValidTask, KeptRecord
<1> QED BY <1>3 DEF MayMove, Allows, w

-------------------------------------------------------------------------------
(***************************************************************************)
(* Every step keeps the run, its handle and its records fitting.           *)
(***************************************************************************)
LEMMA FitsInit == Init => Fits
BY DEF Init, Fits, Kept, FileFits, RunFits, Staged, NotStranded, Transferring

\* A task without a run is at rest or in a section that ends one.
LEMMA WithoutRun ==
  ASSUME TypeOK, Placed, ~running
  PROVE  pc \in {"idle", "discard", "forget", "purge"}
BY DEF TypeOK, Placed, Steps, Locks, RunSteps, FileSteps

LEMMA FitsCommand == ASSUME TypeOK, Placed, Fits, Command PROVE Fits'
<1> USE DEF Fits, Kept, FileFits, RunFits, Staged, NotStranded, Transferring, Goto, ioVars,
            ctlVars, engineVars, boundVars
<1>0. mem = NoTask \/ mem \in Rec
  BY DEF TypeOK, Rec
<1>1. ASSUME NEW sum \in Body \cup {Blank}, Create(sum) PROVE Fits'
  <2>1. NewTask(sum) \in Rec /\ KeptRecord(NewTask(sum)) /\ NewTask(sum).state = "Queued"
    BY NewTaskType, KeptNew DEF NewTask
  <2>2. disk' # NoTask => KeptRecord(disk')
    BY <1>1, <2>1, KeptSaved DEF Create
  <2>3. ~running /\ file = NoFile /\ pc = "idle"
    BY <1>1, WithoutRun, AbsentTask DEF Create, Placed, RunSteps, FileSteps
  <2> QED BY <1>1, <2>1, <2>2, <2>3 DEF Create
<1>2. CASE Start
  <2> DEFINE m == MoveTo(mem, "Probing")
  <2>1. mem \in Rec /\ m \in Rec /\ m.res = mem.res /\ m.partial = mem.partial
        /\ m.state = "Probing" /\ KeptRecord(m) /\ m.final = mem.final
    BY <1>0, <1>2, MoveToType, KeptMayMove DEF Start, Managed, States
  <2>2. disk' # NoTask => KeptRecord(disk')
    BY <1>2, <2>1, KeptSaved DEF Start
  <2>3. CASE Saved(m) /\ mem' = m /\ BeginRun("Initial")
    BY <1>2, <2>1, <2>2, <2>3 DEF Start, BeginRun, NewRun
  <2>4. CASE UNCHANGED <<mem, ctlVars, pc, run, runs>>
    BY <1>2, <2>2, <2>4 DEF Start
  <2> QED BY <1>2, <2>3, <2>4 DEF Start
<1>3. CASE Resume
  BY <1>3 DEF Resume, BeginRun, NewRun
<1>4. CASE Retry
  <2> DEFINE m == MoveTo(mem, "Queued")
  <2>0. mem \in Rec /\ mem.final = 0
    BY <1>0, <1>4 DEF Retry, Managed, KeptRecord
  <2>1. m \in Rec /\ m.res = mem.res /\ m.partial = mem.partial
        /\ m.state = "Queued" /\ KeptRecord(m) /\ m.final = mem.final
    BY <2>0, <1>4, MoveToType, KeptMove DEF Retry, Managed, States
  <2>2. disk' # NoTask => KeptRecord(disk')
    BY <1>4, <2>1, KeptSaved DEF Retry
  <2>3. pc = "idle"
    BY <1>4, WithoutRun DEF Retry, Managed, Commandable, Locks
  <2> QED BY <1>4, <2>1, <2>2, <2>3 DEF Retry
<1>5. CASE Pause
  BY <1>5 DEF Pause
<1>6. CASE Remove
  BY <1>6 DEF Remove
<1>7. CASE Shutdown
  BY <1>7 DEF Shutdown
<1>8. ASSUME NEW s \in {"cancelKeep", "cancelDelete"}, CancelActive(s) PROVE Fits'
  BY <1>8 DEF CancelActive
<1>9. ASSUME NEW s \in {"cancelKeep", "cancelDelete"}, CancelInactive(s) PROVE Fits'
  <2> DEFINE m == MoveTo(mem, "Cancelled")
  <2>0. mem \in Rec /\ mem.final = 0
    BY <1>0, <1>9 DEF CancelInactive, Managed, Allows, KeptRecord
  <2>1. m \in Rec /\ m.res = mem.res /\ m.partial = mem.partial
        /\ m.state = "Cancelled" /\ KeptRecord(m) /\ m.final = mem.final
    BY <2>0, <1>9, MoveToType, KeptMove DEF CancelInactive, Managed, States
  <2>2. disk' # NoTask => KeptRecord(disk')
    BY <1>9, <2>1, KeptSaved DEF CancelInactive
  <2>3. pc = "idle" /\ ~running
    BY <1>9, WithoutRun DEF CancelInactive, Managed, Commandable, Locks
  <2> QED BY <1>9, <2>1, <2>2, <2>3 DEF CancelInactive
<1> QED
  BY <1>1, <1>2, <1>3, <1>4, <1>5, <1>6, <1>7, <1>8, <1>9, ChecksumsAssumption DEF Command

\* The transfer begins with a handle that fits the record it is given, or fails.
LEMMA FitsEnter ==
  ASSUME TypeOK, NEW m \in Rec, m.res \in Identities, KeptRecord(m),
         disk # NoTask => KeptRecord(disk),
         NEW h \in Files, NEW src, EnterTransfer(m, h, src)
  PROVE  /\ mem' \in Rec /\ KeptRecord(mem') /\ mem'.state = "Downloading"
         /\ mem'.res = m.res /\ mem'.partial = m.partial /\ mem'.final = m.final
         /\ disk' # NoTask => KeptRecord(disk')
         /\ \/ file' = h /\ pc' \in {"errored", "transfer"}
            \/ file' = file /\ pc' = "fail"
<1> DEFINE d == MoveTo(m, "Downloading")
<1>1. /\ d \in Rec /\ d.res = m.res /\ d.partial = m.partial /\ d.state = "Downloading"
      /\ KeptRecord(d) /\ d.final = m.final
  BY MoveToType, KeptMayMove DEF EnterTransfer, States
<1>2. disk' # NoTask => KeptRecord(disk')
  BY <1>1, KeptSaved DEF EnterTransfer
<1> HIDE DEF d
<1> QED BY <1>1, <1>2 DEF EnterTransfer, Goto, d

\* The bytes a record claims fit the record, and so does a handle opened from it.
LEMMA HandleFits ==
  ASSUME TypeOK, Placed, FileFits, NEW m \in Rec, m.res \in Identities, KeptRecord(m),
         m.final = 0, CanReopen(m),
         file # NoFile => m.res = mem.res /\ m.partial = mem.partial /\ m.final = mem.final
  PROVE  /\ Handle(m) \in Files
         /\ Handle(m).done \subseteq Extent(m.res)
         /\ Handle(m).sized \/ (m.res.mode = "stream" /\ Handle(m).done = {})
         /\ m.partial # 0
<1>1. CASE file # NoFile
  BY <1>1, HandleType DEF Handle, FileFits
<1>2. CASE file = NoFile
  <2>1. m.partial # 0
    BY <1>2, BoundsAssumption DEF CanReopen, TypeOK, Inode
  <2>2. m.res # NoResource
    BY UnknownResource
  <2> QED BY <1>2, <2>1, <2>2, HandleType DEF Handle, Reopened, KeptRecord
<1> QED BY <1>1, <1>2

LEMMA FitsPrepare == ASSUME TypeOK, Placed, Fits, Prepare PROVE Fits'
<1> USE DEF Fits, Kept, Staged, NotStranded, Transferring, Goto, ioVars, ctlVars, engineVars,
            boundVars
<1> DEFINE id == Identity(run.source)
<1>0. mem = NoTask \/ mem \in Rec
  BY DEF TypeOK, Rec
<1>a. pc \in {"probe", "prepare", "attach"} => running /\ mem \in Rec /\ mem # NoTask
  BY AbsentTask DEF Placed, RunSteps, FileSteps, Rec
<1>b. pc \in {"attach", "prepare"} =>
        run.source \in Resource /\ id \in Identities /\ id # NoResource
        /\ id.mode = run.source.mode
  BY IdentityType, UnknownResource DEF Placed, Identity
<1>c. pc \in {"probe", "prepare", "attach"} => mem.final = 0 /\ run.stream = Blank
  BY <1>a DEF KeptRecord, RunFits
<1>1. CASE ProbeStops
  BY <1>1, <1>a, <1>c DEF ProbeStops, FileFits, RunFits
<1>2. CASE ProbeFails
  BY <1>2, <1>a, <1>c DEF ProbeFails, FileFits, RunFits
<1>3. CASE PrepareRefused
  BY <1>3, <1>a, <1>c DEF PrepareRefused, FileFits, RunFits
<1>4. CASE PrepareResume
  <2>1. /\ mem \in Rec /\ mem.res = id /\ id \in Identities /\ KeptRecord(mem)
        /\ mem.final = 0 /\ pc = "prepare" /\ run.stream = Blank /\ running
    BY <1>4, <1>a, <1>b, <1>c DEF PrepareResume, Preparing, Reusable
  <2>2. CASE CanReopen(mem) /\ EnterTransfer(mem, Handle(mem), run.source)
    <3>1. /\ Handle(mem) \in Files
          /\ Handle(mem).done \subseteq Extent(mem.res)
          /\ Handle(mem).sized \/ (mem.res.mode = "stream" /\ Handle(mem).done = {})
          /\ mem.partial # 0
      BY <2>1, <2>2, HandleFits
    <3>2. /\ mem' \in Rec /\ KeptRecord(mem') /\ mem'.state = "Downloading"
          /\ mem'.res = mem.res /\ mem'.partial = mem.partial /\ mem'.final = mem.final
          /\ disk' # NoTask => KeptRecord(disk')
          /\ \/ file' = Handle(mem) /\ pc' \in {"errored", "transfer"}
             \/ file' = file /\ pc' = "fail"
      BY <2>1, <2>2, <3>1, FitsEnter
    <3> QED BY <1>4, <1>b, <2>1, <3>1, <3>2 DEF PrepareResume, FileFits, RunFits
  <2>3. CASE Goto("fail") /\ UNCHANGED <<mem, disk, file, faults>>
    BY <1>4, <2>1, <2>3 DEF PrepareResume, FileFits, RunFits
  <2> QED BY <1>4, <2>2, <2>3 DEF PrepareResume
<1>5. CASE PrepareRetained
  <2> DEFINE m == WithResource(mem, id)
  <2>1. /\ mem \in Rec /\ mem.res = id /\ id \in Identities /\ KeptRecord(mem)
        /\ mem.final = 0 /\ mem.partial # 0 /\ pc = "prepare" /\ run.stream = Blank
        /\ running /\ mem.state = "Probing" /\ run.source \in Resource
    BY <1>5, <1>a, <1>b, <1>c DEF PrepareRetained, Preparing, Reusable
  <2>2. /\ m \in Rec /\ m.res = mem.res /\ m.partial = mem.partial /\ m.final = mem.final
        /\ KeptRecord(m) /\ m.state = "Probing"
    BY <2>1, WithResourceType, KeptWithResource
  <2>3. CASE CanReopen(m) /\ EnterTransfer(m, Handle(m), run.source)
    <3>1. /\ Handle(m) \in Files
          /\ Handle(m).done \subseteq Extent(m.res)
          /\ Handle(m).sized \/ (m.res.mode = "stream" /\ Handle(m).done = {})
          /\ m.partial # 0
      BY <2>1, <2>2, <2>3, HandleFits
    <3>2. /\ mem' \in Rec /\ KeptRecord(mem') /\ mem'.state = "Downloading"
          /\ mem'.res = m.res /\ mem'.partial = m.partial /\ mem'.final = m.final
          /\ disk' # NoTask => KeptRecord(disk')
          /\ \/ file' = Handle(m) /\ pc' \in {"errored", "transfer"}
             \/ file' = file /\ pc' = "fail"
      BY <2>1, <2>2, <2>3, <3>1, FitsEnter
    <3> HIDE DEF m
    <3> QED BY <1>5, <1>b, <2>1, <2>2, <3>1, <3>2 DEF PrepareRetained, FileFits, RunFits
  <2>4. CASE mem' = m /\ Goto("fail") /\ UNCHANGED <<disk, file, faults>>
    <3> HIDE DEF m
    <3> QED BY <1>5, <2>1, <2>2, <2>4 DEF PrepareRetained, FileFits, RunFits
  <2> QED BY <1>5, <2>3, <2>4 DEF PrepareRetained
<1>6. CASE CreatePartial
  <2> DEFINE m == WithResource(mem, id)
  <2>1. /\ mem \in Rec /\ id \in Identities /\ id # NoResource /\ KeptRecord(mem)
        /\ mem.final = 0 /\ mem.partial = 0 /\ mem.done = {} /\ pc = "prepare"
        /\ run.stream = Blank /\ running /\ mem.state = "Probing"
        /\ run.source \in Resource /\ file = NoFile
    BY <1>6, <1>a, <1>b, <1>c DEF CreatePartial, Preparing, FileFits, KeptRecord
  <2>2. m \in Rec /\ m.res = id /\ KeptRecord(m) /\ m.state = "Probing"
    BY <2>1, WithResourceType, KeptWithResource
  <2> HIDE DEF m
  <2>3. CASE made < MaxPartials /\ mem' = WithPartial(m, made + 1) /\ pc' = "attach"
    <3>1. made + 1 \in Inode
      BY <2>3, BoundsAssumption DEF Inode, TypeOK
    <3>2. mem' \in Rec /\ mem'.res = id /\ KeptRecord(mem') /\ mem'.state = "Probing"
      BY <2>1, <2>2, <2>3, <3>1, WithPartialType, KeptWithPartial
    <3> QED BY <1>6, <1>b, <2>1, <2>3, <3>2 DEF CreatePartial, FileFits, RunFits
  <2>4. CASE mem' = m /\ Goto("fail")
    BY <1>6, <2>1, <2>2, <2>4 DEF CreatePartial, FileFits, RunFits
  <2> QED BY <1>6, <2>3, <2>4 DEF CreatePartial, m
<1>7. CASE Attach
  <2>1. /\ mem \in Rec /\ mem.res \in Identities /\ mem.res # NoResource /\ KeptRecord(mem)
        /\ mem.res.mode = run.source.mode /\ mem.partial \in Inode /\ mem.partial # 0
        /\ running /\ run.stream = Blank /\ pc = "attach" /\ mem.final = 0
    BY <1>7, <1>a, <1>c, UnknownResource, BoundsAssumption DEF Attach, Placed, RunFits, Inode
  <2>2. /\ Reopened(mem) \in Files
        /\ Reopened(mem).done \subseteq Extent(mem.res)
        /\ Reopened(mem).sized \/ (mem.res.mode = "stream" /\ Reopened(mem).done = {})
    BY <2>1, ReopenedType DEF Reopened, KeptRecord
  <2>3. /\ mem' \in Rec /\ KeptRecord(mem') /\ mem'.state = "Downloading"
        /\ mem'.res = mem.res /\ mem'.partial = mem.partial /\ mem'.final = mem.final
        /\ disk' # NoTask => KeptRecord(disk')
        /\ \/ file' = Reopened(mem) /\ pc' \in {"errored", "transfer"}
           \/ file' = file /\ pc' = "fail"
    BY <1>7, <2>1, <2>2, FitsEnter DEF Attach
  <2> QED BY <1>7, <2>1, <2>2, <2>3 DEF Attach, FileFits, RunFits
<1>8. CASE ProbeAnswers
  <2>1. run' = [run EXCEPT !.source = served] /\ run \in Runs
    BY <1>8, <1>a DEF ProbeAnswers, Placed
  <2>2. run'.stream = run.stream /\ run'.kind = run.kind
    BY <2>1 DEF Runs
  <2> QED BY <1>8, <1>a, <1>c, <2>2 DEF ProbeAnswers, FileFits, RunFits
<1>9. CASE ProbeRetries
  <2>1. run' = [run EXCEPT !.tries = @ + 1] /\ run \in Runs
    BY <1>9, <1>a DEF ProbeRetries, ScheduleRetry, Placed
  <2>2. run'.source = run.source /\ run'.stream = run.stream /\ run'.kind = run.kind
    BY <2>1 DEF Runs
  <2> QED BY <1>9, <1>a, <1>c, <2>2 DEF ProbeRetries, FileFits, RunFits
<1> QED BY <1>1, <1>2, <1>3, <1>4, <1>5, <1>6, <1>7, <1>8, <1>9 DEF Prepare

\* The coverage a handle has made durable fits the record it refreshes.
LEMMA FitsRefresh ==
  ASSUME TypeOK, Placed, Kept, FileFits, file # NoFile,
         \/ mem' = Durable /\ (Saved(Durable) \/ UNCHANGED disk)
         \/ NotRefreshed
  PROVE  /\ mem' \in Rec /\ mem'.res \in Identities /\ mem'.res.mode = mem.res.mode
         /\ mem'.state = mem.state /\ mem'.final = mem.final /\ mem'.partial = mem.partial
         /\ KeptRecord(mem')
         /\ disk' # NoTask => KeptRecord(disk')
<1>1. /\ mem \in Rec /\ mem # NoTask /\ mem.res \in Identities /\ file \in Files
      /\ KeptRecord(mem)
  BY AbsentTask DEF Placed, TypeOK, Kept
<1>2. /\ file.done \in SUBSET Chunk /\ file.sized \in BOOLEAN
      /\ file.done \subseteq Extent(mem.res)
      /\ file.sized \/ (mem.res.mode = "stream" /\ file.done = {})
      /\ mem.final = 0 => mem.partial # 0
  BY <1>1 DEF FileFits, Files
<1>3. /\ Durable \in Rec /\ Durable.res \in Identities /\ Durable.state = mem.state
      /\ KeptRecord(Durable) /\ Durable.final = mem.final /\ Durable.partial = mem.partial
      /\ Durable.res.mode = mem.res.mode
  BY <1>1, <1>2, DurableType, KeptRefreshed DEF Durable
<1>4. mem' \in {mem, Durable}
  BY DEF NotRefreshed
<1>5. disk' # NoTask => KeptRecord(disk')
  BY <1>3, KeptSaved DEF NotRefreshed, Kept
<1> QED BY <1>1, <1>3, <1>4, <1>5

LEMMA FitsTransfer == ASSUME TypeOK, Placed, Fits, Transfer \/ Settle PROVE Fits'
<1> USE DEF Fits, Kept, Staged, NotStranded, Transferring, Goto, ioVars, ctlVars, engineVars,
            boundVars
<1>a. pc \in Transferring =>
        /\ running /\ mem \in Rec /\ mem # NoTask /\ mem.res \in Identities
        /\ file \in Files /\ file # NoFile /\ run \in Runs /\ mem.final = 0
  BY AbsentTask, HandleAssumption DEF Placed, RunSteps, FileSteps, Rec, KeptRecord
<1>1. ASSUME NEW c \in Chunk, CommitRange(c) PROVE Fits'
  <2>1. /\ pc = "transfer" /\ c \in Extent(mem.res) /\ mem.res.mode = "segmented"
    BY <1>1 DEF CommitRange, Uncovered, RunFits
  <2>2. file' = [file EXCEPT !.done = @ \cup {c}] /\ file \in Files
    BY <1>1, <1>a, <2>1 DEF CommitRange
  <2>3. file'.done = file.done \cup {c} /\ file'.sized = file.sized
    BY <2>2 DEF Files
  <2>4. FileFits'
    BY <1>1, <1>a, <2>1, <2>3 DEF CommitRange, FileFits
  <2> QED BY <1>1, <2>4 DEF CommitRange, RunFits
<1>2. ASSUME NEW c \in Chunk, TearRange(c) \/ StreamWrite(c) PROVE Fits'
  BY <1>2 DEF TearRange, StreamWrite, FileFits, RunFits
<1>3. CASE BeginStream
  <2>1. run \in Runs /\ run' = [run EXCEPT !.stream = served.body]
    BY <1>3, <1>a DEF BeginStream
  <2>2. run'.source = run.source /\ run'.kind = run.kind
    BY <2>1 DEF Runs
  <2> QED BY <1>3, <2>2 DEF BeginStream, FileFits, RunFits
<1>4. CASE EndStream
  <2>1. /\ run \in Runs /\ run' = [run EXCEPT !.stream = Blank] /\ running
        /\ file \in Files /\ file' = [file EXCEPT !.done = Chunk, !.sized = TRUE]
        /\ pc = "transfer"
    BY <1>4, <1>a DEF EndStream
  <2>2. run'.source = run.source /\ run'.kind = run.kind /\ run'.stream = Blank
    BY <2>1 DEF Runs
  <2>3. file'.done = Chunk /\ file'.sized = TRUE
    BY <2>1 DEF Files
  <2>4. mem.res.mode \in {"single", "stream"}
    BY <1>4, <2>1 DEF EndStream, RunFits
  <2>5. FileFits'
    BY <1>4, <1>a, <2>1, <2>3, <2>4 DEF EndStream, FileFits, Extent
  <2> QED BY <1>4, <2>1, <2>2, <2>5 DEF EndStream, RunFits
<1>5. CASE CheckpointProgress
  <2>1. pc = "transfer" /\ run \in Runs /\ file # NoFile
    BY <1>5, <1>a DEF CheckpointProgress
  <2>2. run'.source = run.source /\ run'.kind = run.kind /\ run'.stream = run.stream
    BY <1>5, <2>1 DEF CheckpointProgress, Runs
  <2>3. /\ mem' \in Rec /\ mem'.res \in Identities /\ mem'.res.mode = mem.res.mode
        /\ mem'.state = mem.state /\ mem'.final = mem.final /\ mem'.partial = mem.partial
        /\ KeptRecord(mem')
        /\ disk' # NoTask => KeptRecord(disk')
    BY <1>5, <2>1, FitsRefresh DEF CheckpointProgress
  <2> QED BY <1>5, <1>a, <2>1, <2>2, <2>3 DEF CheckpointProgress, FileFits, RunFits, Extent
<1>6. CASE TransferReturns
  <2>1. pc = "transfer" /\ run \in Runs /\ run' = [run EXCEPT !.stream = Blank]
    BY <1>6, <1>a DEF TransferReturns
  <2>2. run'.source = run.source /\ run'.kind = run.kind /\ run'.stream = Blank
    BY <2>1 DEF Runs
  <2> QED BY <1>6, <1>a, <2>1, <2>2 DEF TransferReturns, FileFits, RunFits
<1>7. CASE AfterTransfer
  <2>1. pc \in {"settled", "errored"} /\ run \in Runs /\ file # NoFile /\ running
    BY <1>7, <1>a DEF AfterTransfer
  <2>2. /\ mem' \in Rec /\ mem'.res \in Identities /\ mem'.res.mode = mem.res.mode
        /\ mem'.state = mem.state /\ mem'.final = mem.final /\ mem'.partial = mem.partial
        /\ KeptRecord(mem')
        /\ disk' # NoTask => KeptRecord(disk')
    BY <1>7, <2>1, FitsRefresh DEF AfterTransfer, Boundary
  <2>3. /\ pc' \in {"stop", "complete", "transfer", "fail"}
        /\ run' = run \/ run' = [run EXCEPT !.tries = @ + 1]
        /\ file' = file /\ running' = running
    BY <1>7 DEF AfterTransfer, ScheduleRetry, Boundary
  <2>4. run'.source = run.source /\ run'.kind = run.kind /\ run'.stream = run.stream
    BY <2>1, <2>3 DEF Runs
  <2>5. FileFits'
    BY <2>1, <2>2, <2>3 DEF FileFits, Extent
  <2>6. RunFits'
    BY <2>1, <2>2, <2>3, <2>4 DEF RunFits
  <2> QED BY <1>a, <2>1, <2>2, <2>3, <2>5, <2>6
<1> QED BY <1>1, <1>2, <1>3, <1>4, <1>5, <1>6, <1>7 DEF Transfer, Settle

\* A step of transition_for_run keeps, moves or rolls back the record.
LEMMA FitsAdvance ==
  ASSUME TypeOK, Kept, mem \in Rec, NEW s \in States, NEW next, NEW onStop, NEW onFault,
         Advance(s, next, onStop, onFault)
  PROVE  /\ disk' # NoTask => KeptRecord(disk')
         /\ mem' \in Rec /\ KeptRecord(mem') /\ mem'.res = mem.res
         /\ mem'.final = mem.final /\ mem'.partial = mem.partial
         /\ \/ pc' = next /\ mem'.state = s
            \/ pc' \in {onStop, onFault} /\ mem' = mem
<1> USE DEF Kept, Goto
<1>0. KeptRecord(mem)
  BY AbsentTask
<1> DEFINE m == MoveTo(mem, s)
<1>1. CASE cancelled
  BY <1>0, <1>1 DEF Advance
<1>2. CASE MayMove(mem, s)
  <2>1. /\ m \in Rec /\ m.res = mem.res /\ m.partial = mem.partial /\ m.state = s
        /\ KeptRecord(m) /\ m.final = mem.final
    BY <1>0, <1>2, MoveToType, KeptMayMove
  <2>2. disk' # NoTask => KeptRecord(disk')
    BY <2>1, KeptSaved DEF Advance
  <2> HIDE DEF m
  <2> QED BY <1>0, <2>1, <2>2 DEF Advance, m
<1> QED BY <1>1, <1>2 DEF Advance

LEMMA FitsComplete == ASSUME TypeOK, Placed, Fits, Complete PROVE Fits'
<1> USE DEF Fits, Kept, Staged, NotStranded, Transferring, Goto, ioVars, ctlVars, engineVars,
            boundVars
<1> DEFINE Phases == {"complete", "validate", "lease", "publish", "linked", "recorded",
                      "cleaned", "finish", "completed"}
<1>a. pc \in Phases =>
        running /\ mem \in Rec /\ mem # NoTask /\ KeptRecord(mem) /\ run.stream = Blank
  BY AbsentTask DEF Placed, RunSteps, FileSteps, Rec, RunFits
<1>b. pc \in FileSteps => file \in Files /\ file # NoFile /\ mem.res \in Identities
  BY HandleAssumption DEF Placed
<1>1. CASE EnterValidating
  <2>1. /\ disk' # NoTask => KeptRecord(disk')
        /\ mem' \in Rec /\ KeptRecord(mem') /\ mem'.res = mem.res
        /\ mem'.final = mem.final /\ mem'.partial = mem.partial
        /\ \/ pc' = "validate" /\ mem'.state = "Validating"
           \/ pc' \in {"stop", "fail"} /\ mem' = mem
    BY <1>1, <1>a, FitsAdvance DEF EnterValidating, States
  <2> QED BY <1>1, <1>a, <2>1 DEF EnterValidating, FileFits, RunFits
<1>2. CASE Validate
  <2>1. /\ file' \in {file, WithLife("Validated")} /\ file \in Files /\ file # NoFile
        /\ pc' \in {"lease", "stop", "fail"}
    BY <1>2, <1>b DEF Validate, FileSteps
  <2>2. file'.done = file.done /\ file'.sized = file.sized
    BY <2>1 DEF WithLife, Files
  <2>3. FileFits'
    BY <1>2, <1>b, <2>2 DEF Validate, FileFits, FileSteps
  <2> QED BY <1>2, <1>a, <2>1, <2>3 DEF Validate, RunFits
<1>3. CASE EnterPromoting
  <2>1. /\ disk' # NoTask => KeptRecord(disk')
        /\ mem' \in Rec /\ KeptRecord(mem') /\ mem'.res = mem.res
        /\ mem'.final = mem.final /\ mem'.partial = mem.partial
        /\ \/ pc' = "publish" /\ mem'.state = "Promoting"
           \/ pc' \in {"stop", "fail"} /\ mem' = mem
    BY <1>3, <1>a, FitsAdvance DEF EnterPromoting, States
  <2>2. file' \in {file, WithLife("Active")} /\ file \in Files /\ file # NoFile
    BY <1>3, <1>b DEF EnterPromoting, FileSteps
  <2>3. file'.done = file.done /\ file'.sized = file.sized
    BY <2>2 DEF WithLife, Files
  <2>4. FileFits'
    BY <2>1, <2>2, <2>3 DEF FileFits
  <2> QED BY <1>3, <1>a, <2>1, <2>4 DEF EnterPromoting, RunFits
<1>4. CASE Publish
  <2>1. /\ file' \in {WithLife("Published"), WithLife("Active")} /\ file \in Files /\ file # NoFile
        /\ pc' \in {"linked", "fail"}
    BY <1>4, <1>b DEF Publish, FileSteps
  <2>2. file'.done = file.done /\ file'.sized = file.sized
    BY <2>1 DEF WithLife, Files
  <2>3. FileFits'
    BY <1>4, <2>1, <2>2 DEF Publish, FileFits
  <2>4. pc' = "linked" => finals' # <<>>
    <3>1. pc' = "linked" => finals' = Append(finals, file.ino)
      BY <1>4 DEF Publish
    <3>2. finals \in Seq(Inode) /\ file.ino \in Inode
      BY <2>1 DEF TypeOK, Files
    <3> QED BY <3>1, <3>2
  <2> QED BY <1>4, <1>a, <2>1, <2>3, <2>4 DEF Publish, RunFits
<1>5. CASE RecordPromotion
  <2> DEFINE m == WithFinal(mem, Len(finals), pc = "linked")
  <2>0. pc \in {"linked", "cleaned"} /\ mem \in Rec /\ mem.state = "Promoting"
    BY <1>5, <1>a DEF RecordPromotion
  <2>1. Len(finals) \in Nat \ {0} /\ mem.res \in Identities /\ mem.res # NoResource
    BY <2>0, UnknownResource DEF TypeOK, Placed, FileSteps, RunFits
  <2>2. /\ m \in Rec /\ m.res = mem.res /\ KeptRecord(m) /\ m.state = "Promoting"
        /\ m.final # 0
    BY <2>0, <2>1, <1>a, WithFinalType, KeptWithFinal
  <2>3. disk' # NoTask => KeptRecord(disk')
    BY <1>5, <2>2, KeptSaved DEF RecordPromotion
  <2> HIDE DEF m
  <2>4. mem' = m /\ file' = file /\ finals' = finals
    BY <1>5 DEF RecordPromotion, m
  <2>5. \/ pc' \in {"recorded", "finish"} /\ UNCHANGED <<ctlVars, run>>
        \/ pc' = "idle" /\ running' = FALSE
    BY <1>5 DEF RecordPromotion, EndRun
  <2> QED BY <1>a, <2>0, <2>2, <2>3, <2>4, <2>5 DEF FileFits, RunFits
<1>6. CASE CleanupPartial
  BY <1>6, <1>a DEF CleanupPartial, FileFits, RunFits
<1>7. CASE EnterCompleted
  <2> DEFINE m == MoveTo(mem, "Completed")
  <2>1. /\ mem \in Rec /\ m \in Rec /\ m.res = mem.res /\ m.partial = mem.partial
        /\ m.state = "Completed" /\ KeptRecord(m) /\ m.final = mem.final
    BY <1>7, <1>a, MoveToType, KeptMove DEF EnterCompleted, States
  <2>2. disk' # NoTask => KeptRecord(disk')
    BY <1>7, <2>1, KeptSaved DEF EnterCompleted
  <2> HIDE DEF m
  <2>3. \/ mem' = m /\ pc' = "completed" /\ UNCHANGED <<ctlVars, run>>
        \/ mem' = mem /\ pc' = "idle" /\ running' = FALSE
    BY <1>7 DEF EnterCompleted, EndRun, m
  <2> QED BY <1>7, <1>a, <2>1, <2>2, <2>3 DEF EnterCompleted, FileFits, RunFits
<1>8. CASE Completed
  BY <1>8, <1>a DEF Completed, EndRun, FileFits, RunFits
<1> QED BY <1>1, <1>2, <1>3, <1>4, <1>5, <1>6, <1>7, <1>8 DEF Complete

LEMMA FitsFinish == ASSUME TypeOK, Placed, Fits, Finish PROVE Fits'
<1> USE DEF Fits, Kept, Staged, NotStranded, Transferring, Goto, ioVars, ctlVars, engineVars,
            boundVars
<1> DEFINE Ends == {"stop", "halt", "fail", "discard", "forget", "purge"}
<1>a. pc \in Ends => mem \in Rec /\ mem # NoTask /\ KeptRecord(mem)
  BY AbsentTask DEF Placed, Rec
<1>b. (running /\ pc \in Ends) => run.stream = Blank
  BY DEF RunFits
<1>1. CASE StopBoundary
  <2>1. CASE UNCHANGED <<mem, disk>> /\ pc' = "halt"
    BY <1>1, <1>a, <1>b, <2>1 DEF StopBoundary, FileFits, RunFits, Boundary
  <2>2. CASE file # NoFile /\ Boundary(Goto("halt") /\ UNCHANGED run)
    <3>1. /\ mem' \in Rec /\ mem'.res \in Identities /\ mem'.res.mode = mem.res.mode
          /\ mem'.state = mem.state /\ mem'.final = mem.final /\ mem'.partial = mem.partial
          /\ KeptRecord(mem')
          /\ disk' # NoTask => KeptRecord(disk')
      BY <2>2, FitsRefresh DEF Boundary
    <3>2. pc = "stop" /\ pc' \in {"halt", "fail"} /\ UNCHANGED <<running, run, file, finals>>
      BY <1>1, <2>2 DEF StopBoundary, Boundary
    <3>3. FileFits'
      BY <2>2, <3>1, <3>2 DEF FileFits, Extent
    <3>4. NotStranded'
      BY <3>1, <3>2 DEF Placed, RunSteps
    <3> QED BY <1>b, <3>1, <3>2, <3>3, <3>4 DEF RunFits
  <2> QED BY <1>1, <2>1, <2>2 DEF StopBoundary
<1>2. CASE ApplyStop
  <2>1. /\ pc = "halt" /\ mem \in Rec /\ mem # NoTask /\ KeptRecord(mem) /\ mem.final = 0
        /\ StopTarget \in {"Paused", "Cancelled", "Failed"} /\ file' = file
    BY <1>2, <1>a DEF ApplyStop, StopTarget, KeptRecord
  <2>2. ASSUME NEW s \in {"Paused", "Cancelled", "Failed"}
        PROVE  /\ MoveTo(mem, s) \in Rec /\ KeptRecord(MoveTo(mem, s))
               /\ MoveTo(mem, s).res = mem.res /\ MoveTo(mem, s).partial = mem.partial
               /\ MoveTo(mem, s).final = mem.final /\ MoveTo(mem, s).state = s
    <3>1. s \in States
      BY DEF States
    <3> QED BY <2>1, <3>1, MoveToType, KeptMove
  <2>3. CASE stop = "shutdown" /\ mem.state = "Paused"
    BY <1>2, <2>1, <2>3 DEF ApplyStop, EndRun, FileFits, RunFits
  <2>4. CASE Saved(MoveTo(mem, StopTarget)) /\ mem' = MoveTo(mem, StopTarget)
             /\ IF stop = "cancelDelete" /\ mem'.partial # 0
                THEN Goto("discard") /\ UNCHANGED <<ctlVars, run>>
                ELSE EndRun
    <3>1. disk' # NoTask => KeptRecord(disk')
      BY <2>1, <2>2, <2>4, KeptSaved
    <3>2. stop = "cancelDelete" => mem'.state = "Cancelled"
      BY <2>1, <2>2, <2>4 DEF StopTarget
    <3> QED BY <1>b, <2>1, <2>2, <2>4, <3>1, <3>2 DEF EndRun, FileFits, RunFits
  <2>5. CASE MarkStopFailed /\ EndRun
    BY <2>1, <2>2, <2>5 DEF MarkStopFailed, EndRun, FileFits, RunFits
  <2> QED BY <1>2, <2>1, <2>2, <2>3, <2>4, <2>5 DEF ApplyStop
<1>3. CASE FailRun
  <2> DEFINE m == MoveTo(mem, "Failed")
  <2>1. pc = "fail" /\ mem \in Rec /\ mem # NoTask /\ KeptRecord(mem) /\ file' = file
    BY <1>3, <1>a DEF FailRun
  <2>2. CASE MayMove(mem, "Failed")
    <3>1. /\ m \in Rec /\ m.res = mem.res /\ m.partial = mem.partial
          /\ m.state = "Failed" /\ KeptRecord(m) /\ m.final = mem.final
      BY <2>1, <2>2, MoveToType, KeptMayMove DEF States
    <3>2. mem' = m /\ (Saved(m) \/ NotSaved(m))
      BY <1>3, <2>2 DEF FailRun
    <3>3. disk' # NoTask => KeptRecord(disk')
      BY <3>1, <3>2, KeptSaved
    <3>4. \/ pc' = "discard" /\ UNCHANGED <<ctlVars, run>>
          \/ pc' = "idle" /\ running' = FALSE
      BY <1>3 DEF FailRun, EndRun
    <3> HIDE DEF m
    <3> QED BY <1>b, <2>1, <3>1, <3>2, <3>3, <3>4 DEF FileFits, RunFits
  <2>3. CASE ~MayMove(mem, "Failed")
    <3>1. mem.state = "Promoting"
      BY <2>1, <2>3, CanFail
    <3>2. UNCHANGED <<mem, disk>> /\ EndRun
      BY <1>3, <2>3, <3>1 DEF FailRun
    <3> QED BY <2>1, <3>1, <3>2 DEF EndRun, FileFits, RunFits
  <2> QED BY <2>2, <2>3
<1>4. CASE Discard
  BY <1>4, <1>a, <1>b DEF Discard, EndRun, FileFits, RunFits
<1>5. CASE Forget
  <2> DEFINE m == WithoutPartial(mem)
  <2>1. /\ pc = "forget" /\ mem \in Rec /\ mem # NoTask /\ m \in Rec /\ KeptRecord(m)
        /\ m.state = mem.state
    BY <1>5, <1>a, WithoutPartialType, KeptWithoutPartial DEF Forget
  <2>2. disk' # NoTask => KeptRecord(disk')
    BY <1>5, <2>1, KeptSaved DEF Forget
  <2>3. (mem' = m /\ file' = NoFile) \/ (mem' = mem /\ file' = file)
    BY ONLY <1>5 DEF Forget
  <2> HIDE DEF m
  <2> QED BY <1>5, <2>1, <2>2, <2>3 DEF Forget, EndRun, FileFits, RunFits
<1>6. CASE Purge
  <2>1. ~running /\ mem.state \in Terminal
    BY <1>6 DEF Purge, Placed
  <2> QED BY <1>6, <2>1 DEF Purge, FileFits, RunFits, Terminal
<1> QED BY <1>1, <1>2, <1>3, <1>4, <1>5, <1>6 DEF Finish

LEMMA FitsNext == ASSUME TypeOK, Placed, Fits, [Next]_vars PROVE Fits'
<1> USE DEF Fits, Kept, Staged, NotStranded, Transferring, Goto, ioVars, ctlVars, engineVars,
            boundVars
<1>1. CASE Exit \/ Crash
  BY <1>1 DEF Exit, Crash, Down, EndRun, FileFits, RunFits
<1>2. CASE Open
  <2>1. mem = NoTask /\ file = NoFile /\ pc = "idle" /\ ~running
    BY <1>2 DEF Open, Placed
  <2>2. CASE UNCHANGED <<mem, disk>>
    BY <1>2, <2>1, <2>2 DEF Open, FileFits, RunFits
  <2>3. CASE disk # NoTask /\ (Saved(Normalized(disk)) \/ NotSaved(Normalized(disk)))
             /\ mem' \in {mem, Normalized(disk)}
    <3>1. /\ Normalized(disk) \in Rec /\ KeptRecord(Normalized(disk))
          /\ Normalized(disk).state \notin {"Probing", "Downloading", "Validating"}
      BY <2>3, NormalizedType, KeptNormalized DEF TypeOK, Rec
    <3>2. disk' # NoTask => KeptRecord(disk')
      BY <2>3, <3>1, KeptSaved
    <3> QED BY <1>2, <2>1, <2>3, <3>1, <3>2 DEF Open, FileFits, RunFits
  <2> QED BY <1>2, <2>2, <2>3 DEF Open
<1>3. CASE ServerChanges \/ UNCHANGED vars
  BY <1>3 DEF ServerChanges, vars, FileFits, RunFits
<1> QED BY <1>1, <1>2, <1>3, FitsCommand, FitsPrepare, FitsTransfer, FitsComplete,
           FitsFinish DEF Next

LEMMA FitsAlways == Spec => []Fits
<1>1. (TypeOK /\ Placed) /\ Fits /\ [Next]_vars => Fits'
  BY FitsNext
<1> QED BY <1>1, FitsInit, Typed, PTL DEF Spec

\* Whichever of its failure and stop paths ended the run, a task without one is in a state
\* that a command can leave: a record that has to fail always can.
THEOREM NeverStranded == Spec => []NotStranded
<1>1. Fits => NotStranded
  BY DEF Fits, Staged
<1> QED BY <1>1, FitsAlways, PTL

-------------------------------------------------------------------------------
(***************************************************************************)
(* What is reported at rest is on disk.                                    *)
(***************************************************************************)
\* A checkpoint that succeeds leaves exactly its record, since no other has its revision.
LEMMA SavedNow ==
  ASSUME TypeOK, mem \in Rec, RevisionIdentifiesRecord,
         NEW m \in Rec, m = mem \/ m.rev = mem.rev + 1, Saved(m)
  PROVE  disk' = m
<1>1. disk \in Rec /\ disk.rev <= mem.rev /\ (disk.rev = mem.rev => disk = mem)
  BY AbsentTask DEF RevisionIdentifiesRecord, TypeOK, Rec
<1>2. mem.rev \in Nat /\ m.rev \in Nat /\ disk.rev \in Nat
  BY <1>1 DEF Rec, Tasks
<1>3. disk.rev = m.rev => disk = m
  BY <1>1, <1>2
<1> QED BY <1>3 DEF Saved

LEMMA SavedMove ==
  ASSUME TypeOK, mem \in Rec, RevisionIdentifiesRecord, NEW s \in States,
         Saved(MoveTo(mem, s))
  PROVE  disk' = MoveTo(mem, s)
BY MoveToType, SavedNow

LEMMA SavedCommand ==
  ASSUME TypeOK, Placed, RevisionIdentifiesRecord, SavedSoFar, Command PROVE SavedSoFar'
<1> USE DEF SavedSoFar, Goto, ioVars, ctlVars, engineVars, boundVars
<1>0. mem = NoTask \/ mem \in Rec
  BY DEF TypeOK, Rec
<1>1. ASSUME NEW sum \in Body \cup {Blank}, Create(sum) PROVE SavedSoFar'
  <2>1. ~running /\ pc = "idle"
    BY <1>1, WithoutRun, AbsentTask DEF Create, Placed, RunSteps, FileSteps
  <2> QED BY <1>1, <2>1 DEF Create, Saved
<1>2. CASE Start
  <2>1. MoveTo(mem, "Probing").state = "Probing"
    BY <1>0, <1>2, MoveToType DEF Start, Managed, States
  <2>2. CASE mem' = MoveTo(mem, "Probing") /\ BeginRun("Initial")
    BY <2>1, <2>2 DEF BeginRun
  <2>3. CASE UNCHANGED <<mem, disk, pc>>
    BY <2>3
  <2> QED BY <1>2, <2>2, <2>3 DEF Start, NotSaved
<1>3. CASE Resume
  <2>1. pc = "idle"
    BY <1>3, WithoutRun DEF Resume, Managed, Commandable, Locks
  <2> QED BY <1>3, <2>1 DEF Resume, Managed, BeginRun
<1>4. CASE Retry
  <2>1. CASE Saved(MoveTo(mem, "Queued")) /\ mem' = MoveTo(mem, "Queued")
    <3>1. disk' = mem'
      BY <1>0, <1>4, <2>1, SavedMove DEF Retry, Managed, States
    <3> QED BY <3>1
  <2>2. CASE UNCHANGED <<mem, disk, pc>>
    BY <2>2
  <2> QED BY <1>4, <2>1, <2>2 DEF Retry, NotSaved
<1>5. CASE Pause \/ Shutdown
  BY <1>5 DEF Pause, Shutdown
<1>6. CASE Remove
  <2>1. pc = "idle"
    BY <1>6, WithoutRun DEF Remove, Managed, Commandable, Locks
  <2> QED BY <1>6, <2>1 DEF Remove
<1>7. ASSUME NEW s \in {"cancelKeep", "cancelDelete"}, CancelActive(s) PROVE SavedSoFar'
  BY <1>7 DEF CancelActive
<1>8. ASSUME NEW s \in {"cancelKeep", "cancelDelete"}, CancelInactive(s) PROVE SavedSoFar'
  <2>1. CASE Saved(MoveTo(mem, "Cancelled")) /\ mem' = MoveTo(mem, "Cancelled")
    <3>1. disk' = mem'
      BY <1>0, <1>8, <2>1, SavedMove DEF CancelInactive, Managed, States
    <3> QED BY <3>1
  <2>2. CASE UNCHANGED <<mem, disk, pc>>
    BY <2>2
  <2> QED BY <1>8, <2>1, <2>2 DEF CancelInactive, NotSaved
<1> QED
  BY <1>1, <1>2, <1>3, <1>4, <1>5, <1>6, <1>7, <1>8, ChecksumsAssumption DEF Command

LEMMA SavedPrepare ==
  ASSUME TypeOK, Placed, SavedSoFar, Prepare PROVE SavedSoFar'
<1> USE DEF SavedSoFar, Goto, ioVars, ctlVars, engineVars, boundVars
<1>1. CASE ProbeStops \/ ProbeRetries \/ ProbeAnswers
  BY <1>1 DEF ProbeStops, ProbeRetries, ProbeAnswers
<1>2. CASE ProbeFails \/ PrepareRefused \/ PrepareResume \/ PrepareRetained
           \/ CreatePartial \/ Attach
  <2>1. pc' \in {"fail", "errored", "transfer", "attach"}
    BY <1>2 DEF ProbeFails, PrepareRefused, PrepareResume, PrepareRetained, CreatePartial,
                Attach, EnterTransfer
  <2> QED BY <2>1
<1> QED BY <1>1, <1>2 DEF Prepare

LEMMA SavedTransfer ==
  ASSUME TypeOK, Placed, Fits, SavedSoFar, Transfer \/ Settle PROVE SavedSoFar'
<1> USE DEF SavedSoFar, Goto, ioVars, ctlVars, engineVars, boundVars
<1>1. CASE Transfer
  <2>1. pc' = "transfer"
    BY <1>1 DEF Transfer, CommitRange, TearRange, StreamWrite, BeginStream, EndStream,
                CheckpointProgress
  <2> QED BY <2>1
<1>2. CASE TransferReturns
  <2>1. mem.state = "Downloading" /\ mem' = mem
        /\ pc' \in {"fail", "stop", "settled", "errored"}
    BY <1>2 DEF TransferReturns, Fits, Staged, Transferring
  <2> QED BY <2>1
<1>3. CASE AfterTransfer
  <2>1. mem.state = "Downloading" /\ file # NoFile
    BY <1>3, HandleAssumption
       DEF AfterTransfer, Fits, Staged, Transferring, Placed, FileSteps
  <2>2. mem'.state = "Downloading"
    BY <1>3, <2>1, FitsRefresh DEF AfterTransfer, Boundary, Fits
  <2>3. pc' \in {"stop", "complete", "transfer", "fail"}
    BY <1>3 DEF AfterTransfer, Boundary
  <2> QED BY <2>2, <2>3
<1> QED BY <1>1, <1>2, <1>3 DEF Settle

LEMMA SavedComplete ==
  ASSUME TypeOK, Placed, RevisionIdentifiesRecord, Fits, SavedSoFar, Complete
  PROVE  SavedSoFar'
<1> USE DEF SavedSoFar, Goto, ioVars, ctlVars, engineVars, boundVars
<1>1. CASE EnterValidating
  <2>1. pc' \in {"validate", "fail"} \/ (pc' = "stop" /\ mem' = mem)
    BY <1>1 DEF EnterValidating, Advance
  <2>2. mem.state = "Downloading"
    BY <1>1 DEF EnterValidating, Fits, Staged
  <2> QED BY <2>1, <2>2
<1>2. CASE Validate
  <2>1. pc' \in {"lease", "stop", "fail"} /\ mem' = mem /\ mem.state = "Validating"
    BY <1>2 DEF Validate, Fits, Staged
  <2> QED BY <2>1
<1>3. CASE EnterPromoting
  <2>1. pc' \in {"publish", "fail"} \/ (pc' = "stop" /\ mem' = mem)
    BY <1>3 DEF EnterPromoting, Advance
  <2>2. mem.state = "Validating"
    BY <1>3 DEF EnterPromoting, Fits, Staged
  <2> QED BY <2>1, <2>2
<1>4. CASE Publish \/ CleanupPartial
  <2>1. pc' \in {"linked", "fail", "cleaned", "finish"}
    BY <1>4 DEF Publish, CleanupPartial
  <2> QED BY <2>1
<1>5. CASE RecordPromotion
  <2>1. mem \in Rec /\ mem.state = "Promoting"
    BY <1>5 DEF RecordPromotion, Placed, Fits, Staged
  <2>2. mem'.state = "Promoting"
    BY <1>5, <2>1 DEF RecordPromotion, WithFinal, Rec, Tasks
  <2>3. pc' \in {"recorded", "finish", "idle"}
    BY <1>5 DEF RecordPromotion, EndRun
  <2> QED BY <2>2, <2>3
<1>6. CASE EnterCompleted
  <2>1. mem \in Rec /\ mem.state = "Promoting"
    BY <1>6 DEF EnterCompleted, Placed, Fits, Staged
  <2>2. CASE Saved(MoveTo(mem, "Completed")) /\ mem' = MoveTo(mem, "Completed")
    <3>1. disk' = mem'
      BY <2>1, <2>2, SavedMove DEF States
    <3> QED BY <3>1
  <2>3. CASE mem' = mem /\ pc' = "idle"
    BY <2>1, <2>3
  <2> QED BY <1>6, <2>2, <2>3 DEF EnterCompleted, EndRun
<1>7. CASE Completed
  BY <1>7 DEF Completed, EndRun
<1> QED BY <1>1, <1>2, <1>3, <1>4, <1>5, <1>6, <1>7 DEF Complete

LEMMA SavedFinish ==
  ASSUME TypeOK, Placed, RevisionIdentifiesRecord, Fits, SavedSoFar, Finish
  PROVE  SavedSoFar'
<1> USE DEF SavedSoFar, Goto, ioVars, ctlVars, engineVars, boundVars
<1>0. pc \in {"stop", "halt", "fail", "discard", "forget", "purge"} =>
        mem \in Rec /\ mem # NoTask
  BY AbsentTask DEF Placed, Rec
<1>1. CASE StopBoundary
  <2>1. CASE UNCHANGED <<mem, disk>> /\ pc' = "halt"
    BY <1>1, <2>1 DEF StopBoundary
  <2>2. CASE pc' = "fail"
    BY <2>2
  <2>3. CASE file # NoFile /\ mem' = Durable /\ Saved(Durable) /\ pc' = "halt"
    <3>1. file \in Files /\ mem \in Rec /\ mem.res \in Identities
      BY <2>3 DEF TypeOK, Placed
    <3>2. Durable \in Rec /\ (Durable = mem \/ Durable.rev = mem.rev + 1)
      BY <3>1, DurableType
    <3>3. disk' = mem'
      BY <2>3, <3>1, <3>2, SavedNow
    <3> QED BY <2>3, <3>3
  <2> QED BY <1>1, <2>1, <2>2, <2>3 DEF StopBoundary, Boundary
<1>2. CASE ApplyStop
  <2>1. pc = "halt" /\ mem \in Rec /\ StopTarget \in States
    BY <1>0, <1>2 DEF ApplyStop, StopTarget, States
  <2>2. pc' \in {"idle", "discard"}
    BY <1>2 DEF ApplyStop, EndRun
  <2>3. CASE mem.state = "Paused" /\ UNCHANGED <<mem, disk>>
    BY <2>1, <2>2, <2>3
  <2>4. CASE Saved(MoveTo(mem, StopTarget)) /\ mem' = MoveTo(mem, StopTarget)
    <3>1. disk' = mem'
      BY <2>1, <2>4, SavedMove
    <3> QED BY <2>2, <3>1
  <2>5. CASE MarkStopFailed
    <3>1. mem'.state = "Failed"
      BY <2>1, <2>5, MoveToType DEF MarkStopFailed, States
    <3> QED BY <2>2, <3>1
  <2> QED BY <1>2, <2>3, <2>4, <2>5 DEF ApplyStop
<1>3. CASE FailRun
  <2>1. pc' \in {"idle", "discard"}
    BY <1>3 DEF FailRun, EndRun
  <2>2. pc = "fail" /\ mem \in Rec /\ mem # NoTask /\ KeptRecord(mem)
    BY <1>0, <1>3 DEF FailRun, Fits, Kept
  <2>3. mem'.state \in {"Failed", "Promoting"}
    <3>1. CASE MayMove(mem, "Failed")
      BY <1>3, <2>2, <3>1, MoveToType DEF FailRun, States
    <3>2. CASE ~MayMove(mem, "Failed")
      <4>1. mem.state = "Promoting"
        BY <2>2, <3>2, CanFail DEF Fits, Staged
      <4> QED BY <1>3, <3>2, <4>1 DEF FailRun
    <3> QED BY <3>1, <3>2
  <2> QED BY <2>1, <2>3
<1>4. CASE Discard
  BY <1>4 DEF Discard, EndRun
<1>5. CASE Forget
  <2>1. CASE Saved(WithoutPartial(mem)) /\ mem' = WithoutPartial(mem)
    <3>1. disk' = mem'
      BY <1>0, <1>5, <2>1, WithoutPartialType, SavedNow DEF Forget
    <3> QED BY <3>1
  <2>2. CASE UNCHANGED <<mem, disk>>
    BY <1>5, <2>2 DEF Forget, EndRun
  <2> QED BY <1>5, <2>1, <2>2 DEF Forget, NotSaved
<1>6. CASE Purge
  BY <1>6 DEF Purge
<1> QED BY <1>1, <1>2, <1>3, <1>4, <1>5, <1>6 DEF Finish

LEMMA SavedNext ==
  ASSUME TypeOK, Placed, RevisionIdentifiesRecord, Fits, SavedSoFar, [Next]_vars
  PROVE  SavedSoFar'
<1> USE DEF SavedSoFar, Goto, ioVars, ctlVars, engineVars, boundVars
<1>1. CASE Exit \/ Crash
  BY <1>1 DEF Exit, Crash, Down, EndRun
<1>2. CASE Open
  <2>1. mem = NoTask /\ pc' = "idle"
    BY <1>2 DEF Open, Placed
  <2>2. CASE mem' = NoTask
    BY <2>1, <2>2
  <2>3. CASE disk # NoTask /\ Saved(Normalized(disk)) /\ mem' = Normalized(disk)
    <3>1. disk \in Rec
      BY <2>3 DEF TypeOK, Rec
    <3>2. /\ disk.rev \in Nat
          /\ Normalized(disk) = disk \/ Normalized(disk).rev = disk.rev + 1
      BY <3>1, NormalizedType DEF Rec, Tasks
    <3>3. disk' = mem'
      BY <2>3, <3>2 DEF Saved
    <3> QED BY <2>1, <3>3
  <2> QED BY <1>2, <2>1, <2>2, <2>3 DEF Open
<1>3. CASE ServerChanges \/ UNCHANGED vars
  BY <1>3 DEF ServerChanges, vars
<1> QED BY <1>1, <1>2, <1>3, SavedCommand, SavedPrepare, SavedTransfer, SavedComplete,
           SavedFinish DEF Next

\* What the engine reports of a task at rest survives a crash, but for a failure or a
\* publication that could not be recorded, whatever the store has refused before.
THEOREM RestAlwaysDurable == Spec => []RestIsDurable
<1>1. Init => SavedSoFar
  BY DEF Init, SavedSoFar
<1>2. (TypeOK /\ Placed) /\ RevisionIdentifiesRecord /\ Fits /\ SavedSoFar /\ [Next]_vars
        => SavedSoFar'
  BY SavedNext
<1>3. SavedSoFar => RestIsDurable
  BY DEF SavedSoFar, RestIsDurable
<1> QED BY <1>1, <1>2, <1>3, Typed, RevisionsIdentify, FitsAlways, PTL DEF Spec
=============================================================================
