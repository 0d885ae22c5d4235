--------------------------- MODULE TaskPromiseProofs ---------------------------
(***************************************************************************)
(* First the bytes of TaskLifecycle: what is claimed, what is published    *)
(* and what is recorded as completed.  Then what it promises:              *)
(* TaskLifecycle implements Download, and honours accepted stops: what     *)
(* each step does to the published names, to the record on disk and to the *)
(* stop.                                                                   *)
(***************************************************************************)
EXTENDS TaskLifecycleProofs, SequenceTheorems

\* Chunk c of inode i holds the bytes of version b, flushed, for every c of cs.
Holds(ct, sy, i, b, cs) == \A c \in cs : ct[i][c] = b /\ c \in sy[i]

FromSource(id, b) == id.strong => id.tag = b

\* What coverage stands for: the empty file is whole from the start.
Claimed(done, id) == IF id.mode = "empty" THEN Chunk ELSE done

Claim(m) == Claimed(m.done, m.res)

GoodPartial(ct, sy, m) ==
  m.partial # 0 =>
    \E b \in Body : /\ Holds(ct, sy, m.partial, b, Claim(m))
                    /\ Claim(m) # {} => FromSource(m.res, b)

Verified(ct, sy, m, i) ==
  \E b \in Body : /\ Holds(ct, sy, i, b, Chunk)
                  /\ FromSource(m.res, b)
                  /\ m.checksum # Blank => m.checksum = b

GoodFinal(ct, sy, fs, m) ==
  m.final # 0 => m.final \in DOMAIN fs /\ Verified(ct, sy, m, fs[m.final])

LinkedFull(fs, i, done, id) == \A n \in DOMAIN fs : fs[n] = i => done = Extent(id)

GoodRecord(ct, sy, fs, md, m) ==
  /\ GoodPartial(ct, sy, m)
  /\ GoodFinal(ct, sy, fs, m)
  /\ LinkedFull(fs, m.partial, m.done, m.res)
  /\ m.partial <= md

GoodBytes(ct, i, done, id) ==
  \E b \in Body : /\ \A c \in Claimed(done, id) : ct[i][c] = b
                  /\ Claimed(done, id) # {} => FromSource(id, b)

\* The open handle covers what the record in memory claims, and more.
GoodFile(ct, fs, md, f, m) ==
  /\ m.partial \in {0, f.ino}
  /\ f.ino <= md
  /\ GoodBytes(ct, f.ino, f.done, m.res)
  /\ LinkedFull(fs, f.ino, f.done, m.res)
  /\ m.partial # 0 => Claim(m) \subseteq Claimed(f.done, m.res)

Records ==
  /\ mem # NoTask => GoodRecord(content, synced, finals, made, mem)
  /\ disk # NoTask => GoodRecord(content, synced, finals, made, disk)
  /\ (mem # NoTask /\ disk # NoTask /\ mem.partial # 0 /\ disk.partial = mem.partial) =>
        Claim(disk) \subseteq Claim(mem)

Handles ==
  file # NoFile =>
    /\ GoodFile(content, finals, made, file, mem)
    /\ (disk # NoTask /\ disk.partial = file.ino) =>
          Claim(disk) \subseteq Claimed(file.done, mem.res)

SourceOf(id, r) == id.strong = r.strong /\ FromSource(id, r.body)

Sourced ==
  /\ pc \in Transferring \cup {"attach"} => SourceOf(mem.res, run.source)
  /\ (running /\ run.stream # Blank /\ run.source.strong) => run.stream = run.source.body

Checked == {"lease", "publish", "linked", "recorded", "cleaned"}

Phased ==
  /\ pc = "attach" => file = NoFile
  /\ pc \in {"validate", "lease", "publish"} => mem.done = Extent(mem.res)
  /\ pc \in {"lease", "publish"} => file.done = Extent(mem.res)
  /\ pc \in Checked => Verified(content, synced, mem, file.ino)
  /\ pc = "publish" => disk = mem
  /\ pc \in {"linked", "recorded", "cleaned"} => finals[Len(finals)] = file.ino

Names ==
  /\ \A n \in DOMAIN finals : finals[n] <= made
  /\ \A i \in Inode : i > made => synced[i] = Chunk
  /\ PublishedWhole

Genuine == Records /\ Handles /\ Sourced /\ Phased /\ Names

-------------------------------------------------------------------------------
(***************************************************************************)
(* Records, with the bytes they speak of.                                  *)
(***************************************************************************)
\* Two records that differ in state and revision only
Same(w, m) ==
  /\ w.res = m.res /\ w.partial = m.partial /\ w.final = m.final
  /\ w.done = m.done /\ w.checksum = m.checksum

LEMMA SameMove ==
  ASSUME NEW m \in Rec, NEW s \in States PROVE Same(MoveTo(m, s), m)
BY DEF Same, MoveTo, Rec, Tasks

LEMMA SameGood ==
  ASSUME NEW m, NEW w, Same(w, m), NEW ct, NEW sy, NEW fs, NEW md,
         GoodRecord(ct, sy, fs, md, m)
  PROVE  GoodRecord(ct, sy, fs, md, w) /\ Claim(w) = Claim(m)
BY DEF Same, GoodRecord, GoodPartial, GoodFinal, Verified, Claim

LEMMA SameVerified ==
  ASSUME NEW m, NEW w, Same(w, m), NEW ct, NEW sy, NEW i, Verified(ct, sy, m, i)
  PROVE  Verified(ct, sy, w, i)
BY DEF Same, Verified

LEMMA SameFile ==
  ASSUME NEW m, NEW w, Same(w, m), NEW ct, NEW fs, NEW md, NEW f, NEW g,
         f.ino = g.ino, f.done = g.done, GoodFile(ct, fs, md, f, m)
  PROVE  GoodFile(ct, fs, md, g, w)
BY DEF Same, GoodFile, Claim

\* A record stays good as long as no flushed byte it or a name relies on is lost.
LEMMA GoodStays ==
  ASSUME NEW m \in Rec, NEW ct, NEW sy, NEW cz, NEW sz, NEW fs, NEW md \in Nat,
         NEW me \in Nat, md <= me,
         GoodRecord(ct, sy, fs, md, m),
         m.partial # 0 => \A c \in Claim(m) : c \in sy[m.partial] =>
           cz[m.partial][c] = ct[m.partial][c] /\ c \in sz[m.partial],
         \A n \in DOMAIN fs : \A c \in Chunk : c \in sy[fs[n]] =>
           cz[fs[n]][c] = ct[fs[n]][c] /\ c \in sz[fs[n]]
  PROVE  GoodRecord(cz, sz, fs, me, m)
<1>1. GoodPartial(cz, sz, m)
  <2> SUFFICES ASSUME m.partial # 0
               PROVE  \E b \in Body : /\ Holds(cz, sz, m.partial, b, Claim(m))
                                      /\ Claim(m) # {} => FromSource(m.res, b)
    BY DEF GoodPartial
  <2>1. PICK b \in Body : /\ Holds(ct, sy, m.partial, b, Claim(m))
                          /\ Claim(m) # {} => FromSource(m.res, b)
    BY DEF GoodRecord, GoodPartial
  <2> QED BY <2>1 DEF Holds
<1>2. GoodFinal(cz, sz, fs, m)
  <2> SUFFICES ASSUME m.final # 0
               PROVE  m.final \in DOMAIN fs /\ Verified(cz, sz, m, fs[m.final])
    BY DEF GoodFinal
  <2>1. m.final \in DOMAIN fs /\ Verified(ct, sy, m, fs[m.final])
    BY DEF GoodRecord, GoodFinal
  <2> QED BY <2>1 DEF Verified, Holds
<1>3. m.partial <= me
  <2>1. m.partial \in Nat
    BY BoundsAssumption DEF Rec, Tasks, Inode
  <2> QED BY <2>1 DEF GoodRecord
<1> QED BY <1>1, <1>2, <1>3 DEF GoodRecord

\* The same for the names themselves
LEMMA NamesStay ==
  ASSUME Names, UNCHANGED finals, made \in Nat, made' \in Nat, made <= made',
         finals \in Seq(Inode),
         \A n \in DOMAIN finals : \A c \in Chunk : c \in synced[finals[n]] =>
           content'[finals[n]][c] = content[finals[n]][c] /\ c \in synced'[finals[n]],
         \A i \in Inode : i > made' => synced'[i] = Chunk
  PROVE  Names'
<1>1. \A n \in DOMAIN finals : finals[n] \in Nat
  BY BoundsAssumption DEF Inode
<1>2. \A n \in DOMAIN finals' : finals'[n] <= made'
  BY <1>1 DEF Names
<1>3. PublishedWhole'
  BY DEF Names, PublishedWhole, Uniform
<1> QED BY <1>2, <1>3 DEF Names

\* A step that moves a record on without changing what it claims, and keeps the handle or
\* closes it
LEMMA SameContent ==
  ASSUME TypeOK, Records, Handles, Names, mem \in Rec, Same(mem', mem), mem' # NoTask,
         disk' \in {disk, mem'}, UNCHANGED <<content, synced, finals, made>>,
         file' = NoFile \/ (file # NoFile /\ file'.ino = file.ino /\ file'.done = file.done)
  PROVE  Records' /\ Handles' /\ Names'
<1>1. mem # NoTask /\ GoodRecord(content, synced, finals, made, mem)
  BY AbsentTask DEF Records
<1>2. GoodRecord(content, synced, finals, made, mem') /\ Claim(mem') = Claim(mem)
  BY <1>1, SameGood
<1>3. mem'.partial = mem.partial /\ mem'.res = mem.res
  BY DEF Same
<1>4. Records'
  BY <1>1, <1>2, <1>3 DEF Records
<1>5. Handles'
  <2> SUFFICES ASSUME file' # NoFile PROVE Handles'
    BY DEF Handles
  <2>1. GoodFile(content, finals, made, file, mem)
    BY DEF Handles
  <2>2. GoodFile(content, finals, made, file', mem')
    BY <2>1, SameFile
  <2>3. (disk' # NoTask /\ disk'.partial = file'.ino) =>
          Claim(disk') \subseteq Claimed(file'.done, mem'.res)
    <3>1. CASE disk' = mem' /\ mem'.partial # 0
      BY <2>2, <3>1 DEF GoodFile
    <3>2. CASE disk' = mem' /\ mem'.partial = 0
      <4>1. file.ino # 0
        BY BoundsAssumption DEF TypeOK, Files, Inode
      <4> QED BY <3>2, <4>1
    <3>3. CASE disk' = disk
      BY <1>3, <3>3 DEF Handles
    <3> QED BY <3>1, <3>2, <3>3
  <2> QED BY <2>2, <2>3 DEF Handles
<1>6. Names'
  BY DEF Names, PublishedWhole, Uniform
<1> QED BY <1>4, <1>5, <1>6

-------------------------------------------------------------------------------
(***************************************************************************)
(* Commands and preparation.                                               *)
(***************************************************************************)
LEMMA GenuineInit == Init => Genuine
BY DEF Init, Genuine, Records, Handles, Sourced, Phased, Names, Transferring, Checked,
       PublishedWhole

LEMMA SavedOrNot ==
  ASSUME NEW m, Saved(m) \/ NotSaved(m) PROVE disk' \in {disk, m}
BY DEF Saved, NotSaved

LEMMA GenuineCommand ==
  ASSUME TypeOK, Placed, Fits, Genuine, Command PROVE Genuine'
<1> USE DEF Genuine, Goto, ioVars, ctlVars, engineVars, boundVars
<1>0. mem = NoTask \/ mem \in Rec
  BY DEF TypeOK, Rec
<1>1. ASSUME NEW sum \in Body \cup {Blank}, Create(sum) PROVE Genuine'
  <2>1. ~running /\ pc = "idle" /\ file = NoFile
    BY <1>1, WithoutRun, AbsentTask DEF Create, Placed, RunSteps, FileSteps
  <2>2. \A n \in DOMAIN finals : finals[n] # 0
    BY BoundsAssumption DEF TypeOK, Inode
  <2>3. GoodRecord(content, synced, finals, made, NewTask(sum)) /\ NewTask(sum).partial = 0
    BY <2>2, BoundsAssumption
       DEF NewTask, GoodRecord, GoodPartial, GoodFinal, LinkedFull, TypeOK
  <2>4. mem' \in {NoTask, NewTask(sum)} /\ disk' \in {NoTask, NewTask(sum)}
    BY <1>1, SavedOrNot DEF Create
  <2>5. Records'
    BY <1>1, <2>3, <2>4 DEF Create, Records
  <2> QED BY <1>1, <2>1, <2>5
      DEF Create, Handles, Sourced, Phased, Names, Transferring, Checked, PublishedWhole,
          Uniform
<1>2. ASSUME mem \in Rec, mem' = mem \/ \E s \in States : mem' = MoveTo(mem, s),
             disk' \in {disk, mem'}, pc' \in {"idle", "probe", "discard"},
             pc' = "probe" => run'.stream = Blank, pc' # "probe" => ~running',
             UNCHANGED ioVars
      PROVE  Genuine'
  <2>1. Same(mem', mem) /\ mem' # NoTask
    <3>1. \A s \in States : MoveTo(mem, s) \in Rec /\ Same(MoveTo(mem, s), mem)
      BY <1>2, MoveToType, SameMove
    <3> QED BY <1>2, <3>1, AbsentTask DEF Same
  <2>2. Records' /\ Handles' /\ Names'
    BY <1>2, <2>1, SameContent
  <2> QED BY <1>2, <2>2 DEF Sourced, Phased, Transferring, Checked
<1>3. CASE Start
  <2> DEFINE m == MoveTo(mem, "Probing")
  <2>1. mem \in Rec /\ UNCHANGED ioVars /\ ~running /\ pc = "idle"
    BY <1>0, <1>3, WithoutRun DEF Start, Managed, Commandable, Locks
  <2>2. \/ mem' = m /\ disk' \in {disk, m} /\ pc' = "probe" /\ run'.stream = Blank
        \/ mem' = mem /\ disk' = disk /\ pc' = pc /\ running' = running
    BY <1>3, SavedOrNot DEF Start, BeginRun, NewRun, NotSaved
  <2> QED BY <1>2, <2>1, <2>2 DEF States
<1>4. CASE Resume
  <2>1. mem \in Rec /\ UNCHANGED ioVars
    BY <1>0, <1>4 DEF Resume, Managed
  <2>2. mem' = mem /\ disk' = disk /\ pc' = "probe" /\ run'.stream = Blank
    BY <1>4 DEF Resume, BeginRun, NewRun
  <2> QED BY <1>2, <2>1, <2>2 DEF States
<1>5. CASE Retry
  <2>1. mem \in Rec /\ UNCHANGED ioVars /\ ~running /\ pc = "idle"
    BY <1>0, <1>5, WithoutRun DEF Retry, Managed, Commandable, Locks
  <2>2. /\ mem' \in {mem, MoveTo(mem, "Queued")} /\ disk' \in {disk, mem'}
        /\ pc' = pc /\ running' = running
    BY <1>5 DEF Retry, Saved, NotSaved
  <2> QED BY <1>2, <2>1, <2>2 DEF States
<1>6. ASSUME NEW s \in {"cancelKeep", "cancelDelete"}, CancelInactive(s) PROVE Genuine'
  <2>1. mem \in Rec /\ UNCHANGED ioVars /\ ~running /\ pc = "idle"
    BY <1>0, <1>6, WithoutRun DEF CancelInactive, Managed, Commandable, Locks
  <2>2. /\ mem' \in {mem, MoveTo(mem, "Cancelled")} /\ disk' \in {disk, mem'}
        /\ pc' \in {"idle", "discard"} /\ running' = running
    BY <1>6, <2>1 DEF CancelInactive, Saved, NotSaved
  <2> QED BY <1>2, <2>1, <2>2 DEF States
<1>7. CASE UNCHANGED <<mem, disk, pc, run, running, file, content, synced, made, finals>>
  BY <1>7 DEF Records, Handles, Sourced, Phased, Names, PublishedWhole, Uniform
<1>8. CASE Pause \/ Shutdown
  BY <1>7, <1>8 DEF Pause, Shutdown
<1>9. ASSUME NEW s \in {"cancelKeep", "cancelDelete"}, CancelActive(s) PROVE Genuine'
  BY <1>7, <1>9 DEF CancelActive
<1>10. CASE Remove
  BY <1>10
     DEF Remove, Records, Handles, Sourced, Phased, Names, PublishedWhole, Uniform,
         Transferring, Checked
<1> QED
  BY <1>1, <1>3, <1>4, <1>5, <1>6, <1>8, <1>9, <1>10, ChecksumsAssumption DEF Command

\* The record a transfer begins with is the one that was there, and so are its bytes.
LEMMA GenuineEnter ==
  ASSUME TypeOK, Placed, Fits, Genuine, mem \in Rec, mem.res \in Identities,
         NEW m \in Rec, Same(m, mem), mem.partial # 0, NEW src,
         EnterTransfer(m, Handle(m), src) \/ (EnterTransfer(m, Reopened(m), src) /\ file = NoFile),
         UNCHANGED <<content, synced, finals, made>>
  PROVE  /\ Same(mem', mem) /\ Records' /\ Handles' /\ Names'
         /\ pc' \in {"errored", "transfer", "fail"}
<1> DEFINE d == MoveTo(m, "Downloading")
<1>1. d \in Rec /\ Same(d, m)
  BY MoveToType, SameMove DEF States
<1>2. mem' = d /\ disk' \in {disk, mem'} /\ pc' \in {"errored", "transfer", "fail"}
  BY SavedOrNot DEF EnterTransfer, Goto
<1>3. Same(mem', mem) /\ mem' \in Rec /\ mem' # NoTask
  BY <1>1, <1>2, AbsentTask DEF Same
<1>4. file' = file \/ (file = NoFile /\ file' = Reopened(m))
  BY DEF EnterTransfer, Handle
<1>5. Records /\ Handles /\ Names
  BY DEF Genuine
<1>6. CASE file' = file
  <2>1. Records' /\ Handles' /\ Names'
    BY <1>2, <1>3, <1>5, <1>6, SameContent
  <2> QED BY <1>2, <1>3, <2>1
<1>7. CASE file = NoFile /\ file' = Reopened(m)
  <2>1. mem # NoTask /\ GoodRecord(content, synced, finals, made, mem)
    BY <1>5, AbsentTask DEF Records
  <2>2. GoodRecord(content, synced, finals, made, mem') /\ Claim(mem') = Claim(mem)
    BY <1>3, <2>1, SameGood
  <2>3. mem'.partial = mem.partial /\ mem'.res = mem.res
    BY <1>3 DEF Same
  <2>4. Records'
    BY <1>2, <1>5, <2>1, <2>2, <2>3 DEF Records
  <2>5. file'.ino = mem.partial /\ file'.done = mem.done
    BY <1>7 DEF Reopened, Same
  <2>6. GoodFile(content, finals, made, file', mem')
    <3>1. GoodBytes(content, file'.ino, file'.done, mem.res)
      BY <2>1, <2>5 DEF GoodRecord, GoodPartial, GoodBytes, Holds, Claim
    <3>2. LinkedFull(finals, file'.ino, file'.done, mem.res)
      BY <2>1, <2>5 DEF GoodRecord
    <3>3. file'.ino <= made
      BY <2>1, <2>5 DEF GoodRecord
    <3>4. Claim(mem') \subseteq Claimed(file'.done, mem'.res)
      BY <2>2, <2>3, <2>5 DEF Claim
    <3> QED BY <2>3, <2>5, <3>1, <3>2, <3>3, <3>4 DEF GoodFile
  <2>7. (disk' # NoTask /\ disk'.partial = file'.ino) =>
           Claim(disk') \subseteq Claimed(file'.done, mem'.res)
    <3>1. Claimed(file'.done, mem'.res) = Claim(mem)
      BY <2>3, <2>5 DEF Claim
    <3>2. CASE disk' = mem'
      BY <2>2, <3>1, <3>2
    <3>3. CASE disk' = disk
      BY <1>5, <2>1, <2>5, <3>1, <3>3 DEF Records
    <3> QED BY <1>2, <3>2, <3>3
  <2>8. Names'
    BY <1>5 DEF Names, PublishedWhole, Uniform
  <2> QED BY <1>2, <1>3, <2>4, <2>6, <2>7, <2>8 DEF Handles
<1> QED BY <1>4, <1>6, <1>7


\* The same, with what a transfer needs to know of its source
LEMMA GenuineTransferBegins ==
  ASSUME TypeOK, Placed, Fits, Genuine, mem \in Rec, mem.res \in Identities,
         NEW m \in Rec, Same(m, mem), mem.partial # 0,
         EnterTransfer(m, Handle(m), run.source)
           \/ (EnterTransfer(m, Reopened(m), run.source) /\ file = NoFile),
         UNCHANGED <<content, synced, finals, made, run>>,
         SourceOf(mem.res, run.source), run.stream = Blank
  PROVE  Genuine'
<1>1. /\ Same(mem', mem) /\ Records' /\ Handles' /\ Names'
      /\ pc' \in {"errored", "transfer", "fail"}
  BY GenuineEnter
<1>2. Sourced'
  BY <1>1 DEF Sourced, Same, SourceOf
<1>3. Phased'
  BY <1>1 DEF Phased, Checked
<1> QED BY <1>1, <1>2, <1>3 DEF Genuine

LEMMA SourceIdentity ==
  ASSUME NEW r \in Resource PROVE SourceOf(Identity(r), r)
BY DEF SourceOf, FromSource, Identity

LEMMA GenuinePrepare ==
  ASSUME TypeOK, Placed, Fits, Genuine, Prepare PROVE Genuine'
<1> USE DEF Goto, ioVars, ctlVars, engineVars, boundVars
<1> DEFINE id == Identity(run.source)
<1>a. pc \in {"probe", "prepare", "attach"}
           => running /\ mem \in Rec /\ mem # NoTask /\ run.stream = Blank
  BY AbsentTask DEF Placed, RunSteps, FileSteps, Fits, RunFits
<1>b. pc \in {"attach", "prepare"} => run.source \in Resource
  BY DEF Placed
<1>c. pc \in {"prepare", "attach"} => mem.final = 0
  BY <1>a DEF Fits, Kept, KeptRecord, Staged
<1>1. ASSUME UNCHANGED <<mem, disk, running, file, content, synced, made, finals>>,
             pc' \in {"probe", "stop", "fail", "prepare"}, run'.stream = Blank
      PROVE  Genuine'
  BY <1>1 DEF Genuine, Records, Handles, Sourced, Phased, Names, PublishedWhole, Uniform,
              Transferring, Checked
<1>2. CASE ProbeStops
  BY <1>1, <1>2, <1>a DEF ProbeStops
<1>3. CASE ProbeFails
  BY <1>1, <1>3, <1>a DEF ProbeFails
<1>4. CASE PrepareRefused
  BY <1>1, <1>4, <1>a DEF PrepareRefused
<1>5. CASE ProbeAnswers
  <2>1. run' = [run EXCEPT !.source = served] /\ run \in Runs /\ run.stream = Blank
    BY <1>5, <1>a DEF ProbeAnswers, Placed
  <2>2. run'.stream = Blank
    BY <2>1 DEF Runs
  <2> QED BY <1>1, <1>5, <2>2 DEF ProbeAnswers
<1>6. CASE PrepareResume
  <2>1. /\ pc = "prepare" /\ mem \in Rec /\ mem.res = id /\ id \in Identities
        /\ SourceOf(mem.res, run.source) /\ run.stream = Blank
    BY <1>6, <1>a, <1>b, IdentityType, SourceIdentity DEF PrepareResume, Preparing, Reusable
  <2>2. CASE EnterTransfer(mem, Handle(mem), run.source)
    <3>1. mem.partial # 0
      BY <2>1, <2>2 DEF EnterTransfer, MayMove, ValidTask, Rec, Tasks
    <3>2. Same(mem, mem)
      BY DEF Same
    <3> QED BY <1>6, <2>1, <2>2, <3>1, <3>2, GenuineTransferBegins DEF PrepareResume
  <2>3. CASE Goto("fail") /\ UNCHANGED <<mem, disk, file, faults>>
    BY <1>1, <1>6, <2>1, <2>3 DEF PrepareResume
  <2> QED BY <1>6, <2>2, <2>3 DEF PrepareResume
<1>7. CASE PrepareRetained
  <2> DEFINE m == WithResource(mem, id)
  <2>1. /\ pc = "prepare" /\ mem \in Rec /\ mem.res = id /\ id \in Identities
        /\ SourceOf(mem.res, run.source) /\ run.stream = Blank /\ mem.partial # 0
    BY <1>7, <1>a, <1>b, IdentityType, SourceIdentity DEF PrepareRetained, Preparing, Reusable
  <2>2. m \in Rec /\ Same(m, mem)
    BY <2>1, WithResourceType DEF WithResource, Same, Rec, Tasks
  <2> HIDE DEF m
  <2>3. CASE EnterTransfer(m, Handle(m), run.source)
    BY <1>7, <2>1, <2>2, <2>3, GenuineTransferBegins DEF PrepareRetained
  <2>4. CASE file = NoFile /\ mem' = m /\ Goto("fail") /\ UNCHANGED <<disk, file, faults>>
    <3>1. mem' # NoTask
      BY <2>2, <2>4, AbsentTask
    <3>2. Records' /\ Handles' /\ Names'
      BY <1>7, <2>1, <2>2, <2>4, <3>1, SameContent DEF PrepareRetained, Genuine
    <3>3. Sourced' /\ Phased'
      BY <1>7, <2>1, <2>4 DEF PrepareRetained, Sourced, Phased, Transferring, Checked
    <3> QED BY <3>2, <3>3 DEF Genuine
  <2> QED BY <1>7, <2>3, <2>4 DEF PrepareRetained, m
<1>8. CASE CreatePartial
  <2> DEFINE m == WithResource(mem, id)
  <2>1. /\ pc = "prepare" /\ mem \in Rec /\ mem # NoTask /\ mem.partial = 0
        /\ mem.final = 0 /\ mem.done = {}
        /\ id \in Identities /\ run.source \in Resource /\ run.stream = Blank
        /\ SourceOf(id, run.source) /\ run.source.body \in Body
        /\ id.mode = run.source.mode
    BY <1>8, <1>a, <1>b, <1>c, IdentityType, SourceIdentity
       DEF CreatePartial, Preparing, Fits, Kept, KeptRecord, Resource, Identity
  <2>2. file = NoFile
    BY <1>8, <2>1 DEF CreatePartial, Fits, FileFits
  <2>3. /\ m \in Rec /\ m.res = id /\ m.partial = 0 /\ m.final = 0 /\ m.done = {}
        /\ m.checksum = mem.checksum
    BY <2>1, WithResourceType DEF WithResource, Rec, Tasks
  <2>4. \A n \in DOMAIN finals : finals[n] \in Nat /\ finals[n] # 0 /\ finals[n] <= made
    BY BoundsAssumption DEF TypeOK, Inode, Genuine, Names
  <2> HIDE DEF m
  <2>5. CASE mem' = m /\ Goto("fail") /\ UNCHANGED <<made, parts, content>>
    <3>1. m # NoTask
      BY <2>3, AbsentTask
    <3>2. GoodRecord(content, synced, finals, made, m)
      BY <2>3, <2>4 DEF GoodRecord, GoodPartial, GoodFinal, LinkedFull, TypeOK
    <3> QED BY <1>8, <2>2, <2>3, <2>5, <3>1, <3>2
            DEF CreatePartial, Genuine, Records, Handles, Sourced, Phased, Names,
                PublishedWhole, Uniform, Transferring, Checked
  <2>6. CASE /\ made < MaxPartials /\ made' = made + 1
             /\ content' = IF run.source.mode = "empty"
                           THEN [content EXCEPT ![made + 1] =
                                   [c \in Chunk |-> run.source.body]]
                           ELSE content
             /\ mem' = WithPartial(m, made + 1) /\ Goto("attach")
    <3> DEFINE i == made + 1
    <3>1. i \in Inode /\ i # 0 /\ made \in Nat /\ synced[i] = Chunk /\ i > made
      BY <2>6, BoundsAssumption DEF Inode, TypeOK, Genuine, Names
    <3>2. /\ mem' \in Rec /\ mem'.res = id /\ mem'.partial = i /\ mem'.final = 0
          /\ mem'.done = {} /\ mem' # NoTask
      <4>1. WithPartial(m, i) \in Rec
        BY <2>3, <3>1, WithPartialType
      <4> QED BY <2>3, <2>6, <4>1, AbsentTask DEF WithPartial, Rec, Tasks
    <3>3. \A j \in Inode : j # i => content'[j] = content[j]
      BY <2>6, <3>1 DEF TypeOK
    <3>4. id.mode = "empty" => \A c \in Chunk : content'[i][c] = run.source.body
      BY <2>1, <2>6, <3>1 DEF TypeOK
    <3>5. synced' = synced /\ finals' = finals /\ disk' = disk /\ file' = NoFile
          /\ run' = run /\ made' = i
      BY <1>8, <2>2, <2>6 DEF CreatePartial
    <3>6. GoodRecord(content', synced', finals', made', mem')
      <4>1. GoodPartial(content', synced', mem')
        <5>1. Holds(content', synced', i, run.source.body, Claim(mem'))
          BY <3>1, <3>2, <3>4, <3>5 DEF Holds, Claim, Claimed
        <5>2. FromSource(mem'.res, run.source.body)
          BY <2>1, <3>2 DEF SourceOf
        <5> QED BY <2>1, <3>2, <5>1, <5>2 DEF GoodPartial
      <4>2. LinkedFull(finals', mem'.partial, mem'.done, mem'.res)
        BY <2>4, <3>1, <3>2, <3>5 DEF LinkedFull
      <4> QED BY <3>1, <3>2, <3>5, <4>1, <4>2 DEF GoodRecord, GoodFinal
    <3>7. ASSUME disk # NoTask
          PROVE  GoodRecord(content', synced', finals', made', disk) /\ disk.partial # i
      <4>1. disk \in Rec /\ GoodRecord(content, synced, finals, made, disk)
        BY <3>7 DEF TypeOK, Rec, Genuine, Records
      <4>2. disk.partial \in Inode \cup {0} /\ disk.partial \in Nat
        BY <4>1, BoundsAssumption DEF Rec, Tasks, Inode
      <4>3. disk.partial # i
        BY <3>1, <4>1, <4>2 DEF GoodRecord
      <4>4. \A n \in DOMAIN finals : finals[n] \in Inode /\ finals[n] # i
        BY <2>4, <3>1 DEF TypeOK
      <4>5. disk.partial # 0 => content'[disk.partial] = content[disk.partial]
        BY <3>3, <4>2, <4>3
      <4>6. \A n \in DOMAIN finals : content'[finals[n]] = content[finals[n]]
        BY <3>3, <4>4
      <4>7. made <= i /\ i \in Nat
        BY <3>1
      <4>8. GoodRecord(content', synced, finals, i, disk)
        BY <3>1, <4>1, <4>5, <4>6, <4>7, GoodStays
      <4> QED BY <3>5, <4>3, <4>8
    <3>8. Records' /\ Handles'
      BY <3>2, <3>5, <3>6, <3>7 DEF Records, Handles
    <3>9. Names'
      <4>1. \A n \in DOMAIN finals : content'[finals[n]] = content[finals[n]]
        BY <2>4, <3>1, <3>3 DEF TypeOK
      <4>2. \A j \in Inode : j > made' => synced'[j] = Chunk
        <5> SUFFICES ASSUME NEW j \in Inode, j > made' PROVE synced[j] = Chunk
          BY <3>5
        <5>1. j > made
          BY <3>1, <3>5, BoundsAssumption DEF Inode
        <5> QED BY <5>1 DEF Genuine, Names
      <4>3. made' \in Nat /\ made <= made' /\ finals \in Seq(Inode)
        BY <3>1, <3>5 DEF TypeOK
      <4> QED BY <3>1, <3>5, <4>1, <4>2, <4>3, NamesStay DEF Genuine
    <3>10. Sourced' /\ Phased'
      BY <1>8, <2>1, <2>6, <3>2, <3>5
         DEF CreatePartial, Sourced, Phased, Transferring, Checked
    <3> QED BY <3>8, <3>9, <3>10 DEF Genuine
  <2> QED BY <1>8, <2>5, <2>6 DEF CreatePartial, m
<1>9. CASE Attach
  <2>1. /\ mem \in Rec /\ mem.res \in Identities /\ mem.partial # 0 /\ run.stream = Blank
        /\ file = NoFile /\ SourceOf(mem.res, run.source) /\ Same(mem, mem)
    BY <1>9, <1>a, BoundsAssumption
       DEF Attach, Placed, Inode, Genuine, Sourced, Phased, Same
  <2> QED BY <1>9, <2>1, GenuineTransferBegins DEF Attach
<1>10. CASE ProbeRetries
  <2>1. run' = [run EXCEPT !.tries = @ + 1] /\ run \in Runs /\ run.stream = Blank
    BY <1>10, <1>a DEF ProbeRetries, ScheduleRetry, Placed
  <2>2. run'.stream = Blank
    BY <2>1 DEF Runs
  <2> QED BY <1>1, <1>10, <2>2 DEF ProbeRetries
<1> QED BY <1>2, <1>3, <1>4, <1>5, <1>6, <1>7, <1>8, <1>9, <1>10 DEF Prepare

-------------------------------------------------------------------------------
(***************************************************************************)
(* The transfer.                                                           *)
(***************************************************************************)
LEMMA RefreshedFields ==
  ASSUME mem \in Rec, mem.res \in Identities, file \in Files
  PROVE  /\ Durable.done = file.done /\ Durable.partial = mem.partial
         /\ Durable.final = mem.final /\ Durable.checksum = mem.checksum
         /\ Durable.res.mode = mem.res.mode /\ Durable.res.strong = mem.res.strong
         /\ Durable.res.tag = mem.res.tag
<1>1. CASE file.done = mem.done /\ file.sized = mem.res.sized
  BY <1>1 DEF Durable, Refreshed
<1>2. CASE ~(file.done = mem.done /\ file.sized = mem.res.sized)
  <2> DEFINE r == [mem.res EXCEPT !.sized = file.sized]
  <2>1. r.mode = mem.res.mode /\ r.strong = mem.res.strong /\ r.tag = mem.res.tag
    BY DEF Identities
  <2>2. Durable = [mem EXCEPT !.done = file.done, !.res = r, !.rev = mem.rev + 1]
    BY <1>2 DEF Durable, Refreshed, Rec, Tasks, Identities
  <2> HIDE DEF r
  <2> QED BY <2>1, <2>2 DEF Rec, Tasks
<1> QED BY <1>1, <1>2

\* Coverage is recorded only once every byte written so far is flushed.
LEMMA GenuineRefresh ==
  ASSUME TypeOK, Records, Handles, Names, file \in Files, file # NoFile,
         mem \in Rec, mem.res \in Identities,
         \/ Flush /\ mem' = Durable /\ (Saved(Durable) \/ UNCHANGED disk)
         \/ NotRefreshed,
         UNCHANGED <<content, file, finals, made>>
  PROVE  /\ Records' /\ Handles' /\ Names'
         /\ mem'.res.strong = mem.res.strong /\ mem'.res.tag = mem.res.tag
<1>1. mem # NoTask
  BY AbsentTask
<1>2. CASE Flush /\ mem' = Durable /\ disk' \in {disk, Durable}
  <2> DEFINE i == file.ino
  <2>1. i \in Inode /\ i # 0 /\ made \in Nat
    BY BoundsAssumption DEF Files, Inode, TypeOK
  <2>2. synced'[i] = Chunk /\ \A j \in Inode : synced[j] \subseteq synced'[j]
    BY <1>2, <2>1 DEF Flush, TypeOK
  <2>3. /\ mem'.done = file.done /\ mem'.partial = mem.partial
        /\ mem'.final = mem.final /\ mem'.checksum = mem.checksum
        /\ mem'.res.mode = mem.res.mode /\ mem'.res.strong = mem.res.strong
        /\ mem'.res.tag = mem.res.tag /\ mem' \in Rec /\ mem' # NoTask
    BY <1>2, RefreshedFields, DurableType, AbsentTask
  <2>4. GoodFile(content, finals, made, file, mem)
    BY DEF Handles
  <2>5. GoodRecord(content, synced, finals, made, mem)
    BY <1>1 DEF Records
  <2>6. /\ \A done : Claimed(done, mem'.res) = Claimed(done, mem.res)
        /\ Extent(mem'.res) = Extent(mem.res)
        /\ \A b : FromSource(mem'.res, b) <=> FromSource(mem.res, b)
    BY <2>3 DEF Claimed, Extent, FromSource
  <2>7. Claim(mem') = Claimed(file.done, mem.res) /\ Claimed(file.done, mem.res) \subseteq Chunk
    BY <2>3, <2>6 DEF Claim, Claimed, Files
  <2>8. GoodPartial(content, synced', mem')
    <3> SUFFICES ASSUME mem'.partial # 0
                 PROVE  \E b \in Body : /\ Holds(content, synced', i, b, Claim(mem'))
                                        /\ Claim(mem') # {} => FromSource(mem'.res, b)
      BY <2>3, <2>4 DEF GoodPartial, GoodFile
    <3> QED BY <2>2, <2>4, <2>6, <2>7 DEF GoodFile, GoodBytes, Holds
  <2>9. GoodFinal(content, synced', finals, mem')
    <3>1. \A n \in DOMAIN finals : finals[n] \in Inode
      BY DEF TypeOK
    <3> QED BY <2>2, <2>3, <2>5, <2>6, <3>1 DEF GoodRecord, GoodFinal, Verified, Holds
  <2>10. LinkedFull(finals, mem'.partial, mem'.done, mem'.res)
    <3>1. \A n \in DOMAIN finals : finals[n] # 0
      BY BoundsAssumption DEF TypeOK, Inode
    <3> QED BY <2>3, <2>4, <2>6, <3>1 DEF GoodFile, LinkedFull
  <2>11. GoodRecord(content, synced', finals, made, mem')
    BY <2>3, <2>5, <2>8, <2>9, <2>10 DEF GoodRecord
  <2>12. ASSUME disk # NoTask PROVE GoodRecord(content, synced', finals, made, disk)
    <3>1. disk \in Rec /\ GoodRecord(content, synced, finals, made, disk)
      BY <2>12 DEF TypeOK, Rec, Records
    <3>2. disk.partial # 0 => disk.partial \in Inode
      BY <3>1 DEF Rec, Tasks
    <3>3. \A n \in DOMAIN finals : finals[n] \in Inode
      BY DEF TypeOK
    <3>4. disk.partial # 0 => \A c \in Claim(disk) : c \in synced[disk.partial] =>
            content[disk.partial][c] = content[disk.partial][c] /\ c \in synced'[disk.partial]
      BY <2>2, <3>2
    <3>5. \A n \in DOMAIN finals : \A c \in Chunk : c \in synced[finals[n]] =>
            content[finals[n]][c] = content[finals[n]][c] /\ c \in synced'[finals[n]]
      BY <2>2, <3>3
    <3>6. made <= made
      BY <2>1
    <3> QED BY <2>1, <3>1, <3>4, <3>5, <3>6, GoodStays
  <2>13. disk' # NoTask => GoodRecord(content, synced', finals, made, disk')
    BY <1>2, <2>11, <2>12
  <2>14. ASSUME disk' # NoTask, disk'.partial = i
         PROVE  Claim(disk') \subseteq Claimed(file.done, mem'.res)
    <3>1. CASE disk' = mem'
      BY <2>6, <2>7, <3>1
    <3>2. CASE disk' = disk
      BY <2>6, <2>14, <3>2 DEF Handles
    <3> QED BY <1>2, <3>1, <3>2
  <2>15. Records'
    <3>1. (disk' # NoTask /\ mem'.partial # 0 /\ disk'.partial = mem'.partial) =>
             Claim(disk') \subseteq Claim(mem')
      BY <2>3, <2>4, <2>6, <2>7, <2>14 DEF GoodFile
    <3> QED BY <2>11, <2>13, <3>1 DEF Records
  <2>16. GoodFile(content, finals, made, file, mem')
    BY <2>3, <2>4, <2>6, <2>7 DEF GoodFile, GoodBytes, LinkedFull
  <2>17. Names'
    <3>1. \A n \in DOMAIN finals : finals[n] \in Inode
      BY DEF TypeOK
    <3>2. \A j \in Inode : j > made' => synced'[j] = Chunk
      BY <1>2, <2>1 DEF Flush, Names, TypeOK
    <3>3. made <= made'
      BY <2>1
    <3> QED BY <2>1, <2>2, <3>1, <3>2, <3>3, NamesStay DEF TypeOK
  <2> QED BY <2>3, <2>14, <2>15, <2>16, <2>17 DEF Handles
<1>3. CASE UNCHANGED <<mem, disk, synced>>
  BY <1>3 DEF Records, Handles, Names, PublishedWhole, Uniform
<1> QED BY <1>2, <1>3, SavedOrNot DEF NotRefreshed

\* Writes reach only bytes that nothing claims, of a file that no name links.
LEMMA UnclaimedWritten ==
  ASSUME TypeOK, Records, Handles, Names, file \in Files, file # NoFile, mem \in Rec,
         \A n \in DOMAIN finals : finals[n] # file.ino,
         \A j \in Inode : j # file.ino => content'[j] = content[j] /\ synced'[j] = synced[j],
         \A c \in Claimed(file.done, mem.res) :
           /\ content'[file.ino][c] = content[file.ino][c]
           /\ c \in synced[file.ino] => c \in synced'[file.ino],
         UNCHANGED <<mem, disk, finals, made>>,
         file' # NoFile, file'.ino = file.ino,
         Claimed(file.done, mem.res) \subseteq Claimed(file'.done, mem.res),
         GoodBytes(content', file.ino, file'.done, mem.res)
  PROVE  Records' /\ Handles' /\ Names'
<1> DEFINE i == file.ino
<1>1. i \in Inode /\ i # 0 /\ made \in Nat /\ mem # NoTask
  BY BoundsAssumption, AbsentTask DEF Files, Inode, TypeOK
<1>2. GoodFile(content, finals, made, file, mem)
  BY DEF Handles
<1>3. \A n \in DOMAIN finals : finals[n] \in Inode /\ content'[finals[n]] = content[finals[n]]
                               /\ synced'[finals[n]] = synced[finals[n]]
  BY DEF TypeOK
<1>4. ASSUME NEW m \in Rec, GoodRecord(content, synced, finals, made, m),
             m.partial = i => Claim(m) \subseteq Claimed(file.done, mem.res)
      PROVE  GoodRecord(content', synced', finals, made, m)
  <2>1. m.partial # 0 => m.partial \in Inode
    BY DEF Rec, Tasks
  <2>2. m.partial # 0 => \A c \in Claim(m) : c \in synced[m.partial] =>
          content'[m.partial][c] = content[m.partial][c] /\ c \in synced'[m.partial]
    BY <1>4, <2>1
  <2>3. \A n \in DOMAIN finals : \A c \in Chunk : c \in synced[finals[n]] =>
          content'[finals[n]][c] = content[finals[n]][c] /\ c \in synced'[finals[n]]
    BY <1>3
  <2>4. made <= made
    BY <1>1
  <2> QED BY <1>1, <1>4, <2>2, <2>3, <2>4, GoodStays
<1>5. GoodRecord(content', synced', finals, made, mem)
  BY <1>1, <1>2, <1>4 DEF Records, GoodFile
<1>6. disk # NoTask => GoodRecord(content', synced', finals, made, disk)
  BY <1>4 DEF Records, Handles, TypeOK, Rec
<1>7. Records'
  BY <1>5, <1>6 DEF Records
<1>8. Handles'
  BY <1>2 DEF Handles, GoodFile, LinkedFull
<1>9. Names'
  <2>1. i <= made
    BY <1>2 DEF GoodFile
  <2>2. \A j \in Inode : j > made' => synced'[j] = Chunk
    <3> SUFFICES ASSUME NEW j \in Inode, j > made' PROVE synced'[j] = Chunk
      OBVIOUS
    <3>1. j # i
      BY <1>1, <2>1, BoundsAssumption DEF Inode
    <3> QED BY <3>1 DEF Names
  <2>3. made <= made' /\ finals \in Seq(Inode)
    BY <1>1 DEF TypeOK
  <2> QED BY <1>1, <1>3, <2>2, <2>3, NamesStay
<1> QED BY <1>7, <1>8, <1>9

LEMMA GenuineTransfer ==
  ASSUME TypeOK, Placed, Fits, Genuine, Transfer \/ Settle PROVE Genuine'
<1> USE DEF Goto, ioVars, ctlVars, engineVars, boundVars
<1> DEFINE i == file.ino
<1>a. pc \in Transferring =>
        /\ running /\ mem \in Rec /\ mem # NoTask /\ mem.res \in Identities
        /\ file \in Files /\ file # NoFile /\ run \in Runs /\ i \in Inode
        /\ mem.res.mode = run.source.mode /\ run.source \in Resource
        /\ SourceOf(mem.res, run.source)
        /\ GoodFile(content, finals, made, file, mem)
  BY AbsentTask, HandleAssumption
     DEF Placed, RunSteps, FileSteps, Rec, Transferring, Fits, RunFits, Genuine, Sourced,
         Handles, Files
<1>b. served \in Resource
  BY OffersAssumption DEF TypeOK
\* Where something is still to be fetched, no name links the partial.
<1>c. ASSUME pc \in Transferring, NEW c \in Uncovered
      PROVE  /\ c \in Chunk /\ Claimed(file.done, mem.res) = file.done /\ c \notin file.done
             /\ \A n \in DOMAIN finals : finals[n] # i
  BY <1>a, <1>c DEF Uncovered, Extent, Claimed, GoodFile, LinkedFull
<1>d. ASSUME pc = "transfer", NEW c \in Uncovered, NEW b \in Body \cup {Blank}, Put(c, b),
             UNCHANGED <<mem, disk, finals, made, running, pc, run>>,
             \/ file' = file
             \/ /\ file' = [file EXCEPT !.done = @ \cup {c}]
                /\ b \in Body /\ mem.res.strong /\ mem.res.tag = b
      PROVE  Genuine'
  <2> USE <1>d DEF Transferring
  <2>1. /\ c \in Chunk /\ Claimed(file.done, mem.res) = file.done /\ c \notin file.done
        /\ \A n \in DOMAIN finals : finals[n] # i
    BY <1>c
  <2>2. /\ \A j \in Inode : j # i => content'[j] = content[j] /\ synced'[j] = synced[j]
        /\ content'[i][c] = b
        /\ \A d \in Chunk : d # c => /\ content'[i][d] = content[i][d]
                                     /\ d \in synced[i] => d \in synced'[i]
    BY <1>a, <2>1 DEF Put, TypeOK
  <2>3. /\ file' # NoFile /\ file'.ino = i
        /\ \/ file'.done = file.done
           \/ /\ file'.done = file.done \cup {c}
              /\ b \in Body /\ mem.res.strong /\ mem.res.tag = b
    <3>1. CASE file' = file
      BY <1>a, <3>1
    <3>2. CASE /\ file' = [file EXCEPT !.done = @ \cup {c}]
               /\ b \in Body /\ mem.res.strong /\ mem.res.tag = b
      <4>1. file' \in Files
        BY <1>a, <2>1, <3>2 DEF Files
      <4>2. file'.ino = i /\ file'.done = file.done \cup {c}
        BY <1>a, <3>2 DEF Files
      <4> QED BY <3>2, <4>1, <4>2, HandleAssumption
    <3> QED BY <3>1, <3>2
  <2>4. file.done \subseteq Chunk /\ Claimed(file'.done, mem.res) = file'.done
    BY <1>a, <1>c DEF Files, Claimed, Uncovered, Extent
  <2>5. PICK w \in Body : /\ \A d \in file.done : content[i][d] = w
                          /\ file.done # {} => FromSource(mem.res, w)
    BY <1>a, <2>1 DEF GoodFile, GoodBytes
  <2>6. GoodBytes(content', i, file'.done, mem.res)
    <3>1. CASE file'.done = file.done
      BY <2>1, <2>2, <2>4, <2>5, <3>1 DEF GoodBytes
    <3>2. CASE file'.done = file.done \cup {c} /\ b \in Body /\ mem.res.strong
               /\ mem.res.tag = b
      <4>1. file.done # {} => w = b
        BY <2>5, <3>2 DEF FromSource
      <4>2. \A d \in file'.done : content'[i][d] = b
        BY <2>1, <2>2, <2>4, <2>5, <3>2, <4>1
      <4> QED BY <2>4, <3>2, <4>2 DEF GoodBytes, FromSource
    <3> QED BY <2>3, <3>1, <3>2
  <2>7. \A d \in Claimed(file.done, mem.res) :
          content'[i][d] = content[i][d] /\ (d \in synced[i] => d \in synced'[i])
    BY <2>1, <2>2, <2>4
  <2>8. Claimed(file.done, mem.res) \subseteq Claimed(file'.done, mem.res)
    BY <2>1, <2>3, <2>4
  <2>9. Records' /\ Handles' /\ Names'
    BY <1>a, <2>1, <2>2, <2>3, <2>6, <2>7, <2>8, UnclaimedWritten DEF Genuine
  <2>10. Sourced' /\ Phased'
    BY DEF Genuine, Sourced, Phased, Checked
  <2> QED BY <2>9, <2>10 DEF Genuine
<1>1. ASSUME NEW c \in Chunk, CommitRange(c) PROVE Genuine'
  <2>1. pc = "transfer" /\ c \in Uncovered /\ served.body \in Body /\ Put(c, served.body)
    BY <1>1, <1>b DEF CommitRange, Resource
  <2>2. mem.res.strong /\ mem.res.tag = served.body
    <3>1. run.source.strong /\ run.source.body = served.body
      BY <1>1, <1>a, <1>b, <2>1 DEF CommitRange, Matches, Identity, Resource, Transferring
    <3> QED BY <1>a, <2>1, <3>1 DEF SourceOf, FromSource, Transferring
  <2> QED BY <1>1, <1>d, <2>1, <2>2 DEF CommitRange
<1>2. ASSUME NEW c \in Chunk, TearRange(c) PROVE Genuine'
  BY <1>2, <1>d DEF TearRange
<1>3. ASSUME NEW c \in Chunk, StreamWrite(c) PROVE Genuine'
  <2>1. run.stream \in Body \cup {Blank}
    BY <1>3, <1>a DEF StreamWrite, Transferring, Runs
  <2> QED BY <1>3, <1>d, <2>1 DEF StreamWrite
<1>4. CASE BeginStream
  <2>1. /\ pc = "transfer" /\ pc' = pc /\ running' = running /\ file.done = {} /\ file' = file
        /\ mem' = mem /\ disk' = disk /\ finals' = finals /\ made' = made
    BY <1>4 DEF BeginStream
  <2>2. run'.source = run.source /\ run'.stream = served.body
    BY <1>4, <1>a, <2>1 DEF BeginStream, Runs, Transferring
  <2>3. run.source.strong => served.body = run.source.body
    BY <1>4 DEF BeginStream, Matches, Identity
  <2>4. Sourced' /\ Phased'
    BY <2>1, <2>2, <2>3 DEF Genuine, Sourced, Phased, Transferring, Checked
  <2>5. Records' /\ Handles' /\ Names'
    <3>1. CASE UNCHANGED <<content, synced>>
      BY <2>1, <3>1 DEF Genuine, Records, Handles, Names, PublishedWhole, Uniform
    <3>2. CASE /\ run.source.mode = "stream"
               /\ content' = [content EXCEPT ![i] = [c \in Chunk |-> Blank]]
               /\ synced' = [synced EXCEPT ![i] = {}]
      <4>1. Claimed(file.done, mem.res) = {} /\ Extent(mem.res) # {}
        BY <1>a, <2>1, <3>2, ChunkAssumption DEF Claimed, Extent, Transferring
      <4>2. \A n \in DOMAIN finals : finals[n] # i
        BY <1>a, <2>1, <4>1 DEF GoodFile, LinkedFull, Transferring
      <4>3. \A j \in Inode : j # i => content'[j] = content[j] /\ synced'[j] = synced[j]
        BY <3>2 DEF TypeOK
      <4>4. GoodBytes(content', i, file'.done, mem.res)
        <5>1. served.body \in Body
          BY <1>b DEF Resource
        <5> QED BY <2>1, <4>1, <5>1 DEF GoodBytes
      <4> QED BY <1>a, <2>1, <4>1, <4>2, <4>3, <4>4, UnclaimedWritten
              DEF Genuine, Transferring
    <3> QED BY <1>4, <3>1, <3>2 DEF BeginStream
  <2> QED BY <2>4, <2>5 DEF Genuine
<1>5. CASE EndStream
  <2>1. /\ pc = "transfer" /\ pc' = pc /\ running' = running
        /\ mem' = mem /\ disk' = disk /\ finals' = finals /\ made' = made
        /\ content' = content /\ run.stream # Blank /\ run.stream \in Body
        /\ \A c \in Chunk : content[i][c] = run.stream
    BY <1>5, <1>a DEF EndStream, Transferring, Runs
  <2>2. /\ run'.source = run.source /\ run'.stream = Blank
        /\ file'.ino = i /\ file'.done = Chunk /\ file' # NoFile
    <3>1. file' \in Files
      BY <1>5, <1>a DEF EndStream, Files, Transferring
    <3> QED BY <1>5, <1>a, <3>1, HandleAssumption DEF EndStream, Runs, Files, Transferring
  <2>3. /\ mem.res.mode \in {"single", "stream"}
        /\ mem.res.strong => run.stream = mem.res.tag
    BY <1>a, <2>1
       DEF Fits, RunFits, Genuine, Sourced, SourceOf, FromSource, Transferring
  <2>4. \A j \in Inode : synced[j] \subseteq synced'[j]
    BY <1>5 DEF EndStream, TypeOK
  <2>5. made \in Nat /\ made <= made
    BY BoundsAssumption DEF TypeOK
  <2>6. \A n \in DOMAIN finals : finals[n] \in Inode
    BY DEF TypeOK
  <2>7. \A n \in DOMAIN finals : \A c \in Chunk : c \in synced[finals[n]] =>
          content[finals[n]][c] = content[finals[n]][c] /\ c \in synced'[finals[n]]
    BY <2>4, <2>6
  <2>8. ASSUME NEW m \in Rec, GoodRecord(content, synced, finals, made, m)
        PROVE  GoodRecord(content, synced', finals, made, m) /\ Claim(m) \subseteq Chunk
    <3>1. m.partial # 0 => m.partial \in Inode
      BY DEF Rec, Tasks
    <3>2. m.partial # 0 => \A c \in Claim(m) : c \in synced[m.partial] =>
            content[m.partial][c] = content[m.partial][c] /\ c \in synced'[m.partial]
      BY <2>4, <3>1
    <3>3. Claim(m) \subseteq Chunk
      BY DEF Claim, Claimed, Rec, Tasks
    <3> QED BY <2>5, <2>7, <2>8, <3>2, <3>3, GoodStays
  <2>9. Records'
    BY <1>a, <2>1, <2>8 DEF Genuine, Records, TypeOK, Rec, Transferring
  <2>10. Handles'
    <3>1. Claimed(file'.done, mem.res) = Chunk /\ Extent(mem.res) = Chunk
      BY <2>2, <2>3 DEF Claimed, Extent
    <3>2. GoodBytes(content, i, file'.done, mem.res)
      BY <2>1, <2>3, <3>1 DEF GoodBytes, FromSource
    <3>3. Claim(mem) \subseteq Chunk
      BY <1>a, <2>1, <2>8 DEF Genuine, Records, Transferring
    <3>4. disk # NoTask => Claim(disk) \subseteq Chunk
      BY <2>8 DEF Genuine, Records, TypeOK, Rec
    <3>5. GoodFile(content, finals, made, file', mem)
      BY <1>a, <2>1, <2>2, <3>1, <3>2, <3>3 DEF GoodFile, LinkedFull, Transferring
    <3> QED BY <2>1, <3>1, <3>4, <3>5 DEF Handles
  <2>11. Names'
    <3>1. \A j \in Inode : j > made' => synced'[j] = Chunk
      <4> SUFFICES ASSUME NEW j \in Inode, j > made' PROVE synced'[j] = Chunk
        OBVIOUS
      <4>1. synced[j] = Chunk
        BY <2>1 DEF Genuine, Names
      <4> QED BY <1>5, <4>1 DEF EndStream, TypeOK
    <3> QED BY <2>1, <2>5, <2>7, <3>1, NamesStay DEF Genuine, TypeOK
  <2> QED BY <2>1, <2>2, <2>9, <2>10, <2>11 DEF Genuine, Sourced, Phased, Transferring, Checked
\* Refreshing the record, with what the run goes on to
<1>6. ASSUME pc \in Transferring, running' = running,
             \/ Flush /\ mem' = Durable /\ (Saved(Durable) \/ UNCHANGED disk)
             \/ NotRefreshed,
             UNCHANGED <<content, file, finals, made>>,
             run'.source = run.source, run'.stream = run.stream,
             pc' \in Transferring \cup {"stop", "complete", "fail"}
      PROVE  Genuine'
  <2>1. /\ Records' /\ Handles' /\ Names'
        /\ mem'.res.strong = mem.res.strong /\ mem'.res.tag = mem.res.tag
    BY <1>6, <1>a, GenuineRefresh DEF Genuine
  <2>2. Sourced' /\ Phased'
    BY <1>6, <1>a, <2>1
       DEF Genuine, Sourced, SourceOf, FromSource, Phased, Transferring, Checked
  <2> QED BY <2>1, <2>2 DEF Genuine
<1>7. CASE CheckpointProgress
  <2>1. pc = "transfer" /\ run \in Runs
    BY <1>7, <1>a DEF CheckpointProgress, Transferring
  <2>2. run'.source = run.source /\ run'.stream = run.stream
    BY <1>7, <2>1 DEF CheckpointProgress, Runs
  <2> QED BY <1>6, <1>7, <2>1, <2>2 DEF CheckpointProgress, Transferring
<1>8. CASE TransferReturns
  <2>1. pc = "transfer" /\ run \in Runs /\ run' = [run EXCEPT !.stream = Blank]
    BY <1>8, <1>a DEF TransferReturns, Transferring
  <2>2. run'.source = run.source /\ run'.stream = Blank
    BY <2>1 DEF Runs
  <2> QED BY <1>8, <1>a, <2>1, <2>2
          DEF TransferReturns, Genuine, Records, Handles, Sourced, Phased, Names,
              PublishedWhole, Uniform, Transferring, Checked
<1>9. CASE AfterTransfer
  <2>1. pc \in Transferring /\ run \in Runs
    BY <1>9, <1>a DEF AfterTransfer, Transferring
  <2>2. /\ pc' \in {"stop", "complete", "transfer", "fail"}
        /\ run' = run \/ run' = [run EXCEPT !.tries = @ + 1]
    BY <1>9 DEF AfterTransfer, ScheduleRetry, Boundary
  <2>3. run'.source = run.source /\ run'.stream = run.stream
    BY <2>1, <2>2 DEF Runs
  <2> QED BY <1>6, <1>9, <2>1, <2>2, <2>3 DEF AfterTransfer, Boundary, Transferring
<1> QED BY <1>1, <1>2, <1>3, <1>4, <1>5, <1>7, <1>8, <1>9 DEF Transfer, Settle

-------------------------------------------------------------------------------
(***************************************************************************)
(* Completion.                                                             *)
(***************************************************************************)
LEMMA GenuineMoved ==
  ASSUME TypeOK, Genuine, mem \in Rec,
         mem' = mem \/ \E s \in States : mem' = MoveTo(mem, s),
         disk' \in {disk, mem'}, UNCHANGED <<content, synced, finals, made>>,
         \/ file' = file
         \/ file # NoFile /\ file'.ino = file.ino /\ file'.done = file.done
  PROVE  Same(mem', mem) /\ Records' /\ Handles' /\ Names'
<1>1. \A s \in States : MoveTo(mem, s) \in Rec /\ Same(MoveTo(mem, s), mem)
  BY MoveToType, SameMove
<1>2. Same(mem', mem) /\ mem' # NoTask
  BY <1>1, AbsentTask DEF Same
<1> QED BY <1>2, SameContent DEF Genuine

\* Flushing a validated partial
LEMMA GenuineFlush ==
  ASSUME TypeOK, Records, Names, UNCHANGED <<mem, disk, content, finals, made>>,
         file \in Files, Flush
  PROVE  Records' /\ Names'
<1>1. /\ made \in Nat /\ made <= made
      /\ \A j \in Inode : synced[j] \subseteq synced'[j]
      /\ \A j \in Inode : j > made' => synced'[j] = Chunk
  BY BoundsAssumption DEF TypeOK, Files, Flush, Names
<1>2. \A n \in DOMAIN finals : finals[n] \in Inode
  BY DEF TypeOK
<1>3. \A n \in DOMAIN finals : \A c \in Chunk : c \in synced[finals[n]] =>
        content[finals[n]][c] = content[finals[n]][c] /\ c \in synced'[finals[n]]
  BY <1>1, <1>2
<1>4. ASSUME NEW m \in Rec, GoodRecord(content, synced, finals, made, m)
      PROVE  GoodRecord(content, synced', finals, made, m)
  <2>1. m.partial # 0 => m.partial \in Inode
    BY DEF Rec, Tasks
  <2>2. m.partial # 0 => \A c \in Claim(m) : c \in synced[m.partial] =>
          content[m.partial][c] = content[m.partial][c] /\ c \in synced'[m.partial]
    BY <1>1, <2>1
  <2> QED BY <1>1, <1>3, <1>4, <2>2, GoodStays
<1>5. Records'
  BY <1>4 DEF Records, TypeOK, Rec
<1>6. Names'
  BY <1>1, <1>3, NamesStay DEF TypeOK
<1> QED BY <1>5, <1>6

LEMMA GenuineComplete ==
  ASSUME TypeOK, Placed, Fits, RevisionIdentifiesRecord, Genuine, Complete PROVE Genuine'
<1> USE DEF Goto, ioVars, ctlVars, engineVars, boundVars
<1> DEFINE i == file.ino
<1> DEFINE Phases == {"complete", "validate", "lease", "publish", "linked", "recorded",
                      "cleaned", "finish", "completed"}
<1>a. pc \in Phases => running /\ mem \in Rec /\ mem # NoTask /\ run.stream = Blank
  BY AbsentTask DEF Placed, RunSteps, FileSteps, Rec, Fits, RunFits
<1>b. pc \in FileSteps => /\ file \in Files /\ file # NoFile /\ mem.res \in Identities
                          /\ i \in Inode /\ i # 0
                          /\ GoodFile(content, finals, made, file, mem)
  BY HandleAssumption, BoundsAssumption DEF Placed, Files, Inode, Genuine, Handles
<1>c. \A l : file \in Files => WithLife(l).ino = i /\ WithLife(l).done = file.done
                               /\ (l \in {"Active", "Validated", "Published"}
                                     => WithLife(l) # NoFile)
  <2> SUFFICES ASSUME NEW l, file \in Files
               PROVE  /\ WithLife(l).ino = i /\ WithLife(l).done = file.done
                      /\ l \in {"Active", "Validated", "Published"} => WithLife(l) # NoFile
    OBVIOUS
  <2>1. WithLife(l).ino = i /\ WithLife(l).done = file.done
    BY DEF WithLife, Files
  <2>2. l \in {"Active", "Validated", "Published"} => WithLife(l) \in Files
    BY DEF WithLife, Files
  <2> QED BY <2>1, <2>2, HandleAssumption
<1>1. CASE EnterValidating
  <2>1. /\ pc = "complete" /\ mem \in Rec /\ UNCHANGED <<content, synced, finals, made, file>>
        /\ run' = run /\ running' = running
    BY <1>1, <1>a DEF EnterValidating
  <2>2. /\ mem' = mem \/ \E s \in States : mem' = MoveTo(mem, s)
        /\ disk' \in {disk, mem'}
        /\ \/ pc' \in {"stop", "fail"}
           \/ /\ pc' = "validate" /\ MayMove(mem, "Validating")
              /\ mem' = MoveTo(mem, "Validating")
    BY <1>1, SavedOrNot DEF EnterValidating, Advance, States, NotSaved
  <2>3. Same(mem', mem) /\ Records' /\ Handles' /\ Names'
    BY <2>1, <2>2, GenuineMoved
  <2>4. pc' = "validate" => mem'.done = Extent(mem'.res)
    <3>1. MayMove(mem, "Validating") => mem.done = Extent(mem.res)
      BY <2>1 DEF MayMove, ValidTask, ExactlyCovered, Rec, Tasks
    <3> QED BY <2>2, <2>3, <3>1 DEF Same
  <2> QED BY <1>a, <2>1, <2>2, <2>3, <2>4 DEF Genuine, Sourced, Phased, Transferring, Checked
<1>2. CASE Validate
  <2>1. /\ pc = "validate" /\ mem \in Rec /\ mem' = mem /\ mem # NoTask /\ disk' = disk
        /\ UNCHANGED <<content, finals, made, run, running>>
        /\ file \in Files /\ file # NoFile /\ mem.res \in Identities /\ i \in Inode
        /\ mem.done = Extent(mem.res) /\ run.stream = Blank
        /\ GoodFile(content, finals, made, file, mem)
    BY <1>2, <1>a, <1>b DEF Validate, FileSteps, Genuine, Phased
  <2>2. CASE UNCHANGED <<file, synced>> /\ pc' \in {"stop", "fail"}
    BY <2>1, <2>2
       DEF Genuine, Records, Handles, Sourced, Phased, Names, PublishedWhole, Uniform,
           Transferring, Checked
  <2>3. CASE /\ file.done = Extent(mem.res) /\ ChecksumHolds
             /\ file' = WithLife("Validated") /\ Flush /\ pc' = "lease"
    <3>1. file' # NoFile /\ file'.ino = i /\ file'.done = file.done
      BY <1>c, <2>1, <2>3
    <3>2. Records' /\ Names'
      BY <2>1, <2>3, GenuineFlush DEF Genuine
    <3>3. Handles'
      BY <2>1, <3>1 DEF Genuine, Handles, GoodFile, GoodBytes, LinkedFull
    <3>4. Verified(content, synced', mem, i)
      <4>1. Claimed(file.done, mem.res) = Chunk
        BY <2>3 DEF Claimed, Extent
      <4>2. PICK b \in Body : (\A c \in Chunk : content[i][c] = b) /\ FromSource(mem.res, b)
        BY <2>1, <4>1, ChunkAssumption DEF GoodFile, GoodBytes
      <4>3. synced'[i] = Chunk
        BY <2>1, <2>3 DEF Flush, TypeOK
      <4>4. mem.checksum # Blank => mem.checksum = b
        BY <2>3, <4>2, ChunkAssumption DEF ChecksumHolds
      <4> QED BY <4>2, <4>3, <4>4 DEF Verified, Holds
    <3>5. Sourced' /\ Phased'
      BY <2>1, <2>3, <3>1, <3>4 DEF Sourced, Phased, Transferring, Checked
    <3> QED BY <3>2, <3>3, <3>5 DEF Genuine
  <2> QED BY <1>2, <2>2, <2>3 DEF Validate
<1>3. CASE EnterPromoting
  <2>1. /\ pc = "lease" /\ mem \in Rec /\ UNCHANGED <<content, synced, finals, made>>
        /\ run' = run /\ running' = running /\ file \in Files /\ file # NoFile
        /\ run.stream = Blank /\ mem.done = Extent(mem.res) /\ file.done = Extent(mem.res)
        /\ Verified(content, synced, mem, i)
    BY <1>3, <1>a, <1>b DEF EnterPromoting, FileSteps, Genuine, Phased, Checked
  <2>2. file'.ino = i /\ file'.done = file.done
    BY <1>3, <1>c, <2>1 DEF EnterPromoting
  <2>3. /\ mem' = mem \/ \E s \in States : mem' = MoveTo(mem, s)
        /\ disk' \in {disk, mem'}
        /\ \/ pc' \in {"stop", "fail"}
           \/ /\ pc' = "publish" /\ Saved(MoveTo(mem, "Promoting"))
              /\ mem' = MoveTo(mem, "Promoting")
    BY <1>3, SavedOrNot DEF EnterPromoting, Advance, States, NotSaved
  <2>4. Same(mem', mem) /\ Records' /\ Handles' /\ Names'
    BY <2>1, <2>2, <2>3, GenuineMoved
  <2>5. pc' = "publish" => disk' = mem'
    BY <2>1, <2>3, SavedMove DEF States
  <2>6. Verified(content, synced, mem', i)
    BY <2>1, <2>4, SameVerified
  <2>7. mem'.done = Extent(mem'.res) /\ file'.done = Extent(mem'.res)
    BY <2>1, <2>2, <2>4 DEF Same
  <2>8. Sourced' /\ Phased'
    BY <2>1, <2>2, <2>3, <2>5, <2>6, <2>7 DEF Sourced, Phased, Transferring, Checked
  <2> QED BY <2>4, <2>8 DEF Genuine
<1>4. CASE Publish
  <2>1. /\ pc = "publish" /\ mem \in Rec /\ mem # NoTask /\ mem' = mem /\ disk' = disk
        /\ disk = mem /\ UNCHANGED <<content, synced, made, run, running>>
        /\ file \in Files /\ file # NoFile /\ i \in Inode
        /\ run.stream = Blank /\ mem.done = Extent(mem.res) /\ file.done = Extent(mem.res)
        /\ Verified(content, synced, mem, i)
        /\ GoodFile(content, finals, made, file, mem)
    BY <1>4, <1>a, <1>b DEF Publish, FileSteps, Genuine, Phased, Checked
  <2>2. file' # NoFile /\ file'.ino = i /\ file'.done = file.done
    <3>1. file' \in {WithLife("Published"), WithLife("Active")}
      BY <1>4 DEF Publish
    <3> QED BY <1>c, <2>1, <3>1
  <2>3. Sourced'
    BY <1>4, <2>1 DEF Publish, Sourced, Transferring
  <2>4. CASE finals' = finals /\ pc' = "fail"
    BY <2>1, <2>2, <2>3, <2>4
       DEF Genuine, Records, Handles, GoodFile, Phased, Names, PublishedWhole, Uniform, Checked
  <2>5. CASE finals' = Append(finals, i) /\ pc' \in {"linked", "fail"}
    <3>1. /\ DOMAIN finals' = DOMAIN finals \cup {Len(finals')}
          /\ finals'[Len(finals')] = i
          /\ \A n \in DOMAIN finals : finals'[n] = finals[n]
      <4>1. finals \in Seq(Inode) /\ Len(finals) \in Nat
        BY DEF TypeOK
      <4> QED BY <2>1, <2>5, <4>1
    <3>2. \A n \in DOMAIN finals' : finals'[n] = i \/ (n \in DOMAIN finals /\ finals'[n] = finals[n])
      BY <3>1
    <3>3. GoodRecord(content, synced, finals', made, mem)
      <4>1. GoodRecord(content, synced, finals, made, mem)
        BY <2>1 DEF Genuine, Records
      <4>2. GoodFinal(content, synced, finals', mem)
        BY <3>1, <4>1 DEF GoodRecord, GoodFinal
      <4>3. LinkedFull(finals', mem.partial, mem.done, mem.res)
        BY <2>1 DEF LinkedFull
      <4> QED BY <4>1, <4>2, <4>3 DEF GoodRecord
    <3>4. Records'
      BY <2>1, <3>3 DEF Records
    <3>5. Handles'
      <4>1. LinkedFull(finals', i, file.done, mem.res)
        BY <2>1 DEF LinkedFull
      <4> QED BY <2>1, <2>2, <4>1 DEF Genuine, Handles, GoodFile
    <3>6. Names'
      <4>1. \A n \in DOMAIN finals' : finals'[n] <= made
        BY <2>1, <3>2 DEF Genuine, Names, GoodFile
      <4>2. \E b \in Body : \A c \in Chunk : content[i][c] = b /\ c \in synced[i]
        BY <2>1 DEF Verified, Holds
      <4>3. ASSUME NEW n \in DOMAIN finals'
            PROVE  \E b \in Body : \A c \in Chunk :
                     content[finals'[n]][c] = b /\ c \in synced[finals'[n]]
        BY <3>2, <4>2 DEF Genuine, Names, PublishedWhole, Uniform
      <4>4. PublishedWhole'
        BY <2>1, <4>3 DEF PublishedWhole, Uniform
      <4> QED BY <2>1, <4>1, <4>4 DEF Genuine, Names
    <3>7. Phased'
      BY <2>1, <2>2, <2>5, <3>1 DEF Phased, Checked
    <3> QED BY <2>3, <3>4, <3>5, <3>6, <3>7 DEF Genuine
  <2> QED BY <1>4, <2>4, <2>5 DEF Publish
<1>5. CASE RecordPromotion
  <2> DEFINE m == WithFinal(mem, Len(finals), pc = "linked")
  <2>1. /\ pc \in {"linked", "cleaned"} /\ mem \in Rec /\ mem # NoTask
        /\ UNCHANGED <<content, synced, finals, made, file>>
        /\ file \in Files /\ file # NoFile /\ i \in Inode /\ i # 0 /\ running
        /\ run.stream = Blank /\ Verified(content, synced, mem, i)
        /\ GoodFile(content, finals, made, file, mem) /\ finals[Len(finals)] = i
    BY <1>5, <1>a, <1>b DEF RecordPromotion, FileSteps, Genuine, Phased, Checked
  <2>2. Len(finals) \in Nat \ {0} /\ Len(finals) \in DOMAIN finals
    <3>1. finals \in Seq(Inode) /\ finals # <<>>
      BY <2>1 DEF TypeOK, Fits, RunFits
    <3> QED BY <3>1
  <2>3. /\ m \in Rec /\ m # NoTask /\ m.final = Len(finals) /\ m.done = mem.done
        /\ m.res = mem.res /\ m.checksum = mem.checksum
        /\ m.partial \in {0, mem.partial}
    <3>1. m \in Rec /\ m # NoTask
      BY <2>1, <2>2, WithFinalType, AbsentTask
    <3> QED BY <2>1, <3>1 DEF WithFinal, Rec, Tasks
  <2> HIDE DEF m
  <2>4. mem' = m /\ disk' \in {disk, m}
    BY <1>5, SavedOrNot DEF RecordPromotion, m
  <2>5. GoodRecord(content, synced, finals, made, m) /\ Claim(m) = Claim(mem)
    <3>1. GoodRecord(content, synced, finals, made, mem)
      BY <2>1 DEF Genuine, Records
    <3>2. Claim(m) = Claim(mem)
      BY <2>3 DEF Claim
    <3>3. GoodPartial(content, synced, m)
      BY <2>3, <3>1, <3>2 DEF GoodRecord, GoodPartial
    <3>4. GoodFinal(content, synced, finals, m)
      BY <2>1, <2>2, <2>3 DEF GoodFinal, Verified
    <3>5. \A n \in DOMAIN finals : finals[n] # 0
      BY BoundsAssumption DEF TypeOK, Inode
    <3>6. LinkedFull(finals, m.partial, m.done, m.res) /\ m.partial <= made
      BY <2>3, <3>1, <3>5, BoundsAssumption DEF GoodRecord, LinkedFull, TypeOK
    <3> QED BY <3>2, <3>3, <3>4, <3>6 DEF GoodRecord
  <2>6. Records'
    BY <2>1, <2>3, <2>4, <2>5 DEF Genuine, Records
  <2>7. GoodFile(content, finals, made, file, m)
    BY <2>1, <2>3, <2>5 DEF GoodFile
  <2>8. Handles'
    <3>1. (disk' # NoTask /\ disk'.partial = i) => Claim(disk') \subseteq Claimed(file.done, m.res)
      <4>1. CASE disk' = disk
        BY <2>1, <2>3, <4>1 DEF Genuine, Handles
      <4>2. CASE disk' = m
        BY <2>1, <2>7, <4>2 DEF GoodFile
      <4> QED BY <2>4, <4>1, <4>2
    <3> QED BY <2>1, <2>4, <2>7, <3>1 DEF Handles
  <2>9. Names'
    BY <2>1 DEF Genuine, Names, PublishedWhole, Uniform
  <2>10. \/ pc' \in {"recorded", "finish"} /\ run' = run
         \/ pc' = "idle" /\ ~running'
    BY <1>5 DEF RecordPromotion, EndRun
  <2>11. Verified(content, synced, m, i)
    BY <2>1, <2>3 DEF Verified
  <2>12. Sourced' /\ Phased'
    BY <2>1, <2>4, <2>10, <2>11 DEF Sourced, Phased, Transferring, Checked
  <2> QED BY <2>6, <2>8, <2>9, <2>12 DEF Genuine
<1>6. CASE CleanupPartial
  BY <1>6, <1>a
     DEF CleanupPartial, Genuine, Records, Handles, Sourced, Phased, Names, PublishedWhole,
         Uniform, Transferring, Checked
<1>7. CASE EnterCompleted
  <2>1. /\ pc = "finish" /\ mem \in Rec /\ run.stream = Blank
        /\ UNCHANGED <<content, synced, finals, made, file>>
    BY <1>7, <1>a DEF EnterCompleted
  <2>2. /\ mem' = mem \/ \E s \in States : mem' = MoveTo(mem, s)
        /\ disk' \in {disk, mem'}
        /\ \/ pc' = "completed" /\ run' = run
           \/ pc' = "idle" /\ ~running'
    BY <1>7, SavedOrNot DEF EnterCompleted, States, NotSaved, EndRun
  <2>3. Records' /\ Handles' /\ Names'
    BY <2>1, <2>2, GenuineMoved
  <2> QED BY <2>1, <2>2, <2>3 DEF Genuine, Sourced, Phased, Transferring, Checked
<1>8. CASE Completed
  BY <1>8
     DEF Completed, EndRun, Genuine, Records, Handles, Sourced, Phased, Names, PublishedWhole,
         Uniform, Transferring, Checked
<1> QED BY <1>1, <1>2, <1>3, <1>4, <1>5, <1>6, <1>7, <1>8 DEF Complete

-------------------------------------------------------------------------------
(***************************************************************************)
(* Stops, failures and removal.                                            *)
(***************************************************************************)
LEMMA GenuineFinish == ASSUME TypeOK, Placed, Fits, Genuine, Finish PROVE Genuine'
<1> USE DEF Goto, ioVars, ctlVars, engineVars, boundVars
<1> DEFINE Ends == {"stop", "halt", "fail", "discard", "forget", "purge"}
<1>a. pc \in Ends => mem \in Rec /\ mem # NoTask /\ (running => run.stream = Blank)
  BY AbsentTask DEF Placed, Rec, Fits, RunFits
\* What every ending does to the phases of a run
<1>b. ASSUME pc \in Ends, pc' \in Ends \cup {"idle"}, running' => running /\ run' = run
      PROVE  Sourced' /\ Phased'
  BY <1>a, <1>b DEF Sourced, Phased, Transferring, Checked
<1>c. EndRun => pc' = "idle" /\ ~running'
  BY DEF EndRun
<1>1. CASE StopBoundary
  <2>1. pc = "stop" /\ pc' \in {"halt", "fail"} /\ UNCHANGED <<running, run, file, finals,
                                                               content, made>>
    BY <1>1 DEF StopBoundary, Boundary
  <2>2. Sourced' /\ Phased'
    BY <1>b, <2>1
  <2>3. CASE UNCHANGED <<mem, disk, synced>>
    BY <2>1, <2>2, <2>3 DEF Genuine, Records, Handles, Names, PublishedWhole, Uniform
  <2>4. CASE file # NoFile /\ Boundary(Goto("halt") /\ UNCHANGED run)
    <3>1. file \in Files /\ mem \in Rec /\ mem.res \in Identities
      BY <2>4 DEF TypeOK, Placed
    <3>2. \/ Flush /\ mem' = Durable /\ (Saved(Durable) \/ UNCHANGED disk)
          \/ NotRefreshed
      BY <2>4 DEF Boundary
    <3>3. Records' /\ Handles' /\ Names'
      BY <2>1, <2>4, <3>1, <3>2, GenuineRefresh DEF Genuine
    <3> QED BY <2>2, <3>3 DEF Genuine
  <2> QED BY <1>1, <2>3, <2>4 DEF StopBoundary
<1>2. CASE ApplyStop
  <2>1. /\ pc = "halt" /\ mem \in Rec /\ UNCHANGED <<content, synced, finals, made, file>>
    BY <1>2, <1>a DEF ApplyStop
  <2>2. StopTarget \in States
    BY DEF StopTarget, States
  <2>3. /\ mem' = mem \/ \E s \in States : mem' = MoveTo(mem, s)
        /\ disk' \in {disk, mem'}
    BY <1>2, <2>2, SavedOrNot DEF ApplyStop, MarkStopFailed, States
  <2>4. pc' \in Ends \cup {"idle"} /\ (running' => running /\ run' = run)
    BY <1>2, <1>c DEF ApplyStop
  <2>5. Records' /\ Handles' /\ Names'
    BY <2>1, <2>3, GenuineMoved
  <2> QED BY <1>b, <2>1, <2>4, <2>5 DEF Genuine
<1>3. CASE FailRun
  <2>1. /\ pc = "fail" /\ mem \in Rec /\ UNCHANGED <<content, synced, finals, made, file>>
    BY <1>3, <1>a DEF FailRun
  <2>2. /\ mem' = mem \/ \E s \in States : mem' = MoveTo(mem, s)
        /\ disk' \in {disk, mem'}
    BY <1>3, SavedOrNot DEF FailRun, States
  <2>3. pc' \in Ends \cup {"idle"} /\ (running' => running /\ run' = run)
    BY <1>3, <1>c DEF FailRun
  <2>4. Records' /\ Handles' /\ Names'
    BY <2>1, <2>2, GenuineMoved
  <2> QED BY <1>b, <2>1, <2>3, <2>4 DEF Genuine
<1>4. CASE Discard
  <2>1. pc = "discard" /\ pc' \in Ends \cup {"idle"} /\ (running' => running /\ run' = run)
    BY <1>4, <1>c DEF Discard
  <2>2. Sourced' /\ Phased'
    BY <1>b, <2>1
  <2> QED BY <1>4, <2>2 DEF Discard, Genuine, Records, Handles, Names, PublishedWhole, Uniform
<1>5. CASE Forget
  <2> DEFINE m == WithoutPartial(mem)
  <2>1. /\ pc = "forget" /\ mem \in Rec /\ mem # NoTask /\ pc' = "idle" /\ ~running'
        /\ UNCHANGED <<content, synced, finals, made>>
    BY <1>5, <1>a, <1>c DEF Forget
  <2>2. Sourced' /\ Phased'
    BY <1>b, <2>1
  <2>3. Names'
    BY <2>1 DEF Genuine, Names, PublishedWhole, Uniform
  <2>4. CASE Saved(m) /\ mem' = m /\ file' = NoFile
    <3>1. /\ m \in Rec /\ m # NoTask /\ m.partial = 0 /\ m.final = mem.final
      BY <2>1, WithoutPartialType, AbsentTask DEF WithoutPartial, Rec, Tasks
    <3>2. m.final = 0
      BY <2>1, <3>1 DEF Fits, Kept, KeptRecord, Staged
    <3>3. \A n \in DOMAIN finals : finals[n] # 0
      BY BoundsAssumption DEF TypeOK, Inode
    <3> HIDE DEF m
    <3>4. GoodRecord(content, synced, finals, made, m)
      BY <3>1, <3>2, <3>3 DEF GoodRecord, GoodPartial, GoodFinal, LinkedFull, TypeOK
    <3>5. disk' \in {disk, m}
      BY <2>4, SavedOrNot
    <3>6. Records' /\ Handles'
      BY <2>1, <2>4, <3>1, <3>4, <3>5 DEF Genuine, Records, Handles
    <3> QED BY <2>2, <2>3, <3>6 DEF Genuine
  <2>5. CASE NotSaved(m) /\ UNCHANGED <<mem, file>>
    <3>1. disk' = disk
      BY <2>5 DEF NotSaved
    <3> QED BY <2>1, <2>2, <2>3, <2>5, <3>1 DEF Genuine, Records, Handles
  <2> QED BY <1>5, <2>4, <2>5 DEF Forget
<1>6. CASE Purge
  <2>1. pc = "purge" /\ pc' = "idle" /\ ~running /\ running' = running
    BY <1>6 DEF Purge, Placed
  <2>2. Sourced' /\ Phased'
    BY <1>b, <2>1
  <2> QED BY <1>6, <2>2 DEF Purge, Genuine, Records, Handles, Names, PublishedWhole, Uniform
<1> QED BY <1>1, <1>2, <1>3, <1>4, <1>5, <1>6 DEF Finish

-------------------------------------------------------------------------------
(***************************************************************************)
(* The process, and the invariant.                                         *)
(***************************************************************************)
LEMMA GenuineCrash == ASSUME TypeOK, Genuine, Crash PROVE Genuine'
<1> USE DEF engineVars, ctlVars, ioVars, boundVars
<1>1. /\ mem' = NoTask /\ file' = NoFile /\ pc' = "idle" /\ ~running' /\ disk' = disk
      /\ made' = made /\ finals' = finals /\ synced' = [j \in Inode |-> Chunk]
  <2>1. /\ Down /\ disk' = disk /\ made' = made /\ finals' = finals
        /\ synced' = [j \in Inode |-> Chunk]
    BY ONLY Crash DEF Crash
  <2> QED BY <2>1 DEF Down, EndRun, Goto
<1>2. \A j \in Inode : \A c \in Chunk : c \in synced[j] => content'[j][c] = content[j][c]
  <2>1. PICK lost \in SUBSET { x \in Inode \X Chunk :
                x[2] \notin synced[x[1]] /\ content[x[1]][x[2]] # Blank } :
          content' = [j \in Inode |-> [c \in Chunk |->
                        IF <<j, c>> \in lost THEN Blank ELSE content[j][c]]]
    BY DEF Crash
  <2> SUFFICES ASSUME NEW j \in Inode, NEW c \in Chunk, c \in synced[j]
               PROVE  content'[j][c] = content[j][c]
    OBVIOUS
  <2>2. <<j, c>> \notin lost
    OBVIOUS
  <2> QED BY <2>1, <2>2
<1>3. /\ made \in Nat /\ made <= made /\ \A n \in DOMAIN finals : finals[n] \in Inode
  BY BoundsAssumption DEF TypeOK
<1>4. \A n \in DOMAIN finals : \A c \in Chunk : c \in synced[finals[n]] =>
        content'[finals[n]][c] = content[finals[n]][c] /\ c \in synced'[finals[n]]
  BY <1>1, <1>2, <1>3
<1>5. ASSUME NEW m \in Rec, GoodRecord(content, synced, finals, made, m)
      PROVE  GoodRecord(content', synced', finals, made, m)
  <2>1. /\ m.partial # 0 => m.partial \in Inode
        /\ Claim(m) \subseteq Chunk
    BY DEF Rec, Tasks, Claim, Claimed
  <2>2. m.partial # 0 => \A c \in Claim(m) : c \in synced[m.partial] =>
          content'[m.partial][c] = content[m.partial][c] /\ c \in synced'[m.partial]
    BY <1>1, <1>2, <2>1
  <2> QED BY <1>3, <1>4, <1>5, <2>2, GoodStays
<1>6. Records'
  BY <1>1, <1>5 DEF Genuine, Records, TypeOK, Rec
<1>7. Names'
  BY <1>1, <1>3, <1>4, NamesStay DEF Genuine, TypeOK
<1> QED BY <1>1, <1>6, <1>7 DEF Genuine, Handles, Sourced, Phased, Transferring, Checked

LEMMA GenuineOpen == ASSUME TypeOK, Placed, Fits, Genuine, Open PROVE Genuine'
<1> USE DEF engineVars, ctlVars, ioVars, boundVars
<1>1. mem = NoTask /\ file = NoFile /\ pc = "idle" /\ ~running
  BY DEF Open, Placed, RunSteps, FileSteps
<1>2. /\ UNCHANGED <<content, synced, finals, made, file, pc, run>> /\ ~running'
  BY <1>1 DEF Open
<1>3. Handles' /\ Sourced' /\ Phased' /\ Names'
  BY <1>1, <1>2 DEF Genuine, Handles, Sourced, Phased, Names, PublishedWhole, Uniform,
                    Transferring, Checked
<1>4. CASE UNCHANGED <<mem, disk>>
  BY <1>1, <1>2, <1>3, <1>4 DEF Genuine, Records
<1>5. CASE disk # NoTask /\ mem' \in {mem, Normalized(disk)}
             /\ disk' \in {disk, Normalized(disk)}
  <2> DEFINE m == Normalized(disk)
  <2>1. disk \in Rec /\ GoodRecord(content, synced, finals, made, disk)
    BY <1>5 DEF TypeOK, Rec, Genuine, Records
  <2>2. \/ \E s \in States : m = MoveTo(disk, s)
        \/ m = disk
        \/ m = WithoutPartial(disk) /\ disk.state \in {"Failed", "Cancelled"}
    BY DEF Normalized, States
  <2>3. m # NoTask
    BY <2>1, NormalizedType, AbsentTask
  <2> HIDE DEF m
  <2>4. /\ GoodRecord(content, synced, finals, made, m)
        /\ m.partial # 0 => m.partial = disk.partial /\ Claim(m) = Claim(disk)
    <3>1. CASE m = disk \/ \E s \in States : m = MoveTo(disk, s)
      <4>1. Same(m, disk)
        BY <2>1, <3>1, SameMove DEF Same
      <4> QED BY <2>1, <4>1, SameGood DEF Same
    <3>2. CASE m = WithoutPartial(disk) /\ disk.state \in {"Failed", "Cancelled"}
      <4>1. m.partial = 0 /\ m.final = disk.final
        BY <2>1, <3>2 DEF WithoutPartial, Rec, Tasks
      <4>2. disk.final = 0
        BY <1>5, <3>2 DEF Fits, Kept, KeptRecord
      <4>3. \A n \in DOMAIN finals : finals[n] # 0
        BY BoundsAssumption DEF TypeOK, Inode
      <4> QED BY <4>1, <4>2, <4>3
              DEF GoodRecord, GoodPartial, GoodFinal, LinkedFull, TypeOK
    <3> QED BY <2>2, <3>1, <3>2
  <2>5. Records'
    BY <1>1, <1>2, <1>5, <2>1, <2>3, <2>4 DEF Records, m
  <2> QED BY <1>3, <2>5 DEF Genuine
<1> QED BY <1>4, <1>5, SavedOrNot DEF Open, NotSaved

LEMMA GenuineNext ==
  ASSUME TypeOK, Placed, RevisionIdentifiesRecord, Fits, Genuine, [Next]_vars
  PROVE  Genuine'
<1> USE DEF engineVars, ctlVars, ioVars, boundVars
<1>1. CASE Exit
  <2>1. /\ mem' = NoTask /\ file' = NoFile /\ pc' = "idle" /\ ~running'
        /\ UNCHANGED <<disk, content, synced, made, finals>>
    BY <1>1 DEF Exit, Down, EndRun, Goto
  <2> QED BY <2>1 DEF Genuine, Records, Handles, Sourced, Phased, Names, PublishedWhole,
                      Uniform, Transferring, Checked
<1>2. CASE ServerChanges \/ UNCHANGED vars
  BY <1>2 DEF ServerChanges, vars, Genuine, Records, Handles, Sourced, Phased, Names,
              PublishedWhole, Uniform
<1> QED BY <1>1, <1>2, GenuineCommand, GenuinePrepare, GenuineTransfer, GenuineComplete,
           GenuineFinish, GenuineCrash, GenuineOpen DEF Next

LEMMA GenuineAlways == Spec => []Genuine
<1>1. (TypeOK /\ Placed) /\ RevisionIdentifiesRecord /\ Fits /\ Genuine /\ [Next]_vars
        => Genuine'
  BY GenuineNext
<1> QED BY <1>1, GenuineInit, Typed, RevisionsIdentify, FitsAlways, PTL DEF Spec

\* Every published name holds all the bytes of one version of the resource, flushed,
\* whatever stops, retries, faults and crashes the download went through.
THEOREM PublishedAlwaysWhole == Spec => []PublishedWhole
<1>1. Genuine => PublishedWhole
  BY DEF Genuine, Names
<1> QED BY <1>1, GenuineAlways, PTL

\* The coverage a record claims is on disk, flushed, and of one version of the resource,
\* the one its strong validator identifies.
THEOREM CoverageAlwaysTrustworthy == Spec => []CoverageTrustworthy
<1>1. TypeOK /\ Genuine => CoverageTrustworthy
  <2> SUFFICES ASSUME TypeOK, Genuine, disk # NoTask, disk.partial # 0
               PROVE  \E b \in Body :
                        /\ Uniform(disk.partial, b, disk.done)
                        /\ (disk.done # {} /\ disk.res.strong) => disk.res.tag = b
    BY DEF CoverageTrustworthy
  <2>1. disk.done \subseteq Claim(disk)
    BY DEF Claim, Claimed, TypeOK, Tasks
  <2>2. PICK b \in Body : /\ Holds(content, synced, disk.partial, b, Claim(disk))
                          /\ Claim(disk) # {} => FromSource(disk.res, b)
    BY DEF Genuine, Records, GoodRecord, GoodPartial
  <2> QED BY <2>1, <2>2 DEF Holds, Uniform, FromSource
<1> QED BY <1>1, GenuineAlways, TypeCorrect, PTL

-------------------------------------------------------------------------------
(***************************************************************************)
(* A record that says Completed.                                           *)
(***************************************************************************)
\* The store accepts no record of a completed task that names no file.
Signed == (disk # NoTask /\ disk.state = "Completed") => disk.final # 0

LEMMA SignedSaved ==
  ASSUME Signed, NEW m, Saved(m) \/ NotSaved(m) PROVE Signed'
BY DEF Signed, Saved, NotSaved, ValidTask

LEMMA SignedKept ==
  ASSUME Signed, disk' = disk \/ disk' = NoTask PROVE Signed'
BY DEF Signed

LEMMA SignedNext == ASSUME TypeOK, Placed, Signed, [Next]_vars PROVE Signed'
<1> USE SignedSaved, SignedKept DEF engineVars, ctlVars, ioVars, boundVars
<1>1. CASE Command
  BY <1>1 DEF Command, Create, Start, Resume, Retry, Pause, Remove, Shutdown, CancelActive,
              CancelInactive
<1>2. CASE Prepare
  BY <1>2 DEF Prepare, ProbeStops, ProbeRetries, ProbeFails, ProbeAnswers, PrepareRefused,
              PrepareResume, PrepareRetained, CreatePartial, Attach, EnterTransfer
<1>3. CASE Transfer \/ Settle
  BY <1>3 DEF Transfer, Settle, CommitRange, TearRange, StreamWrite, BeginStream, EndStream,
              CheckpointProgress, TransferReturns, AfterTransfer, Boundary, NotRefreshed
<1>4. CASE Complete
  BY <1>4 DEF Complete, EnterValidating, Validate, EnterPromoting, Publish, RecordPromotion,
              CleanupPartial, EnterCompleted, Completed, Advance
<1>5. CASE Finish
  <2>1. CASE ApplyStop
    <3>1. CASE MarkStopFailed
      <4>1. mem \in Rec
        BY <2>1 DEF ApplyStop, Placed
      <4>2. MoveTo(mem, "Failed").state = "Failed"
        BY <4>1, MoveToType DEF States
      <4> QED BY <3>1, <4>2 DEF MarkStopFailed, Signed
    <3> QED BY <2>1, <3>1 DEF ApplyStop
  <2> QED BY <1>5, <2>1 DEF Finish, StopBoundary, Boundary, NotRefreshed, FailRun, Discard,
                            Forget, Purge
<1>6. CASE Exit \/ Crash \/ Open \/ ServerChanges \/ UNCHANGED vars
  BY <1>6 DEF Exit, Crash, Open, ServerChanges, vars
<1> QED BY <1>1, <1>2, <1>3, <1>4, <1>5, <1>6 DEF Next

\* A record that says Completed names a published file with the bytes the task accepted:
\* those its strong validator identifies and its checksum demands.
THEOREM CompletedAlwaysVerified == Spec => []CompletedIsVerified
<1>1. Init => Signed
  BY DEF Init, Signed
<1>2. (TypeOK /\ Placed) /\ Signed /\ [Next]_vars => Signed'
  BY SignedNext
<1>3. Signed /\ Genuine => CompletedIsVerified
  BY DEF Signed, CompletedIsVerified, Genuine, Records, GoodRecord, GoodFinal, Verified,
         Holds, FromSource, Uniform
<1> QED BY <1>1, <1>2, <1>3, Typed, GenuineAlways, PTL DEF Spec

-----------------------------------------------------------------------------

\* A final state stays, and coverage stays as long as its partial.
Onward(a, b) ==
  /\ a.state \in {"Completed", "Cancelled"} => b.state = a.state
  /\ a.partial # 0 => b.partial = 0 \/ (b.partial = a.partial /\ a.done \subseteq b.done)

Abandoned == pc = "idle" /\ mem.state = "Promoting"

\* Memory is ahead of the disk.  It can have given up a partial that the disk still names
\* only where recording a publication failed, which ends the run for good.
Ahead ==
  (mem # NoTask /\ disk # NoTask) =>
    Onward(disk, mem) /\ (disk.partial # 0 /\ mem.partial = 0 => Abandoned)

\* What a step does to the record in memory and with it to the one on disk
Advances ==
  (mem # NoTask /\ mem' # NoTask) =>
    /\ disk' \in {disk, mem'}
    /\ Onward(mem, mem')
    /\ (mem.partial # 0 /\ mem'.partial = 0) => disk' = mem' \/ Abandoned'
    /\ Abandoned => mem' = mem /\ Abandoned'

LEMMA OnwardSame ==
  ASSUME NEW m, NEW w, w.state = m.state, Same(w, m) PROVE Onward(m, w)
BY DEF Onward, Same

LEMMA OnwardMove ==
  ASSUME NEW m \in Rec, NEW s \in States, m.state \notin {"Completed", "Cancelled"}
  PROVE  Onward(m, MoveTo(m, s)) /\ MoveTo(m, s).partial = m.partial
BY SameMove DEF Onward, Same

LEMMA OnwardMayMove ==
  ASSUME NEW m \in Rec, NEW s \in States, MayMove(m, s) \/ Allows(m.state, s)
  PROVE  Onward(m, MoveTo(m, s)) /\ MoveTo(m, s).partial = m.partial
BY OnwardMove DEF MayMove, Allows

-------------------------------------------------------------------------------
LEMMA AdvancesCommand == ASSUME TypeOK, Placed, Fits, Command PROVE Advances
<1> USE DEF Goto, ioVars, ctlVars, engineVars, boundVars
<1> SUFFICES ASSUME mem # NoTask, mem' # NoTask PROVE Advances
  BY DEF Advances
<1>0. mem \in Rec
  BY DEF TypeOK, Rec
<1>1. ASSUME mem' = mem, disk' = disk, Abandoned => pc' = pc PROVE Advances
  BY <1>1 DEF Advances, Onward, Abandoned
<1>2. ASSUME NEW s \in {"Probing", "Queued", "Cancelled"}, Allows(mem.state, s),
             mem' \in {mem, MoveTo(mem, s)}, disk' \in {disk, mem'}
      PROVE  Advances
  <2>1. /\ Onward(mem, MoveTo(mem, s)) /\ MoveTo(mem, s).partial = mem.partial
        /\ ~Abandoned /\ Onward(mem, mem)
    BY <1>0, <1>2, OnwardMayMove DEF States, Allows, Abandoned, Onward
  <2> QED BY <1>2, <2>1 DEF Advances
<1>3. ASSUME NEW sum \in Checksums, Create(sum) PROVE Advances
  BY <1>3 DEF Create
<1>4. CASE Start
  BY <1>2, <1>4, SavedOrNot DEF Start, MayMove, NotSaved
<1>5. CASE Resume
  BY <1>1, <1>5 DEF Resume, Abandoned
<1>6. CASE Retry
  BY <1>2, <1>6, SavedOrNot DEF Retry, Allows, NotSaved
<1>7. CASE Pause
  BY <1>1, <1>7 DEF Pause
<1>8. CASE Shutdown
  BY <1>1, <1>8 DEF Shutdown
<1>9. ASSUME NEW s \in {"cancelKeep", "cancelDelete"}, CancelActive(s) PROVE Advances
  BY <1>1, <1>9 DEF CancelActive
<1>10. ASSUME NEW s \in {"cancelKeep", "cancelDelete"}, CancelInactive(s) PROVE Advances
  BY <1>2, <1>10, SavedOrNot DEF CancelInactive, NotSaved
<1>11. CASE Remove
  BY <1>1, <1>11 DEF Remove, Abandoned, Terminal
<1> QED BY <1>3, <1>4, <1>5, <1>6, <1>7, <1>8, <1>9, <1>10, <1>11 DEF Command

LEMMA AdvancesEnter ==
  ASSUME NEW m \in Rec, NEW h, NEW src, EnterTransfer(m, h, src), Onward(mem, m),
         m.partial # 0, m.state \in {"Probing", "Paused"}, ~Abandoned
  PROVE  Advances
<1>1. /\ MoveTo(m, "Downloading").partial = m.partial
      /\ MoveTo(m, "Downloading").done = m.done
      /\ MoveTo(m, "Downloading").state = "Downloading"
  BY DEF MoveTo, Rec, Tasks
<1>2. mem' = MoveTo(m, "Downloading") /\ disk' \in {disk, mem'}
  BY SavedOrNot DEF EnterTransfer
<1> QED BY <1>1, <1>2 DEF Advances, Onward

LEMMA AdvancesPrepare == ASSUME TypeOK, Placed, Fits, Genuine, Prepare PROVE Advances
<1> USE DEF Goto, ioVars, ctlVars, engineVars, boundVars
<1>a. /\ pc \in {"probe", "prepare", "attach"} /\ mem \in Rec /\ ~Abandoned
      /\ mem.state \in {"Probing", "Paused"}
  BY DEF Prepare, ProbeStops, ProbeRetries, ProbeFails, ProbeAnswers, PrepareRefused,
         PrepareResume, PrepareRetained, CreatePartial, Attach, Preparing, Placed, Fits, Staged, Abandoned
<1>b. pc \in {"attach", "prepare"} => Identity(run.source) \in Identities
  BY IdentityType DEF Placed
<1>1. ASSUME mem' = mem, disk' = disk PROVE Advances
  BY <1>1, <1>a DEF Advances, Onward
<1>2. CASE ProbeStops \/ ProbeRetries \/ ProbeFails \/ ProbeAnswers \/ PrepareRefused
  BY <1>1, <1>2 DEF ProbeStops, ProbeRetries, ProbeFails, ProbeAnswers, PrepareRefused
<1>3. CASE PrepareResume
  <2>1. CASE EnterTransfer(mem, Handle(mem), run.source)
    <3>1. mem.partial # 0
      BY <1>a, <2>1 DEF EnterTransfer, MayMove, ValidTask, Rec, Tasks
    <3>2. Onward(mem, mem)
      BY DEF Onward
    <3> QED BY <1>a, <2>1, <3>1, <3>2, AdvancesEnter
  <2> QED BY <1>1, <1>3, <2>1 DEF PrepareResume
<1>4. CASE PrepareRetained
  <2> DEFINE m == WithResource(mem, Identity(run.source))
  <2>1. pc = "prepare" /\ mem.partial # 0
    BY <1>4 DEF PrepareRetained, Preparing
  <2>2. /\ m \in Rec /\ m.partial = mem.partial /\ m.done = mem.done /\ m.state = mem.state
    BY <1>a, <1>b, <2>1, WithResourceType DEF WithResource, Rec, Tasks
  <2>3. Onward(mem, m)
    BY <2>2 DEF Onward
  <2> HIDE DEF m
  <2>4. CASE EnterTransfer(m, Handle(m), run.source)
    BY <1>a, <2>1, <2>2, <2>3, <2>4, AdvancesEnter
  <2>5. CASE mem' = m /\ disk' = disk
    BY <1>a, <2>1, <2>2, <2>3, <2>5 DEF Advances
  <2> QED BY <1>4, <2>4, <2>5 DEF PrepareRetained, m
<1>5. CASE CreatePartial
  <2>1. mem.partial = 0 /\ disk' = disk
    BY <1>5 DEF CreatePartial
  <2> QED BY <1>a, <2>1 DEF Advances, Onward
<1>6. CASE Attach
  <2>1. mem.partial # 0 /\ Onward(mem, mem)
    BY <1>6, BoundsAssumption DEF Attach, Placed, Inode, Onward
  <2> QED BY <1>6, <1>a, <2>1, AdvancesEnter DEF Attach
<1> QED BY <1>2, <1>3, <1>4, <1>5, <1>6 DEF Prepare

\* The handle covers at least what the record in memory claims.
LEMMA AdvancesRefresh ==
  ASSUME TypeOK, Placed, Fits, Genuine, file # NoFile, ~Abandoned,
         \/ mem' = Durable /\ (Saved(Durable) \/ UNCHANGED disk)
         \/ NotRefreshed
  PROVE  Advances
<1>1. file \in Files /\ mem \in Rec /\ mem # NoTask /\ mem.res \in Identities
  BY AbsentTask DEF TypeOK, Placed
<1>2. /\ Durable.partial = mem.partial /\ Durable.done = file.done /\ Durable.state = mem.state
  BY <1>1, RefreshedFields, DurableType
<1>3. mem.partial # 0 => mem.done \subseteq file.done
  <2>1. /\ mem.partial # 0 => Claim(mem) \subseteq Claimed(file.done, mem.res)
        /\ mem.done \subseteq Extent(mem.res)
    BY <1>1, UnknownResource DEF Genuine, Handles, GoodFile, Fits, Kept, KeptRecord
  <2> QED BY <2>1 DEF Claim, Claimed, Extent
<1>4. Onward(mem, mem) /\ Onward(mem, Durable)
  BY <1>2, <1>3 DEF Onward
<1>5. mem' \in {mem, Durable} /\ disk' \in {disk, mem'}
  BY SavedOrNot DEF NotRefreshed
<1> QED BY <1>2, <1>4, <1>5 DEF Advances

LEMMA AdvancesTransfer ==
  ASSUME TypeOK, Placed, Fits, Genuine, Transfer \/ Settle PROVE Advances
<1> USE DEF Goto, ioVars, ctlVars, engineVars, boundVars
<1>a. pc \in Transferring /\ ~Abandoned /\ file # NoFile
  <2>1. pc \in Transferring
    BY DEF Transfer, Settle, CommitRange, TearRange, StreamWrite, BeginStream, EndStream,
           CheckpointProgress, TransferReturns, AfterTransfer, Transferring
  <2> QED BY <2>1, HandleAssumption DEF Placed, FileSteps, Transferring, Abandoned
<1>1. ASSUME mem' = mem, disk' = disk PROVE Advances
  BY <1>1, <1>a DEF Advances, Onward
<1>2. ASSUME NEW c \in Chunk, CommitRange(c) \/ TearRange(c) \/ StreamWrite(c) PROVE Advances
  BY <1>1, <1>2 DEF CommitRange, TearRange, StreamWrite
<1>3. CASE BeginStream \/ EndStream \/ TransferReturns
  BY <1>1, <1>3 DEF BeginStream, EndStream, TransferReturns
<1>4. CASE CheckpointProgress
  BY <1>4, <1>a, AdvancesRefresh DEF CheckpointProgress
<1>5. CASE AfterTransfer
  BY <1>5, <1>a, AdvancesRefresh DEF AfterTransfer, Boundary
<1> QED BY <1>2, <1>3, <1>4, <1>5 DEF Transfer, Settle

LEMMA AdvancesMove ==
  ASSUME mem \in Rec, ~Abandoned, mem.state \notin {"Completed", "Cancelled"},
         mem' = mem \/ \E s \in States : mem' = MoveTo(mem, s), disk' \in {disk, mem'}
  PROVE  Advances
<1>1. Onward(mem, mem)
  BY DEF Onward
<1>2. \A s \in States : Onward(mem, MoveTo(mem, s)) /\ MoveTo(mem, s).partial = mem.partial
  BY OnwardMove
<1> QED BY <1>1, <1>2 DEF Advances

LEMMA AdvancesComplete ==
  ASSUME TypeOK, Placed, Fits, RevisionIdentifiesRecord, Complete PROVE Advances
<1> USE DEF Goto, ioVars, ctlVars, engineVars, boundVars
<1> DEFINE Phases == {"complete", "validate", "lease", "publish", "linked", "recorded",
                      "cleaned", "finish", "completed"}
<1>a. pc \in Phases /\ mem \in Rec /\ mem # NoTask /\ ~Abandoned
  <2>1. pc \in Phases
    BY DEF Complete, EnterValidating, Validate, EnterPromoting, Publish, RecordPromotion,
           CleanupPartial, EnterCompleted, Completed
  <2> QED BY <2>1, AbsentTask DEF Placed, Rec, Abandoned
<1>1. ASSUME mem' = mem, disk' = disk PROVE Advances
  BY <1>1, <1>a DEF Advances, Onward
<1>2. CASE EnterValidating
  <2>1. /\ mem' = mem \/ \E s \in States : mem' = MoveTo(mem, s)
        /\ disk' \in {disk, mem'} /\ mem.state = "Downloading"
    BY <1>2, SavedOrNot DEF EnterValidating, Advance, States, NotSaved, Fits, Staged
  <2> QED BY <1>a, <2>1, AdvancesMove
<1>3. CASE EnterPromoting
  <2>1. /\ mem' = mem \/ \E s \in States : mem' = MoveTo(mem, s)
        /\ disk' \in {disk, mem'} /\ mem.state = "Validating"
    BY <1>3, SavedOrNot DEF EnterPromoting, Advance, States, NotSaved, Fits, Staged
  <2> QED BY <1>a, <2>1, AdvancesMove
<1>4. CASE Validate \/ Publish \/ CleanupPartial \/ Completed
  BY <1>1, <1>4 DEF Validate, Publish, CleanupPartial, Completed
<1>5. CASE RecordPromotion
  <2> DEFINE m == WithFinal(mem, Len(finals), pc = "linked")
  <2>1. /\ pc \in {"linked", "cleaned"} /\ mem.state = "Promoting"
        /\ mem' = m
        /\ \/ Saved(m)
           \/ NotSaved(m) /\ EndRun
    BY <1>5 DEF RecordPromotion, Fits, Staged
  <2>2. Len(finals) \in Nat
    BY DEF TypeOK
  <2>3. /\ m \in Rec /\ m.rev = mem.rev + 1 /\ m.state = "Promoting" /\ m.done = mem.done
        /\ m.partial \in {0, mem.partial}
    <3>1. Len(finals) \in Nat \ {0}
      BY <2>1 DEF TypeOK, Fits, RunFits
    <3>2. m \in Rec /\ m.rev = mem.rev + 1
      BY <1>a, <3>1, WithFinalType
    <3> QED BY <1>a, <2>1, <3>2 DEF WithFinal, Rec, Tasks
  <2> HIDE DEF m
  <2>4. Saved(m) => disk' = m
    BY <1>a, <2>3, SavedNow
  <2>5. NotSaved(m) => disk' = disk
    BY DEF NotSaved
  <2>6. NotSaved(m) /\ EndRun => Abandoned'
    BY <2>1, <2>3 DEF EndRun, Abandoned
  <2>7. Onward(mem, m)
    BY <2>1, <2>3 DEF Onward
  <2> QED BY <1>a, <2>1, <2>4, <2>5, <2>6, <2>7 DEF Advances
<1>6. CASE EnterCompleted
  <2>1. /\ mem' = mem \/ \E s \in States : mem' = MoveTo(mem, s)
        /\ disk' \in {disk, mem'} /\ mem.state = "Promoting"
    BY <1>6, SavedOrNot DEF EnterCompleted, States, NotSaved, Fits, Staged
  <2> QED BY <1>a, <2>1, AdvancesMove
<1> QED BY <1>2, <1>3, <1>4, <1>5, <1>6 DEF Complete

LEMMA AdvancesFinish ==
  ASSUME TypeOK, Placed, Fits, Genuine, RevisionIdentifiesRecord, Finish PROVE Advances
<1> USE DEF Goto, ioVars, ctlVars, engineVars, boundVars
<1>a. /\ pc \in {"stop", "halt", "fail", "discard", "forget", "purge"}
      /\ mem \in Rec /\ mem # NoTask /\ ~Abandoned
  <2>1. pc \in {"stop", "halt", "fail", "discard", "forget", "purge"}
    BY DEF Finish, StopBoundary, ApplyStop, FailRun, Discard, Forget, Purge
  <2> QED BY <2>1, AbsentTask DEF Placed, Rec, Abandoned
<1>b. pc \in {"stop", "halt", "fail"} => mem.state \notin {"Completed", "Cancelled"}
  BY DEF Fits, Staged
<1>1. ASSUME mem' = mem, disk' = disk PROVE Advances
  BY <1>1, <1>a DEF Advances, Onward
<1>2. CASE StopBoundary
  BY <1>1, <1>2, <1>a, AdvancesRefresh DEF StopBoundary, Boundary
<1>3. CASE ApplyStop
  <2>1. StopTarget \in States
    BY DEF StopTarget, States
  <2>2. /\ mem' = mem \/ \E s \in States : mem' = MoveTo(mem, s)
        /\ disk' \in {disk, mem'} /\ pc = "halt"
    BY <1>3, <2>1, SavedOrNot DEF ApplyStop, MarkStopFailed, States
  <2> QED BY <1>a, <1>b, <2>2, AdvancesMove
<1>4. CASE FailRun
  <2>1. /\ mem' = mem \/ \E s \in States : mem' = MoveTo(mem, s)
        /\ disk' \in {disk, mem'} /\ pc = "fail"
    BY <1>4, SavedOrNot DEF FailRun, States
  <2> QED BY <1>a, <1>b, <2>1, AdvancesMove
<1>5. CASE Discard
  BY <1>1, <1>5 DEF Discard
<1>6. CASE Forget
  <2> DEFINE m == WithoutPartial(mem)
  <2>1. /\ m \in Rec /\ m.rev = mem.rev + 1 /\ m.partial = 0 /\ m.state = mem.state
    <3>1. m \in Rec /\ m.rev = mem.rev + 1
      BY <1>a, WithoutPartialType
    <3> QED BY <1>a, <3>1 DEF WithoutPartial, Rec, Tasks
  <2> HIDE DEF m
  <2>2. CASE Saved(m) /\ mem' = m
    <3>1. disk' = m
      BY <1>a, <2>1, <2>2, SavedNow
    <3> QED BY <1>a, <2>1, <2>2, <3>1 DEF Advances, Onward
  <2>3. CASE NotSaved(m) /\ mem' = mem
    BY <1>1, <2>3 DEF NotSaved
  <2> QED BY <1>6, <2>2, <2>3 DEF Forget, m
<1>7. CASE Purge
  BY <1>1, <1>7 DEF Purge, Advances
<1> QED BY <1>2, <1>3, <1>4, <1>5, <1>6, <1>7 DEF Finish

LEMMA AdvancesNext ==
  ASSUME TypeOK, Placed, RevisionIdentifiesRecord, Fits, Genuine, [Next]_vars
  PROVE  Advances
<1> USE DEF engineVars, ctlVars, ioVars, boundVars
<1>1. CASE Exit \/ Crash
  <2>1. mem' = NoTask
    BY <1>1 DEF Exit, Crash, Down
  <2> QED BY <2>1 DEF Advances
<1>2. CASE Open
  BY <1>2 DEF Open, Placed, Advances
<1>3. CASE ServerChanges \/ UNCHANGED vars
  BY <1>3 DEF ServerChanges, vars, Advances, Onward, Abandoned
<1> QED BY <1>1, <1>2, <1>3, AdvancesCommand, AdvancesPrepare, AdvancesTransfer,
           AdvancesComplete, AdvancesFinish DEF Next

-------------------------------------------------------------------------------
(***************************************************************************)
(* The record on disk only moves onward, until the task is forgotten.      *)
(***************************************************************************)

\* A step that leaves the engine without the task leaves its record, or deletes it.
Forgets ==
  mem' = NoTask =>
    \/ disk' = disk
    \/ disk' = NoTask /\ UNCHANGED <<stop, finals, content>>

LEMMA ForgetsNext ==
  ASSUME TypeOK, Placed, [Next]_vars PROVE Forgets
<1> USE DEF ioVars, ctlVars, engineVars, boundVars
<1> SUFFICES ASSUME mem' = NoTask, disk' # disk
             PROVE  disk' = NoTask /\ UNCHANGED <<stop, finals, content>>
  BY DEF Forgets
<1>1. \A m \in Rec : mem' # m
  BY AbsentTask
<1>2. ASSUME mem \in Rec, RecordStep PROVE FALSE
  BY <1>1, <1>2 DEF RecordStep
<1>3. CASE Exit \/ Crash \/ ServerChanges \/ UNCHANGED vars
  BY <1>3 DEF Exit, Crash, ServerChanges, vars
<1>4. CASE Open
  <2>1. disk \in Rec => Normalized(disk) \in Rec
    BY NormalizedType
  <2> QED BY <1>1, <1>4, <2>1 DEF Open, NotSaved, TypeOK, Rec
<1>5. CASE mem = NoTask /\ (Command \/ Prepare \/ Transfer \/ Settle \/ Complete \/ Finish)
  <2>1. pc = "idle"
    BY <1>5, AbsentTask DEF Placed
  <2>2. \/ \E sum \in Checksums : Create(sum)
        \/ Shutdown
    BY <1>5, <2>1
       DEF Command, Start, Resume, Retry, Pause, Remove, CancelActive,
           CancelInactive, Managed, Prepare, ProbeStops, ProbeRetries, ProbeFails, ProbeAnswers,
           PrepareRefused, Preparing, PrepareResume, PrepareRetained, CreatePartial, Attach,
           Transfer, CommitRange, TearRange, StreamWrite, BeginStream, EndStream,
           CheckpointProgress, Settle, TransferReturns, AfterTransfer, Complete,
           EnterValidating, Validate, EnterPromoting, Publish, RecordPromotion,
           CleanupPartial, EnterCompleted, Completed, Finish, StopBoundary, ApplyStop,
           FailRun, Discard, Forget, Purge
  <2>3. ASSUME NEW sum \in Checksums, Create(sum) PROVE FALSE
    <3>1. NewTask(sum) \in Rec
      BY ChecksumsAssumption, NewTaskType
    <3> QED BY <1>1, <2>3, <3>1 DEF Create, NotSaved
  <2> QED BY <2>2, <2>3 DEF Shutdown
<1>6. CASE mem \in Rec /\ Finish
  <2>1. CASE StopBoundary
    <3>1. file # NoFile => Durable \in Rec
      BY <1>6, DurableType DEF Placed, TypeOK
    <3> QED BY <1>1, <1>6, <2>1, <3>1 DEF StopBoundary, Boundary, NotRefreshed
  <2>2. CASE ApplyStop
    <3>1. StopTarget \in States
      BY DEF StopTarget, States
    <3>2. mem' = mem \/ \E s \in States : mem' = MoveTo(mem, s)
      BY <2>2, <3>1 DEF ApplyStop, MarkStopFailed, States
    <3>3. \A s \in States : MoveTo(mem, s) \in Rec
      BY <1>6, MoveToType
    <3> QED BY <1>1, <1>6, <3>2, <3>3
  <2>3. CASE FailRun
    <3>1. MoveTo(mem, "Failed") \in Rec
      BY <1>6, MoveToType DEF States
    <3> QED BY <1>1, <1>6, <2>3, <3>1 DEF FailRun
  <2>4. CASE Discard \/ Forget
    <3>1. WithoutPartial(mem) \in Rec
      BY <1>6, WithoutPartialType
    <3> QED BY <1>1, <1>6, <2>4, <3>1 DEF Discard, Forget
  <2>5. CASE Purge
    BY <2>5 DEF Purge
  <2> QED BY <1>6, <2>1, <2>2, <2>3, <2>4, <2>5 DEF Finish
<1> QED BY <1>2, <1>3, <1>4, <1>5, <1>6, RecordStepCommand, RecordStepPrepare,
           RecordStepTransfer, RecordStepComplete DEF Next, TypeOK, Rec

\* A task the engine did not hold: created, or recovered.
LEMMA Appears ==
  ASSUME TypeOK, Placed, [Next]_vars, mem = NoTask, mem' # NoTask
  PROVE  /\ disk' = mem'
         /\ disk # NoTask => Onward(disk, mem')
<1> USE DEF ioVars, ctlVars, engineVars, boundVars
<1>1. pc = "idle"
  BY AbsentTask DEF Placed
<1>2. \/ \E sum \in Checksums : Create(sum)
      \/ Open
  BY <1>1
     DEF Next, vars, Command, Start, Resume, Retry, Pause, Remove, Shutdown, CancelActive,
         CancelInactive, Managed, Prepare, ProbeStops, ProbeRetries, ProbeFails, ProbeAnswers,
         PrepareRefused, Preparing, PrepareResume, PrepareRetained, CreatePartial, Attach,
         Transfer, CommitRange, TearRange, StreamWrite, BeginStream, EndStream,
         CheckpointProgress, Settle, TransferReturns, AfterTransfer, Complete,
         EnterValidating, Validate, EnterPromoting, Publish, RecordPromotion,
         CleanupPartial, EnterCompleted, Completed, Finish, StopBoundary, ApplyStop,
         FailRun, Discard, Forget, Purge, Exit, Crash, Down, ServerChanges
<1>3. ASSUME NEW sum \in Checksums, Create(sum) PROVE disk' = mem' /\ disk = NoTask
  BY <1>3 DEF Create, Saved
<1>4. CASE Open
  <2>1. disk \in Rec /\ disk # NoTask /\ mem' = Normalized(disk) /\ Saved(Normalized(disk))
    BY <1>4 DEF Open, TypeOK, Rec
  <2>2. /\ Normalized(disk) \in Rec /\ disk.rev \in Nat
        /\ Normalized(disk) = disk \/ Normalized(disk).rev = disk.rev + 1
    BY <2>1, NormalizedType DEF Rec, Tasks
  <2>3. disk' = mem'
    BY <2>1, <2>2 DEF Saved
  <2>4. \A s \in States : disk.state \notin {"Completed", "Cancelled"} =>
          Onward(disk, MoveTo(disk, s))
    BY <2>1, OnwardMove
  <2>5. Onward(disk, disk)
    BY DEF Onward
  <2>6. Onward(disk, WithoutPartial(disk))
    BY <2>1 DEF Onward, WithoutPartial, Rec, Tasks
  <2>7. Onward(disk, Normalized(disk))
    BY <2>4, <2>5, <2>6 DEF Normalized, States
  <2> QED BY <2>1, <2>3, <2>7
<1> QED BY <1>2, <1>3, <1>4

LEMMA AheadNext ==
  ASSUME TypeOK, Placed, RevisionIdentifiesRecord, Fits, Genuine, Ahead, [Next]_vars
  PROVE  /\ Ahead'
         /\ (disk # NoTask /\ disk' # NoTask) => Onward(disk, disk')
<1>1. Advances /\ Forgets
  BY AdvancesNext, ForgetsNext
<1>2. \A m : Onward(m, m)
  BY DEF Onward
<1>3. CASE mem' = NoTask
  BY <1>1, <1>2, <1>3 DEF Ahead, Forgets
<1>4. CASE mem = NoTask /\ mem' # NoTask
  BY <1>2, <1>4, Appears DEF Ahead
<1>5. CASE mem # NoTask /\ mem' # NoTask
  <2>1. disk # NoTask
    BY <1>5 DEF RevisionIdentifiesRecord
  <2>2. /\ Onward(disk, mem)
        /\ disk.partial # 0 /\ mem.partial = 0 => Abandoned
    BY <1>5, <2>1 DEF Ahead
  <2>3. /\ disk' \in {disk, mem'} /\ Onward(mem, mem')
        /\ (mem.partial # 0 /\ mem'.partial = 0) => disk' = mem' \/ Abandoned'
        /\ Abandoned => mem' = mem /\ Abandoned'
    BY <1>1, <1>5 DEF Advances
  <2>4. Onward(disk, mem')
    <3>1. CASE Abandoned
      BY <2>2, <2>3, <3>1
    <3>2. CASE ~Abandoned
      BY <2>2, <2>3, <3>2 DEF Onward
    <3> QED BY <3>1, <3>2
  <2>5. (disk'.partial # 0 /\ mem'.partial = 0) => Abandoned'
    BY <2>2, <2>3 DEF Onward
  <2> QED BY <1>2, <2>3, <2>4, <2>5 DEF Ahead
<1> QED BY <1>3, <1>4, <1>5

-------------------------------------------------------------------------------
(***************************************************************************)
(* Stops, and the bytes behind the published names.                        *)
(***************************************************************************)
\* Nobody asks a run to stop once it publishes: a stop comes before, and is noticed, or it
\* is a shutdown and waits for the end.  Only who asked for it has his partial discarded.
Prompt ==
  /\ stop # "none" => cancelled
  /\ pc \in {"publish", "linked", "recorded", "cleaned", "finish"} => stop = "none"
  /\ pc = "completed" => stop \in {"none", "shutdown"}
  /\ (running /\ pc \in {"discard", "forget"} /\ mem.state = "Cancelled") =>
       stop = "cancelDelete"

LEMMA PromptNext ==
  ASSUME TypeOK, Placed, Fits, Prompt, [Next]_vars PROVE Prompt'
<1> USE DEF Goto, ioVars, ctlVars, engineVars, boundVars
<1>1. CASE Command
  <2> USE DEF Prompt
  <2>0. /\ pc \in {"publish", "linked", "recorded", "cleaned", "finish"} =>
             mem.state = "Promoting"
        /\ pc = "completed" => mem.state = "Completed"
    BY DEF Fits, Staged
  <2>1. ASSUME NEW sum \in Checksums, Create(sum) PROVE Prompt'
    BY <2>1 DEF Create, Commandable, Locks
  <2>2. CASE Start
    BY <2>2 DEF Start, BeginRun, Managed, Commandable, Locks
  <2>3. CASE Resume
    BY <2>3 DEF Resume, BeginRun
  <2>4. CASE Retry \/ Remove
    BY <2>4 DEF Retry, Remove, Managed, Commandable, Locks
  <2>5. CASE Pause
    BY <2>0, <2>5 DEF Pause, Managed, Commandable, Locks
  <2>6. CASE Shutdown
    BY <2>0, <2>6 DEF Shutdown, Commandable, Locks
  <2>7. ASSUME NEW s \in {"cancelKeep", "cancelDelete"}, CancelActive(s) PROVE Prompt'
    BY <2>0, <2>7 DEF CancelActive, Allows, Managed, Commandable, Locks
  <2>8. ASSUME NEW s \in {"cancelKeep", "cancelDelete"}, CancelInactive(s) PROVE Prompt'
    BY <2>8 DEF CancelInactive, Managed, Commandable, Locks
  <2> QED BY <1>1, <2>1, <2>2, <2>3, <2>4, <2>5, <2>6, <2>7, <2>8 DEF Command
<1>2. CASE Prepare
  BY <1>2 DEF Prompt, Prepare, ProbeStops, ProbeRetries, ProbeFails, ProbeAnswers,
              PrepareRefused, PrepareResume, PrepareRetained, Preparing, EnterTransfer, CreatePartial, Attach
<1>3. CASE Transfer
  BY <1>3 DEF Prompt, Transfer, CommitRange, TearRange, StreamWrite, BeginStream, EndStream,
              CheckpointProgress
<1>4. CASE Settle
  BY <1>4 DEF Prompt, Settle, TransferReturns, AfterTransfer, Boundary
<1>5. CASE Complete
  <2> USE DEF Prompt
  <2>1. CASE EnterValidating \/ EnterPromoting
    BY <2>1 DEF EnterValidating, EnterPromoting, Advance
  <2>2. CASE Validate \/ Publish \/ CleanupPartial
    BY <2>2 DEF Validate, Publish, CleanupPartial
  <2>3. CASE RecordPromotion \/ EnterCompleted \/ Completed
    BY <2>3 DEF RecordPromotion, EnterCompleted, Completed, EndRun
  <2> QED BY <1>5, <2>1, <2>2, <2>3 DEF Complete
<1>6. CASE Finish
  <2> USE DEF Prompt
  <2>1. CASE StopBoundary
    BY <2>1 DEF StopBoundary, Boundary
  <2>2. CASE ApplyStop
    BY <2>2 DEF ApplyStop, EndRun
  <2>3. CASE FailRun
    BY <2>3 DEF FailRun, EndRun
  <2>4. CASE Discard \/ Forget \/ Purge
    BY <2>4 DEF Discard, Forget, Purge, EndRun
  <2> QED BY <1>6, <2>1, <2>2, <2>3, <2>4 DEF Finish
<1>7. CASE Exit \/ Crash
  BY <1>7 DEF Prompt, Exit, Crash, Down, EndRun
<1>8. CASE Open \/ ServerChanges \/ UNCHANGED vars
  BY <1>8 DEF Prompt, Placed, Open, ServerChanges, vars
<1> QED BY <1>1, <1>2, <1>3, <1>4, <1>5, <1>6, <1>7, <1>8 DEF Next

\* The names and what they show stay.
NamesKept ==
  /\ finals' = finals
  /\ \A n \in DOMAIN finals : content'[finals[n]] = content[finals[n]]

\* A stop is accepted by a step that does nothing else, and otherwise stays or is forgotten.
StopStep ==
  \/ stop' \in {stop, "none"}
  \/ stop = "none" /\ UNCHANGED <<disk, finals, content>>

LEMMA StopsNext == ASSUME [Next]_vars PROVE StopStep
<1> USE DEF StopStep, ioVars, ctlVars, engineVars, boundVars
<1>1. CASE Command
  <2>1. ASSUME NEW sum \in Checksums, Create(sum) PROVE StopStep
    BY <2>1 DEF Create
  <2>2. CASE Start \/ Resume
    BY <2>2 DEF Start, Resume, BeginRun
  <2>3. CASE Retry \/ Remove
    BY <2>3 DEF Retry, Remove
  <2>4. CASE Pause \/ Shutdown
    BY <2>4 DEF Pause, Shutdown
  <2>5. ASSUME NEW s \in {"cancelKeep", "cancelDelete"}, CancelActive(s) \/ CancelInactive(s)
        PROVE  StopStep
    BY <2>5 DEF CancelActive, CancelInactive
  <2> QED BY <1>1, <2>1, <2>2, <2>3, <2>4, <2>5 DEF Command
<1>2. CASE Prepare
  BY <1>2 DEF Prepare, ProbeStops, ProbeRetries, ProbeFails, ProbeAnswers, PrepareRefused,
              PrepareResume, PrepareRetained, CreatePartial, Attach
<1>3. CASE Transfer \/ Settle
  BY <1>3 DEF Transfer, CommitRange, TearRange, StreamWrite, BeginStream, EndStream,
              CheckpointProgress, Settle, TransferReturns, AfterTransfer
<1>4. CASE Complete
  BY <1>4 DEF Complete, EnterValidating, EnterPromoting, Validate, Publish, CleanupPartial,
              RecordPromotion, EnterCompleted, Completed, EndRun
<1>5. CASE Finish
  BY <1>5 DEF Finish, StopBoundary, ApplyStop, FailRun, Discard, Forget, Purge, EndRun
<1>6. CASE Exit \/ Crash \/ Open \/ ServerChanges \/ UNCHANGED vars
  BY <1>6 DEF Exit, Crash, Down, EndRun, Open, ServerChanges, vars
<1> QED BY <1>1, <1>2, <1>3, <1>4, <1>5, <1>6 DEF Next

\* Only publication adds a name, and no write reaches the bytes of one that is there.
LEMMA NamesKeptNext ==
  ASSUME TypeOK, Placed, Fits, Genuine, [Next]_vars, ~Publish PROVE NamesKept
<1> USE DEF ioVars, ctlVars, engineVars, boundVars
<1>0. \A n \in DOMAIN finals : finals[n] \in Inode /\ finals[n] <= made
  BY DEF TypeOK, Genuine, Names
<1>1. ASSUME UNCHANGED <<finals, content>> PROVE NamesKept
  BY <1>1 DEF NamesKept
<1>2. CASE CreatePartial
  <2>1. finals' = finals
    BY <1>2 DEF CreatePartial
  <2>2. CASE content' = content
    BY <1>1, <2>1, <2>2
  <2>3. CASE content' = [content EXCEPT ![made + 1] = [c \in Chunk |-> run.source.body]]
    <3>1. made \in Nat /\ \A n \in DOMAIN finals : finals[n] # made + 1
      BY <1>0, BoundsAssumption DEF TypeOK, Inode
    <3> QED BY <1>0, <2>1, <2>3, <3>1 DEF NamesKept, TypeOK
  <2> QED BY <1>2, <1>1, <2>1, <2>2, <2>3 DEF CreatePartial
<1>3. ASSUME pc = "transfer", finals' = finals, NEW c \in Uncovered,
             \A i \in Inode : i # file.ino => content'[i] = content[i]
      PROVE  NamesKept
  <2>1. GoodFile(content, finals, made, file, mem)
    BY <1>3, HandleAssumption DEF Placed, FileSteps, Genuine, Handles
  <2>2. \A n \in DOMAIN finals : finals[n] # file.ino
    BY <1>3, <2>1 DEF GoodFile, LinkedFull, Uncovered
  <2> QED BY <1>0, <1>3, <2>2 DEF NamesKept
<1>4. ASSUME NEW c \in Chunk, CommitRange(c) \/ TearRange(c) \/ StreamWrite(c)
      PROVE  NamesKept
  <2>1. pc = "transfer" /\ finals' = finals /\ c \in Uncovered
    BY <1>4 DEF CommitRange, TearRange, StreamWrite
  <2>2. \A i \in Inode : i # file.ino => content'[i] = content[i]
    BY <1>4 DEF CommitRange, TearRange, StreamWrite, Put, TypeOK
  <2> QED BY <1>3, <2>1, <2>2
<1>5. CASE BeginStream
  <2>1. pc = "transfer" /\ finals' = finals /\ file.done = {}
        /\ \A i \in Inode : i # file.ino => content'[i] = content[i]
    BY <1>5 DEF BeginStream, TypeOK
  <2>2. mem.res.mode # "empty"
    BY <1>5, <2>1 DEF BeginStream, Fits, RunFits, Transferring
  <2>3. PICK c \in Chunk : TRUE
    BY ChunkAssumption
  <2>4. c \in Uncovered
    BY <2>1, <2>2, <2>3 DEF Uncovered, Extent
  <2> QED BY <1>3, <2>1, <2>4
<1>6. CASE Crash
  <2>1. finals' = finals
    BY <1>6 DEF Crash
  <2>2. ASSUME NEW n \in DOMAIN finals PROVE content'[finals[n]] = content[finals[n]]
    <3>1. PICK lost \in SUBSET { x \in Inode \X Chunk :
                                   x[2] \notin synced[x[1]] /\ content[x[1]][x[2]] # Blank } :
            content' = [i \in Inode |-> [c \in Chunk |->
                          IF <<i, c>> \in lost THEN Blank ELSE content[i][c]]]
      BY <1>6 DEF Crash
    <3>2. finals[n] \in Inode /\ \A c \in Chunk : c \in synced[finals[n]]
      BY <1>0, <2>2 DEF Genuine, Names, PublishedWhole, Uniform
    <3>3. \A c \in Chunk : <<finals[n], c>> \notin lost
      BY <3>1, <3>2
    <3>4. content'[finals[n]] = [c \in Chunk |-> content[finals[n]][c]]
      BY <3>1, <3>2, <3>3
    <3>5. content[finals[n]] \in [Chunk -> Body \cup {Blank}]
      BY <3>2 DEF TypeOK
    <3> QED BY <3>4, <3>5
  <2> QED BY <2>1, <2>2 DEF NamesKept
<1>7. CASE Command
  <2>1. UNCHANGED <<finals, content>>
    BY <1>7 DEF Command, Create, Start, Resume, Retry, Pause, Remove, Shutdown, CancelActive,
                CancelInactive
  <2> QED BY <1>1, <2>1
<1>8. CASE Prepare /\ ~CreatePartial
  <2>1. UNCHANGED <<finals, content>>
    BY <1>8 DEF Prepare, ProbeStops, ProbeRetries, ProbeFails, ProbeAnswers, PrepareRefused,
                PrepareResume, PrepareRetained, Attach
  <2> QED BY <1>1, <2>1
<1>9. CASE EndStream \/ CheckpointProgress \/ Settle
  BY <1>1, <1>9 DEF EndStream, CheckpointProgress, Settle, TransferReturns, AfterTransfer
<1>10. CASE Complete
  BY <1>1, <1>10 DEF Complete, EnterValidating, EnterPromoting, Validate, CleanupPartial,
              RecordPromotion, EnterCompleted, Completed
<1>11. CASE Finish
  BY <1>1, <1>11 DEF Finish, StopBoundary, ApplyStop, FailRun, Discard, Forget, Purge
<1>12. CASE Exit \/ Open \/ ServerChanges \/ UNCHANGED vars
  BY <1>1, <1>12 DEF Exit, Open, ServerChanges, vars
<1> QED BY <1>2, <1>4, <1>5, <1>6, <1>7, <1>8, <1>9, <1>10, <1>11, <1>12 DEF Next, Transfer

-------------------------------------------------------------------------------
(***************************************************************************)
(* The refinement.                                                         *)
(***************************************************************************)
Shown(fs, ct) == [n \in DOMAIN fs |-> ct[fs[n]]]

Claims(m) ==
  IF m = NoTask THEN [state |-> "Absent", partial |-> 0, done |-> {}]
  ELSE [state |-> m.state, partial |-> m.partial,
        done |-> IF m.partial = 0 THEN {} ELSE m.done]

LEMMA ShownAppend ==
  ASSUME NEW fs \in Seq(Inode), NEW i \in Inode,
         NEW ct \in [Inode -> [Chunk -> Body \cup {Blank}]]
  PROVE  Shown(Append(fs, i), ct) = Append(Shown(fs, ct), ct[i])
<1> DEFINE S == [Chunk -> Body \cup {Blank}]
           gs == Append(fs, i)
           hs == Append(Shown(fs, ct), ct[i])
<1>1. /\ gs \in Seq(Inode) /\ Len(gs) = Len(fs) + 1
      /\ \A n \in 1 .. Len(fs) : gs[n] = fs[n]
      /\ gs[Len(fs) + 1] = i
  BY AppendProperties
<1>2. ct[i] \in S /\ \A n \in 1 .. Len(fs) : ct[fs[n]] \in S
  OBVIOUS
<1>3. Shown(fs, ct) \in [1 .. Len(fs) -> S] /\ Len(fs) \in Nat
  BY <1>2 DEF Shown
<1> HIDE DEF S
<1>4. Shown(fs, ct) \in Seq(S) /\ Len(Shown(fs, ct)) = Len(fs)
  BY <1>3
<1>5. /\ hs \in Seq(S) /\ Len(hs) = Len(fs) + 1
      /\ \A n \in 1 .. Len(fs) : hs[n] = Shown(fs, ct)[n]
      /\ hs[Len(fs) + 1] = ct[i]
  BY <1>2, <1>4, AppendProperties
<1> HIDE DEF gs, hs
<1>6. hs = [n \in 1 .. (Len(fs) + 1) |-> hs[n]]
  BY <1>3, <1>5
<1>7. DOMAIN gs = 1 .. (Len(fs) + 1) /\ DOMAIN fs = 1 .. Len(fs)
  BY <1>1, <1>3
<1>8. ASSUME NEW n \in 1 .. (Len(fs) + 1) PROVE ct[gs[n]] = hs[n]
  <2>1. CASE n \in 1 .. Len(fs)
    BY <1>1, <1>5, <1>7, <2>1 DEF Shown
  <2>2. CASE n = Len(fs) + 1
    BY <1>1, <1>5, <2>2
  <2> QED BY <1>3, <2>1, <2>2
<1>9. Shown(gs, ct) = [n \in 1 .. (Len(fs) + 1) |-> ct[gs[n]]]
  BY <1>7 DEF Shown
<1>10. Shown(gs, ct) = hs
  BY <1>6, <1>8, <1>9
<1> QED BY <1>10 DEF gs, hs

LEMMA Refines ==
  ASSUME TypeOK, Placed, RevisionIdentifiesRecord, Fits, Genuine, Genuine', Signed', Ahead,
         Prompt, [Next]_vars
  PROVE  [Promise!Next]_(Promise!vars)
<1> USE DEF ioVars, ctlVars, engineVars, boundVars
<1>1. CASE Publish
  <2>1. /\ pc = "publish" /\ stop = "none" /\ UNCHANGED <<disk, stop, content>>
        /\ file \in Files /\ file.ino \in Inode
    BY <1>1 DEF Publish, Prompt, Placed, FileSteps, Files
  <2>2. CASE finals' = finals
    BY <2>1, <2>2 DEF Promise!vars
  <2>3. CASE finals' = Append(finals, file.ino)
    <3>1. PICK b \in Body : \A c \in Chunk : content[file.ino][c] = b
      BY <2>1 DEF Genuine, Phased, Checked, Verified, Holds
    <3>2. content[file.ino] = [c \in Chunk |-> b]
      BY <2>1, <3>1 DEF TypeOK
    <3>3. Shown(finals', content') = Append(Shown(finals, content), content[file.ino])
      BY <2>1, <2>3, ShownAppend DEF TypeOK
    <3>4. Promise!Publish
      BY <2>1, <3>2, <3>3 DEF Promise!Publish, Shown
    <3> QED BY <3>4 DEF Promise!Next
  <2> QED BY <1>1, <2>2, <2>3 DEF Publish
<1>2. CASE ~Publish
  <2>1. NamesKept
    BY <1>2, NamesKeptNext
  <2>2. Shown(finals', content') = Shown(finals, content)
    BY <2>1 DEF NamesKept, Shown
  <2>3. StopStep /\ stop' \in Promise!Stops
    <3>1. TypeOK'
      BY TypedNext
    <3> QED BY <3>1, StopsNext DEF TypeOK, Promise!Stops
  <2>4. CASE disk' = disk
    BY <2>2, <2>3, <2>4
       DEF StopStep, Shown, Promise!Next, Promise!Accept, Promise!Answer, Promise!vars
  <2>5. CASE disk' # disk /\ disk' = NoTask
    <3>1. stop' = stop
      <4>1. CASE mem' = NoTask
        BY <2>5, <4>1, ForgetsNext DEF Forgets
      <4>2. CASE mem' # NoTask /\ mem # NoTask
        BY <2>5, <4>2, AdvancesNext DEF Advances
      <4>3. CASE mem' # NoTask /\ mem = NoTask
        BY <2>5, <4>3, Appears
      <4> QED BY <4>1, <4>2, <4>3
    <3> QED BY <2>2, <2>5, <3>1 DEF Shown, Promise!Next, Promise!Remove, Promise!NoRecord
  <2>6. CASE disk' # disk /\ disk' # NoTask
    <3>1. stop' \in {stop, "none"}
      BY <2>3, <2>6 DEF StopStep
    <3>2. disk' \in Rec
      <4>1. TypeOK'
        BY TypedNext
      <4> QED BY <2>6, <4>1 DEF TypeOK, Rec
    <3>3. disk # NoTask => disk \in Rec /\ Onward(disk, disk')
      BY <2>6, AheadNext DEF TypeOK, Rec
    <3>4. disk'.state = "Completed" => Shown(finals, content) # <<>>
      <4> SUFFICES ASSUME disk'.state = "Completed" PROVE Shown(finals, content) # <<>>
        OBVIOUS
      <4>1. disk'.final # 0
        BY <2>6 DEF Signed
      <4>2. disk'.final \in DOMAIN finals'
        BY <2>6, <4>1 DEF Genuine, Records, GoodRecord, GoodFinal
      <4>3. DOMAIN finals # {}
        BY <2>1, <4>2 DEF NamesKept
      <4> QED BY <4>3 DEF Shown
    <3>5. Claims(disk').state # "Absent"
      BY <2>6, <3>2 DEF Claims, Rec, Tasks, States
    <3>6. Claims(disk).state \in {"Completed", "Cancelled"} =>
            Claims(disk').state = Claims(disk).state
      BY <2>6, <3>3 DEF Claims, Onward
    <3>7. \/ Claims(disk').partial = 0
          \/ /\ Claims(disk').partial = Claims(disk).partial
             /\ Claims(disk).done \subseteq Claims(disk').done
          \/ Claims(disk).partial = 0
      BY <2>6, <3>3 DEF Claims, Onward
    <3>8. Claims(disk').state = "Completed" => Shown(finals, content) # <<>>
      BY <2>6, <3>4 DEF Claims
    <3>9. Promise!Record
      BY <2>2, <3>1, <3>5, <3>6, <3>7, <3>8
         DEF Promise!Record, Promise!KeepsCoverage, Shown, Claims
    <3> QED BY <3>9 DEF Promise!Next
  <2> QED BY <2>4, <2>5, <2>6
<1> QED BY <1>1, <1>2

LEMMA RefinesInit == Init => Promise!Init
BY DEF Init, Promise!Init, Promise!NoRecord

LEMMA SignedAlways == Spec => []Signed
<1>1. Init => Signed
  BY DEF Init, Signed
<1>2. (TypeOK /\ Placed) /\ Signed /\ [Next]_vars => Signed'
  BY SignedNext
<1> QED BY <1>1, <1>2, Typed, PTL DEF Spec

\* The lifecycle implements Download: names appear at once, whole, never change and never
\* after an accepted stop; the durable record moves on and loses no coverage of its partial.
THEOREM PromiseKept == Spec => ImplementsDownload
<1>1. Init => Ahead /\ Prompt
  BY DEF Init, Ahead, Prompt
<1>2. (TypeOK /\ Placed) /\ RevisionIdentifiesRecord /\ Fits /\ Genuine /\ Ahead
        /\ [Next]_vars => Ahead'
  BY AheadNext
<1>3. (TypeOK /\ Placed) /\ Fits /\ Prompt /\ [Next]_vars => Prompt'
  BY PromptNext
<1>4. (TypeOK /\ Placed) /\ RevisionIdentifiesRecord /\ Fits /\ Genuine /\ Genuine'
        /\ Signed' /\ Ahead /\ Prompt /\ [Next]_vars => [Promise!Next]_(Promise!vars)
  BY Refines
<1> QED BY <1>1, <1>2, <1>3, <1>4, RefinesInit, Typed, RevisionsIdentify, FitsAlways,
           GenuineAlways, SignedAlways, PTL DEF Spec, ImplementsDownload, Promise!Spec

-------------------------------------------------------------------------------
(***************************************************************************)
(* An accepted stop decides the run.                                       *)
(***************************************************************************)
\* A run that fails to publish was not asked to stop.
Unstopped == (pc = "fail" /\ mem.state = "Promoting") => stop = "none"

LEMMA UnstoppedNext ==
  ASSUME TypeOK, Placed, Fits, Prompt, Unstopped, [Next]_vars PROVE Unstopped'
<1> USE DEF Goto, ioVars, ctlVars, engineVars, boundVars
<1>0. \A m \in Rec : /\ \A s \in States : MoveTo(m, s).state = s
                     /\ \A id \in Identities : WithResource(m, id).state = m.state
  BY DEF MoveTo, WithResource, Rec, Tasks
<1>1. ASSUME mem'.state # "Promoting" \/ pc' # "fail" PROVE Unstopped'
  BY <1>1 DEF Unstopped
<1>2. ASSUME NEW m \in Rec, NEW h, NEW src, EnterTransfer(m, h, src) PROVE Unstopped'
  <2>1. mem' = MoveTo(m, "Downloading")
    BY <1>2 DEF EnterTransfer
  <2>2. mem'.state = "Downloading"
    BY <1>0, <2>1 DEF States
  <2> QED BY <1>1, <2>2
<1>3. CASE Command
  <2> USE DEF Unstopped
  <2>1. ASSUME NEW sum \in Checksums, Create(sum) PROVE Unstopped'
    BY <2>1, AbsentTask DEF Create, Placed
  <2>2. CASE Start \/ Resume
    BY <2>2 DEF Start, Resume, BeginRun, Managed, Placed, RunSteps
  <2>3. CASE Retry \/ Remove
    BY <2>3 DEF Retry, Remove, Placed, RunSteps
  <2>4. CASE Pause \/ Shutdown
    BY <2>4 DEF Pause, Shutdown, Placed, RunSteps
  <2>5. ASSUME NEW s \in {"cancelKeep", "cancelDelete"}, CancelActive(s) PROVE Unstopped'
    BY <2>5 DEF CancelActive, Allows
  <2>6. ASSUME NEW s \in {"cancelKeep", "cancelDelete"}, CancelInactive(s) PROVE Unstopped'
    BY <2>6 DEF CancelInactive, Placed, RunSteps
  <2> QED BY <1>3, <2>1, <2>2, <2>3, <2>4, <2>5, <2>6 DEF Command
<1>4. CASE Prepare
  <2>0. /\ mem \in Rec /\ mem.state \in {"Probing", "Paused"}
        /\ pc = "prepare" => WithResource(mem, Identity(run.source)) \in Rec
    <3>1. pc \in {"probe", "prepare", "attach"}
      BY <1>4 DEF Prepare, ProbeStops, ProbeRetries, ProbeFails, ProbeAnswers, PrepareRefused,
                  PrepareResume, PrepareRetained, CreatePartial, Attach, Preparing
    <3>2. mem \in Rec /\ (pc = "prepare" => Identity(run.source) \in Identities)
      BY <3>1, IdentityType DEF Placed
    <3> QED BY <3>1, <3>2, WithResourceType DEF Fits, Staged
  <2>1. CASE ProbeStops \/ ProbeRetries \/ ProbeFails \/ ProbeAnswers \/ PrepareRefused
    BY <1>1, <2>0, <2>1 DEF ProbeStops, ProbeRetries, ProbeFails, ProbeAnswers, PrepareRefused
  <2>2. CASE PrepareResume
    BY <1>1, <1>2, <2>0, <2>2 DEF PrepareResume
  <2>3. pc = "prepare" => WithResource(mem, Identity(run.source)).state = mem.state
    BY <1>0, <2>0, IdentityType DEF Placed
  <2>4. CASE PrepareRetained
    BY <1>1, <1>2, <2>0, <2>3, <2>4 DEF PrepareRetained, Preparing
  <2>5. CASE CreatePartial
    BY <1>1, <2>0, <2>3, <2>5 DEF CreatePartial, Preparing
  <2>6. CASE Attach
    BY <1>2, <2>0, <2>6 DEF Attach
  <2> QED BY <1>4, <2>1, <2>2, <2>4, <2>5, <2>6 DEF Prepare
<1>5. ASSUME mem \in Rec, file \in Files, mem.res \in Identities, mem' \in {mem, Durable},
             mem.state # "Promoting"
      PROVE  Unstopped'
  BY <1>1, <1>5, DurableType
<1>6. CASE Transfer
  BY <1>1, <1>6 DEF Transfer, CommitRange, TearRange, StreamWrite, BeginStream, EndStream,
                    CheckpointProgress
<1>7. CASE Settle
  <2>1. pc \in Transferring /\ mem' \in {mem, Durable}
    BY <1>7 DEF Settle, TransferReturns, AfterTransfer, Boundary, NotRefreshed, Transferring
  <2>2. mem \in Rec /\ file \in Files /\ mem.res \in Identities /\ mem.state = "Downloading"
    BY <2>1 DEF Placed, FileSteps, Transferring, Fits, Staged
  <2> QED BY <1>5, <2>1, <2>2
<1>8. CASE Complete
  <2>1. CASE EnterValidating
    BY <1>1, <2>1 DEF EnterValidating, Advance, Fits, Staged
  <2>2. CASE Validate
    BY <1>1, <2>2 DEF Validate, Fits, Staged
  <2>3. CASE EnterPromoting
    BY <1>1, <2>3 DEF EnterPromoting, Advance, Fits, Staged
  <2>4. CASE Publish
    BY <2>4 DEF Publish, Prompt, Unstopped
  <2>5. CASE RecordPromotion \/ CleanupPartial \/ EnterCompleted \/ Completed
    BY <1>1, <2>5 DEF RecordPromotion, CleanupPartial, EnterCompleted, Completed, EndRun
  <2> QED BY <1>8, <2>1, <2>2, <2>3, <2>4, <2>5 DEF Complete
<1>9. CASE Finish
  <2>1. CASE StopBoundary
    <3>1. mem.state # "Promoting" /\ mem \in Rec
      BY <2>1 DEF StopBoundary, Fits, Staged, Placed
    <3>2. CASE file # NoFile /\ mem' \in {mem, Durable}
      BY <1>5, <3>1, <3>2 DEF Placed, TypeOK
    <3>3. CASE mem' = mem
      BY <1>1, <3>1, <3>3
    <3> QED BY <2>1, <3>2, <3>3 DEF StopBoundary, Boundary, NotRefreshed
  <2>2. CASE ApplyStop \/ FailRun
    BY <1>1, <2>2 DEF ApplyStop, FailRun, EndRun
  <2>3. CASE Discard \/ Forget \/ Purge
    BY <1>1, <2>3 DEF Discard, Forget, Purge, EndRun
  <2> QED BY <1>9, <2>1, <2>2, <2>3 DEF Finish
<1>10. CASE Exit \/ Crash
  BY <1>1, <1>10 DEF Exit, Crash, Down, EndRun
<1>11. CASE Open
  BY <1>1, <1>11 DEF Open, Placed
<1>12. CASE ServerChanges \/ UNCHANGED vars
  BY <1>12 DEF ServerChanges, vars, Unstopped
<1> QED BY <1>3, <1>4, <1>6, <1>7, <1>8, <1>9, <1>10, <1>11, <1>12 DEF Next

\* How a run that ends leaves the record, by the stop it was given.
EndsAsAsked ==
  (running /\ ~running' /\ up') =>
    /\ stop = "pause" => mem'.state \in {"Paused", "Failed"}
    /\ stop \in {"cancelKeep", "cancelDelete"} => mem'.state \in {"Cancelled", "Failed"}
    /\ stop = "shutdown" => mem'.state \in {"Paused", "Failed", "Completed"}

LEMMA EndsNext ==
  ASSUME TypeOK, Placed, Fits, Prompt, Unstopped, [Next]_vars PROVE EndsAsAsked
<1> USE DEF Goto, ioVars, ctlVars, engineVars, boundVars
<1>1. ASSUME running' = running \/ running' = TRUE \/ up' = FALSE PROVE EndsAsAsked
  BY <1>1 DEF EndsAsAsked
<1>2. CASE Command
  BY <1>1, <1>2 DEF Command, Create, Start, Resume, Retry, Pause, Remove, Shutdown,
                    CancelActive, CancelInactive, BeginRun
<1>3. CASE Prepare
  BY <1>1, <1>3 DEF Prepare, ProbeStops, ProbeRetries, ProbeFails, ProbeAnswers, PrepareRefused,
                    PrepareResume, PrepareRetained, CreatePartial, Attach
<1>4. CASE Transfer \/ Settle
  BY <1>1, <1>4 DEF Transfer, CommitRange, TearRange, StreamWrite, BeginStream, EndStream,
                    CheckpointProgress, Settle, TransferReturns, AfterTransfer
<1>5. CASE Complete
  <2>1. CASE EnterValidating \/ Validate \/ EnterPromoting \/ Publish \/ CleanupPartial
    BY <1>1, <2>1 DEF EnterValidating, Validate, EnterPromoting, Publish, CleanupPartial
  <2>2. CASE RecordPromotion \/ EnterCompleted
    BY <2>2 DEF RecordPromotion, EnterCompleted, Prompt, EndsAsAsked
  <2>3. CASE Completed
    BY <2>3 DEF Completed, Prompt, EndsAsAsked, Fits, Staged
  <2> QED BY <1>5, <2>1, <2>2, <2>3 DEF Complete
<1>6. CASE Finish
  <2>0. pc \in {"halt", "fail", "discard", "forget"} => mem \in Rec
    BY DEF Placed
  <2>1. \A s \in States : mem \in Rec => MoveTo(mem, s).state = s
    BY DEF MoveTo, Rec, Tasks
  <2>2. CASE StopBoundary
    BY <1>1, <2>2 DEF StopBoundary
  <2>3. CASE ApplyStop
    BY <2>0, <2>1, <2>3 DEF ApplyStop, MarkStopFailed, StopTarget, States, EndsAsAsked, TypeOK
  <2>4. CASE FailRun
    <3>0. mem \in Rec /\ mem # NoTask
      BY <2>0, <2>4, AbsentTask DEF FailRun
    <3>1. CASE mem.state = "Promoting"
      BY <2>4, <3>1 DEF FailRun, Unstopped, EndsAsAsked
    <3>2. CASE mem.state # "Promoting"
      <4>1. MayMove(mem, "Failed")
        BY <2>4, <3>0, <3>2, CanFail DEF FailRun, Fits, Kept, Staged
      <4>2. mem'.state = "Failed"
        BY <2>1, <2>4, <3>0, <4>1 DEF FailRun, States
      <4> QED BY <4>2 DEF EndsAsAsked
    <3> QED BY <3>1, <3>2
  <2>5. CASE Discard \/ Forget
    <3>1. mem.state \in {"Failed", "Cancelled"} /\ mem'.state = mem.state
      <4>1. WithoutPartial(mem).state = mem.state
        BY <2>0, <2>5 DEF Discard, Forget, WithoutPartial, Rec, Tasks
      <4> QED BY <2>5, <4>1 DEF Discard, Forget, Fits, Staged
    <3>2. pc \in {"discard", "forget"}
      BY <2>5 DEF Discard, Forget
    <3> QED BY <3>1, <3>2 DEF EndsAsAsked, Prompt
  <2>6. CASE Purge
    BY <1>1, <2>6 DEF Purge
  <2> QED BY <1>6, <2>2, <2>3, <2>4, <2>5, <2>6 DEF Finish
<1>7. CASE Exit \/ Crash \/ Open \/ ServerChanges \/ UNCHANGED vars
  BY <1>1, <1>7 DEF Exit, Crash, Down, Open, ServerChanges, vars
<1> QED BY <1>2, <1>3, <1>4, <1>5, <1>6, <1>7 DEF Next

\* Only publication adds a name.
LEMMA FinalsNext == ASSUME [Next]_vars PROVE finals' = finals \/ pc = "publish"
<1> USE DEF ioVars, ctlVars, engineVars, boundVars
<1>1. CASE Command \/ Prepare
  BY <1>1 DEF Command, Create, Start, Resume, Retry, Pause, Remove, Shutdown, CancelActive,
              CancelInactive, Prepare, ProbeStops, ProbeRetries, ProbeFails, ProbeAnswers,
              PrepareRefused, PrepareResume, PrepareRetained, CreatePartial, Attach
<1>2. CASE Transfer \/ Settle
  BY <1>2 DEF Transfer, CommitRange, TearRange, StreamWrite, BeginStream, EndStream,
              CheckpointProgress, Settle, TransferReturns, AfterTransfer
<1>3. CASE Complete \/ Finish
  BY <1>3 DEF Complete, EnterValidating, EnterPromoting, Validate, Publish, CleanupPartial,
              RecordPromotion, EnterCompleted, Completed, Finish, StopBoundary, ApplyStop,
              FailRun, Discard, Forget, Purge
<1>4. CASE Exit \/ Crash \/ Open \/ ServerChanges \/ UNCHANGED vars
  BY <1>4 DEF Exit, Crash, Open, ServerChanges, vars
<1> QED BY <1>1, <1>2, <1>3, <1>4 DEF Next

\* An accepted stop decides the run: a paused or cancelled run publishes nothing and ends
\* as asked or as failed, however late in the transfer or validation it was accepted.
THEOREM StopsDecide == Spec => AcceptedStopHonoured
<1>1. Init => Prompt /\ Unstopped
  BY DEF Init, Prompt, Unstopped
<1>2. (TypeOK /\ Placed) /\ Fits /\ Prompt /\ Unstopped /\ [Next]_vars => Prompt' /\ Unstopped'
  BY PromptNext, UnstoppedNext
<1>3. (TypeOK /\ Placed) /\ Fits /\ Prompt /\ Unstopped /\ [Next]_vars =>
        [/\ stop \in {"pause", "cancelKeep", "cancelDelete"} => finals' = finals
         /\ (running /\ ~running' /\ up') =>
              /\ stop = "pause" => mem'.state \in {"Paused", "Failed"}
              /\ stop \in {"cancelKeep", "cancelDelete"} =>
                   mem'.state \in {"Cancelled", "Failed"}
              /\ stop = "shutdown" => mem'.state \in {"Paused", "Failed", "Completed"}]_vars
  <2> SUFFICES ASSUME TypeOK, Placed, Fits, Prompt, Unstopped, [Next]_vars
               PROVE  /\ stop # "none" => finals' = finals
                      /\ EndsAsAsked
    BY DEF EndsAsAsked
  <2>1. stop # "none" => finals' = finals
    BY FinalsNext DEF Prompt
  <2> QED BY <2>1, EndsNext
<1> QED BY <1>1, <1>2, <1>3, Typed, FitsAlways, PTL DEF Spec, AcceptedStopHonoured

-----------------------------------------------------------------------------
(***************************************************************************)
(* As long as no write of the store fails, recovery accepts the record of  *)
(* a TaskLifecycle whenever it crashes: a partial is deleted only when the *)
(* record on disk no longer needs it.                                      *)
(***************************************************************************)

Present(m) == m.partial \in parts \cup {0}

\* A partial that a record keeps beside a published name is the file of that name.
Tied(m) ==
  (m.final # 0 /\ m.partial # 0) => m.final \in DOMAIN finals /\ finals[m.final] = m.partial

Recoverable ==
  /\ mem # NoTask => Tied(mem)
  /\ disk # NoTask => Tied(disk)
  /\ pc \in {"recorded", "cleaned"} => mem.final # 0
  /\ pc = "recorded" => disk = mem
  /\ faults = 0 =>
       /\ disk # NoTask =>
            ValidTask(disk) /\ (Present(disk) \/ disk.state \in Terminal \/ disk.final # 0)
       /\ mem # NoTask =>
            \/ Present(mem) \/ mem.final # 0
            \/ pc \in {"forget", "purge"} /\ mem.state \in Terminal
       /\ (mem # NoTask /\ mem.state = "Failed" /\ pc \in {"idle", "purge", "discard", "forget"})
            => disk = mem

\* What reaches the disk without a fault is valid.
Stored ==
  /\ faults' = 0 => faults = 0
  /\ disk' = disk \/ disk' = NoTask \/ ValidTask(disk') \/ faults' # 0

LEMMA StoredOne ==
  ASSUME NEW m, faults \in Nat, Saved(m) \/ NotSaved(m) PROVE Stored
BY DEF Saved, NotSaved, WriteFault, Stored

LEMMA StoredNext == ASSUME TypeOK, [Next]_vars PROVE Stored
<1> USE DEF ioVars, ctlVars, engineVars, boundVars
<1>0. faults \in Nat
  BY DEF TypeOK
<1>1. ASSUME UNCHANGED <<disk, faults>> PROVE Stored
  BY <1>1 DEF Stored
<1>2. CASE Command
  BY <1>0, <1>1, <1>2, StoredOne
     DEF Command, Create, Start, Resume, Retry, Pause, Remove, Shutdown, CancelActive,
         CancelInactive
<1>3. CASE Prepare
  BY <1>0, <1>1, <1>3, StoredOne
     DEF Prepare, ProbeStops, ProbeRetries, ProbeFails, ProbeAnswers, PrepareRefused,
         PrepareResume, PrepareRetained, EnterTransfer, CreatePartial, Attach
<1>4. ASSUME NotRefreshed PROVE Stored
  BY <1>0, <1>4, StoredOne DEF NotRefreshed, WriteFault, Stored
<1>5. CASE Transfer \/ Settle
  BY <1>0, <1>1, <1>4, <1>5, StoredOne
     DEF Transfer, CommitRange, TearRange, StreamWrite, BeginStream, EndStream,
         CheckpointProgress, Settle, TransferReturns, AfterTransfer, Boundary
<1>6. CASE Complete
  BY <1>0, <1>1, <1>6, StoredOne
     DEF Complete, EnterValidating, Advance, EnterPromoting, Validate, Publish,
         CleanupPartial, RecordPromotion, EnterCompleted, Completed
<1>7. CASE Finish
  <2>1. CASE StopBoundary
    BY <1>0, <1>1, <1>4, <2>1, StoredOne DEF StopBoundary, Boundary
  <2>2. CASE ApplyStop
    BY <1>0, <1>1, <2>2, StoredOne DEF ApplyStop, MarkStopFailed, WriteFault, Stored
  <2>3. CASE FailRun \/ Discard \/ Forget
    BY <1>0, <1>1, <2>3, StoredOne DEF FailRun, Discard, Forget
  <2>4. CASE Purge
    BY <1>0, <2>4 DEF Purge, WriteFault, Stored
  <2> QED BY <1>7, <2>1, <2>2, <2>3, <2>4 DEF Finish
<1>8. CASE Exit \/ Crash \/ ServerChanges \/ UNCHANGED vars
  BY <1>1, <1>8 DEF Exit, Crash, ServerChanges, vars
<1>9. CASE Open
  BY <1>0, <1>1, <1>9, StoredOne DEF Open
<1> QED BY <1>2, <1>3, <1>5, <1>6, <1>7, <1>8, <1>9 DEF Next

\* A step that deletes nothing and publishes nothing
LEMMA RecoverableStays ==
  ASSUME Recoverable, Stored, mem # NoTask, mem' # NoTask,
         RevisionIdentifiesRecord, disk' \in {disk, mem'},
         parts \subseteq parts', finals' = finals,
         mem'.final = mem.final, mem'.partial \in {0, mem.partial} \cup parts',
         mem.final # 0 => mem'.partial \in {0, mem.partial},
         pc \notin {"forget", "purge"}, pc' \notin {"recorded", "cleaned"},
         (mem'.state = "Failed" /\ pc' \in {"idle", "purge", "discard", "forget"}
            /\ faults' = 0) => disk' = mem'
  PROVE  Recoverable'
<1>1. disk # NoTask
  BY DEF RevisionIdentifiesRecord
<1>2. Tied(mem)' /\ Tied(disk)'
  BY <1>1 DEF Recoverable, Tied
<1>3. ASSUME faults' = 0
      PROVE  /\ faults = 0
             /\ ValidTask(disk') /\ (Present(mem)' \/ mem'.final # 0)
             /\ Present(disk)' \/ disk'.state \in Terminal \/ disk'.final # 0
  <2>1. faults = 0 /\ ValidTask(disk')
    BY <1>1, <1>3, AbsentTask DEF Stored, Recoverable
  <2>2. Present(mem)' \/ mem'.final # 0
    BY <2>1 DEF Recoverable, Present
  <2>3. CASE disk' = disk
    BY <1>1, <2>1, <2>2, <2>3 DEF Recoverable, Present
  <2> QED BY <2>1, <2>2, <2>3 DEF Present
<1> QED BY <1>2, <1>3 DEF Recoverable

-------------------------------------------------------------------------------
LEMMA MoveKeeps ==
  \A m \in Rec : \A s \in States : /\ MoveTo(m, s).final = m.final
                                   /\ MoveTo(m, s).partial = m.partial
                                   /\ MoveTo(m, s).state = s
BY DEF MoveTo, Rec, Tasks

LEMMA RecoverableCommand ==
  ASSUME TypeOK, Placed, RevisionIdentifiesRecord, Fits, Genuine, SavedSoFar, Recoverable,
         Stored, Command
  PROVE  Recoverable'
<1> USE DEF Goto, ioVars, ctlVars, engineVars, boundVars
<1>1. ASSUME NEW sum \in Checksums, Create(sum) PROVE Recoverable'
  <2>1. pc = "idle" /\ pc' = "idle" /\ mem = NoTask /\ disk = NoTask
    BY <1>1, AbsentTask DEF Create, Placed
  <2>2. CASE mem' = NoTask /\ disk' = NoTask
    BY <2>1, <2>2 DEF Recoverable
  <2>3. CASE mem' = NewTask(sum) /\ disk' = mem'
    <3>1. mem'.final = 0 /\ mem'.partial = 0 /\ mem'.state = "Queued" /\ ValidTask(mem')
      BY <2>3 DEF NewTask, ValidTask
    <3> QED BY <2>1, <2>3, <3>1 DEF Recoverable, Tied, Present
  <2> QED BY <1>1, <2>1, <2>2, <2>3 DEF Create, Saved, NotSaved
<1>2. ASSUME mem # NoTask, mem' # NoTask, disk' \in {disk, mem'}, UNCHANGED <<parts, finals>>,
             mem'.final = mem.final, mem'.partial = mem.partial,
             pc \notin {"forget", "purge"},
             pc' \notin {"recorded", "cleaned"} \/ UNCHANGED <<pc, mem, disk>>,
             mem'.state # "Failed" \/ UNCHANGED <<pc, mem, disk>> \/ pc' = "probe"
      PROVE  Recoverable'
  <2>1. CASE UNCHANGED <<pc, mem, disk>>
    BY <1>2, <2>1 DEF Recoverable, Stored, Tied, Present
  <2>2. CASE ~UNCHANGED <<pc, mem, disk>>
    BY <1>2, <2>2, RecoverableStays
  <2> QED BY <2>1, <2>2
<1>3. Managed => mem # NoTask /\ mem \in Rec /\ pc \notin {"forget", "purge"}
  BY DEF Managed, Commandable, Locks, TypeOK, Rec
<1>m. ASSUME Managed, NEW s \in States, mem' = MoveTo(mem, s)
      PROVE  /\ mem # NoTask /\ mem' # NoTask /\ pc \notin {"forget", "purge"}
             /\ mem'.final = mem.final /\ mem'.partial = mem.partial /\ mem'.state = s
  BY <1>3, <1>m, MoveKeeps, MoveToType, AbsentTask
<1>4. CASE Start
  <2>1. \/ mem' = mem /\ disk' = disk /\ pc' = pc
        \/ mem' = MoveTo(mem, "Probing") /\ pc' = "probe" /\ disk' \in {disk, mem'}
    BY <1>4 DEF Start, BeginRun, Saved, NotSaved
  <2>2. Managed /\ parts' = parts /\ finals' = finals
    BY <1>4 DEF Start
  <2>3. CASE mem' = mem /\ disk' = disk /\ pc' = pc
    BY <1>2, <1>3, <2>2, <2>3
  <2>4. CASE mem' = MoveTo(mem, "Probing") /\ pc' = "probe" /\ disk' \in {disk, mem'}
    BY <1>2, <1>m, <2>2, <2>4 DEF States
  <2> QED BY <2>1, <2>3, <2>4
<1>5. CASE Resume
  BY <1>2, <1>3, <1>5 DEF Resume, BeginRun
<1>6. CASE Retry
  <2>1. \/ mem' = mem /\ disk' = disk
        \/ mem' = MoveTo(mem, "Queued") /\ disk' \in {disk, mem'}
    BY <1>6 DEF Retry, Saved, NotSaved
  <2>2. Managed /\ UNCHANGED <<parts, finals, pc>> /\ pc = "idle"
    BY <1>6, <1>3 DEF Retry, Managed, Commandable, Locks, Placed, RunSteps, FileSteps, TypeOK,
                      Steps
  <2>3. CASE mem' = mem /\ disk' = disk
    BY <1>2, <1>3, <2>2, <2>3
  <2>4. CASE mem' = MoveTo(mem, "Queued") /\ disk' \in {disk, mem'}
    BY <1>2, <1>m, <2>2, <2>4 DEF States
  <2> QED BY <2>1, <2>3, <2>4
<1>7. CASE Pause \/ \E s \in {"cancelKeep", "cancelDelete"} : CancelActive(s)
  BY <1>2, <1>3, <1>7 DEF Pause, CancelActive
<1>8. CASE Shutdown
  BY <1>8 DEF Shutdown, Recoverable, Tied, Present
<1>9. ASSUME NEW s \in {"cancelKeep", "cancelDelete"}, CancelInactive(s) PROVE Recoverable'
  <2>1. \/ mem' = mem /\ disk' = disk /\ pc' = pc
        \/ /\ mem' = MoveTo(mem, "Cancelled") /\ disk' \in {disk, mem'}
           /\ pc' \in {"discard", "idle"}
    BY <1>9 DEF CancelInactive, Saved, NotSaved
  <2>2. Managed /\ UNCHANGED <<parts, finals>>
    BY <1>9 DEF CancelInactive
  <2>3. CASE mem' = mem /\ disk' = disk /\ pc' = pc
    BY <1>2, <1>3, <2>2, <2>3
  <2>4. CASE /\ mem' = MoveTo(mem, "Cancelled") /\ disk' \in {disk, mem'}
             /\ pc' \in {"discard", "idle"}
    BY <1>2, <1>m, <2>2, <2>4 DEF States
  <2> QED BY <2>1, <2>3, <2>4
<1>10. CASE Remove
  <2>1. /\ mem # NoTask /\ mem.state \in Terminal /\ pc = "idle" /\ pc' = "purge"
        /\ UNCHANGED <<mem, disk, finals, faults>>
    BY <1>3, <1>10 DEF Remove, Managed, Commandable, Locks, Placed, RunSteps, FileSteps,
                       TypeOK, Steps
  <2>2. faults = 0 => disk = mem
    BY <2>1 DEF Recoverable, SavedSoFar, Terminal
  <2> QED BY <2>1, <2>2 DEF Recoverable, Tied
<1> QED BY <1>1, <1>4, <1>5, <1>6, <1>7, <1>8, <1>9, <1>10 DEF Command

\* While a run prepares or transfers, nothing is deleted and nothing published.
LEMMA RecoverableRuns ==
  ASSUME TypeOK, Placed, RevisionIdentifiesRecord, Fits, Genuine, Recoverable, Stored,
         Prepare \/ Transfer \/ Settle
  PROVE  Recoverable'
<1> USE DEF Goto, ioVars, ctlVars, engineVars, boundVars
<1> DEFINE Before == Transferring \cup {"probe", "prepare", "attach"}
           After == Transferring \cup {"probe", "prepare", "attach", "stop", "fail", "complete"}
<1>1. pc \in Before /\ mem \in Rec /\ mem # NoTask /\ mem.final = 0
  <2>1. pc \in Before
    BY DEF Prepare, ProbeStops, ProbeRetries, ProbeFails, ProbeAnswers, PrepareRefused,
           PrepareResume, PrepareRetained, CreatePartial, Attach, Preparing, Transfer, Settle, CommitRange,
           TearRange, StreamWrite, BeginStream, EndStream, CheckpointProgress,
           TransferReturns, AfterTransfer, Transferring
  <2>2. mem \in Rec /\ mem # NoTask
    BY <2>1, AbsentTask DEF Placed, Transferring
  <2>3. mem.state \in {"Probing", "Paused", "Downloading"}
    BY <2>1 DEF Fits, Staged, Transferring
  <2> QED BY <2>1, <2>2, <2>3 DEF Fits, Kept, KeptRecord
<1>3. file \in Files /\ mem.res \in Identities =>
        Durable.final = mem.final /\ Durable.partial = mem.partial
  BY <1>1, RefreshedFields
<1>4. pc \in {"prepare", "attach"} => Identity(run.source) \in Identities
  BY IdentityType DEF Placed
<1>5. pc \in Transferring => file \in Files /\ mem.res \in Identities
  BY DEF Placed, FileSteps, Transferring
<1>6. parts \subseteq parts' /\ finals' = finals /\ pc' \in After
  BY DEF Prepare, ProbeStops, ProbeRetries, ProbeFails, ProbeAnswers, PrepareRefused,
         PrepareResume, PrepareRetained, CreatePartial, Attach, Preparing, EnterTransfer, Transfer, Settle,
         CommitRange, TearRange, StreamWrite, BeginStream, EndStream, CheckpointProgress,
         TransferReturns, AfterTransfer, Boundary, Transferring
<1>7. ASSUME NEW m \in Rec, NEW h, NEW src, EnterTransfer(m, h, src),
             m.final = mem.final, m.partial = mem.partial
      PROVE  mem'.final = mem.final /\ mem'.partial = mem.partial
  BY <1>7, MoveKeeps DEF EnterTransfer, States
<1>8. mem'.final = mem.final /\ mem'.partial \in {0, mem.partial} \cup parts'
  <2>1. ASSUME mem' = mem PROVE mem'.final = mem.final /\ mem'.partial \in {0, mem.partial}
    BY <2>1
  <2>2. CASE ProbeStops \/ ProbeRetries \/ ProbeFails \/ ProbeAnswers \/ PrepareRefused
    BY <2>1, <2>2 DEF ProbeStops, ProbeRetries, ProbeFails, ProbeAnswers, PrepareRefused
  <2>3. CASE PrepareResume
    BY <1>1, <1>7, <2>1, <2>3 DEF PrepareResume
  <2>4. pc = "prepare" =>
          /\ WithResource(mem, Identity(run.source)) \in Rec
          /\ WithResource(mem, Identity(run.source)).final = mem.final
          /\ WithResource(mem, Identity(run.source)).partial = mem.partial
    <3> SUFFICES ASSUME pc = "prepare"
                 PROVE  /\ WithResource(mem, Identity(run.source)) \in Rec
                        /\ WithResource(mem, Identity(run.source)).final = mem.final
                        /\ WithResource(mem, Identity(run.source)).partial = mem.partial
      OBVIOUS
    <3>1. Identity(run.source) \in Identities
      BY <1>4
    <3>2. WithResource(mem, Identity(run.source)) \in Rec
      BY <1>1, <3>1, WithResourceType
    <3> QED BY <1>1, <3>1, <3>2 DEF WithResource, Rec, Tasks
  <2>5. CASE PrepareRetained
    BY <1>7, <2>4, <2>5 DEF PrepareRetained, Preparing
  <2>6. CASE CreatePartial
    <3>1. made < MaxPartials => made + 1 \in Inode
      BY BoundsAssumption DEF TypeOK, Inode
    <3>2. /\ WithResource(mem, Identity(run.source)) \in Rec
          /\ WithResource(mem, Identity(run.source)).final = mem.final
          /\ WithResource(mem, Identity(run.source)).partial = mem.partial
      BY <2>4, <2>6 DEF CreatePartial, Preparing
    <3>3. \A m \in Rec : \A i \in Inode :
            WithPartial(m, i).final = m.final /\ WithPartial(m, i).partial = i
      BY DEF WithPartial, Rec, Tasks
    <3>4. CASE mem' = WithResource(mem, Identity(run.source))
      BY <3>2, <3>4
    <3>5. CASE /\ made < MaxPartials /\ parts' = parts \cup {made + 1}
               /\ mem' = WithPartial(WithResource(mem, Identity(run.source)), made + 1)
      BY <3>1, <3>2, <3>3, <3>5
    <3> QED BY <2>6, <3>4, <3>5 DEF CreatePartial
  <2>7. CASE Attach
    BY <1>1, <1>7, <2>7 DEF Attach
  <2>8. CASE Transfer \/ Settle
    <3>1. mem' \in {mem, Durable} /\ pc \in Transferring
      BY <2>8 DEF Transfer, Settle, CommitRange, TearRange, StreamWrite, BeginStream, EndStream,
                  CheckpointProgress, TransferReturns, AfterTransfer, Boundary, NotRefreshed,
                  Transferring
    <3> QED BY <1>3, <1>5, <3>1
  <2> QED BY <2>2, <2>3, <2>5, <2>6, <2>7, <2>8 DEF Prepare
<1>9. mem' # NoTask /\ disk' \in {disk, mem'}
  <2>1. RecordStep
    BY <1>1, RecordStepPrepare, RecordStepTransfer
  <2>2. mem' # NoTask
    BY <2>1, AbsentTask DEF RecordStep
  <2> QED BY <2>1, <2>2 DEF RecordStep, Saved
<1>10. pc \notin {"forget", "purge"}
  BY <1>1 DEF Transferring
<1>11. pc' \notin {"recorded", "cleaned", "idle", "purge", "discard", "forget"}
  BY <1>6 DEF Transferring
<1> QED BY <1>1, <1>6, <1>8, <1>9, <1>10, <1>11, RecoverableStays

\* A record that names no partial any more is one the store accepts.
LEMMA CanForget ==
  ASSUME NEW m \in Rec, KeptRecord(m), m.state \in {"Failed", "Cancelled"}
  PROVE  ValidTask(WithoutPartial(m))
<1> DEFINE w == WithoutPartial(m)
<1>1. /\ w.state = m.state /\ w.res = m.res /\ w.partial = 0 /\ w.final = m.final
      /\ w.done = {}
  BY DEF WithoutPartial, Rec, Tasks
<1>2. m.final = 0
  BY DEF KeptRecord
<1> HIDE DEF w
<1>3. ValidTask(w)
  BY <1>1, <1>2 DEF ValidTask, KeptRecord
<1> QED BY <1>3 DEF w

\* Only a fault keeps a valid next revision from the disk.
LEMMA FaultSeen ==
  ASSUME TypeOK, RevisionIdentifiesRecord, mem \in Rec, NEW m \in Rec, m.rev = mem.rev + 1,
         ValidTask(m), NotSaved(m)
  PROVE  faults' # 0
<1>1. mem.rev \in Nat /\ disk \in Rec /\ disk.rev \in Nat /\ disk.rev <= mem.rev
  BY AbsentTask DEF RevisionIdentifiesRecord, TypeOK, Rec, Tasks
<1>2. ~Stale(m)
  BY <1>1 DEF Stale
<1> QED BY <1>2 DEF NotSaved, WriteFault, TypeOK

LEMMA RecoverableComplete ==
  ASSUME TypeOK, Placed, RevisionIdentifiesRecord, Fits, Genuine, Recoverable, Stored,
         Complete
  PROVE  Recoverable'
<1> USE DEF Goto, ioVars, ctlVars, engineVars, boundVars
<1> DEFINE Phases == {"complete", "validate", "lease", "publish", "linked", "recorded",
                      "cleaned", "finish", "completed"}
<1>1. pc \in Phases /\ mem \in Rec /\ mem # NoTask /\ disk # NoTask
  <2>1. pc \in Phases
    BY DEF Complete, EnterValidating, Validate, EnterPromoting, Publish, RecordPromotion,
           CleanupPartial, EnterCompleted, Completed
  <2> QED BY <2>1, AbsentTask DEF Placed, RevisionIdentifiesRecord
<1>2. ASSUME UNCHANGED <<parts, finals>>, NEW s \in States \ {"Failed"},
             \/ mem' = mem /\ disk' = disk
             \/ mem' = MoveTo(mem, s) /\ disk' \in {disk, mem'},
             pc' \notin {"recorded", "cleaned"}, mem.state # "Failed"
      PROVE  Recoverable'
  <2>1. /\ mem' # NoTask /\ mem'.final = mem.final /\ mem'.partial = mem.partial
        /\ mem'.state # "Failed"
    BY <1>1, <1>2, MoveKeeps, MoveToType, AbsentTask
  <2> QED BY <1>1, <1>2, <2>1, RecoverableStays
<1>3. CASE EnterValidating
  <2>1. /\ pc = "complete" /\ mem.state = "Downloading" /\ "Validating" \in States \ {"Failed"}
        /\ UNCHANGED <<parts, finals>> /\ pc' \in {"validate", "stop", "fail"}
        /\ \/ mem' = mem /\ disk' = disk
           \/ mem' = MoveTo(mem, "Validating") /\ disk' \in {disk, mem'}
    BY <1>3 DEF EnterValidating, Advance, Saved, NotSaved, Fits, Staged, States
  <2> QED BY <1>2, <2>1
<1>4. CASE EnterPromoting
  <2>1. /\ pc = "lease" /\ mem.state = "Validating" /\ "Promoting" \in States \ {"Failed"}
        /\ UNCHANGED <<parts, finals>> /\ pc' \in {"publish", "stop", "fail"}
        /\ \/ mem' = mem /\ disk' = disk
           \/ mem' = MoveTo(mem, "Promoting") /\ disk' \in {disk, mem'}
    BY <1>4 DEF EnterPromoting, Advance, Saved, NotSaved, Fits, Staged, States
  <2> QED BY <1>2, <2>1
<1>5. CASE EnterCompleted
  <2>1. /\ pc = "finish" /\ mem.state = "Promoting" /\ "Completed" \in States \ {"Failed"}
        /\ UNCHANGED <<parts, finals>> /\ pc' \in {"completed", "idle"}
        /\ \/ mem' = mem /\ disk' = disk
           \/ mem' = MoveTo(mem, "Completed") /\ disk' \in {disk, mem'}
    BY <1>5 DEF EnterCompleted, EndRun, Saved, NotSaved, Fits, Staged, States
  <2> QED BY <1>2, <2>1
<1>6. CASE Validate
  <2>1. /\ mem.state = "Validating" /\ "Validating" \in States \ {"Failed"}
        /\ UNCHANGED <<parts, finals, mem, disk>> /\ pc' \in {"lease", "stop", "fail"}
    BY <1>6 DEF Validate, Fits, Staged, States
  <2> QED BY <1>2, <2>1
<1>7. CASE Completed
  <2>1. /\ mem.state = "Completed" /\ "Completed" \in States \ {"Failed"}
        /\ UNCHANGED <<parts, finals, mem, disk>> /\ pc' = "idle"
    BY <1>7 DEF Completed, EndRun, Fits, Staged, States
  <2> QED BY <1>2, <2>1
<1>8. CASE Publish
  <2>1. /\ UNCHANGED <<mem, disk, parts, faults>> /\ pc = "publish" /\ pc' \in {"linked", "fail"}
        /\ finals' = finals \/ finals' = Append(finals, file.ino)
        /\ file.ino \in Inode
    BY <1>8 DEF Publish, Placed, FileSteps, Files
  <2>2. \A n \in DOMAIN finals : n \in DOMAIN finals' /\ finals'[n] = finals[n]
    <3>1. CASE finals' = Append(finals, file.ino)
      BY <2>1, <3>1, AppendProperties DEF TypeOK
    <3> QED BY <2>1, <3>1
  <2> QED BY <1>1, <2>1, <2>2 DEF Recoverable, Tied, Present
<1>9. CASE RecordPromotion
  <2> DEFINE m == WithFinal(mem, Len(finals), pc = "linked")
  <2>1. /\ pc \in {"linked", "cleaned"} /\ mem.state = "Promoting" /\ mem' = m
        /\ UNCHANGED <<parts, finals>>
        /\ \/ Saved(m) /\ pc' \in {"recorded", "finish"}
           \/ NotSaved(m) /\ pc' = "idle"
    BY <1>9 DEF RecordPromotion, EndRun, Fits, Staged
  <2>2. /\ Len(finals) \in DOMAIN finals /\ Len(finals) \in Nat \ {0}
        /\ finals[Len(finals)] = file.ino
    BY <2>1 DEF TypeOK, Fits, RunFits, Genuine, Phased
  <2>3. m \in Rec /\ m.rev = mem.rev + 1
    BY <1>1, <2>2, WithFinalType
  <2>4. m.final = Len(finals) /\ m.partial \in {0, mem.partial} /\ m.state = "Promoting"
    BY <1>1, <2>1, <2>2 DEF WithFinal, Rec, Tasks
  <2>5. mem.partial \in {0, file.ino}
    BY <2>1, HandleAssumption DEF Placed, FileSteps, Genuine, Handles, GoodFile
  <2> HIDE DEF m
  <2>6. Saved(m) => disk' = m
    BY <1>1, <2>3, SavedNow
  <2>7. disk' \in {disk, m} /\ m # NoTask
    BY <2>1, <2>3, AbsentTask DEF Saved, NotSaved
  <2>8. Tied(mem)' /\ Tied(disk)'
    BY <1>1, <2>1, <2>2, <2>4, <2>5, <2>7 DEF Recoverable, Tied
  <2>9. faults' = 0 =>
          ValidTask(disk') /\ (Present(disk)' \/ disk'.state \in Terminal \/ disk'.final # 0)
    BY <1>1, <2>1, <2>2, <2>4, <2>7 DEF Recoverable, Present, Stored
  <2> QED BY <2>1, <2>2, <2>4, <2>6, <2>7, <2>8, <2>9 DEF Recoverable
<1>10. CASE CleanupPartial
  <2>1. /\ pc = "recorded" /\ pc' \in {"cleaned", "finish"}
        /\ UNCHANGED <<mem, disk, finals, faults>>
    BY <1>10 DEF CleanupPartial
  <2> QED BY <2>1 DEF Recoverable, Tied
<1> QED BY <1>3, <1>4, <1>5, <1>6, <1>7, <1>8, <1>9, <1>10 DEF Complete

LEMMA RecoverableFinish ==
  ASSUME TypeOK, Placed, RevisionIdentifiesRecord, Fits, Genuine, SavedSoFar, Recoverable,
         Stored, Finish
  PROVE  Recoverable'
<1> USE DEF Goto, ioVars, ctlVars, engineVars, boundVars
<1>1. /\ pc \in {"stop", "halt", "fail", "discard", "forget", "purge"}
      /\ mem \in Rec /\ mem # NoTask /\ disk # NoTask
  <2>1. pc \in {"stop", "halt", "fail", "discard", "forget", "purge"}
    BY DEF Finish, StopBoundary, ApplyStop, FailRun, Discard, Forget, Purge
  <2> QED BY <2>1, AbsentTask DEF Placed, RevisionIdentifiesRecord
<1>2. ASSUME pc \in {"stop", "halt", "fail", "discard"},
             UNCHANGED <<parts, finals>>, mem' # NoTask, disk' \in {disk, mem'},
             mem'.final = mem.final, mem'.partial = mem.partial,
             pc' \in {"halt", "fail", "discard", "idle"},
             (mem'.state = "Failed" /\ pc' \in {"idle", "purge", "discard", "forget"}
                /\ faults' = 0) => disk' = mem'
      PROVE  Recoverable'
  BY <1>1, <1>2, RecoverableStays
<1>3. CASE StopBoundary
  <2>1. /\ pc = "stop" /\ pc' \in {"halt", "fail"} /\ UNCHANGED <<parts, finals>>
        /\ \/ mem' = mem /\ disk' = disk
           \/ file # NoFile /\ mem' \in {mem, Durable} /\ disk' \in {disk, mem'}
    BY <1>3, SavedOrNot DEF StopBoundary, Boundary, NotRefreshed, NotSaved
  <2>2. file # NoFile => file \in Files /\ mem.res \in Identities
    BY DEF TypeOK, Placed
  <2>3. mem' # NoTask /\ mem'.final = mem.final /\ mem'.partial = mem.partial
    BY <1>1, <2>1, <2>2, RefreshedFields, DurableType, AbsentTask
  <2> QED BY <1>2, <2>1, <2>3
<1>4. CASE ApplyStop
  <2>0. StopTarget \in States
    BY DEF StopTarget, States
  <2>1. pc = "halt" /\ pc' \in {"idle", "discard"} /\ UNCHANGED <<parts, finals>>
    BY <1>4 DEF ApplyStop, EndRun
  <2>2. \/ mem' = mem /\ disk' = disk /\ mem.state = "Paused"
        \/ mem' = MoveTo(mem, StopTarget) /\ Saved(MoveTo(mem, StopTarget))
        \/ mem' = MoveTo(mem, "Failed") /\ disk' \in {disk, mem'} /\ faults' # 0
    BY <1>4 DEF ApplyStop, MarkStopFailed, WriteFault, EndRun, TypeOK
  <2>3. CASE mem' = mem /\ disk' = disk /\ mem.state = "Paused"
    BY <1>1, <1>2, <2>1, <2>3
  <2>4. CASE mem' = MoveTo(mem, StopTarget) /\ Saved(MoveTo(mem, StopTarget))
    <3>1. disk' = mem'
      BY <1>1, <2>0, <2>4, SavedMove
    <3>2. mem' # NoTask /\ mem'.final = mem.final /\ mem'.partial = mem.partial
      BY <1>1, <2>0, <2>4, MoveKeeps, MoveToType, AbsentTask
    <3> QED BY <1>2, <2>1, <3>1, <3>2
  <2>5. CASE mem' = MoveTo(mem, "Failed") /\ disk' \in {disk, mem'} /\ faults' # 0
    <3>0. "Failed" \in States
      BY DEF States
    <3>1. mem' # NoTask /\ mem'.final = mem.final /\ mem'.partial = mem.partial
      BY <1>1, <2>5, <3>0, MoveKeeps, MoveToType, AbsentTask
    <3>2. disk' \in {disk, mem'} /\ faults' # 0
      BY <2>5
    <3> QED BY <1>2, <2>1, <3>1, <3>2
  <2> QED BY <2>2, <2>3, <2>4, <2>5
<1>5. CASE FailRun
  <2>1. pc = "fail" /\ pc' \in {"idle", "discard"} /\ UNCHANGED <<parts, finals>>
    BY <1>5 DEF FailRun, EndRun
  <2>2. CASE ~MayMove(mem, "Failed")
    <3>1. mem' = mem /\ disk' = disk /\ mem.state # "Failed"
      BY <1>5, <2>1, <2>2 DEF FailRun, Fits, Staged
    <3> QED BY <1>1, <1>2, <2>1, <3>1
  <2>3. CASE MayMove(mem, "Failed")
    <3> DEFINE m == MoveTo(mem, "Failed")
    <3>1. mem' = m /\ (Saved(m) \/ NotSaved(m)) /\ ValidTask(m)
      BY <1>5, <2>3 DEF FailRun, MayMove, MoveTo
    <3>2. m \in Rec /\ m.rev = mem.rev + 1 /\ m.final = mem.final /\ m.partial = mem.partial
      BY <1>1, MoveKeeps, MoveToType DEF States
    <3> HIDE DEF m
    <3>3. NotSaved(m) => faults' # 0 /\ disk' = disk
      BY <1>1, <3>1, <3>2, FaultSeen DEF NotSaved
    <3>4. Saved(m) => disk' = m
      BY <1>1, <3>2, SavedNow
    <3>5. m # NoTask
      BY <3>2, AbsentTask
    <3> QED BY <1>2, <2>1, <3>1, <3>2, <3>3, <3>4, <3>5
  <2> QED BY <2>2, <2>3
<1>6. CASE Discard
  <2>1. /\ pc = "discard" /\ mem.state \in {"Failed", "Cancelled"}
        /\ UNCHANGED <<mem, disk, finals, faults>>
        /\ \/ parts' = parts \ {mem.partial} /\ pc' = "forget"
           \/ parts' = parts /\ pc' = "idle"
    BY <1>6 DEF Discard, EndRun, Fits, Staged
  <2>2. faults = 0 => disk = mem
    BY <1>1, <2>1 DEF Recoverable, SavedSoFar
  <2>3. CASE parts' = parts \ {mem.partial} /\ pc' = "forget"
    BY <1>1, <2>1, <2>2, <2>3 DEF Recoverable, Tied, Terminal
  <2>4. CASE parts' = parts /\ pc' = "idle"
    BY <1>1, <1>2, <2>1, <2>2, <2>4
  <2> QED BY <2>1, <2>3, <2>4
<1>7. CASE Forget
  <2> DEFINE m == WithoutPartial(mem)
  <2>1. /\ pc = "forget" /\ mem.state \in {"Failed", "Cancelled"} /\ pc' = "idle"
        /\ UNCHANGED <<parts, finals>>
        /\ \/ Saved(m) /\ mem' = m
           \/ NotSaved(m) /\ mem' = mem
    BY <1>7 DEF Forget, EndRun, Fits, Staged
  <2>2. m \in Rec /\ m.rev = mem.rev + 1
    BY <1>1, WithoutPartialType
  <2>3. m.partial = 0
    BY <1>1 DEF WithoutPartial, Rec, Tasks
  <2>4. ValidTask(m)
    BY <1>1, <2>1, CanForget DEF Fits, Kept
  <2> HIDE DEF m
  <2>5. CASE Saved(m) /\ mem' = m
    <3>1. disk' = m
      BY <1>1, <2>2, <2>5, SavedNow
    <3> QED BY <2>1, <2>3, <2>4, <2>5, <3>1 DEF Recoverable, Tied, Present
  <2>6. CASE NotSaved(m) /\ mem' = mem
    <3>1. faults' # 0 /\ disk' = disk
      BY <1>1, <2>2, <2>4, <2>6, FaultSeen DEF NotSaved
    <3> QED BY <1>1, <2>1, <2>6, <3>1 DEF Recoverable, Tied
  <2> QED BY <2>1, <2>5, <2>6
<1>8. CASE Purge
  <2>1. CASE disk' = NoTask /\ mem' = NoTask
    BY <1>8, <2>1 DEF Purge, Recoverable
  <2>2. CASE WriteFault /\ UNCHANGED <<disk, mem, file>>
    BY <1>1, <1>8, <2>2 DEF Purge, WriteFault, TypeOK, Recoverable, Tied
  <2> QED BY <1>8, <2>1, <2>2 DEF Purge
<1> QED BY <1>3, <1>4, <1>5, <1>6, <1>7, <1>8 DEF Finish

LEMMA RecoverableOpen ==
  ASSUME TypeOK, Placed, Fits, Recoverable, Stored, Open PROVE Recoverable'
<1> USE DEF ioVars, ctlVars, boundVars
<1>1. mem = NoTask /\ pc = "idle" /\ pc' = "idle" /\ UNCHANGED <<parts, finals>>
  BY DEF Open, Placed
<1>2. CASE mem' = NoTask /\ disk' = disk
  BY <1>1, <1>2 DEF Recoverable, Tied, Present, Stored
<1>3. CASE disk # NoTask /\ mem' = Normalized(disk) /\ Saved(Normalized(disk))
  <2> DEFINE m == Normalized(disk)
  <2>1. disk \in Rec /\ m \in Rec /\ m # NoTask
    BY <1>3, NormalizedType, AbsentTask DEF TypeOK, Rec
  <2>2. /\ disk.rev \in Nat
        /\ m = disk \/ m.rev = disk.rev + 1
    BY <2>1, NormalizedType DEF Rec, Tasks
  <2>3. disk' = m /\ mem' = m
    BY <1>3, <2>2 DEF Saved
  <2>4. m.final = disk.final /\ m.partial \in {0, disk.partial}
    <3>1. WithoutPartial(disk).final = disk.final /\ WithoutPartial(disk).partial = 0
      BY <2>1 DEF WithoutPartial, Rec, Tasks
    <3> QED BY <2>1, <3>1, MoveKeeps DEF Normalized, States
  <2>5. ValidTask(m)
    BY <1>3 DEF Saved
  <2>6. faults' = 0 => Present(m) \/ m.final # 0
    <3> SUFFICES ASSUME faults' = 0, ~Present(m), m.final = 0 PROVE FALSE
      OBVIOUS
    <3>1. ~Present(disk) /\ disk.final = 0 /\ m.partial = disk.partial /\ m.partial # 0
      BY <2>4 DEF Present
    <3>2. disk.state \in Terminal /\ ValidTask(disk)
      BY <1>3, <3>1 DEF Recoverable, Stored
    <3>3. disk.state \in {"Failed", "Cancelled"}
      BY <3>1, <3>2 DEF Terminal, ValidTask
    <3>4. m = WithoutPartial(disk)
      BY <3>1, <3>3 DEF Normalized, Present
    <3>5. WithoutPartial(disk).partial = 0
      BY <2>1 DEF WithoutPartial, Rec, Tasks
    <3> QED BY <3>1, <3>4, <3>5
  <2> HIDE DEF m
  <2>7. Tied(mem)' /\ Tied(disk)'
    BY <1>1, <1>3, <2>3, <2>4 DEF Recoverable, Tied
  <2> QED BY <1>1, <2>3, <2>5, <2>6, <2>7 DEF Recoverable, Present
<1> QED BY <1>1, <1>2, <1>3 DEF Open, NotSaved

LEMMA RecoverableNext ==
  ASSUME TypeOK, Placed, RevisionIdentifiesRecord, Fits, Genuine, SavedSoFar, Recoverable,
         [Next]_vars
  PROVE  Recoverable'
<1> USE DEF engineVars, ctlVars, ioVars, boundVars
<1>1. Stored
  BY StoredNext
<1>2. CASE Exit \/ Crash
  BY <1>2 DEF Exit, Crash, Down, EndRun, Goto, Recoverable, Tied, Present
<1>3. CASE ServerChanges \/ UNCHANGED vars
  BY <1>3 DEF ServerChanges, vars, Recoverable, Tied, Present
<1> QED BY <1>1, <1>2, <1>3, RecoverableCommand, RecoverableRuns, RecoverableComplete,
           RecoverableFinish, RecoverableOpen DEF Next

LEMMA SavedAlways == Spec => []SavedSoFar
<1>1. Init => SavedSoFar
  BY DEF Init, SavedSoFar
<1>2. (TypeOK /\ Placed) /\ RevisionIdentifiesRecord /\ Fits /\ SavedSoFar /\ [Next]_vars
        => SavedSoFar'
  BY SavedNext
<1> QED BY <1>1, <1>2, Typed, RevisionsIdentify, FitsAlways, PTL DEF Spec

\* Whenever the process dies, recovery accepts the record it left, as long as no write of
\* the store has failed.
THEOREM RecordsAlwaysLoad == Spec => []RecordLoads
<1>1. Init => Recoverable
  BY DEF Init, Recoverable
<1>2. (TypeOK /\ Placed) /\ RevisionIdentifiesRecord /\ Fits /\ Genuine /\ SavedSoFar
        /\ Recoverable /\ [Next]_vars => Recoverable'
  BY RecoverableNext
<1>3. TypeOK /\ Fits /\ Genuine /\ Recoverable => RecordLoads
  <2> SUFFICES ASSUME TypeOK, Fits, Genuine, Recoverable, disk # NoTask, faults = 0
               PROVE  Loadable(disk, parts, finals)
    BY DEF RecordLoads
  <2>1. ValidTask(disk) /\ (Present(disk) \/ disk.state \in Terminal \/ disk.final # 0)
    BY DEF Recoverable
  <2>2. disk.final # 0 => /\ disk.final \in DOMAIN finals
                          /\ disk.state \in {"Promoting", "Completed"}
                          /\ disk.partial # 0 => finals[disk.final] = disk.partial
    BY DEF Genuine, Records, GoodRecord, GoodFinal, Fits, Kept, KeptRecord, Recoverable, Tied
  <2>3. 0 \notin parts
    BY BoundsAssumption DEF TypeOK, Inode
  <2> QED BY <2>1, <2>2, <2>3 DEF Loadable, Present, Terminal
<1> QED BY <1>1, <1>2, <1>3, Typed, RevisionsIdentify, FitsAlways, GenuineAlways,
           SavedAlways, PTL DEF Spec
=============================================================================
