------------------------------ MODULE TaskRecord ------------------------------
(***************************************************************************)
(* The persisted record of one download task (TaskMetadata in              *)
(* crates/engine/src/persistence.rs): its lifecycle graph, the operations  *)
(* that produce the next revision of a record, the validation every        *)
(* checkpoint runs first, and the validation recovery runs against the     *)
(* files in the destination.                                               *)
(*                                                                         *)
(* A file is a set of chunks.  A body stands for the bytes of one version  *)
(* of the remote resource.  Partial files are numbered in the order they   *)
(* are created, so a number is at once the partial's (unique) name and its *)
(* file identity; final names are numbered in the order they are linked.   *)
(* 0 means that no such path is recorded.                                  *)
(***************************************************************************)
EXTENDS Naturals, FiniteSets

CONSTANTS
  Chunk,        \* pieces of the resource that coverage is counted in
  Body,         \* versions of the resource's bytes
  Blank,        \* bytes that belong to no version; also "no checksum", "no tag"
  NoTask,       \* absence of a record
  NoResource    \* a record whose resource was never probed

ASSUME ChunkAssumption == IsFiniteSet(Chunk) /\ Chunk # {}
ASSUME BodyAssumption == Blank \notin Body

States == {"Queued", "Probing", "Downloading", "Paused", "Validating",
           "Promoting", "Completed", "Failed", "Cancelled"}

\* Mutant: a paused task counts as finished.
TerminalOrPaused == {"Completed", "Failed", "Cancelled", "Paused"}

Terminal == {"Completed", "Failed", "Cancelled"}

\* TaskState::allows
Allows(s, t) ==
  \/ s = "Queued" /\ t = "Probing"
  \/ s \in {"Probing", "Paused"} /\ t = "Downloading"
  \/ s = "Downloading" /\ t \in {"Paused", "Validating"}
  \/ s = "Validating" /\ t = "Promoting"
  \/ s = "Promoting" /\ t \in {"Completed", "Failed"}
  \/ s = "Failed" /\ t = "Queued"
  \/ /\ s \in {"Queued", "Probing", "Downloading", "Paused", "Validating"}
     /\ t \in {"Failed", "Cancelled"}

(***************************************************************************)
(* What a server offers.  "segmented" needs a strong ETag; "single" has a  *)
(* declared length but no usable ranges; "stream" has no declared length;  *)
(* "empty" has length zero.                                                *)
(***************************************************************************)
Modes == {"segmented", "single", "stream", "empty"}

Resource == { r \in [mode : Modes, strong : BOOLEAN, body : Body] :
                r.mode = "segmented" => r.strong }

\* ResourceIdentity: mode, size and validators.  Only a strong validator tells
\* two bodies apart; "sized" is whether the length is known.
Identities == [mode : Modes, strong : BOOLEAN, tag : Body \cup {Blank},
               sized : BOOLEAN]

Identity(r) == [mode |-> r.mode, strong |-> r.strong,
                tag |-> IF r.strong THEN r.body ELSE Blank,
                sized |-> r.mode # "stream"]

\* The chunks a resource of this identity has.
Extent(id) == IF id.mode = "empty" THEN {} ELSE Chunk

Tasks(Inode, Name) ==
  [state : States, rev : Nat, res : Identities \cup {NoResource},
   partial : Inode \cup {0}, final : Name \cup {0}, done : SUBSET Chunk,
   checksum : Body \cup {Blank}]

\* TaskMetadata::new_at_with_workers and require_checksum
NewTask(sum) ==
  [state |-> "Queued", rev |-> 1, res |-> NoResource, partial |-> 0,
   final |-> 0, done |-> {}, checksum |-> sum]

-------------------------------------------------------------------------------
(***************************************************************************)
(* Validation.                                                             *)
(***************************************************************************)
ExactlyCovered(m) ==
  m.res # NoResource /\ m.res.sized /\ m.done = Extent(m.res)

\* validate_task, without the syntax of URLs, names and paths
ValidTask(m) ==
  /\ m.res = NoResource => m.partial = 0 /\ m.final = 0 /\ m.done = {}
  /\ m.res # NoResource => m.done \subseteq Extent(m.res)
  /\ (m.res # NoResource /\ ~m.res.sized) =>
        m.res.mode = "stream" /\ m.final = 0 /\ m.done = {}
  /\ m.state \in {"Downloading", "Paused"} => m.res # NoResource /\ m.partial # 0
  /\ m.state \in {"Validating", "Promoting", "Completed"} => ExactlyCovered(m)
  /\ m.state = "Validating" => m.partial # 0
  /\ m.state = "Promoting" => m.partial # 0 \/ m.final # 0
  /\ m.state = "Completed" => m.final # 0
  /\ m.final # 0 => m.state \in {"Promoting", "Completed"}

\* validate_recovery_file: parts is the set of partial names present in the
\* destination, finals the sequence of published names.
Loadable(m, parts, finals) ==
  /\ ValidTask(m)
  /\ (m.partial # 0 /\ m.partial \notin parts) =>
        ~ \/ m.state \in {"Downloading", "Paused", "Validating"}
          \/ m.state = "Promoting" /\ m.final = 0
  /\ m.final # 0 => m.final \in DOMAIN finals
  /\ (m.final # 0 /\ m.partial \in parts) => finals[m.final] = m.partial

-------------------------------------------------------------------------------
(***************************************************************************)
(* The next revision of a record.                                          *)
(***************************************************************************)
\* TaskMetadata::transition keeps the old record unless the edge is allowed
\* and the result is valid.
MayMove(m, s) ==
  Allows(m.state, s) /\ ValidTask([m EXCEPT !.state = s, !.rev = @ + 1])

MoveTo(m, s) == [m EXCEPT !.state = s, !.rev = @ + 1]

\* TaskMetadata::apply_resource
WithResource(m, id) == [m EXCEPT !.res = id, !.rev = @ + 1]

\* TaskMetadata::attach_partial
WithPartial(m, i) == [m EXCEPT !.partial = i, !.rev = @ + 1]

\* Mutant: the refreshed record keeps its revision.
RefreshedInPlace(m, done, sized) == [m EXCEPT !.done = done, !.res.sized = sized]

\* TaskMetadata::refresh_completed, given the coverage storage has just made
\* durable and whether the length of the file is known there.
Refreshed(m, done, sized) ==
  IF done = m.done /\ sized = m.res.sized
  THEN m
  ELSE [m EXCEPT !.done = done, !.res.sized = sized, !.rev = @ + 1]

\* TaskMetadata::record_partial_deletion
WithoutPartial(m) == [m EXCEPT !.partial = 0, !.done = {}, !.rev = @ + 1]

\* TaskMetadata::record_promotion; keep says whether the partial link remains.
WithFinal(m, name, keep) ==
  [m EXCEPT !.final = name, !.partial = IF keep THEN @ ELSE 0, !.rev = @ + 1]

\* The identity check prepare_initial and prepare_resume make before bytes that
\* are already on disk may be used again.
Reusable(m, r) ==
  /\ m.res = Identity(r)
  /\ m.done # {} => r.strong
===============================================================================
