-------------------------- MODULE SetupTransaction --------------------------
(***************************************************************************)
(* The setup program: it installs, repairs, cleans up and removes          *)
(* generations of the helper under one root, and recovers from an          *)
(* operation that did not finish.  Durable are the registration that       *)
(* Firefox reads, the receipt, the journal and the files of each           *)
(* generation.  An operation holds the lock of the user (SetupLock), so    *)
(* there is one at a time; pc is the next thing it does, and act what its  *)
(* last look allows.  Other programs do not hold the lock: between a look  *)
(* at the registration or at a file and the call that changes it, somebody *)
(* else may have changed it.  The process may die at any effect, and any   *)
(* write may fail.                                                         *)
(***************************************************************************)
EXTENDS Naturals, Sequences, SequencesExt, FiniteSetsExt

CONSTANTS
  Generations,      \* identifiers of generations, each a directory of the root
  MaxGenerations,   \* MAX_GENERATIONS
  MaxCrashes,       \* bound: how often the process dies
  MaxFaults,        \* bound: how often a write fails or somebody else interferes
  Absent,           \* no registration, receipt or journal
  Torn,             \* a record that does not decode
  Foreign,          \* a registration that is not ours
  EmptyKey          \* the registry key without its value

ASSUME SetupBounds ==
  MaxGenerations \in Nat \ {0} /\ MaxCrashes \in Nat /\ MaxFaults \in Nat

\* The files of a generation, in the order they are written and removed.
FileOrder == <<"helper", "extension", "manifest">>
Files == ToSet(FileOrder)

\* "bad" is a torn copy, "changed" what somebody else made of a whole file.
Contents == {"none", "whole", "bad", "changed"}

VARIABLES
  registration,     \* the manifest the registry names, as its generation
  receipt,          \* installation.json
  journal,          \* transaction.json
  dirs,             \* the generations whose directory exists
  files,            \* the content of each file of each generation
  litter,           \* whether the root holds a temporary record
  pc,
  work,             \* the journal of the operation under way, or what repair saw
  act,              \* "look", or the effect that the last look allows
  crashes, faults,
  foreign,          \* history: somebody else has changed the registration
  raced             \* history: and has changed what setup had looked at, before act

durable == <<registration, receipt, journal, dirs, files, litter>>
bounds == <<crashes, faults>>
vars == <<durable, pc, work, act, bounds, foreign, raced>>

Receipts == [current : Generations, generations : Seq(Generations)]

\* The marks stand for what is no generation, and no record that decodes.
ASSUME MarksDiffer ==
  /\ {Absent, Foreign, EmptyKey} \cap Generations = {}
  /\ Absent # Foreign /\ Absent # EmptyKey /\ Foreign # EmptyKey /\ Absent # Torn
  /\ Absent \notin Receipts /\ Torn \notin Receipts

\* Receipt::is_valid: a receipt that decodes when it is read again.
ValidReceipt(r) ==
  /\ r \in Receipts
  /\ Len(r.generations) \in 1 .. MaxGenerations
  /\ IsInjective(r.generations)
  /\ \E i \in DOMAIN r.generations : r.generations[i] = r.current

Listed(r) == IF r \in {Absent, Torn} THEN {} ELSE ToSet(r.generations)

\* expected_registration
Expected(r) == IF r = Absent THEN Absent ELSE r.current

Old(j) == IF j.had THEN j.previous.current ELSE Absent
New(j) == j.next.current

\* verify_file, with missing_ok TRUE.
Known(g, f) == files[g][f] \in {"none", "whole"}

\* verify_generation, with missing_ok FALSE and TRUE.
Whole(g) == g \in dirs /\ \A f \in Files : files[g][f] = "whole"
Sound(g) == \A f \in Files : Known(g, f)

\* Mutant: recovery expects the receipt to be the old one.
InterruptedEarly(j) == {j.previous}

\* The receipts an interrupted operation may have left.
Interrupted(j) == {j.previous, j.next}

\* Mutant: whatever is registered is replaced.
ReplacedAnyway(value) == registration # EmptyKey

\* replace_if_unchanged finds the expected value.
Unchanged(value) == registration = value

\* Mutants: a cleanup deletes the current generation too, an uninstallation does not.
SelectedAll(j) == Listed(j.previous)
SelectedRetired(j) == Listed(j.previous) \ {j.previous.current}

\* The generations a removal deletes: retired ones, or all of them.
Selected(j) == {g \in Listed(j.previous) : j.action = "uninstall" \/ g # j.previous.current}

Init ==
  /\ registration = Absent
  /\ receipt = Absent
  /\ journal = Absent
  /\ dirs = {}
  /\ files = [g \in Generations |-> [f \in Files |-> "none"]]
  /\ litter = FALSE
  /\ pc = "idle"
  /\ work = Absent
  /\ act = "look"
  /\ crashes = 0
  /\ faults = 0
  /\ foreign = FALSE
  /\ raced = FALSE

Goto(place) ==
  /\ pc' = place
  /\ work' = IF place = "idle" THEN Absent ELSE work
  /\ act' = "look"
  /\ raced' = FALSE

Proceed(place) == Goto(place) /\ UNCHANGED <<bounds, foreign>>

\* A look has found what it expected; the effect is another step.
Then(effect) ==
  /\ act' = effect
  /\ raced' = FALSE
  /\ UNCHANGED <<pc, work, bounds, foreign>>

\* One effect fails, and the operation continues at place.
Fault(place) ==
  /\ faults < MaxFaults
  /\ faults' = faults + 1
  /\ Goto(place)
  /\ UNCHANGED <<crashes, foreign>>

-----------------------------------------------------------------------------
(* replace_if_unchanged: it looks at the registration, opens or creates the  *)
(* key and looks again, and then sets the value or deletes value and key.    *)
(* It goes on at next, or at otherwise when it does not succeed.             *)

LookRegistered(expected, desired, next, otherwise) ==
  /\ act = "look"
  /\ \/ ~Unchanged(expected) /\ Proceed(otherwise) /\ UNCHANGED registration
     \/ Unchanged(expected) /\ desired = expected /\ Proceed(next) /\ UNCHANGED registration
     \/ /\ Unchanged(expected)
        /\ desired # expected
        /\ \/ /\ registration' = IF expected = Absent THEN EmptyKey ELSE registration
              /\ Then(IF desired = Absent THEN "value" ELSE "set")
           \/ Fault(otherwise) /\ UNCHANGED registration

\* The value is set whatever it has become, unless the key is gone.  When that
\* fails, a key created for it is deleted again if it is empty.
SetValue(expected, desired, next, otherwise) ==
  /\ act = "set"
  /\ \/ registration # Absent /\ registration' = desired /\ Proceed(next)
     \/ registration = Absent /\ UNCHANGED registration /\ Proceed(otherwise)
     \/ /\ registration # Absent
        /\ \/ registration' \in {registration, desired}
           \/ expected = Absent /\ registration = EmptyKey /\ registration' = Absent
        /\ Fault(otherwise)

DeleteValue(otherwise) ==
  /\ act = "value"
  /\ \/ registration # Absent /\ registration' = EmptyKey /\ Then("empty")
     \/ registration = Absent /\ UNCHANGED registration /\ Proceed(otherwise)
     \/ UNCHANGED registration /\ Fault(otherwise)

\* delete_empty looks whether the key is empty, and deletes it.
LookEmpty(otherwise) ==
  /\ act = "empty"
  /\ IF registration = EmptyKey THEN Then("key") ELSE Proceed(otherwise)
  /\ UNCHANGED registration

DeleteKey(next, otherwise) ==
  /\ act = "key"
  /\ \/ registration # Absent /\ registration' = Absent /\ Proceed(next)
     \/ registration = Absent /\ UNCHANGED registration /\ Proceed(otherwise)
     \/ UNCHANGED registration /\ Fault(otherwise)

ReplaceIfUnchanged(expected, desired, next, otherwise) ==
  \/ LookRegistered(expected, desired, next, otherwise)
  \/ SetValue(expected, desired, next, otherwise)
  \/ DeleteValue(otherwise)
  \/ LookEmpty(otherwise)
  \/ DeleteKey(next, otherwise)

-----------------------------------------------------------------------------
(* Beginning an operation.  A refused command has no effect and no action.  *)

Ready ==
  /\ journal = Absent
  /\ receipt # Torn
  /\ receipt = Absent => dirs = {} /\ ~litter

\* An upgrade adds a generation to those of the receipt.
Room(r) == r # Absent => Len(r.generations) < MaxGenerations

\* install, up to the creation of the directory of a new generation.
Install(g) ==
  /\ pc = "idle"
  /\ Ready
  /\ registration \in {Absent, Expected(receipt)}
  /\ Room(receipt)
  /\ receipt # Absent => Whole(receipt.current)
  /\ g \notin dirs \cup Listed(receipt)
  /\ dirs' = dirs \cup {g}
  /\ pc' = "journal"
  /\ work' = [action |-> "install",
              previous |-> receipt,
              next |-> [current |-> g,
                        generations |-> IF receipt = Absent THEN <<g>>
                                        ELSE Append(receipt.generations, g)],
              had |-> registration # Absent]
  /\ UNCHANGED <<registration, receipt, journal, files, litter, act, bounds, foreign, raced>>

\* begin_removal, up to its journal.
BeginRemoval(action) ==
  /\ pc = "idle"
  /\ Ready
  /\ receipt # Absent
  /\ registration \in {Absent, Expected(receipt)}
  /\ LET j == [action |-> action,
               previous |-> receipt,
               next |-> IF action = "uninstall" THEN Absent
                        ELSE [current |-> receipt.current, generations |-> <<receipt.current>>],
               had |-> registration # Absent]
     IN /\ \A g \in Selected(j) : Sound(g)
        /\ work' = j
  /\ pc' = "journal"
  /\ UNCHANGED <<durable, act, bounds, foreign, raced>>

\* recover
Recover ==
  /\ pc = "idle"
  /\ journal \notin {Absent, Torn}
  /\ work' = journal
  /\ pc' = IF journal.action = "install" THEN "undo" ELSE "removal"
  /\ UNCHANGED <<durable, act, bounds, foreign, raced>>

\* repair, up to the verdict of the probe.
Repair ==
  /\ pc = "idle"
  /\ Ready
  /\ receipt # Absent
  /\ Whole(receipt.current)
  /\ registration \in {Absent} \cup Listed(receipt)
  /\ work' = registration
  /\ pc' = "repair"
  /\ UNCHANGED <<durable, act, bounds, foreign, raced>>

\* repair, after the probe: verify again and rebind.
RepairRegister ==
  /\ pc = "repair"
  /\ \/ act = "look" /\ ~Whole(receipt.current) /\ Proceed("idle") /\ UNCHANGED registration
     \/ /\ act = "look" => Whole(receipt.current)
        /\ ReplaceIfUnchanged(work, receipt.current, "idle", "idle")
  /\ UNCHANGED <<receipt, journal, dirs, files, litter>>

-----------------------------------------------------------------------------
(* install *)

\* persist_journal.  An operation whose journal was not written just returns.
WriteJournal ==
  /\ pc = "journal"
  /\ \/ /\ journal' = work
        /\ Proceed(IF work.action = "install" THEN "helper" ELSE "removal")
     \/ journal' \in {Absent, Torn, work} /\ Fault("idle")
  /\ UNCHANGED <<registration, receipt, dirs, files, litter>>

\* copy_new, write_new: a file of the new generation.
WriteFile(f) ==
  /\ pc = f
  /\ \/ /\ files' = [files EXCEPT ![New(work)][f] = "whole"]
        /\ Proceed(CASE f = "helper" -> "extension"
                     [] f = "extension" -> "manifest"
                     [] f = "manifest" -> "probe")
     \/ \E content \in {"none", "bad", "whole"} :
          /\ files' = [files EXCEPT ![New(work)][f] = content]
          /\ Fault("undo")
  /\ UNCHANGED <<registration, receipt, journal, dirs, litter>>

\* verify_generation and the launch of the staged helper.
Probe ==
  /\ pc = "probe"
  /\ \/ Whole(New(work)) /\ Proceed("register")
     \/ Proceed("undo")
  /\ UNCHANGED durable

\* verify_generation and replace_if_unchanged.
Register ==
  /\ pc = "register"
  /\ \/ act = "look" /\ ~Whole(New(work)) /\ Proceed("undo") /\ UNCHANGED registration
     \/ /\ act = "look" => Whole(New(work))
        /\ ReplaceIfUnchanged(Old(work), New(work), "receipt", "undo")
  /\ UNCHANGED <<receipt, journal, dirs, files, litter>>

\* replace_receipt.  The first receipt is written in place, a later one renamed.
WriteReceipt ==
  /\ pc = "receipt"
  /\ IF receipt = work.previous
     THEN \/ /\ receipt' = work.next
             /\ Proceed("finish")
             /\ UNCHANGED litter
          \/ /\ receipt' \in IF receipt = Absent THEN {Absent, Torn, work.next} ELSE {receipt}
             /\ litter' \in {litter, litter \/ receipt # Absent}
             /\ Fault("undo")
     ELSE UNCHANGED <<receipt, litter>> /\ Proceed("undo")
  /\ UNCHANGED <<registration, journal, dirs, files>>

\* delete_journal, the end of every operation.
Finish ==
  /\ pc = "finish"
  /\ \/ journal' = Absent /\ Proceed("idle")
     \/ UNCHANGED journal /\ Fault("idle")
  /\ UNCHANGED <<registration, receipt, dirs, files, litter>>

-----------------------------------------------------------------------------
(* rollback_install *)

UndoAllowed(j) ==
  /\ j.had => Whole(j.previous.current)
  /\ registration \in {Old(j), New(j)}

UndoRegistration ==
  /\ pc = "undo"
  /\ \/ act = "look" /\ ~UndoAllowed(work) /\ Proceed("idle") /\ UNCHANGED registration
     \/ /\ act = "look" /\ UndoAllowed(work) /\ registration = Old(work)
        /\ Proceed("undo_receipt")
        /\ UNCHANGED registration
     \/ /\ act = "look" => UndoAllowed(work) /\ registration = New(work)
        /\ ReplaceIfUnchanged(New(work), Old(work), "undo_receipt", "idle")
  /\ UNCHANGED <<receipt, journal, dirs, files, litter>>

\* Mutant: the generation that was not installed is left in place.
UndoReceiptOnly ==
  /\ pc = "undo_receipt"
  /\ receipt \in Interrupted(work)
  /\ receipt' = work.previous
  /\ Proceed("finish")
  /\ UNCHANGED <<registration, journal, dirs, files, litter>>

UndoReceipt ==
  /\ pc = "undo_receipt"
  /\ IF receipt \in Interrupted(work)
     THEN /\ \/ receipt' = work.previous /\ Proceed("undo_files") /\ UNCHANGED litter
             \/ /\ receipt = work.next
                /\ litter' \in {litter, litter \/ work.previous # Absent}
                /\ UNCHANGED receipt
                /\ Fault("idle")
          /\ UNCHANGED <<registration, journal, dirs, files>>
     ELSE Proceed("idle") /\ UNCHANGED durable

\* What comes first in order, of S.
FirstOf(order, S) == order[Min({i \in DOMAIN order : order[i] \in S})]

\* Where a deletion is: the first generation of doomed that is left, and the
\* first file of it.
NextGeneration(order, doomed) == FirstOf(order, doomed \cap dirs)
Present(g) == {f \in Files : files[g][f] # "none"}
NextFile(g) == FirstOf(FileOrder, Present(g))

\* Generations are removed one after the other, in this order: the next one is
\* verified here, and next is where the caller goes on when none is left.
VerifyNext(place, order, doomed, deletion, next) ==
  /\ pc = place
  /\ Proceed(IF doomed \cap dirs = {} THEN next
             ELSE IF Sound(NextGeneration(order, doomed)) THEN deletion ELSE "idle")
  /\ UNCHANGED durable

\* remove_generation, verified: its files are verified again and deleted in
\* turn, each look being one step and each deletion another, and then the
\* empty directory.
DeleteNext(place, order, doomed, verification) ==
  LET g == NextGeneration(order, doomed)
      f == NextFile(g)
  IN /\ pc = place
     /\ \/ /\ act = "look"
           /\ Present(g) # {}
           /\ IF Known(g, f) THEN Then("unlink") ELSE Proceed("idle")
           /\ UNCHANGED durable
        \/ /\ act = "unlink"
           /\ \/ files' = [files EXCEPT ![g][f] = "none"] /\ Proceed(place)
              \/ UNCHANGED files /\ Fault("idle")
           /\ UNCHANGED <<registration, receipt, journal, dirs, litter>>
        \/ /\ act = "look"
           /\ Present(g) = {}
           /\ \/ dirs' = dirs \ {g} /\ Proceed(verification)
              \/ UNCHANGED dirs /\ Fault("idle")
           /\ UNCHANGED <<registration, receipt, journal, files, litter>>

UndoFiles ==
  LET new == New(work)
  IN \/ VerifyNext("undo_files", <<new>>, {new}, "undo_delete", "finish")
     \/ DeleteNext("undo_delete", <<new>>, {new}, "undo_files")

-----------------------------------------------------------------------------
(* finish_removal *)

RemovalAllowed(j) ==
  /\ registration \in {Absent, j.previous.current}
  /\ receipt \in Interrupted(j)
  /\ \A g \in Selected(j) : Sound(g)

Removal ==
  /\ pc = "removal"
  /\ \/ act = "look" /\ ~RemovalAllowed(work) /\ Proceed("idle") /\ UNCHANGED registration
     \/ /\ act = "look" /\ RemovalAllowed(work)
        /\ work.action = "cleanup" \/ registration = Absent
        /\ Proceed("remove")
        /\ UNCHANGED registration
     \/ /\ act = "look" => /\ RemovalAllowed(work) /\ work.action = "uninstall"
                           /\ registration # Absent
        /\ ReplaceIfUnchanged(work.previous.current, Absent, "remove", "idle")
  /\ UNCHANGED <<receipt, journal, dirs, files, litter>>

RemoveSelected ==
  \/ VerifyNext("remove", work.previous.generations, Selected(work), "delete", "forget")
  \/ DeleteNext("delete", work.previous.generations, Selected(work), "remove")

ForgetReceipt ==
  /\ pc = "forget"
  /\ \/ receipt' = work.next /\ Proceed("finish") /\ UNCHANGED litter
     \/ /\ litter' \in {litter, litter \/ work.next # Absent}
        /\ UNCHANGED receipt
        /\ Fault("idle")
  /\ UNCHANGED <<registration, journal, dirs, files>>

-----------------------------------------------------------------------------
(* The process dies; a step that is not one atomic effect may be half done.  *)

Crash ==
  /\ pc # "idle"
  /\ crashes < MaxCrashes
  /\ crashes' = crashes + 1
  /\ Goto("idle")
  /\ \/ UNCHANGED durable
     \/ /\ pc = "journal"
        /\ journal' = Torn
        /\ UNCHANGED <<registration, receipt, dirs, files, litter>>
     \/ /\ pc \in Files
        /\ files' = [files EXCEPT ![New(work)][pc] = "bad"]
        /\ UNCHANGED <<registration, receipt, journal, dirs, litter>>
     \/ /\ pc = "receipt"
        /\ receipt = Absent
        /\ receipt' = Torn
        /\ UNCHANGED <<registration, journal, dirs, files, litter>>
     \/ /\ \/ pc = "receipt" /\ receipt # Absent
           \/ pc = "undo_receipt" /\ receipt = work.next /\ work.previous # Absent
           \/ pc = "forget" /\ work.next # Absent
        /\ litter' = TRUE
        /\ UNCHANGED <<registration, receipt, journal, dirs, files>>
  /\ UNCHANGED <<faults, foreign>>

-----------------------------------------------------------------------------
(* What setup does not control: other programs of the user.                  *)

\* The generation of the file that a deletion under way has looked at.
Condemned ==
  IF pc = "undo_delete" THEN New(work)
  ELSE NextGeneration(work.previous.generations, Selected(work))

Meddle ==
  /\ faults < MaxFaults
  /\ faults' = faults + 1
  /\ \/ /\ registration # Foreign
        /\ registration' = Foreign
        /\ foreign' = TRUE
        /\ raced' = (raced \/ act \in {"set", "value", "key"})
        /\ UNCHANGED files
     \/ \E g \in Generations, f \in Files :
          /\ files[g][f] = "whole"
          /\ files' = [files EXCEPT ![g][f] = "changed"]
          /\ raced' = (raced \/ (act = "unlink" /\ g = Condemned /\ f = NextFile(g)))
          /\ UNCHANGED <<registration, foreign>>
  /\ UNCHANGED <<receipt, journal, dirs, litter, pc, work, act, crashes>>

\* What meddled with the registration takes its own value away again.
ForeignLeaves ==
  /\ registration = Foreign
  /\ registration' = Absent
  /\ UNCHANGED <<receipt, journal, dirs, files, litter, pc, work, act, bounds, foreign, raced>>

Step ==
  \/ \E g \in Generations : Install(g)
  \/ \E action \in {"uninstall", "cleanup"} : BeginRemoval(action)
  \/ Recover \/ Repair \/ RepairRegister
  \/ WriteJournal \/ (\E f \in Files : WriteFile(f)) \/ Probe \/ Register
  \/ WriteReceipt \/ Finish
  \/ UndoRegistration \/ UndoReceipt \/ UndoFiles
  \/ Removal \/ RemoveSelected \/ ForgetReceipt

Next == Step \/ Crash \/ Meddle \/ ForeignLeaves

Spec == Init /\ [][Next]_vars

-----------------------------------------------------------------------------
(* Properties *)

Journals ==
  [action : {"install", "uninstall", "cleanup"},
   previous : Receipts \cup {Absent}, next : Receipts \cup {Absent}, had : BOOLEAN]

\* The marks are no journals either.
ASSUME JournalMarks == Absent \notin Journals /\ Torn \notin Journals

\* Journal::is_valid: a journal that decodes, so that recovery may use it.
ValidJournal(j) ==
  /\ j \in Journals
  /\ \A r \in {j.previous, j.next} \ {Absent} : ValidReceipt(r)
  /\ j.had => j.previous # Absent
  /\ j.action = "install" =>
       /\ j.next # Absent
       /\ New(j) \notin Listed(j.previous)
       /\ Listed(j.next) = Listed(j.previous) \cup {New(j)}
  /\ j.action = "uninstall" => j.previous # Absent /\ j.next = Absent
  /\ j.action = "cleanup" =>
       /\ j.previous # Absent
       /\ j.next = [current |-> j.previous.current, generations |-> <<j.previous.current>>]

\* The types, and that every record setup writes is one it will accept.
TypeOK ==
  /\ registration \in Generations \cup {Absent, Foreign, EmptyKey}
  /\ receipt \in {Absent, Torn} \/ ValidReceipt(receipt)
  /\ journal \in {Absent, Torn} \/ ValidJournal(journal)
  /\ dirs \in SUBSET Generations
  /\ files \in [Generations -> [Files -> Contents]]
  /\ litter \in BOOLEAN
  /\ pc \in {"idle", "journal", "probe", "register", "receipt", "finish", "undo",
             "undo_receipt", "undo_files", "undo_delete", "removal", "remove", "delete",
             "forget", "repair"} \cup Files
  /\ work \in Generations \cup {Absent} \/ ValidJournal(work)
  /\ crashes \in 0 .. MaxCrashes
  /\ faults \in 0 .. MaxFaults
  /\ act \in {"look", "set", "value", "empty", "key", "unlink"}
  /\ foreign \in BOOLEAN
  /\ raced \in BOOLEAN

\* Firefox starts whatever the registry names, at any time: a registered
\* generation is complete, however an installation, a rollback or a removal was
\* interrupted.  Only somebody else can have changed a file of it since.
RegisteredIsWhole ==
  registration \in Generations =>
    /\ registration \in dirs
    /\ \A f \in Files : files[registration][f] \in {"whole", "changed"}

\* Every file of a generation is on record, in the receipt or in the journal,
\* so that some operation may still verify and delete it.
NoOrphans ==
  \A g \in Generations :
    (\E f \in Files : files[g][f] # "none") =>
      \/ g \in Listed(receipt)
      \/ /\ journal \notin {Absent, Torn}
         /\ g \in Listed(journal.previous) \cup Listed(journal.next)

\* Nothing is half written: no key without its value, no torn receipt, and no file
\* that is torn or that somebody else has changed.
Intact ==
  /\ registration # EmptyKey
  /\ receipt # Torn
  /\ \A g \in Generations : Sound(g)

\* Every check that recover will make passes.
Recoverable(j) ==
  IF j.action = "install"
  THEN UndoAllowed(j) /\ receipt \in Interrupted(j) /\ Sound(New(j))
  ELSE RemovalAllowed(j)

\* Wherever an operation stops, by a death or by a failure, recover accepts what it
\* left, unless the stop itself tore something: a copy, the receipt while it was first
\* written, the registry key without its value (Intact).  Only a change by somebody
\* else is another reason.  When the journal was torn, which disables recovery, the
\* operation had not begun: the registration and the receipt are those of before.
RecoverableUnlessTorn ==
  /\ TypeOK
  /\ journal \notin {Absent, Torn} /\ Intact /\ ~foreign => Recoverable(journal)
  /\ journal = Torn /\ ~foreign =>
       registration \in {Absent, Expected(receipt)} /\ receipt # Torn

\* When an operation ends, at once or after any number of recoveries, all of its
\* effects are there or none.  A removal is only ever finished.
AllOrNothing ==
  [][journal \notin {Absent, Torn} /\ journal' = Absent /\ ~foreign =>
       \/ /\ receipt' = journal.next
          /\ journal.action = "install" => registration' = New(journal)
          /\ journal.action = "uninstall" => registration' = Absent
          /\ journal.action # "install" => Selected(journal) \cap dirs' = {}
       \/ /\ journal.action = "install"
          /\ receipt' = journal.previous
          /\ registration' = Old(journal)
          /\ New(journal) \notin dirs']_vars

\* What setup does not recognise when it looks, it leaves alone, and it looks before
\* every effect, however long ago it looked before: it deletes or overwrites no file
\* with other bytes, torn copies of its own included, and replaces or deletes no
\* registration of somebody else.  Lost is only what somebody else puts there between
\* that look and the call after it (raced), as the code says of itself: its looks are
\* no compare-and-swap.
UnknownKept ==
  /\ [][\A g \in Generations, f \in Files :
           files[g][f] \in {"bad", "changed"} /\ ~raced => files'[g][f] = files[g][f]]_vars
  /\ [][registration = Foreign /\ ~raced /\ <<pc, act>>' # <<pc, act>> =>
           registration' = Foreign]_vars
=============================================================================
