----------------------- MODULE SetupTransactionProofs -----------------------
(***************************************************************************)
(* What SetupTransaction promises, proved for every set of generations     *)
(* and every number of deaths, faults and interferences.                   *)
(*                                                                         *)
(* Inv has three parts.  Lasting speaks of what is durable: it holds       *)
(* wherever the process dies, and an operation that ends or dies has       *)
(* nothing more to prove.  Underway says what the operation under way,     *)
(* with journal j, has done when it is at place (At): what it will do next *)
(* relies on it.  Acting says what the last look has found out about the   *)
(* effect that follows, which another program may have outrun.  So the     *)
(* lemmas on the effects of a step (RegistrationKeeps, FileKeeps,          *)
(* ReceiptKeeps, JournalKeeps, DirsKeep) keep Lasting, ReplaceKeeps does   *)
(* for every step of replace_if_unchanged, the lemma on an action adds     *)
(* where it arrives, and ActingInductive follows looks and effects.        *)
(***************************************************************************)
EXTENDS SetupTransaction, FiniteSetTheorems, SequenceTheorems, WellFoundedInduction, TLAPS

-----------------------------------------------------------------------------
(* Sequences of generations and files *)

LEMMA LeastOf ==
  ASSUME NEW S, S \subseteq Nat, S # {}
  PROVE  Min(S) \in S
<1> DEFINE R == StrictSubsetOrdering(Nat)
           T == {1 .. n : n \in S}
<1>1. T \subseteq FiniteSubsetsOf(Nat) /\ T # {}
  <2>1. \A n \in S : IsFiniteSet(1 .. n) /\ 1 .. n \subseteq Nat
    BY FS_Interval
  <2> QED
    BY <2>1 DEF FiniteSubsetsOf
<1>2. IsWellFoundedOn(R, FiniteSubsetsOf(Nat))
  BY FS_StrictSubsetOrderingWellFounded
<1> HIDE DEF R
<1>3. PICK s \in T : \A r \in T : ~(<<r, s>> \in R)
  BY <1>1, <1>2, WFMin
<1>4. PICK n \in S : s = 1 .. n
  BY <1>3
<1>5. ASSUME NEW y \in S, y < n PROVE FALSE
  <2>1. 1 .. y \in T
    BY <1>5
  <2>2. 1 .. y \subseteq 1 .. n /\ 1 .. y # 1 .. n
    <3>1. y \in Nat /\ n \in Nat /\ n \in 1 .. n /\ n \notin 1 .. y
      BY <1>5
    <3> QED
      BY <1>5, <3>1
  <2>3. 1 .. y \subseteq Nat /\ 1 .. n \subseteq Nat
    OBVIOUS
  <2>4. <<1 .. y, 1 .. n>> \in R
    BY <2>2, <2>3 DEF R, StrictSubsetOrdering
  <2> QED
    BY <1>3, <1>4, <2>1, <2>4
<1>6. \A y \in S : n <= y
  BY <1>5
<1> QED
  BY <1>4, <1>6 DEF Min

LEMMA FirstIn ==
  ASSUME NEW E, NEW order, order \in Seq(E), NEW S, S \cap ToSet(order) # {}
  PROVE  FirstOf(order, S) \in S
<1> DEFINE places == {i \in DOMAIN order : order[i] \in S}
<1>1. places \subseteq Nat /\ places # {}
  BY LenProperties DEF ToSet
<1>2. Min(places) \in places
  BY <1>1, LeastOf
<1> QED
  BY <1>2 DEF FirstOf

LEMMA FilesAre ==
  FileOrder \in Seq(Files) /\ ToSet(FileOrder) = Files
  /\ Files = {"helper", "extension", "manifest"}
<1>1. DOMAIN FileOrder = {1, 2, 3}
  BY DEF FileOrder
<1>2. Files = {"helper", "extension", "manifest"}
  BY <1>1 DEF Files, ToSet, FileOrder
<1> QED
  BY <1>2 DEF Files, FileOrder

LEMMA SetOfAppended ==
  ASSUME NEW E, NEW s, s \in Seq(E), NEW e, e \in E
  PROVE  /\ Append(s, e) \in Seq(E) /\ Len(Append(s, e)) = Len(s) + 1
         /\ ToSet(Append(s, e)) = ToSet(s) \cup {e}
         /\ e \notin ToSet(s) /\ IsInjective(s) => IsInjective(Append(s, e))
<1> DEFINE t == Append(s, e)
<1>1. /\ t \in Seq(E) /\ Len(t) = Len(s) + 1
      /\ \A i \in 1 .. Len(s) : t[i] = s[i]
      /\ t[Len(s) + 1] = e
  BY AppendProperties
<1>2. DOMAIN s = 1 .. Len(s) /\ DOMAIN t = 1 .. Len(t) /\ Len(s) \in Nat
  BY <1>1, LenProperties
<1> HIDE DEF t
<1>3. DOMAIN t = DOMAIN s \cup {Len(s) + 1} /\ Len(s) + 1 \notin DOMAIN s
  BY <1>1, <1>2
<1>4. ToSet(t) = ToSet(s) \cup {e}
  BY <1>1, <1>2, <1>3 DEF ToSet
<1>5. ASSUME e \notin ToSet(s), IsInjective(s) PROVE IsInjective(t)
  BY <1>1, <1>2, <1>3, <1>5 DEF ToSet, IsInjective
<1> QED
  BY <1>1, <1>4, <1>5 DEF t

LEMMA SetOfOne ==
  ASSUME NEW E, NEW e, e \in E
  PROVE  <<e>> \in Seq(E) /\ Len(<<e>>) = 1 /\ ToSet(<<e>>) = {e} /\ IsInjective(<<e>>)
<1>1. DOMAIN <<e>> = {1} /\ <<e>>[1] = e /\ <<e>> \in Seq(E) /\ Len(<<e>>) = 1
  OBVIOUS
<1> QED
  BY <1>1 DEF ToSet, IsInjective

\* One file of one generation is written or deleted.
LEMMA FileWritten ==
  ASSUME NEW g, NEW f, NEW content,
         files \in [Generations -> [Files -> Contents]], g \in Generations, f \in Files,
         content \in Contents, files' = [files EXCEPT ![g][f] = content]
  PROVE  /\ files' \in [Generations -> [Files -> Contents]]
         /\ \A h \in Generations, e \in Files :
              files'[h][e] = IF h = g /\ e = f THEN content ELSE files[h][e]
OBVIOUS

-----------------------------------------------------------------------------
(* Journals *)

Marks == {Absent, Torn}

\* What the steps of an operation need of its journal.
JournalSays(j) ==
  /\ j.action \in {"install", "uninstall", "cleanup"} /\ j.had \in BOOLEAN /\ j \notin Marks
  /\ \A r \in {j.previous, j.next} : r = Absent \/ ValidReceipt(r)
  /\ j.previous # Torn /\ j.next # Torn
  /\ Listed(j.previous) \subseteq Generations /\ Listed(j.next) \subseteq Generations
  /\ j.previous # Absent => j.previous.current \in Listed(j.previous)
  /\ Old(j) \in {Absent} \cup Listed(j.previous)
  /\ Old(j) # Absent => j.had /\ j.previous # Absent /\ Old(j) = j.previous.current

InstallSays(j) ==
  /\ New(j) \in Generations /\ New(j) \notin Listed(j.previous)
  /\ j.next # Absent /\ Listed(j.next) = Listed(j.previous) \cup {New(j)}

RemovalSays(j) ==
  /\ j.previous # Absent
  /\ Selected(j) \subseteq Listed(j.previous)
  /\ Listed(j.previous) \subseteq Listed(j.next) \cup Selected(j)
  /\ j.action = "uninstall" => j.next = Absent
  /\ j.action # "uninstall" => j.previous.current \notin Selected(j)

LEMMA ReceiptSays ==
  ASSUME NEW r, ValidReceipt(r)
  PROVE  /\ r # Absent /\ r # Torn /\ r.generations \in Seq(Generations)
         /\ Len(r.generations) \in 1 .. MaxGenerations /\ IsInjective(r.generations)
         /\ Listed(r) = ToSet(r.generations)
         /\ Listed(r) \subseteq Generations
         /\ r.current \in Listed(r) /\ r.current \in Generations
<1>1. r \in Receipts /\ r # Absent /\ r # Torn
  BY MarksDiffer DEF ValidReceipt
<1>2. r.generations \in Seq(Generations) /\ r.current \in Generations
  BY <1>1 DEF Receipts
<1>3. \A i \in DOMAIN r.generations : r.generations[i] \in Generations
  BY <1>2, LenProperties, ElementOfSeq
<1>4. Listed(r) = ToSet(r.generations)
  BY <1>1 DEF Listed
<1> QED
  BY <1>1, <1>2, <1>3, <1>4 DEF ValidReceipt, ToSet

LEMMA ValidSays ==
  ASSUME NEW j, ValidJournal(j)
  PROVE  /\ JournalSays(j)
         /\ j.action = "install" => InstallSays(j)
         /\ j.action # "install" => RemovalSays(j)
<1>1. /\ j.action \in {"install", "uninstall", "cleanup"} /\ j.had \in BOOLEAN
      /\ j \notin Marks
      /\ j.previous \in Receipts \cup {Absent} /\ j.next \in Receipts \cup {Absent}
      /\ j.previous # Torn /\ j.next # Torn
  BY MarksDiffer, JournalMarks DEF ValidJournal, Journals, Marks
<1>2. \A r \in {j.previous, j.next} : r = Absent \/ ValidReceipt(r)
  BY <1>1 DEF ValidJournal
<1>3. \A r \in {j.previous, j.next} :
        Listed(r) \subseteq Generations /\ (r # Absent => r.current \in Listed(r))
  <2> TAKE r \in {j.previous, j.next}
  <2>1. CASE r = Absent
    BY <2>1 DEF Listed
  <2>2. CASE r # Absent
    BY <1>2, <2>2, ReceiptSays
  <2> QED
    BY <2>1, <2>2
<1>4. Old(j) # Absent => j.had /\ j.previous # Absent /\ Old(j) = j.previous.current
  BY <1>1 DEF Old, ValidJournal
<1>5. JournalSays(j)
  BY <1>1, <1>2, <1>3, <1>4 DEF JournalSays
<1>6. ASSUME j.action = "install" PROVE InstallSays(j)
  BY <1>3, <1>6 DEF InstallSays, ValidJournal, New
<1>7. ASSUME j.action # "install" PROVE RemovalSays(j)
  <2>1. j.previous # Absent /\ Selected(j) \subseteq Listed(j.previous)
    BY <1>1, <1>7 DEF Selected, ValidJournal
  <2>2. CASE j.action = "uninstall"
    BY <2>1, <2>2 DEF RemovalSays, Selected, ValidJournal
  <2>3. CASE j.action = "cleanup"
    <3>1. PICK g : g = j.previous.current
      OBVIOUS
    <3>2. j.next = [current |-> g, generations |-> <<g>>] /\ g \in Generations
      BY <1>1, <1>3, <2>1, <2>3, <3>1 DEF ValidJournal
    <3>3. <<g>> \in Seq(Generations)
      BY <3>2
    <3>4. j.next \in Receipts /\ j.next.current = g
      BY <3>2, <3>3 DEF Receipts
    <3>5. j.next # Absent /\ g \in Listed(j.next)
      BY <1>3, <3>4, MarksDiffer
    <3> QED
      BY <2>1, <2>3, <3>1, <3>5 DEF RemovalSays, Selected
  <2> QED
    BY <1>1, <1>7, <2>2, <2>3
<1> QED
  BY <1>5, <1>6, <1>7

LEMMA InstallIsValid ==
  ASSUME NEW r, r = Absent \/ ValidReceipt(r), NEW g \in Generations, g \notin Listed(r),
         Room(r), NEW had \in BOOLEAN, had => r # Absent,
         NEW j, j = [action |-> "install", previous |-> r,
                     next |-> [current |-> g,
                               generations |-> IF r = Absent THEN <<g>>
                                               ELSE Append(r.generations, g)],
                     had |-> had]
  PROVE  ValidJournal(j) /\ New(j) = g /\ j.previous = r /\ j.action = "install" /\ j.had = had
<1> DEFINE s == IF r = Absent THEN <<g>> ELSE Append(r.generations, g)
           next == [current |-> g, generations |-> s]
<1>1. /\ s \in Seq(Generations) /\ Len(s) \in 1 .. MaxGenerations /\ IsInjective(s)
      /\ ToSet(s) = Listed(r) \cup {g}
  <2>1. CASE r = Absent
    <3>1. s = <<g>> /\ Listed(r) = {}
      BY <2>1 DEF Listed
    <3> HIDE DEF s
    <3>2. s \in Seq(Generations) /\ Len(s) = 1 /\ ToSet(s) = {g} /\ IsInjective(s)
      BY <3>1, SetOfOne
    <3>3. 1 \in 1 .. MaxGenerations
      BY SetupBounds
    <3> QED
      BY <3>1, <3>2, <3>3
  <2>2. CASE r # Absent
    <3>1. s = Append(r.generations, g)
      BY <2>2
    <3>2. /\ r.generations \in Seq(Generations) /\ IsInjective(r.generations)
          /\ Listed(r) = ToSet(r.generations) /\ Len(r.generations) \in 1 .. MaxGenerations
          /\ Len(r.generations) < MaxGenerations
      BY <2>2, ReceiptSays DEF Room
    <3>3. s \in Seq(Generations) /\ Len(s) = Len(r.generations) + 1
          /\ ToSet(s) = ToSet(r.generations) \cup {g} /\ IsInjective(s)
      BY <3>1, <3>2, SetOfAppended
    <3> QED
      BY <3>2, <3>3, SetupBounds
  <2> QED
    BY <2>1, <2>2
<1> HIDE DEF s
<1>2. next \in Receipts
  BY <1>1 DEF Receipts
<1>3. next # Absent /\ next # Torn
  BY <1>2, MarksDiffer
<1>4. ValidReceipt(next) /\ Listed(next) = Listed(r) \cup {g}
  BY <1>1, <1>2, <1>3 DEF ValidReceipt, Listed, ToSet
<1>5. j = [action |-> "install", previous |-> r, next |-> next, had |-> had]
  BY DEF s
<1>6. next.current = g
  OBVIOUS
<1> HIDE DEF next
<1>7. j \in Journals
  BY <1>2, <1>5 DEF Journals, ValidReceipt
<1>8. j.action = "install" /\ j.previous = r /\ j.next = next /\ j.had = had
  BY <1>5
<1>9. \A q \in {j.previous, j.next} \ {Absent} : ValidReceipt(q)
  BY <1>4, <1>8
<1>10. New(j) = g /\ g \notin Listed(j.previous)
  BY <1>6, <1>8 DEF New
<1> QED
  BY <1>3, <1>4, <1>7, <1>8, <1>9, <1>10 DEF ValidJournal

LEMMA RemovalIsValid ==
  ASSUME NEW r, ValidReceipt(r), NEW action \in {"uninstall", "cleanup"},
         NEW had \in BOOLEAN,
         NEW j, j = [action |-> action, previous |-> r,
                     next |-> IF action = "uninstall" THEN Absent
                              ELSE [current |-> r.current, generations |-> <<r.current>>],
                     had |-> had]
  PROVE  ValidJournal(j) /\ j.previous = r /\ j.action = action
<1> DEFINE kept == [current |-> r.current, generations |-> <<r.current>>]
<1>1. r.current \in Generations /\ r # Absent /\ r \in Receipts
  BY ReceiptSays DEF ValidReceipt
<1>2. ValidReceipt(kept)
  <2>1. /\ <<r.current>> \in Seq(Generations) /\ Len(<<r.current>>) = 1
        /\ ToSet(<<r.current>>) = {r.current} /\ IsInjective(<<r.current>>)
    BY <1>1, SetOfOne
  <2> DEFINE s == <<r.current>>
  <2> HIDE DEF s
  <2>2. kept = [current |-> r.current, generations |-> s]
    BY DEF s
  <2>3. s \in Seq(Generations) /\ Len(s) = 1 /\ ToSet(s) = {r.current} /\ IsInjective(s)
    BY <2>1 DEF s
  <2> QED
    BY <1>1, <2>2, <2>3, SetupBounds DEF ValidReceipt, Receipts, ToSet
<1>3. kept \in Receipts
  BY <1>2 DEF ValidReceipt
<1>4. j = [action |-> action, previous |-> r,
           next |-> IF action = "uninstall" THEN Absent ELSE kept, had |-> had]
  OBVIOUS
<1>5. j.next = IF action = "uninstall" THEN Absent ELSE kept
  BY <1>4
<1>6. kept = [current |-> j.previous.current, generations |-> <<j.previous.current>>]
  BY <1>4
<1> HIDE DEF kept
<1>7. j \in Journals
  BY <1>1, <1>3, <1>4 DEF Journals
<1> QED
  BY <1>1, <1>2, <1>4, <1>5, <1>6, <1>7 DEF ValidJournal

-----------------------------------------------------------------------------
(* The inductive invariant *)

Standing(g) == g \in dirs /\ \A f \in Files : files[g][f] \in {"whole", "changed"}

\* What may be registered while j is on record, unless somebody else has changed it
\* or the key was left without its value.
Fits(value, j) ==
  value \in IF j.action = "install" THEN {Old(j), New(j)} ELSE {Absent, j.previous.current}

\* The generation a rollback would register again is still there.
PreviousKept(j) ==
  j.action = "install" /\ j.previous # Absent => Standing(j.previous.current)

OnRecord(j) ==
  /\ PreviousKept(j)
  /\ receipt \in {j.previous, j.next, Torn}
  /\ ~foreign => registration = EmptyKey \/ Fits(registration, j)

DurableTypes ==
  /\ registration \in Generations \cup {Absent, Foreign, EmptyKey}
  /\ receipt \in Marks \/ ValidReceipt(receipt)
  /\ journal \in Marks \/ ValidJournal(journal)
  /\ dirs \in SUBSET Generations
  /\ files \in [Generations -> [Files -> Contents]]
  /\ litter \in BOOLEAN
  /\ foreign \in BOOLEAN

FilesPlaced == \A g \in Generations, f \in Files : files[g][f] # "none" => g \in dirs

RegistrationWhole == registration \in Generations => Standing(registration)

\* A journal is torn before its operation has touched anything.
TornEarly ==
  journal = Torn /\ ~foreign => registration \in {Absent, Expected(receipt)} /\ receipt # Torn

\* What holds whether or not an operation is under way.
Lasting ==
  /\ DurableTypes
  /\ RegistrationWhole
  /\ FilesPlaced
  /\ NoOrphans
  /\ journal \notin Marks => OnRecord(journal)
  /\ TornEarly
  /\ ~foreign => registration # Foreign

InstallPlaces ==
  {"helper", "extension", "manifest", "probe", "register", "receipt",
   "undo", "undo_receipt", "undo_files", "undo_delete"}
RemovalPlaces == {"removal", "remove", "delete", "forget"}

\* The new generation of j is not registered, and these files of it are not written.
Unpublished(j, fresh) ==
  /\ New(j) \in dirs /\ registration # New(j)
  /\ \A f \in fresh : files[New(j)][f] = "none"

RolledBack(j) ==
  /\ registration # New(j)
  /\ ~foreign => registration = Old(j)

Unregistered(j) ==
  /\ registration \notin Selected(j)
  /\ ~foreign /\ j.action = "uninstall" => registration = Absent

Done(j) ==
  /\ receipt = j.next
  /\ ~foreign =>
       /\ j.action = "install" => registration = New(j)
       /\ j.action = "uninstall" => registration = Absent
  /\ j.action # "install" => Selected(j) \cap dirs = {}

Undone(j) ==
  /\ j.action = "install"
  /\ receipt = j.previous
  /\ ~foreign => registration = Old(j)
  /\ New(j) \notin dirs

Begun(j) ==
  /\ ValidJournal(j) /\ journal = Absent /\ receipt = j.previous
  /\ OnRecord(j)
  /\ ~foreign => registration \in {Absent, Expected(receipt)}
  /\ j.action = "install" => Unpublished(j, Files)

\* Where an operation with journal j is, and what it has done so far.
At(place, j) ==
  /\ place \in {"finish"} \cup InstallPlaces \cup RemovalPlaces
  /\ journal = j /\ ValidJournal(j)
  /\ place \in InstallPlaces => j.action = "install"
  /\ place \in RemovalPlaces => j.action # "install"
  /\ place = "helper" => Unpublished(j, Files)
  /\ place = "extension" => Unpublished(j, {"extension", "manifest"})
  /\ place = "manifest" => Unpublished(j, {"manifest"})
  /\ (place = "receipt" /\ ~foreign) => registration = New(j)
  /\ place \in {"undo_receipt", "undo_files", "undo_delete"} => RolledBack(j)
  /\ place \in {"undo_files", "undo_delete"} => receipt = j.previous
  /\ place = "undo_delete" => New(j) \in dirs
  /\ place \in {"remove", "delete", "forget"} => Unregistered(j)
  /\ place = "delete" => Selected(j) \cap dirs # {}
  /\ place = "forget" => Selected(j) \cap dirs = {}
  /\ place = "finish" => Done(j) \/ Undone(j)

Underway ==
  \/ pc = "idle" /\ work = Absent
  \/ /\ pc = "repair" /\ work \in Generations \cup {Absent}
     /\ journal = Absent /\ ValidReceipt(receipt)
  \/ pc = "journal" /\ Begun(work)
  \/ At(pc, work)

\* What the last look has found out about the effect to come.
Acting ==
  /\ act \in {"look", "set", "value", "empty", "key", "unlink"}
  /\ raced \in BOOLEAN
  /\ act = "set" =>
       \/ pc = "register" /\ Standing(New(work))
       \/ pc = "undo"
       \/ pc = "repair" /\ Standing(receipt.current)
  /\ act \in {"value", "empty", "key"} =>
       \/ pc = "undo" /\ Old(work) = Absent
       \/ pc = "removal" /\ work.action = "uninstall"
  /\ act \in {"set", "value", "key"} /\ ~raced => registration # Foreign
  /\ act = "unlink" =>
       /\ pc \in {"undo_delete", "delete"}
       /\ Condemned \in Generations
       /\ NextFile(Condemned) \in Files
       /\ ~raced => Known(Condemned, NextFile(Condemned))

Counted == crashes \in 0 .. MaxCrashes /\ faults \in 0 .. MaxFaults

Inv == Lasting /\ Underway /\ Acting /\ Counted

-----------------------------------------------------------------------------
(* What the effects of a step keep of Lasting *)

\* That somebody else has changed the registration is never forgotten.
HistoryGrows == foreign' \in BOOLEAN /\ (foreign => foreign')

LEMMA SameHistory ==
  ASSUME Lasting, foreign' = foreign
  PROVE  HistoryGrows
BY DEF HistoryGrows, Lasting, DurableTypes

LEMMA LitterKeeps ==
  ASSUME Lasting, HistoryGrows, UNCHANGED <<registration, receipt, journal, dirs, files>>,
         litter' \in BOOLEAN
  PROVE  Lasting'
<1>1. DurableTypes'
  BY DEF HistoryGrows, Lasting, DurableTypes
<1>2. RegistrationWhole' /\ FilesPlaced' /\ NoOrphans'
  BY DEF Lasting, RegistrationWhole, Standing, FilesPlaced, NoOrphans
<1>3. (journal \notin Marks => OnRecord(journal))'
  BY DEF HistoryGrows, Lasting, OnRecord, PreviousKept, Standing
<1>4. TornEarly'
  BY DEF HistoryGrows, Lasting, TornEarly
<1>5. (~foreign => registration # Foreign)'
  BY DEF HistoryGrows, Lasting
<1> QED
  BY <1>1, <1>2, <1>3, <1>4, <1>5 DEF Lasting

LEMMA NothingDurable ==
  ASSUME Lasting, UNCHANGED durable, HistoryGrows
  PROVE  Lasting'
<1>1. litter \in BOOLEAN
  BY DEF Lasting, DurableTypes
<1> QED
  BY <1>1, LitterKeeps DEF durable

LEMMA RegistrationKeeps ==
  ASSUME Lasting, HistoryGrows, journal # Torn \/ foreign',
         UNCHANGED <<receipt, journal, dirs, files, litter>>,
         registration' \in Generations \cup {Absent, Foreign, EmptyKey},
         registration' \in Generations => Standing(registration'),
         ~foreign' => /\ registration' # Foreign
                      /\ journal \notin Marks =>
                           registration' = EmptyKey \/ Fits(registration', journal)
  PROVE  Lasting'
<1>1. DurableTypes'
  BY DEF HistoryGrows, Lasting, DurableTypes
<1>2. RegistrationWhole' /\ FilesPlaced' /\ NoOrphans'
  BY DEF Lasting, RegistrationWhole, Standing, FilesPlaced, NoOrphans
<1>3. (journal \notin Marks => OnRecord(journal))'
  BY DEF Lasting, OnRecord, PreviousKept, Standing, Fits
<1>4. TornEarly'
  BY DEF TornEarly
<1> QED
  BY <1>1, <1>2, <1>3, <1>4 DEF Lasting

LEMMA FileKeeps ==
  ASSUME Lasting, HistoryGrows,
         UNCHANGED <<registration, receipt, journal, dirs, litter>>,
         NEW g \in Generations, NEW f \in Files, NEW content \in Contents,
         files' = [files EXCEPT ![g][f] = content],
         content # "none" => g \in dirs,
         content # "none" => \/ g \in Listed(receipt)
                             \/ /\ journal \notin Marks
                                /\ g \in Listed(journal.previous) \cup Listed(journal.next),
         content \in {"whole", "changed"} \/
           /\ registration # g
           /\ journal \notin Marks => ~(journal.action = "install" /\ journal.previous # Absent
                                        /\ journal.previous.current = g)
  PROVE  Lasting'
<1>2. /\ files' \in [Generations -> [Files -> Contents]]
      /\ \A h \in Generations, e \in Files :
           files'[h][e] = IF h = g /\ e = f THEN content ELSE files[h][e]
  BY FileWritten DEF Lasting, DurableTypes
<1>3. DurableTypes'
  BY <1>2 DEF HistoryGrows, Lasting, DurableTypes
<1>4. ASSUME NEW h \in Generations, Standing(h), h # g \/ content \in {"whole", "changed"}
      PROVE  Standing(h)'
  BY <1>2, <1>4 DEF Standing
<1>5. RegistrationWhole'
  BY <1>4 DEF Lasting, RegistrationWhole
<1>6. FilesPlaced'
  BY <1>2 DEF Lasting, FilesPlaced
<1>7. NoOrphans'
  <2> SUFFICES ASSUME NEW h \in Generations, NEW e \in Files, files'[h][e] # "none"
               PROVE  (\/ h \in Listed(receipt)
                       \/ /\ journal \notin Marks
                          /\ h \in Listed(journal.previous) \cup Listed(journal.next))
    BY DEF NoOrphans, Marks
  <2>1. CASE h = g /\ content # "none"
    BY <2>1
  <2>2. CASE files[h][e] # "none"
    BY <2>2 DEF Lasting, NoOrphans, Marks
  <2> QED
    BY <1>2, <2>1, <2>2
<1>8. (journal \notin Marks => OnRecord(journal))'
  <2> SUFFICES ASSUME journal \notin Marks PROVE OnRecord(journal)'
    OBVIOUS
  <2>1. OnRecord(journal) /\ ValidJournal(journal)
    BY DEF Lasting, DurableTypes
  <2>2. PICK old : old = journal.previous.current
    OBVIOUS
  <2>3. journal.action = "install" /\ journal.previous # Absent =>
          Standing(old) /\ old \in Generations
    BY <2>1, <2>2, ValidSays DEF OnRecord, PreviousKept, JournalSays
  <2>4. journal.action = "install" /\ journal.previous # Absent => Standing(old)'
    BY <1>4, <2>2, <2>3
  <2>5. PreviousKept(journal)'
    BY <2>2, <2>4 DEF PreviousKept, Standing
  <2> QED
    BY <2>1, <2>5 DEF HistoryGrows, OnRecord
<1>9. TornEarly'
  BY DEF HistoryGrows, Lasting, TornEarly
<1>10. (~foreign => registration # Foreign)'
  BY DEF HistoryGrows, Lasting
<1> QED
  BY <1>3, <1>5, <1>6, <1>7, <1>8, <1>9, <1>10 DEF Lasting

LEMMA ReceiptKeeps ==
  ASSUME Lasting, HistoryGrows, journal \notin Marks,
         UNCHANGED <<registration, journal, dirs, files>>, litter' \in BOOLEAN,
         receipt' \in {journal.previous, journal.next, Torn}
  PROVE  Lasting'
<1>1. ValidJournal(journal) /\ OnRecord(journal)
  BY DEF Lasting, DurableTypes
<1>2. JournalSays(journal)
  BY <1>1, ValidSays
<1>3. receipt' \in Marks \/ ValidReceipt(receipt')
  BY <1>2 DEF JournalSays, Marks
<1>4. DurableTypes'
  BY <1>3 DEF HistoryGrows, Lasting, DurableTypes, Marks
<1>5. RegistrationWhole' /\ FilesPlaced'
  BY DEF Lasting, RegistrationWhole, Standing, FilesPlaced
<1>6. NoOrphans'
  <2> SUFFICES ASSUME NEW h \in Generations, \E f \in Files : files[h][f] # "none"
               PROVE  h \in Listed(journal.previous) \cup Listed(journal.next)
    BY DEF NoOrphans, Marks
  <2>1. \/ h \in Listed(receipt)
        \/ h \in Listed(journal.previous) \cup Listed(journal.next)
    BY DEF Lasting, NoOrphans, Marks
  <2>2. receipt = Torn => Listed(receipt) = {}
    BY DEF Listed
  <2> QED
    BY <1>1, <2>1, <2>2 DEF OnRecord
<1>7. OnRecord(journal)'
  BY <1>1 DEF HistoryGrows, OnRecord, PreviousKept, Standing
<1>8. TornEarly'
  BY DEF TornEarly, Marks
<1>9. (~foreign => registration # Foreign)'
  BY DEF HistoryGrows, Lasting
<1> QED
  BY <1>4, <1>5, <1>6, <1>7, <1>8, <1>9 DEF Lasting

LEMMA JournalKeeps ==
  ASSUME Lasting, HistoryGrows, UNCHANGED <<registration, receipt, dirs, files, litter>>,
         journal' \in Marks \/ (ValidJournal(journal') /\ OnRecord(journal)'),
         TornEarly', NoOrphans'
  PROVE  Lasting'
<1>1. DurableTypes'
  BY DEF HistoryGrows, Lasting, DurableTypes
<1>2. RegistrationWhole' /\ FilesPlaced'
  BY DEF Lasting, RegistrationWhole, Standing, FilesPlaced
<1>3. (journal \notin Marks => OnRecord(journal))'
  BY DEF Marks
<1>4. (~foreign => registration # Foreign)'
  BY DEF HistoryGrows, Lasting
<1> QED
  BY <1>1, <1>2, <1>3, <1>4 DEF Lasting

LEMMA DirsKeep ==
  ASSUME Lasting, HistoryGrows, UNCHANGED <<registration, receipt, journal, files, litter>>,
         dirs' \subseteq Generations, RegistrationWhole', FilesPlaced',
         journal \notin Marks => PreviousKept(journal)'
  PROVE  Lasting'
<1>1. DurableTypes'
  BY DEF HistoryGrows, Lasting, DurableTypes
<1>2. NoOrphans'
  BY DEF Lasting, NoOrphans
<1>3. (journal \notin Marks => OnRecord(journal))'
  BY DEF HistoryGrows, Lasting, OnRecord, Marks
<1>4. TornEarly'
  BY DEF HistoryGrows, Lasting, TornEarly
<1>5. (~foreign => registration # Foreign)'
  BY DEF HistoryGrows, Lasting
<1> QED
  BY <1>1, <1>2, <1>3, <1>4, <1>5 DEF Lasting

-----------------------------------------------------------------------------
(* Beginning an operation *)

LEMMA GoesIdle ==
  ASSUME Goto("idle")
  PROVE  Underway'
BY DEF Goto, Underway

\* A look finds something else, and nothing is done.
LEMMA NothingDone ==
  ASSUME Lasting, UNCHANGED durable, NEW place, Proceed(place)
  PROVE  Lasting'
BY SameHistory, NothingDurable DEF Proceed

LEMMA Arrives ==
  ASSUME NEW place, NEW j, At(place, j)', pc' = place, work' = j
  PROVE  Underway'
BY DEF At, Underway

LEMMA ReadyReceipt ==
  ASSUME Lasting, Ready
  PROVE  /\ journal = Absent
         /\ receipt = Absent \/ ValidReceipt(receipt)
         /\ registration \in {Absent, Expected(receipt)} =>
              /\ registration # Absent => receipt # Absent /\ registration = receipt.current
BY DEF Lasting, DurableTypes, Ready, Marks, Expected

LEMMA InstallKeeps ==
  ASSUME Lasting, NEW g \in Generations, Install(g)
  PROVE  Lasting' /\ Underway'
<1> DEFINE had == registration # Absent
           next == [current |-> g,
                    generations |-> IF receipt = Absent THEN <<g>>
                                    ELSE Append(receipt.generations, g)]
<1>1. /\ Ready /\ registration \in {Absent, Expected(receipt)} /\ Room(receipt)
      /\ receipt # Absent => Whole(receipt.current)
      /\ g \notin dirs /\ g \notin Listed(receipt)
      /\ dirs' = dirs \cup {g} /\ pc' = "journal"
      /\ work' = [action |-> "install", previous |-> receipt, next |-> next, had |-> had]
      /\ UNCHANGED <<registration, receipt, journal, files, litter>>
      /\ foreign' = foreign
  BY DEF Install
<1>2. PICK j : j = work'
  OBVIOUS
<1>3. PICK r : r = receipt
  OBVIOUS
<1>4. journal = Absent /\ (r = Absent \/ ValidReceipt(r))
      /\ (had => r # Absent /\ registration = r.current)
  BY <1>1, <1>3, ReadyReceipt
<1>5. had \in BOOLEAN
  OBVIOUS
<1>6. ValidJournal(j) /\ New(j) = g /\ j.previous = r /\ j.action = "install" /\ j.had = had
  <2>1. j = [action |-> "install", previous |-> r,
             next |-> [current |-> g,
                       generations |-> IF r = Absent THEN <<g>> ELSE Append(r.generations, g)],
             had |-> had]
    BY <1>1, <1>2, <1>3
  <2> HIDE DEF had, next
  <2> QED
    BY <1>1, <1>3, <1>4, <1>5, <2>1, InstallIsValid
<1>7. HistoryGrows
  BY <1>1, SameHistory
<1>8. \A h : Standing(h) => Standing(h)'
  BY <1>1 DEF Standing
<1>9. RegistrationWhole' /\ FilesPlaced' /\ dirs' \subseteq Generations
  BY <1>1, <1>8 DEF Lasting, DurableTypes, RegistrationWhole, FilesPlaced
<1>10. Lasting'
  BY <1>1, <1>4, <1>7, <1>9, DirsKeep DEF Marks
<1>11. PreviousKept(j)'
  <2>1. PICK old : old = j.previous.current
    OBVIOUS
  <2>2. j.previous # Absent => Standing(old)'
    BY <1>1, <1>3, <1>6, <1>8, <2>1 DEF Whole, Standing
  <2> QED
    BY <2>1, <2>2 DEF PreviousKept, Standing
<1>12. Fits(registration, j)
  BY <1>4, <1>6 DEF Fits, Old
<1>13. OnRecord(j)'
  BY <1>1, <1>3, <1>6, <1>11, <1>12 DEF OnRecord, Fits
<1>14. Unpublished(j, Files)'
  <2>1. registration # g
    BY <1>1 DEF Lasting, RegistrationWhole, Standing
  <2>2. \A f \in Files : files[g][f] = "none"
    BY <1>1 DEF Lasting, FilesPlaced
  <2> QED
    BY <1>1, <1>6, <2>1, <2>2 DEF Unpublished
<1>15. Begun(j)'
  BY <1>1, <1>3, <1>4, <1>6, <1>13, <1>14 DEF Begun, Expected
<1>16. Underway'
  BY <1>1, <1>2, <1>15 DEF Underway, Begun
<1> QED
  BY <1>10, <1>16

LEMMA BeginRemovalKeeps ==
  ASSUME Lasting, NEW action \in {"uninstall", "cleanup"}, BeginRemoval(action)
  PROVE  Lasting' /\ Underway'
<1> DEFINE had == registration # Absent
<1>1. /\ Ready /\ receipt # Absent /\ registration \in {Absent, Expected(receipt)}
      /\ work' = [action |-> action, previous |-> receipt,
                  next |-> IF action = "uninstall" THEN Absent
                           ELSE [current |-> receipt.current,
                                 generations |-> <<receipt.current>>],
                  had |-> had]
      /\ pc' = "journal" /\ UNCHANGED durable
      /\ foreign' = foreign
  BY DEF BeginRemoval
<1>2. PICK j : j = work'
  OBVIOUS
<1>3. PICK r : r = receipt
  OBVIOUS
<1>4. journal = Absent /\ ValidReceipt(r) /\ registration \in {Absent, r.current}
  BY <1>1, <1>3, ReadyReceipt
<1>5. had \in BOOLEAN
  OBVIOUS
<1>6. ValidJournal(j) /\ j.previous = r /\ j.action = action
  <2>1. j = [action |-> action, previous |-> r,
             next |-> IF action = "uninstall" THEN Absent
                      ELSE [current |-> r.current, generations |-> <<r.current>>],
             had |-> had]
    BY <1>1, <1>2, <1>3
  <2> HIDE DEF had
  <2> QED
    BY <1>4, <1>5, <2>1, RemovalIsValid
<1>7. Lasting'
  BY <1>1, SameHistory, NothingDurable
<1>8. OnRecord(j)'
  BY <1>1, <1>3, <1>4, <1>6 DEF OnRecord, Fits, PreviousKept, durable
<1>9. Begun(j)'
  BY <1>1, <1>3, <1>4, <1>6, <1>8 DEF Begun, Expected, durable
<1> QED
  BY <1>1, <1>2, <1>7, <1>9 DEF Underway, Begun

LEMMA RecoverKeeps ==
  ASSUME Lasting, Recover
  PROVE  Lasting' /\ Underway'
<1>1. PICK j : j = journal
  OBVIOUS
<1>2. /\ j \notin Marks /\ work' = j /\ UNCHANGED durable
      /\ pc' = IF j.action = "install" THEN "undo" ELSE "removal"
      /\ foreign' = foreign
  BY <1>1 DEF Recover, Marks
<1>3. ValidJournal(j) /\ journal' = j
  BY <1>1, <1>2 DEF Lasting, DurableTypes, durable
<1>4. Lasting'
  BY <1>2, SameHistory, NothingDurable
<1>5. CASE j.action = "install"
  <2>1. At("undo", j)'
    BY <1>3, <1>5 DEF At, InstallPlaces, RemovalPlaces
  <2> QED
    BY <1>2, <1>4, <1>5, <2>1, Arrives
<1>6. CASE j.action # "install"
  <2>1. At("removal", j)'
    BY <1>3, <1>6 DEF At, InstallPlaces, RemovalPlaces
  <2> QED
    BY <1>2, <1>4, <1>6, <2>1, Arrives
<1> QED
  BY <1>5, <1>6

LEMMA RepairKeeps ==
  ASSUME Lasting, Repair
  PROVE  Lasting' /\ Underway'
<1>1. /\ Ready /\ receipt # Absent /\ registration \in {Absent} \cup Listed(receipt)
      /\ work' = registration /\ pc' = "repair" /\ UNCHANGED durable
      /\ foreign' = foreign
  BY DEF Repair
<1>2. journal = Absent /\ ValidReceipt(receipt)
  BY <1>1, ReadyReceipt
<1>3. registration \in Generations \cup {Absent}
  BY <1>1, <1>2, ReceiptSays
<1>4. Lasting'
  BY <1>1, SameHistory, NothingDurable
<1>5. ValidReceipt(receipt)'
  BY <1>1, <1>2 DEF durable
<1> QED
  BY <1>1, <1>2, <1>3, <1>4, <1>5 DEF Underway, durable

\* Every step of replace_if_unchanged: what it sets or deletes is in its place, and what
\* is registered meanwhile Firefox may start.
LEMMA ReplaceKeeps ==
  ASSUME Lasting, journal # Torn,
         NEW expected \in Generations \cup {Absent}, NEW desired \in Generations \cup {Absent},
         NEW next, NEW otherwise, ReplaceIfUnchanged(expected, desired, next, otherwise),
         UNCHANGED <<receipt, journal, dirs, files, litter>>,
         desired \in Generations /\ act = "set" => Standing(desired),
         act \in {"value", "empty", "key"} => desired = Absent,
         journal \notin Marks => Fits(expected, journal) /\ Fits(desired, journal)
  PROVE  /\ Lasting'
         /\ \/ registration' = desired /\ Proceed(next)
            \/ Proceed(otherwise)
            \/ Fault(otherwise)
            \/ /\ act = "look" /\ registration' # Foreign
               /\ IF desired = Absent THEN Then("value") ELSE Then("set")
            \/ act = "value" /\ Then("empty")
            \/ act = "empty" /\ Then("key") /\ registration' # Foreign
<1>1. Foreign \notin Generations /\ EmptyKey \notin Generations /\ Absent \notin Generations
      /\ Foreign # Absent /\ Foreign # EmptyKey
  BY MarksDiffer
<1>2. ASSUME foreign' = foreign,
             registration' \in {registration, EmptyKey} \/
               /\ registration' = Absent
               /\ journal \notin Marks => Fits(Absent, journal)
      PROVE  Lasting'
  <2>1. HistoryGrows
    BY <1>2, SameHistory
  <2>2. ASSUME ~foreign'
        PROVE  /\ registration' # Foreign
               /\ journal \notin Marks => registration' = EmptyKey \/ Fits(registration', journal)
    BY <1>1, <1>2, <2>2 DEF Lasting, OnRecord
  <2>3. registration' \in Generations => Standing(registration')
    BY <1>1, <1>2 DEF Lasting, RegistrationWhole
  <2>4. registration' \in Generations \cup {Absent, Foreign, EmptyKey}
    BY <1>2 DEF Lasting, DurableTypes
  <2> QED
    BY <2>1, <2>2, <2>3, <2>4, RegistrationKeeps
<1>3. ASSUME foreign' = foreign, registration' = desired, act = "set"
      PROVE  Lasting'
  <2>1. HistoryGrows
    BY <1>3, SameHistory
  <2> QED
    BY <1>1, <1>3, <2>1, RegistrationKeeps
<1>4. CASE LookRegistered(expected, desired, next, otherwise)
  <2>1. registration' \in {registration, EmptyKey} /\ foreign' = foreign
    BY <1>4 DEF LookRegistered, Proceed, Fault, Then
  <2>2. Lasting'
    BY <1>2, <2>1
  <2>3. Unchanged(expected) => registration # Foreign
    BY <1>1 DEF Unchanged
  <2> QED
    BY <1>1, <1>4, <2>2, <2>3 DEF LookRegistered, Unchanged
<1>5. CASE SetValue(expected, desired, next, otherwise)
  <2>1. act = "set" /\ foreign' = foreign
    BY <1>5 DEF SetValue, Proceed, Fault
  <2>2. \/ registration' \in {registration, desired}
        \/ registration' = Absent /\ expected = Absent
    BY <1>5 DEF SetValue
  <2>3. Lasting'
    BY <1>2, <1>3, <2>1, <2>2
  <2> QED
    BY <1>5, <2>3 DEF SetValue
<1>6. CASE DeleteValue(otherwise)
  <2>1. registration' \in {registration, EmptyKey} /\ foreign' = foreign
    BY <1>6 DEF DeleteValue, Proceed, Fault, Then
  <2> QED
    BY <1>2, <1>6, <2>1 DEF DeleteValue
<1>7. CASE LookEmpty(otherwise)
  <2>1. registration' = registration /\ foreign' = foreign
    BY <1>7 DEF LookEmpty, Proceed, Then
  <2> QED
    BY <1>1, <1>2, <1>7, <2>1 DEF LookEmpty
<1>8. CASE DeleteKey(next, otherwise)
  <2>1. desired = Absent /\ foreign' = foreign
    BY <1>8 DEF DeleteKey, Proceed, Fault
  <2>2. registration' \in {registration, Absent}
    BY <1>8 DEF DeleteKey
  <2>3. Lasting'
    BY <1>2, <2>1, <2>2
  <2> QED
    BY <1>8, <2>1, <2>3 DEF DeleteKey
<1> QED
  BY <1>4, <1>5, <1>6, <1>7, <1>8 DEF ReplaceIfUnchanged

\* Between a look and its effect an operation stays where it is.
LEMMA Stays ==
  ASSUME Underway, NEW effect, Then(effect), UNCHANGED <<receipt, journal, dirs, files>>,
         pc \in {"register", "undo", "removal", "repair"}
  PROVE  Underway'
<1>1. pc' = pc /\ work' = work
  BY DEF Then
<1>2. CASE pc = "repair"
  BY <1>1, <1>2 DEF Underway, At, InstallPlaces, RemovalPlaces
<1>3. CASE pc \in {"register", "undo", "removal"}
  <2>1. At(pc, work)
    BY <1>3 DEF Underway
  <2>2. At(pc, work)'
    BY <1>1, <1>3, <2>1 DEF At
  <2> QED
    BY <2>2 DEF Underway
<1> QED
  BY <1>2, <1>3

LEMMA RepairRegisterKeeps ==
  ASSUME Lasting, Underway, Acting, RepairRegister
  PROVE  Lasting' /\ Underway'
<1>1. pc = "repair" /\ UNCHANGED <<receipt, journal, dirs, files, litter>>
  BY DEF RepairRegister
<1>2. /\ journal = Absent /\ ValidReceipt(receipt) /\ journal # Torn
      /\ work \in Generations \cup {Absent}
  BY <1>1, MarksDiffer DEF Underway, At, InstallPlaces, RemovalPlaces
<1>3. PICK g : g = receipt.current
  OBVIOUS
<1>4. g \in Generations
  BY <1>2, <1>3, ReceiptSays
<1>5. \A effect : Then(effect) => Underway'
  BY <1>1, Stays
<1>6. \A place : place = "idle" /\ (Proceed(place) \/ Fault(place)) => Underway'
  BY GoesIdle DEF Proceed, Fault
<1>7. CASE UNCHANGED registration /\ Proceed("idle")
  BY <1>1, <1>6, <1>7, NothingDone DEF durable
<1>8. CASE ReplaceIfUnchanged(work, g, "idle", "idle")
  <2>1. act = "set" => Standing(g)
    BY <1>1, <1>3 DEF Acting
  <2>2. act \notin {"value", "empty", "key"}
    BY <1>1 DEF Acting
  <2>3. /\ Lasting'
        /\ \/ Proceed("idle") \/ Fault("idle")
           \/ \E effect : Then(effect)
    BY <1>1, <1>2, <1>4, <1>8, <2>1, <2>2, ReplaceKeeps DEF Marks
  <2> QED
    BY <1>5, <1>6, <2>3
<1> QED
  BY <1>3, <1>7, <1>8 DEF RepairRegister

-----------------------------------------------------------------------------
(* install *)

LEMMA Departs ==
  ASSUME Underway, pc \notin {"idle", "repair", "journal"}
  PROVE  At(pc, work)
BY DEF Underway

LEMMA WriteJournalKeeps ==
  ASSUME Lasting, Underway, WriteJournal
  PROVE  Lasting' /\ Underway'
<1>1. PICK j : j = work
  OBVIOUS
<1>2. /\ pc = "journal" /\ UNCHANGED <<registration, receipt, dirs, files, litter>>
      /\ \/ /\ journal' = j
            /\ Proceed(IF j.action = "install" THEN "helper" ELSE "removal")
         \/ journal' \in {Absent, Torn, j} /\ Fault("idle")
  BY <1>1 DEF WriteJournal
<1>3. Begun(j)
  BY <1>1, <1>2 DEF Underway, At, InstallPlaces, RemovalPlaces
<1>4. ValidJournal(j) /\ journal = Absent /\ OnRecord(j) /\ JournalSays(j)
  BY <1>3, ValidSays DEF Begun
<1>5. NoOrphans'
  BY <1>2, <1>4 DEF Lasting, NoOrphans
<1>6. HistoryGrows
  BY <1>2 DEF HistoryGrows, Lasting, DurableTypes, Proceed, Fault
<1>7. OnRecord(j)'
  BY <1>2, <1>4, <1>6 DEF OnRecord, PreviousKept, Standing, Fits, HistoryGrows
<1>8. journal' = j => OnRecord(journal)'
  BY <1>7 DEF OnRecord, PreviousKept, Standing, Fits
<1>9. TornEarly'
  BY <1>2, <1>3, <1>4, <1>6 DEF HistoryGrows, Begun, TornEarly, Expected, JournalSays
<1>10. journal' \in Marks \/ (ValidJournal(journal') /\ OnRecord(journal)')
  BY <1>2, <1>4, <1>8 DEF Marks
<1>11. Lasting'
  BY <1>2, <1>5, <1>6, <1>9, <1>10, JournalKeeps
<1>12. CASE Fault("idle")
  BY <1>11, <1>12, GoesIdle DEF Fault
<1>13. CASE journal' = j /\ Proceed("helper") /\ j.action = "install"
  <2>1. Unpublished(j, Files)'
    BY <1>2, <1>3, <1>13 DEF Begun, Unpublished
  <2>2. At("helper", j)'
    BY <1>4, <1>13, <2>1 DEF At, InstallPlaces, RemovalPlaces
  <2> QED
    BY <1>1, <1>11, <1>13, <2>2, Arrives DEF Proceed, Goto
<1>14. CASE journal' = j /\ Proceed("removal") /\ j.action # "install"
  <2>1. At("removal", j)'
    BY <1>4, <1>14 DEF At, InstallPlaces, RemovalPlaces
  <2> QED
    BY <1>1, <1>11, <1>14, <2>1, Arrives DEF Proceed, Goto
<1> QED
  BY <1>2, <1>12, <1>13, <1>14

\* A file of the new generation is written, whole or in part.
LEMMA NewFileKeeps ==
  ASSUME Lasting, HistoryGrows, NEW j, ValidJournal(j), journal = j, j.action = "install",
         NEW f \in Files, Unpublished(j, {f}),
         UNCHANGED <<registration, receipt, journal, dirs, litter>>,
         NEW content \in {"none", "bad", "whole"},
         files' = [files EXCEPT ![New(j)][f] = content]
  PROVE  Lasting'
<1>1. JournalSays(j) /\ InstallSays(j)
  BY ValidSays
<1>2. PICK g : g = New(j)
  OBVIOUS
<1>3. g \in Generations /\ g \in dirs /\ registration # g /\ content \in Contents
  BY <1>1, <1>2 DEF InstallSays, Unpublished, Contents
<1>4. j \notin Marks /\ g \in Listed(j.previous) \cup Listed(j.next)
  BY <1>1, <1>2 DEF InstallSays, JournalSays
<1>5. ~(j.previous # Absent /\ j.previous.current = g)
  BY <1>1, <1>2 DEF InstallSays, JournalSays
<1> QED
  BY <1>2, <1>3, <1>4, <1>5, FileKeeps

LEMMA WriteFileKeeps ==
  ASSUME Lasting, Underway, NEW f \in Files, WriteFile(f)
  PROVE  Lasting' /\ Underway'
<1>1. PICK j : j = work
  OBVIOUS
<1>2. /\ pc = f /\ UNCHANGED <<registration, receipt, journal, dirs, litter>>
      /\ \/ /\ files' = [files EXCEPT ![New(j)][f] = "whole"]
            /\ Proceed(CASE f = "helper" -> "extension"
                         [] f = "extension" -> "manifest"
                         [] f = "manifest" -> "probe")
         \/ \E content \in {"none", "bad", "whole"} :
              /\ files' = [files EXCEPT ![New(j)][f] = content]
              /\ Fault("undo")
  BY <1>1 DEF WriteFile
<1>3. f \in {"helper", "extension", "manifest"}
  BY FilesAre
<1>4. At(f, j)
  BY <1>1, <1>2, <1>3, Departs
<1>5. journal = j /\ ValidJournal(j) /\ j.action = "install" /\ j \notin Marks
  BY <1>3, <1>4, ValidSays DEF At, InstallPlaces, JournalSays
<1>6. Unpublished(j, {f})
  BY <1>3, <1>4, FilesAre DEF At, Unpublished
<1>7. HistoryGrows
  BY <1>2 DEF HistoryGrows, Lasting, DurableTypes, Proceed, Fault
<1>8. PICK content \in {"none", "bad", "whole"} :
        files' = [files EXCEPT ![New(j)][f] = content]
  BY <1>2
<1>9. Lasting'
  BY <1>2, <1>5, <1>6, <1>7, <1>8, NewFileKeeps
<1>10. CASE Fault("undo")
  <2>1. At("undo", j)'
    BY <1>2, <1>5 DEF At, InstallPlaces, RemovalPlaces
  <2> QED
    BY <1>1, <1>9, <1>10, <2>1, Arrives DEF Fault, Goto
<1>11. CASE Proceed(CASE f = "helper" -> "extension"
                      [] f = "extension" -> "manifest"
                      [] f = "manifest" -> "probe")
  <2>1. \A e \in Files \ {f} : files'[New(j)][e] = files[New(j)][e]
    <3>1. PICK g : g = New(j)
      OBVIOUS
    <3>2. g \in Generations
      BY <1>5, <3>1, ValidSays DEF InstallSays
    <3>3. \A h \in Generations, e \in Files :
             files'[h][e] = IF h = g /\ e = f THEN content ELSE files[h][e]
      BY <1>8, <3>1, <3>2, FileWritten DEF Lasting, DurableTypes, Contents
    <3> QED
      BY <3>1, <3>2, <3>3
  <2>2. CASE f = "helper"
    <3>1. Unpublished(j, {"extension", "manifest"})'
      BY <1>2, <1>4, <2>1, <2>2, FilesAre DEF At, Unpublished
    <3>2. At("extension", j)'
      BY <1>2, <1>5, <3>1 DEF At, InstallPlaces, RemovalPlaces
    <3>3. pc' = "extension" /\ work' = j
      BY <1>1, <1>11, <2>2 DEF Proceed, Goto
    <3> QED
      BY <1>9, <3>2, <3>3, Arrives
  <2>3. CASE f = "extension"
    <3>1. Unpublished(j, {"manifest"})'
      BY <1>2, <1>4, <2>1, <2>3, FilesAre DEF At, Unpublished
    <3>2. At("manifest", j)'
      BY <1>2, <1>5, <3>1 DEF At, InstallPlaces, RemovalPlaces
    <3>3. pc' = "manifest" /\ work' = j
      BY <1>1, <1>11, <2>3 DEF Proceed, Goto
    <3> QED
      BY <1>9, <3>2, <3>3, Arrives
  <2>4. CASE f = "manifest"
    <3>1. At("probe", j)'
      BY <1>2, <1>5 DEF At, InstallPlaces, RemovalPlaces
    <3>2. pc' = "probe" /\ work' = j
      BY <1>1, <1>11, <2>4 DEF Proceed, Goto
    <3> QED
      BY <1>9, <3>1, <3>2, Arrives
  <2> QED
    BY <1>3, <2>2, <2>3, <2>4
<1> QED
  BY <1>2, <1>10, <1>11

LEMMA ProbeKeeps ==
  ASSUME Lasting, Underway, Probe
  PROVE  Lasting' /\ Underway'
<1>1. PICK j : j = work
  OBVIOUS
<1>2. /\ pc = "probe" /\ UNCHANGED durable /\ foreign' = foreign
      /\ pc' \in {"register", "undo"} /\ work' = j
  BY <1>1 DEF Probe, Proceed, Goto
<1>3. At("probe", j)
  BY <1>1, <1>2, Departs
<1>4. At("register", j)' /\ At("undo", j)'
  BY <1>2, <1>3 DEF At, InstallPlaces, RemovalPlaces, durable
<1>5. Lasting'
  BY <1>2, SameHistory, NothingDurable
<1> QED
  BY <1>2, <1>4, <1>5, Arrives

LEMMA RegisterKeeps ==
  ASSUME Lasting, Underway, Acting, Register
  PROVE  Lasting' /\ Underway'
<1>1. PICK j : j = work
  OBVIOUS
<1>2. pc = "register" /\ UNCHANGED <<receipt, journal, dirs, files, litter>>
  BY DEF Register
<1>3. At("register", j)
  BY <1>1, <1>2, Departs
<1>4. journal = j /\ ValidJournal(j) /\ j.action = "install"
  BY <1>3 DEF At, InstallPlaces
<1>5. JournalSays(j) /\ InstallSays(j) /\ j # Torn
  BY <1>4, ValidSays DEF JournalSays, Marks
<1>6. /\ Old(j) \in Generations \cup {Absent} /\ New(j) \in Generations
      /\ Fits(Old(j), j) /\ Fits(New(j), j)
  BY <1>4, <1>5 DEF JournalSays, InstallSays, Fits
<1>7. ASSUME Proceed("undo") \/ Fault("undo") PROVE Underway'
  <2>1. At("undo", j)'
    BY <1>2, <1>4 DEF At, InstallPlaces, RemovalPlaces
  <2> QED
    BY <1>1, <1>7, <2>1, Arrives DEF Proceed, Fault, Goto
<1>8. CASE UNCHANGED registration /\ Proceed("undo")
  BY <1>2, <1>7, <1>8, NothingDone DEF durable
<1>9. CASE ReplaceIfUnchanged(Old(j), New(j), "receipt", "undo")
  <2>1. act = "set" => Standing(New(j))
    BY <1>1, <1>2 DEF Acting
  <2>2. act \notin {"value", "empty", "key"}
    BY <1>2 DEF Acting
  <2>3. /\ Lasting'
        /\ \/ registration' = New(j) /\ Proceed("receipt")
           \/ Proceed("undo") \/ Fault("undo")
           \/ \E effect : Then(effect)
    BY <1>2, <1>4, <1>5, <1>6, <1>9, <2>1, <2>2, ReplaceKeeps
  <2>4. CASE registration' = New(j) /\ Proceed("receipt")
    <3>1. At("receipt", j)'
      BY <1>2, <1>4, <2>4 DEF At, InstallPlaces, RemovalPlaces
    <3> QED
      BY <1>1, <2>3, <2>4, <3>1, Arrives DEF Proceed, Goto
  <2>5. CASE \E effect : Then(effect)
    BY <1>2, <2>3, <2>5, Stays
  <2> QED
    BY <1>7, <2>3, <2>4, <2>5
<1> QED
  BY <1>1, <1>8, <1>9 DEF Register

LEMMA WriteReceiptKeeps ==
  ASSUME Lasting, Underway, WriteReceipt
  PROVE  Lasting' /\ Underway'
<1>1. PICK j : j = work
  OBVIOUS
<1>2. /\ pc = "receipt" /\ UNCHANGED <<registration, journal, dirs, files>>
      /\ IF receipt = j.previous
         THEN \/ /\ receipt' = j.next
                 /\ Proceed("finish")
                 /\ UNCHANGED litter
              \/ /\ receipt' \in IF receipt = Absent THEN {Absent, Torn, j.next} ELSE {receipt}
                 /\ litter' \in {litter, litter \/ receipt # Absent}
                 /\ Fault("undo")
         ELSE UNCHANGED <<receipt, litter>> /\ Proceed("undo")
  BY <1>1 DEF WriteReceipt
<1>3. At("receipt", j)
  BY <1>1, <1>2, Departs
<1>4. journal = j /\ ValidJournal(j) /\ j.action = "install"
  BY <1>3 DEF At, InstallPlaces
<1>5. JournalSays(j) /\ j \notin Marks
  BY <1>4, ValidSays DEF JournalSays
<1>6. At("undo", j)'
  BY <1>2, <1>4 DEF At, InstallPlaces, RemovalPlaces
<1>7. litter \in BOOLEAN
  BY DEF Lasting, DurableTypes
<1>8. CASE receipt' = j.next /\ Proceed("finish") /\ UNCHANGED litter
  <2>1. HistoryGrows
    BY <1>8, SameHistory DEF Proceed
  <2>2. Lasting'
    BY <1>2, <1>4, <1>5, <1>7, <1>8, <2>1, ReceiptKeeps
  <2>3. Done(j)'
    BY <1>2, <1>3, <1>4, <1>8 DEF Done, At, Proceed
  <2>4. At("finish", j)'
    BY <1>2, <1>4, <2>3 DEF At, InstallPlaces, RemovalPlaces
  <2> QED
    BY <1>1, <1>8, <2>2, <2>4, Arrives DEF Proceed, Goto
<1>9. CASE /\ receipt = j.previous
           /\ receipt' \in IF receipt = Absent THEN {Absent, Torn, j.next} ELSE {receipt}
           /\ litter' \in {litter, litter \/ receipt # Absent}
           /\ Fault("undo")
  <2>1. HistoryGrows
    BY <1>9 DEF HistoryGrows, Lasting, DurableTypes, Fault
  <2>2. litter' \in BOOLEAN
    <3>1. (litter \/ receipt # Absent) \in BOOLEAN
      OBVIOUS
    <3> QED
      BY <1>7, <1>9, <3>1
  <2>3. receipt' \in {j.previous, j.next, Torn}
    BY <1>9
  <2>4. Lasting'
    BY <1>2, <1>4, <1>5, <2>1, <2>2, <2>3, ReceiptKeeps
  <2> QED
    BY <1>1, <1>6, <1>9, <2>4, Arrives DEF Fault, Goto
<1>10. CASE UNCHANGED <<receipt, litter>> /\ Proceed("undo")
  <2>1. UNCHANGED durable /\ foreign' = foreign
    BY <1>2, <1>10 DEF Proceed, durable
  <2>2. Lasting'
    BY <2>1, SameHistory, NothingDurable
  <2> QED
    BY <1>1, <1>6, <1>10, <2>2, Arrives DEF Proceed, Goto
<1> QED
  BY <1>2, <1>8, <1>9, <1>10

LEMMA FinishKeeps ==
  ASSUME Lasting, Underway, Finish
  PROVE  Lasting' /\ Underway'
<1>1. PICK j : j = work
  OBVIOUS
<1>2. /\ pc = "finish" /\ UNCHANGED <<registration, receipt, dirs, files, litter>>
      /\ \/ journal' = Absent /\ Proceed("idle")
         \/ UNCHANGED journal /\ Fault("idle")
  BY DEF Finish
<1>3. At("finish", j)
  BY <1>1, <1>2, Departs
<1>4. /\ journal = j /\ ValidJournal(j) /\ (Done(j) \/ Undone(j))
  BY <1>3 DEF At
<1>5. JournalSays(j) /\ j \notin Marks
  BY <1>4, ValidSays DEF JournalSays
<1>6. Underway' /\ foreign' = foreign
  BY <1>2, GoesIdle DEF Proceed, Fault
<1>7. CASE UNCHANGED journal
  BY <1>2, <1>6, <1>7, SameHistory, NothingDurable DEF durable
<1>8. CASE journal' = Absent
  <2>1. ASSUME NEW g \in Generations, \E f \in Files : files[g][f] # "none"
        PROVE  g \in Listed(receipt)
    <3>1. g \in dirs
      BY <2>1 DEF Lasting, FilesPlaced
    <3>2. g \in Listed(j.previous) \cup Listed(j.next)
      <4>1. \/ g \in Listed(receipt)
            \/ g \in Listed(j.previous) \cup Listed(j.next)
        BY <1>4, <2>1 DEF Lasting, NoOrphans
      <4> QED
        BY <1>4, <4>1 DEF Done, Undone
    <3>3. CASE j.action = "install"
      BY <1>4, <3>1, <3>2, <3>3, ValidSays DEF Done, Undone, InstallSays
    <3>4. CASE j.action # "install"
      <4>1. RemovalSays(j) /\ receipt = j.next /\ g \notin Selected(j)
        BY <1>4, <3>1, <3>4, ValidSays DEF Done, Undone
      <4> QED
        BY <3>2, <4>1 DEF RemovalSays
    <3> QED
      BY <3>3, <3>4
  <2>2. NoOrphans'
    BY <1>2, <2>1 DEF NoOrphans
  <2>3. Absent # Torn
    BY MarksDiffer
  <2>4. Lasting'
    BY <1>2, <1>6, <1>8, <2>2, <2>3, SameHistory, JournalKeeps DEF Marks, TornEarly
  <2> QED
    BY <1>6, <2>4
<1> QED
  BY <1>2, <1>7, <1>8

-----------------------------------------------------------------------------
(* rollback_install and finish_removal *)

LEMMA UndoRegistrationKeeps ==
  ASSUME Lasting, Underway, Acting, UndoRegistration
  PROVE  Lasting' /\ Underway'
<1>1. PICK j : j = work
  OBVIOUS
<1>2. pc = "undo" /\ UNCHANGED <<receipt, journal, dirs, files, litter>>
  BY DEF UndoRegistration
<1>3. At("undo", j)
  BY <1>1, <1>2, Departs
<1>4. journal = j /\ ValidJournal(j) /\ j.action = "install"
  BY <1>3 DEF At, InstallPlaces
<1>5. JournalSays(j) /\ InstallSays(j) /\ j \notin Marks /\ OnRecord(j)
  BY <1>4, ValidSays DEF JournalSays, Lasting
<1>6. /\ Old(j) \in Generations \cup {Absent} /\ New(j) \in Generations
      /\ Old(j) # New(j) /\ Fits(Old(j), j) /\ Fits(New(j), j)
  BY <1>4, <1>5, MarksDiffer DEF JournalSays, InstallSays, Fits
<1>7. Old(j) \in Generations => Standing(Old(j))
  <2>1. PICK g : g = Old(j)
    OBVIOUS
  <2>2. g \in Generations => j.previous # Absent /\ g = j.previous.current
    BY <1>5, <2>1, MarksDiffer DEF JournalSays
  <2> QED
    BY <1>4, <1>5, <2>1, <2>2 DEF OnRecord, PreviousKept
<1>8. ASSUME Lasting', registration' = Old(j), Proceed("undo_receipt") PROVE Underway'
  <2>1. RolledBack(j)'
    BY <1>6, <1>8 DEF RolledBack
  <2>2. At("undo_receipt", j)'
    BY <1>2, <1>4, <2>1 DEF At, InstallPlaces, RemovalPlaces
  <2> QED
    BY <1>1, <1>8, <2>2, Arrives DEF Proceed, Goto
<1>9. ASSUME Proceed("idle") \/ Fault("idle") PROVE Underway'
  BY <1>9, GoesIdle DEF Proceed, Fault
<1>10. CASE UNCHANGED registration /\ Proceed("idle")
  BY <1>2, <1>9, <1>10, NothingDone DEF durable
<1>11. CASE registration = Old(j) /\ UNCHANGED registration /\ Proceed("undo_receipt")
  BY <1>2, <1>8, <1>11, NothingDone DEF durable
<1>12. CASE ReplaceIfUnchanged(New(j), Old(j), "undo_receipt", "idle")
  <2>1. act \in {"value", "empty", "key"} => Old(j) = Absent
    BY <1>1, <1>2 DEF Acting
  <2>2. journal # Torn
    BY <1>4, <1>5 DEF Marks
  <2>3. /\ Lasting'
        /\ \/ registration' = Old(j) /\ Proceed("undo_receipt")
           \/ Proceed("idle") \/ Fault("idle")
           \/ \E effect : Then(effect)
    BY <1>2, <1>4, <1>6, <1>7, <1>12, <2>1, <2>2, ReplaceKeeps
  <2>4. CASE \E effect : Then(effect)
    BY <1>2, <2>3, <2>4, Stays
  <2> QED
    BY <1>8, <1>9, <2>3, <2>4
<1> QED
  BY <1>1, <1>10, <1>11, <1>12 DEF UndoRegistration

LEMMA UndoReceiptKeeps ==
  ASSUME Lasting, Underway, UndoReceipt
  PROVE  Lasting' /\ Underway'
<1>1. PICK j : j = work
  OBVIOUS
<1>2. /\ pc = "undo_receipt"
      /\ IF receipt \in Interrupted(j)
         THEN /\ \/ receipt' = j.previous /\ Proceed("undo_files") /\ UNCHANGED litter
                 \/ /\ receipt = j.next
                    /\ litter' \in {litter, litter \/ j.previous # Absent}
                    /\ UNCHANGED receipt
                    /\ Fault("idle")
              /\ UNCHANGED <<registration, journal, dirs, files>>
         ELSE Proceed("idle") /\ UNCHANGED durable
  BY <1>1 DEF UndoReceipt
<1>3. At("undo_receipt", j)
  BY <1>1, <1>2, Departs
<1>4. journal = j /\ ValidJournal(j) /\ j.action = "install"
  BY <1>3 DEF At, InstallPlaces
<1>5. j \notin Marks /\ OnRecord(j) /\ litter \in BOOLEAN
  BY <1>4, ValidSays DEF JournalSays, Lasting, DurableTypes
<1>6. CASE Proceed("idle") /\ UNCHANGED durable
  BY <1>6, NothingDone, GoesIdle DEF Proceed
<1>7. CASE /\ receipt' = j.previous /\ Proceed("undo_files") /\ UNCHANGED litter
           /\ UNCHANGED <<registration, journal, dirs, files>>
  <2>1. HistoryGrows
    BY <1>7, SameHistory DEF Proceed
  <2>2. Lasting'
    BY <1>4, <1>5, <1>7, <2>1, ReceiptKeeps
  <2>3. RolledBack(j)'
    BY <1>3, <1>7 DEF At, RolledBack, Proceed
  <2>4. At("undo_files", j)'
    BY <1>4, <1>7, <2>3 DEF At, InstallPlaces, RemovalPlaces
  <2> QED
    BY <1>1, <1>7, <2>2, <2>4, Arrives DEF Proceed, Goto
<1>8. CASE /\ litter' \in {litter, litter \/ j.previous # Absent}
           /\ UNCHANGED receipt /\ Fault("idle")
           /\ UNCHANGED <<registration, journal, dirs, files>>
  <2>1. (litter \/ j.previous # Absent) \in BOOLEAN
    OBVIOUS
  <2>2. HistoryGrows
    BY <1>8, SameHistory DEF Fault
  <2>3. Lasting'
    BY <1>5, <1>8, <2>1, <2>2, LitterKeeps
  <2> QED
    BY <1>8, <2>3, GoesIdle DEF Fault
<1> QED
  BY <1>2, <1>6, <1>7, <1>8

\* Generations are deleted one after the other; so far those of doomed that are left.
Deleting(doomed, order, j) ==
  /\ journal = j /\ ValidJournal(j)
  /\ order \in Seq(Generations) /\ doomed \subseteq ToSet(order) /\ doomed \subseteq Generations
  /\ registration \notin doomed
  /\ j.action = "install" => j.previous = Absent \/ j.previous.current \notin doomed

\* What verifying and deleting leave alone.
Remains(j) ==
  UNCHANGED <<registration, receipt, journal, foreign>> /\ work' = j

LEMMA VerifyNextKeeps ==
  ASSUME Lasting, NEW place, NEW order, NEW doomed, NEW deletion, NEW next, NEW j, j = work,
         Deleting(doomed, order, j), VerifyNext(place, order, doomed, deletion, next),
         deletion # "idle", next # "idle"
  PROVE  /\ Lasting'
         /\ \/ Underway'
            \/ Remains(j) /\ dirs' = dirs /\ pc' = next /\ doomed \cap dirs = {}
            \/ Remains(j) /\ dirs' = dirs /\ pc' = deletion /\ doomed \cap dirs # {}
<1> DEFINE left == doomed \cap dirs
<1>1. /\ UNCHANGED durable
      /\ \/ Proceed(next) /\ left = {}
         \/ Proceed(deletion) /\ left # {}
         \/ Proceed("idle")
  BY DEF VerifyNext
<1>2. Lasting'
  BY <1>1, NothingDone
<1>3. CASE Proceed("idle")
  BY <1>2, <1>3, GoesIdle DEF Proceed
<1>4. CASE Proceed(next) /\ left = {}
  BY <1>1, <1>2, <1>4 DEF Remains, Proceed, Goto, durable
<1>5. CASE Proceed(deletion) /\ left # {}
  BY <1>1, <1>2, <1>5 DEF Remains, Proceed, Goto, durable
<1> QED
  BY <1>1, <1>3, <1>4, <1>5

LEMMA NextGenerationIn ==
  ASSUME NEW order, NEW doomed, order \in Seq(Generations), doomed \subseteq ToSet(order),
         doomed \cap dirs # {}
  PROVE  NextGeneration(order, doomed) \in doomed \cap dirs
<1> DEFINE left == doomed \cap dirs
<1>1. left \cap ToSet(order) # {}
  OBVIOUS
<1> HIDE DEF left
<1>2. FirstOf(order, left) \in left
  BY <1>1, FirstIn
<1> QED
  BY <1>2 DEF NextGeneration, left

LEMMA NextFileIn ==
  ASSUME NEW g, Present(g) # {}
  PROVE  NextFile(g) \in Present(g) /\ NextFile(g) \in Files
<1> DEFINE present == Present(g)
<1>1. present \subseteq Files
  BY DEF Present
<1>2. present \cap ToSet(FileOrder) # {}
  BY <1>1, FilesAre
<1> HIDE DEF present
<1>3. FirstOf(FileOrder, present) \in present
  BY <1>2, FilesAre, FirstIn
<1> QED
  BY <1>1, <1>3 DEF NextFile, present

LEMMA DeleteNextKeeps ==
  ASSUME Lasting, NEW place, NEW order, NEW doomed, NEW verification, NEW j, j = work,
         Deleting(doomed, order, j), doomed \cap dirs # {},
         act = "unlink" => NextFile(NextGeneration(order, doomed)) \in Files,
         DeleteNext(place, order, doomed, verification),
         place # "idle", verification # "idle"
  PROVE  /\ Lasting'
         /\ \/ Underway'
            \/ Remains(j) /\ dirs' \subseteq dirs /\ pc' = verification
            \/ Remains(j) /\ dirs' = dirs /\ pc' = place
<1>1. PICK g : g = NextGeneration(order, doomed)
  OBVIOUS
<1>2. PICK present : present = Present(g)
  OBVIOUS
<1>3. PICK f : f = NextFile(g)
  OBVIOUS
<1>4. \/ UNCHANGED durable /\ (Proceed("idle") \/ Then("unlink")) /\ pc = place
      \/ /\ act = "unlink"
         /\ \/ files' = [files EXCEPT ![g][f] = "none"] /\ Proceed(place)
            \/ UNCHANGED files /\ Fault("idle")
         /\ UNCHANGED <<registration, receipt, journal, dirs, litter>>
      \/ /\ present = {}
         /\ \/ dirs' = dirs \ {g} /\ Proceed(verification)
            \/ UNCHANGED dirs /\ Fault("idle")
         /\ UNCHANGED <<registration, receipt, journal, files, litter>>
  BY <1>1, <1>2, <1>3 DEF DeleteNext
<1>5. g \in doomed /\ g \in dirs /\ g \in Generations
  BY <1>1, NextGenerationIn DEF Deleting
<1>6. act = "unlink" => f \in Files
  BY <1>1, <1>3
<1>7. /\ journal = j /\ registration # g
      /\ j.action = "install" /\ j.previous # Absent => j.previous.current # g
  BY <1>5 DEF Deleting
<1>8. CASE /\ present = {} /\ dirs' = dirs \ {g} /\ Proceed(verification)
           /\ UNCHANGED <<registration, receipt, journal, files, litter>>
  <2>1. ASSUME NEW h, h # g, Standing(h) PROVE Standing(h)'
    BY <1>8, <2>1 DEF Standing
  <2>2. RegistrationWhole'
    BY <1>7, <1>8, <2>1 DEF Lasting, RegistrationWhole
  <2>3. FilesPlaced'
    BY <1>2, <1>8 DEF Lasting, FilesPlaced, Present
  <2>4. ASSUME journal \notin Marks PROVE PreviousKept(journal)'
    <3>1. PreviousKept(j)
      BY <1>7, <2>4 DEF Lasting, OnRecord
    <3>2. PICK old : old = j.previous.current
      OBVIOUS
    <3>3. j.action = "install" /\ j.previous # Absent => Standing(old)'
      BY <1>7, <2>1, <3>1, <3>2 DEF PreviousKept
    <3> QED
      BY <1>7, <1>8, <3>2, <3>3 DEF PreviousKept, Standing
  <2>5. dirs' \subseteq Generations
    BY <1>8 DEF Lasting, DurableTypes
  <2>6. HistoryGrows
    BY <1>8, SameHistory DEF Proceed
  <2>7. Lasting'
    BY <1>8, <2>2, <2>3, <2>4, <2>5, <2>6, DirsKeep
  <2> QED
    BY <1>8, <2>7 DEF Remains, Proceed, Goto
<1>9. CASE /\ act = "unlink" /\ files' = [files EXCEPT ![g][f] = "none"] /\ Proceed(place)
           /\ UNCHANGED <<registration, receipt, journal, dirs, litter>>
  <2>1. HistoryGrows
    BY <1>9, SameHistory DEF Proceed
  <2>2. "none" \in Contents
    BY DEF Contents
  <2>3. Lasting'
    BY <1>5, <1>6, <1>7, <1>9, <2>1, <2>2, FileKeeps
  <2> QED
    BY <1>9, <2>3 DEF Remains, Proceed, Goto
<1>10. CASE UNCHANGED durable /\ Fault("idle")
  <2>1. Lasting'
    BY <1>10, SameHistory, NothingDurable DEF Fault
  <2> QED
    BY <1>10, <2>1, GoesIdle DEF Fault
<1>11. CASE UNCHANGED durable /\ Proceed("idle")
  BY <1>11, NothingDone, GoesIdle DEF Proceed
<1>12. CASE UNCHANGED durable /\ Then("unlink") /\ pc = place
  <2>1. Lasting'
    BY <1>12, SameHistory, NothingDurable DEF Then
  <2> QED
    BY <1>12, <2>1 DEF Remains, Then, durable
<1> QED
  BY <1>4, <1>8, <1>9, <1>10, <1>11, <1>12 DEF durable

LEMMA UndoFilesKeeps ==
  ASSUME Lasting, Underway, Acting, UndoFiles
  PROVE  Lasting' /\ Underway'
<1>1. PICK j : j = work
  OBVIOUS
<1>2. PICK new : new = New(j)
  OBVIOUS
<1>3. \/ VerifyNext("undo_files", <<new>>, {new}, "undo_delete", "finish")
      \/ DeleteNext("undo_delete", <<new>>, {new}, "undo_files")
  BY <1>1, <1>2 DEF UndoFiles
<1>4. pc \in {"undo_files", "undo_delete"}
  BY <1>3 DEF VerifyNext, DeleteNext
<1>5. At(pc, j)
  BY <1>1, <1>4, Departs
<1>6. /\ journal = j /\ ValidJournal(j) /\ j.action = "install"
      /\ RolledBack(j) /\ receipt = j.previous
  BY <1>4, <1>5 DEF At, InstallPlaces
<1>7. JournalSays(j) /\ InstallSays(j)
  BY <1>6, ValidSays
<1>8. Deleting({new}, <<new>>, j)
  <2>1. new \in Generations /\ new \notin Listed(j.previous) /\ registration # new
    BY <1>2, <1>6, <1>7 DEF InstallSays, RolledBack
  <2>2. <<new>> \in Seq(Generations) /\ ToSet(<<new>>) = {new}
    BY <2>1, SetOfOne
  <2>3. j.previous = Absent \/ j.previous.current # new
    BY <1>7, <2>1 DEF JournalSays
  <2> QED
    BY <1>6, <2>1, <2>2, <2>3 DEF Deleting
<1>9. CASE VerifyNext("undo_files", <<new>>, {new}, "undo_delete", "finish")
  <2> DEFINE order == <<new>>
             doomed == {new}
  <2>1. /\ Deleting(doomed, order, j)
        /\ VerifyNext("undo_files", order, doomed, "undo_delete", "finish")
    BY <1>8, <1>9
  <2>2. \/ doomed \cap dirs # {} /\ new \in dirs
        \/ doomed \cap dirs = {} /\ new \notin dirs
    OBVIOUS
  <2> HIDE DEF order, doomed
  <2>3. /\ Lasting'
        /\ \/ Underway'
           \/ Remains(j) /\ dirs' = dirs /\ pc' = "finish" /\ doomed \cap dirs = {}
           \/ Remains(j) /\ dirs' = dirs /\ pc' = "undo_delete" /\ doomed \cap dirs # {}
    BY <1>1, <2>1, VerifyNextKeeps
  <2>4. CASE Remains(j) /\ dirs' = dirs /\ pc' = "finish" /\ doomed \cap dirs = {}
    <3>1. Undone(j)'
      BY <1>2, <1>6, <2>2, <2>4 DEF Undone, RolledBack, Remains
    <3>2. At("finish", j)'
      BY <1>6, <2>4, <3>1 DEF At, Remains, InstallPlaces, RemovalPlaces
    <3> QED
      BY <2>3, <2>4, <3>2, Arrives DEF Remains
  <2>5. CASE Remains(j) /\ dirs' = dirs /\ pc' = "undo_delete" /\ doomed \cap dirs # {}
    <3>1. RolledBack(j)' /\ New(j) \in dirs'
      BY <1>2, <1>6, <2>2, <2>5 DEF RolledBack, Remains
    <3>2. At("undo_delete", j)'
      BY <1>6, <2>5, <3>1 DEF At, Remains, InstallPlaces, RemovalPlaces
    <3> QED
      BY <2>3, <2>5, <3>2, Arrives DEF Remains
  <2> QED
    BY <2>3, <2>4, <2>5
<1>10. CASE DeleteNext("undo_delete", <<new>>, {new}, "undo_files")
  <2>1. pc = "undo_delete"
    BY <1>10 DEF DeleteNext
  <2>2. {new} \cap dirs # {}
    BY <1>2, <1>5, <2>1 DEF At
  <2> DEFINE order == <<new>>
             doomed == {new}
  <2>3. Deleting(doomed, order, j) /\ DeleteNext("undo_delete", order, doomed, "undo_files")
        /\ doomed \cap dirs # {}
    BY <1>8, <1>10, <2>2
  <2> HIDE DEF order, doomed
  <2>7. act = "unlink" => NextFile(NextGeneration(order, doomed)) \in Files
    <3>1. NextGeneration(order, doomed) = Condemned
      <4>1. NextGeneration(order, doomed) \in doomed
        BY <2>3, NextGenerationIn DEF Deleting
      <4> QED
        BY <1>1, <1>2, <2>1, <4>1 DEF Condemned, doomed
    <3> QED
      BY <3>1 DEF Acting
  <2>4. /\ Lasting'
        /\ \/ Underway'
           \/ Remains(j) /\ dirs' \subseteq dirs /\ pc' = "undo_files"
           \/ Remains(j) /\ dirs' = dirs /\ pc' = "undo_delete"
    BY <1>1, <2>3, <2>7, DeleteNextKeeps
  <2>5. CASE Remains(j) /\ pc' = "undo_files"
    <3>1. RolledBack(j)'
      BY <1>6, <2>5 DEF RolledBack, Remains
    <3>2. At("undo_files", j)'
      BY <1>6, <2>5, <3>1 DEF At, Remains, InstallPlaces, RemovalPlaces
    <3> QED
      BY <2>4, <2>5, <3>2, Arrives DEF Remains
  <2>6. CASE Remains(j) /\ dirs' = dirs /\ pc' = "undo_delete"
    <3>1. RolledBack(j)' /\ New(j) \in dirs'
      BY <1>5, <1>6, <2>1, <2>6 DEF At, RolledBack, Remains
    <3>2. At("undo_delete", j)'
      BY <1>6, <2>6, <3>1 DEF At, Remains, InstallPlaces, RemovalPlaces
    <3> QED
      BY <2>4, <2>6, <3>2, Arrives DEF Remains
  <2> QED
    BY <2>4, <2>5, <2>6
<1> QED
  BY <1>3, <1>9, <1>10

LEMMA RemovalKeeps ==
  ASSUME Lasting, Underway, Acting, Removal
  PROVE  Lasting' /\ Underway'
<1>1. PICK j : j = work
  OBVIOUS
<1>2. pc = "removal" /\ UNCHANGED <<receipt, journal, dirs, files, litter>>
  BY DEF Removal
<1>3. At("removal", j)
  BY <1>1, <1>2, Departs
<1>4. journal = j /\ ValidJournal(j) /\ j.action # "install"
  BY <1>3 DEF At, RemovalPlaces
<1>5. JournalSays(j) /\ RemovalSays(j) /\ j \notin Marks
  BY <1>4, ValidSays DEF JournalSays
<1>6. PICK g : g = j.previous.current
  OBVIOUS
<1>7. /\ g \in Generations /\ Absent \notin Generations
      /\ Fits(Absent, j) /\ Fits(g, j) /\ Selected(j) \subseteq Generations
  BY <1>4, <1>5, <1>6, MarksDiffer DEF JournalSays, RemovalSays, Fits
<1>8. ASSUME Unregistered(j)', Proceed("remove") PROVE Underway'
  <2>1. At("remove", j)'
    BY <1>2, <1>4, <1>8 DEF At, InstallPlaces, RemovalPlaces
  <2> QED
    BY <1>1, <1>8, <2>1, Arrives DEF Proceed, Goto
<1>9. ASSUME Proceed("idle") \/ Fault("idle") PROVE Underway'
  BY <1>9, GoesIdle DEF Proceed, Fault
<1>10. CASE UNCHANGED registration /\ Proceed("idle")
  BY <1>2, <1>9, <1>10, NothingDone DEF durable
<1>11. CASE /\ RemovalAllowed(j)
            /\ j.action = "cleanup" \/ registration = Absent
            /\ UNCHANGED registration /\ Proceed("remove")
  <2>1. Unregistered(j)'
    BY <1>5, <1>6, <1>7, <1>11 DEF RemovalAllowed, Unregistered, RemovalSays, Proceed
  <2> QED
    BY <1>2, <1>8, <1>11, <2>1, NothingDone DEF durable
<1>12. CASE ReplaceIfUnchanged(g, Absent, "remove", "idle")
  <2>1. act # "set"
    BY <1>2 DEF Acting
  <2>2. journal # Torn
    BY <1>4, <1>5 DEF Marks
  <2>3. /\ Lasting'
        /\ \/ registration' = Absent /\ Proceed("remove")
           \/ Proceed("idle") \/ Fault("idle")
           \/ \E effect : Then(effect)
    BY <1>2, <1>4, <1>7, <1>12, <2>1, <2>2, ReplaceKeeps
  <2>4. CASE registration' = Absent /\ Proceed("remove")
    <3>1. Unregistered(j)'
      BY <1>7, <2>4 DEF Unregistered
    <3> QED
      BY <1>8, <2>3, <2>4, <3>1
  <2>5. CASE \E effect : Then(effect)
    BY <1>2, <2>3, <2>5, Stays
  <2> QED
    BY <1>9, <2>3, <2>4, <2>5
<1> QED
  BY <1>1, <1>6, <1>10, <1>11, <1>12 DEF Removal

LEMMA RemoveSelectedKeeps ==
  ASSUME Lasting, Underway, Acting, RemoveSelected
  PROVE  Lasting' /\ Underway'
<1>1. PICK j : j = work
  OBVIOUS
<1>2. PICK order : order = j.previous.generations
  OBVIOUS
<1>3. PICK doomed : doomed = Selected(j)
  OBVIOUS
<1>4. \/ VerifyNext("remove", order, doomed, "delete", "forget")
      \/ DeleteNext("delete", order, doomed, "remove")
  BY <1>1, <1>2, <1>3 DEF RemoveSelected
<1>5. pc \in {"remove", "delete"}
  BY <1>4 DEF VerifyNext, DeleteNext
<1>6. At(pc, j)
  BY <1>1, <1>5, Departs
<1>7. journal = j /\ ValidJournal(j) /\ j.action # "install" /\ Unregistered(j)
  BY <1>5, <1>6 DEF At, RemovalPlaces
<1>8. JournalSays(j) /\ RemovalSays(j)
  BY <1>7, ValidSays
<1>9. Deleting(doomed, order, j)
  <2>1. ValidReceipt(j.previous)
    BY <1>8 DEF JournalSays, RemovalSays
  <2>2. order \in Seq(Generations) /\ Listed(j.previous) = ToSet(order)
    BY <1>2, <2>1, ReceiptSays
  <2>3. doomed \subseteq Listed(j.previous) /\ doomed \subseteq Generations
    BY <1>3, <1>8 DEF JournalSays, RemovalSays
  <2> QED
    BY <1>3, <1>7, <2>2, <2>3 DEF Deleting, Unregistered
<1>10. Remains(j) => Unregistered(j)'
  BY <1>7 DEF Remains, Unregistered
<1>11. CASE VerifyNext("remove", order, doomed, "delete", "forget")
  <2>1. /\ Lasting'
        /\ \/ Underway'
           \/ Remains(j) /\ dirs' = dirs /\ pc' = "forget" /\ doomed \cap dirs = {}
           \/ Remains(j) /\ dirs' = dirs /\ pc' = "delete" /\ doomed \cap dirs # {}
    BY <1>1, <1>9, <1>11, VerifyNextKeeps
  <2>2. CASE Remains(j) /\ dirs' = dirs /\ pc' = "forget" /\ doomed \cap dirs = {}
    <3>1. At("forget", j)'
      BY <1>3, <1>7, <1>10, <2>2 DEF At, Remains, InstallPlaces, RemovalPlaces
    <3> QED
      BY <2>1, <2>2, <3>1, Arrives DEF Remains
  <2>3. CASE Remains(j) /\ dirs' = dirs /\ pc' = "delete" /\ doomed \cap dirs # {}
    <3>1. At("delete", j)'
      BY <1>3, <1>7, <1>10, <2>3 DEF At, Remains, InstallPlaces, RemovalPlaces
    <3> QED
      BY <2>1, <2>3, <3>1, Arrives DEF Remains
  <2> QED
    BY <2>1, <2>2, <2>3
<1>12. CASE DeleteNext("delete", order, doomed, "remove")
  <2>1. pc = "delete" /\ doomed \cap dirs # {}
    BY <1>3, <1>6, <1>12 DEF DeleteNext, At
  <2>5. act = "unlink" => NextFile(NextGeneration(order, doomed)) \in Files
    BY <1>1, <1>2, <1>3, <2>1 DEF Acting, Condemned
  <2>2. /\ Lasting'
        /\ \/ Underway'
           \/ Remains(j) /\ dirs' \subseteq dirs /\ pc' = "remove"
           \/ Remains(j) /\ dirs' = dirs /\ pc' = "delete"
    BY <1>1, <1>9, <1>12, <2>1, <2>5, DeleteNextKeeps
  <2>3. CASE Remains(j) /\ pc' = "remove"
    <3>1. At("remove", j)'
      BY <1>7, <1>10, <2>3 DEF At, Remains, InstallPlaces, RemovalPlaces
    <3> QED
      BY <2>2, <2>3, <3>1, Arrives DEF Remains
  <2>4. CASE Remains(j) /\ dirs' = dirs /\ pc' = "delete"
    <3>1. At("delete", j)'
      BY <1>3, <1>7, <1>10, <2>1, <2>4 DEF At, Remains, InstallPlaces, RemovalPlaces
    <3> QED
      BY <2>2, <2>4, <3>1, Arrives DEF Remains
  <2> QED
    BY <2>2, <2>3, <2>4
<1> QED
  BY <1>4, <1>11, <1>12

LEMMA ForgetReceiptKeeps ==
  ASSUME Lasting, Underway, ForgetReceipt
  PROVE  Lasting' /\ Underway'
<1>1. PICK j : j = work
  OBVIOUS
<1>2. /\ pc = "forget"
      /\ \/ receipt' = j.next /\ Proceed("finish") /\ UNCHANGED litter
         \/ /\ litter' \in {litter, litter \/ j.next # Absent}
            /\ UNCHANGED receipt
            /\ Fault("idle")
      /\ UNCHANGED <<registration, journal, dirs, files>>
  BY <1>1 DEF ForgetReceipt
<1>3. At("forget", j)
  BY <1>1, <1>2, Departs
<1>4. journal = j /\ ValidJournal(j) /\ j.action # "install" /\ Unregistered(j)
      /\ Selected(j) \cap dirs = {}
  BY <1>3 DEF At, RemovalPlaces
<1>5. j \notin Marks /\ litter \in BOOLEAN
  BY <1>4, ValidSays DEF JournalSays, Lasting, DurableTypes
<1>6. CASE receipt' = j.next /\ Proceed("finish") /\ UNCHANGED litter
  <2>1. HistoryGrows
    BY <1>6, SameHistory DEF Proceed
  <2>2. Lasting'
    BY <1>2, <1>4, <1>5, <1>6, <2>1, ReceiptKeeps
  <2>3. Done(j)'
    BY <1>2, <1>4, <1>6 DEF Done, Unregistered, Proceed
  <2>4. At("finish", j)'
    BY <1>2, <1>4, <2>3 DEF At, InstallPlaces, RemovalPlaces
  <2> QED
    BY <1>1, <1>6, <2>2, <2>4, Arrives DEF Proceed, Goto
<1>7. CASE /\ litter' \in {litter, litter \/ j.next # Absent}
           /\ UNCHANGED receipt /\ Fault("idle")
  <2>1. (litter \/ j.next # Absent) \in BOOLEAN
    OBVIOUS
  <2>2. HistoryGrows
    BY <1>7, SameHistory DEF Fault
  <2>3. Lasting'
    BY <1>2, <1>5, <1>7, <2>1, <2>2, LitterKeeps
  <2> QED
    BY <1>7, <2>3, GoesIdle DEF Fault
<1> QED
  BY <1>2, <1>6, <1>7

-----------------------------------------------------------------------------
(* The process dies, and what others do *)

LEMMA CrashKeeps ==
  ASSUME Lasting, Underway, Crash
  PROVE  Lasting' /\ Underway'
<1>1. Underway' /\ foreign' = foreign
  BY GoesIdle DEF Crash
<1>2. HistoryGrows
  BY <1>1, SameHistory
<1>3. PICK j : j = work
  OBVIOUS
<1>4. CASE UNCHANGED durable
  BY <1>1, <1>2, <1>4, NothingDurable
<1>5. CASE /\ pc = "journal" /\ journal' = Torn
           /\ UNCHANGED <<registration, receipt, dirs, files, litter>>
  <2>1. Begun(j) /\ JournalSays(j)
    BY <1>3, <1>5, ValidSays DEF Underway, At, InstallPlaces, RemovalPlaces, Begun
  <2>2. NoOrphans'
    BY <1>5, <2>1 DEF Begun, Lasting, NoOrphans
  <2>3. TornEarly'
    BY <1>1, <1>5, <2>1 DEF Begun, TornEarly, Expected, JournalSays
  <2> QED
    BY <1>1, <1>2, <1>5, <2>2, <2>3, JournalKeeps DEF Marks
<1>6. CASE /\ pc \in Files /\ files' = [files EXCEPT ![New(j)][pc] = "bad"]
           /\ UNCHANGED <<registration, receipt, journal, dirs, litter>>
  <2>1. PICK f \in Files : f = pc
    BY <1>6
  <2>2. f \in {"helper", "extension", "manifest"}
    BY FilesAre
  <2>3. At(f, j)
    BY <1>3, <2>1, <2>2, Departs
  <2>4. journal = j /\ ValidJournal(j) /\ j.action = "install"
    BY <2>2, <2>3 DEF At, InstallPlaces
  <2>5. Unpublished(j, {f})
    BY <2>2, <2>3, FilesAre DEF At, Unpublished
  <2>6. files' = [files EXCEPT ![New(j)][f] = "bad"]
    BY <1>6, <2>1
  <2>7. "bad" \in {"none", "bad", "whole"}
    OBVIOUS
  <2> QED
    BY <1>1, <1>2, <1>6, <2>4, <2>5, <2>6, <2>7, NewFileKeeps
<1>7. CASE /\ pc = "receipt" /\ receipt' = Torn
           /\ UNCHANGED <<registration, journal, dirs, files, litter>>
  <2>1. At("receipt", j)
    BY <1>3, <1>7, Departs
  <2>2. journal = j /\ j \notin Marks /\ litter' \in BOOLEAN
    BY <1>7, <2>1, ValidSays DEF At, JournalSays, Lasting, DurableTypes
  <2> QED
    BY <1>1, <1>2, <1>7, <2>2, ReceiptKeeps
<1>8. CASE litter' = TRUE /\ UNCHANGED <<registration, receipt, journal, dirs, files>>
  BY <1>1, <1>2, <1>8, LitterKeeps
<1> QED
  BY <1>3, <1>4, <1>5, <1>6, <1>7, <1>8 DEF Crash

\* What another program does while an operation is under way.
Outside ==
  /\ UNCHANGED <<receipt, journal, dirs, pc, work, act>>
  /\ foreign' \in BOOLEAN /\ (foreign => foreign')
  /\ registration' \in {registration, Foreign, Absent}
  /\ registration' # registration => foreign'
  /\ \A g \in Generations, f \in Files :
       \/ files'[g][f] = files[g][f]
       \/ files[g][f] = "whole" /\ files'[g][f] = "changed"

LEMMA OutsideKeeps ==
  ASSUME Underway, Outside
  PROVE  Underway'
<1>1. PICK j : j = work
  OBVIOUS
<1>2. Foreign \notin Generations /\ Absent \notin Generations
  BY MarksDiffer
<1>3. CASE pc \in {"idle", "repair"}
  BY <1>3 DEF Underway, Outside, At, InstallPlaces, RemovalPlaces
<1>4. ASSUME j.action = "install", ValidJournal(j), NEW fresh, fresh \subseteq Files,
             Unpublished(j, fresh)
      PROVE  Unpublished(j, fresh)'
  <2>1. PICK g : g = New(j)
    OBVIOUS
  <2>2. g \in Generations
    BY <1>4, <2>1, ValidSays DEF InstallSays
  <2>3. \A f \in fresh : files'[g][f] = "none"
    BY <1>4, <2>1, <2>2 DEF Outside, Unpublished
  <2> QED
    BY <1>2, <1>4, <2>1, <2>2, <2>3 DEF Outside, Unpublished
<1>5. CASE pc = "journal"
  <2>1. Begun(j)
    BY <1>1, <1>5 DEF Underway, At, InstallPlaces, RemovalPlaces
  <2>2. ValidJournal(j) /\ OnRecord(j) /\ JournalSays(j)
    BY <2>1, ValidSays DEF Begun
  <2>3. PreviousKept(j)'
    <3>1. PICK old : old = j.previous.current
      OBVIOUS
    <3>2. j.action = "install" /\ j.previous # Absent => Standing(old) /\ old \in Generations
      BY <2>2, <3>1 DEF OnRecord, PreviousKept, JournalSays
    <3>3. old \in Generations /\ Standing(old) => Standing(old)'
      BY DEF Standing, Outside
    <3> QED
      BY <3>1, <3>2, <3>3 DEF PreviousKept, Standing
  <2>4. OnRecord(j)'
    BY <2>2, <2>3 DEF Outside, OnRecord, Fits
  <2>5. j.action = "install" => Unpublished(j, Files)'
    BY <1>4, <2>1, <2>2 DEF Begun
  <2>6. Begun(j)'
    BY <2>1, <2>4, <2>5 DEF Begun, Outside
  <2> QED
    BY <1>1, <1>5, <2>6 DEF Outside, Underway, Begun
<1>6. CASE pc \notin {"idle", "repair", "journal"}
  <2>1. PICK place : place = pc
    OBVIOUS
  <2>2. At(place, j)
    BY <1>1, <1>6, <2>1, Departs
  <2>3. ValidJournal(j) /\ journal = j
    BY <2>2 DEF At
  <2>4. /\ place = "helper" => Unpublished(j, Files)'
        /\ place = "extension" => Unpublished(j, {"extension", "manifest"})'
        /\ place = "manifest" => Unpublished(j, {"manifest"})'
    BY <1>4, <2>2, <2>3, FilesAre DEF At, InstallPlaces
  <2>5. (place = "receipt" /\ ~foreign') => registration' = New(j)
    BY <2>2 DEF At, Outside
  <2>6. place \in {"undo_receipt", "undo_files", "undo_delete"} => RolledBack(j)'
    <3> SUFFICES ASSUME place \in {"undo_receipt", "undo_files", "undo_delete"}
                 PROVE  RolledBack(j)'
      OBVIOUS
    <3>1. RolledBack(j) /\ j.action = "install"
      BY <2>2 DEF At, InstallPlaces
    <3>2. New(j) \in Generations
      BY <2>3, <3>1, ValidSays DEF InstallSays
    <3> QED
      BY <1>2, <3>1, <3>2 DEF Outside, RolledBack
  <2>7. place \in {"remove", "delete", "forget"} => Unregistered(j)'
    <3> SUFFICES ASSUME place \in {"remove", "delete", "forget"}
                 PROVE  Unregistered(j)'
      OBVIOUS
    <3>1. Unregistered(j) /\ j.action # "install"
      BY <2>2 DEF At, RemovalPlaces
    <3>2. Selected(j) \subseteq Generations
      BY <2>3, <3>1, ValidSays DEF JournalSays, RemovalSays
    <3> QED
      BY <1>2, <3>1, <3>2 DEF Outside, Unregistered
  <2>8. place = "finish" => (Done(j) \/ Undone(j))'
    <3>1. Done(j) => Done(j)'
      BY DEF Outside, Done
    <3>2. Undone(j) => Undone(j)'
      BY DEF Outside, Undone
    <3> QED
      BY <2>2, <3>1, <3>2 DEF At
  <2>9. At(place, j)'
    BY <2>2, <2>4, <2>5, <2>6, <2>7, <2>8 DEF At, Outside
  <2> QED
    BY <1>1, <2>1, <2>9, Arrives DEF Outside
<1> QED
  BY <1>3, <1>5, <1>6

LEMMA MeddleKeeps ==
  ASSUME Lasting, Underway, Meddle
  PROVE  Lasting' /\ Underway' /\ Outside
<1>1. UNCHANGED <<receipt, journal, dirs, litter, pc, work, act>>
  BY DEF Meddle
<1>2. CASE registration' = Foreign /\ foreign' = TRUE /\ UNCHANGED files
  <2>1. HistoryGrows
    BY <1>2 DEF HistoryGrows
  <2>2. Lasting'
    BY <1>1, <1>2, <2>1, MarksDiffer, RegistrationKeeps
  <2>3. Outside
    BY <1>1, <1>2 DEF Outside
  <2> QED
    BY <2>2, <2>3, OutsideKeeps
<1>3. ASSUME NEW g \in Generations, NEW f \in Files, files[g][f] = "whole",
             files' = [files EXCEPT ![g][f] = "changed"], UNCHANGED <<registration, foreign>>
      PROVE  Lasting' /\ Underway' /\ Outside
  <2>1. HistoryGrows
    BY <1>3, SameHistory
  <2>2. /\ g \in dirs /\ "changed" \in Contents
        /\ \/ g \in Listed(receipt)
           \/ /\ journal \notin Marks
              /\ g \in Listed(journal.previous) \cup Listed(journal.next)
    BY <1>3 DEF Lasting, FilesPlaced, NoOrphans, Contents, Marks
  <2>3. Lasting'
    BY <1>1, <1>3, <2>1, <2>2, FileKeeps
  <2>4. \A h \in Generations, e \in Files :
          files'[h][e] = IF h = g /\ e = f THEN "changed" ELSE files[h][e]
    BY <1>3, <2>2, FileWritten DEF Lasting, DurableTypes
  <2>5. Outside
    BY <1>1, <1>3, <2>1, <2>4 DEF HistoryGrows, Outside
  <2> QED
    BY <2>3, <2>5, OutsideKeeps
<1> QED
  BY <1>2, <1>3 DEF Meddle

LEMMA ForeignLeavesKeeps ==
  ASSUME Lasting, Underway, ForeignLeaves
  PROVE  Lasting' /\ Underway' /\ Outside
<1>1. /\ registration = Foreign /\ registration' = Absent
      /\ UNCHANGED <<receipt, journal, dirs, files, litter, pc, work, act>>
      /\ foreign' = foreign /\ foreign
  BY DEF ForeignLeaves, Lasting
<1>2. HistoryGrows
  BY <1>1, SameHistory
<1>3. Lasting'
  BY <1>1, <1>2, MarksDiffer, RegistrationKeeps
<1>4. Outside
  BY <1>1, <1>2 DEF HistoryGrows, Outside
<1> QED
  BY <1>3, <1>4, OutsideKeeps

-----------------------------------------------------------------------------
(* What the last look has found out *)

LEMMA LooksAgain ==
  ASSUME act' = "look", raced' = FALSE
  PROVE  Acting'
BY DEF Acting

LEMMA GotoLooks ==
  ASSUME NEW place, Goto(place) \/ Proceed(place) \/ Fault(place)
  PROVE  Acting'
BY LooksAgain DEF Goto, Proceed, Fault

LEMMA BeginsLooking ==
  ASSUME Acting, pc = "idle", UNCHANGED <<act, raced>>
  PROVE  Acting'
BY DEF Acting

\* A step of replace_if_unchanged at its place.
LEMMA ReplaceActs ==
  ASSUME Lasting, Lasting', Acting, NEW expected \in Generations \cup {Absent}, NEW desired,
         NEW next, NEW otherwise, ReplaceIfUnchanged(expected, desired, next, otherwise),
         UNCHANGED <<receipt, journal, dirs, files, litter>>,
         pc \in {"register", "undo", "removal", "repair"},
         desired = Absent =>
           \/ pc = "undo" /\ Old(work) = Absent
           \/ pc = "removal" /\ work.action = "uninstall",
         desired # Absent =>
           \/ pc = "register" /\ (act = "look" => Standing(New(work)))
           \/ pc = "undo"
           \/ pc = "repair" /\ (act = "look" => Standing(receipt.current))
  PROVE  Acting'
<1>1. Foreign \notin Generations /\ Foreign # Absent /\ Foreign # EmptyKey
  BY MarksDiffer
<1>2. CASE \E place : Proceed(place) \/ Fault(place)
  BY <1>2, GotoLooks
<1>3. \A g : Standing(g) => Standing(g)'
  BY DEF Standing
<1>4. CASE act = "look" /\ Unchanged(expected) /\ Then(IF desired = Absent THEN "value" ELSE "set")
           /\ registration' = IF expected = Absent THEN EmptyKey ELSE registration
  <2>1. registration' # Foreign /\ raced' = FALSE /\ pc' = pc /\ work' = work
    BY <1>1, <1>4 DEF Unchanged, Then
  <2>2. CASE desired = Absent
    BY <1>4, <2>1, <2>2 DEF Acting, Then, Old
  <2>3. CASE desired # Absent
    <3>1. act' = "set"
      BY <1>4, <2>3 DEF Then
    <3>2. \/ pc = "register" /\ Standing(New(work))'
          \/ pc = "undo"
          \/ pc = "repair" /\ Standing(receipt.current)'
      BY <1>4, <2>1, <2>3 DEF Standing, New
    <3> QED
      BY <2>1, <3>1, <3>2 DEF Acting
  <2> QED
    BY <2>2, <2>3
<1>5. CASE act = "value" /\ Then("empty")
  BY <1>5 DEF Acting, Then, Old
<1>6. CASE act = "empty" /\ registration' = EmptyKey /\ Then("key")
  BY <1>1, <1>6 DEF Acting, Then, Old
<1>7. CASE LookRegistered(expected, desired, next, otherwise)
  BY <1>2, <1>4, <1>7 DEF LookRegistered
<1>8. CASE SetValue(expected, desired, next, otherwise) \/ DeleteKey(next, otherwise)
  BY <1>2, <1>8 DEF SetValue, DeleteKey
<1>9. CASE DeleteValue(otherwise)
  BY <1>2, <1>5, <1>9 DEF DeleteValue
<1>10. CASE LookEmpty(otherwise)
  BY <1>2, <1>6, <1>10 DEF LookEmpty
<1> QED
  BY <1>7, <1>8, <1>9, <1>10 DEF ReplaceIfUnchanged

LEMMA RegistryActs ==
  ASSUME Lasting, Lasting', Underway, Acting,
         RepairRegister \/ Register \/ UndoRegistration \/ Removal
  PROVE  Acting'
<1>1. PICK j : j = work
  OBVIOUS
<1>2. \A g : Whole(g) => Standing(g)
  BY DEF Whole, Standing
<1>3. CASE RepairRegister
  <2>1. pc = "repair" /\ UNCHANGED <<receipt, journal, dirs, files, litter>>
    BY <1>3 DEF RepairRegister
  <2>2. work \in Generations \cup {Absent} /\ receipt.current # Absent
    BY <2>1, ReceiptSays, MarksDiffer DEF Underway, At, InstallPlaces, RemovalPlaces
  <2>3. CASE Proceed("idle")
    BY <2>3, GotoLooks
  <2>4. CASE /\ act = "look" => Whole(receipt.current)
             /\ ReplaceIfUnchanged(work, receipt.current, "idle", "idle")
    BY <1>2, <2>1, <2>2, <2>4, ReplaceActs
  <2> QED
    BY <1>3, <2>3, <2>4 DEF RepairRegister
<1>4. CASE Register
  <2>1. pc = "register" /\ UNCHANGED <<receipt, journal, dirs, files, litter>>
    BY <1>4 DEF Register
  <2>2. ValidJournal(j) /\ j.action = "install"
    BY <1>1, <2>1, Departs DEF At, InstallPlaces
  <2>3. Old(j) \in Generations \cup {Absent} /\ New(j) # Absent
    BY <2>2, ValidSays, MarksDiffer DEF JournalSays, InstallSays
  <2>4. CASE Proceed("undo")
    BY <2>4, GotoLooks
  <2>5. CASE /\ act = "look" => Whole(New(j))
             /\ ReplaceIfUnchanged(Old(j), New(j), "receipt", "undo")
    BY <1>1, <1>2, <2>1, <2>3, <2>5, ReplaceActs
  <2> QED
    BY <1>1, <1>4, <2>4, <2>5 DEF Register
<1>5. CASE UndoRegistration
  <2>1. pc = "undo" /\ UNCHANGED <<receipt, journal, dirs, files, litter>>
    BY <1>5 DEF UndoRegistration
  <2>2. ValidJournal(j) /\ j.action = "install"
    BY <1>1, <2>1, Departs DEF At, InstallPlaces
  <2>3. New(j) \in Generations
    BY <2>2, ValidSays DEF InstallSays
  <2>4. CASE \E place : Proceed(place)
    BY <2>4, GotoLooks
  <2>5. CASE ReplaceIfUnchanged(New(j), Old(j), "undo_receipt", "idle")
    BY <1>1, <2>1, <2>3, <2>5, ReplaceActs
  <2> QED
    BY <1>1, <1>5, <2>4, <2>5 DEF UndoRegistration
<1>6. CASE Removal
  <2>1. pc = "removal" /\ UNCHANGED <<receipt, journal, dirs, files, litter>>
    BY <1>6 DEF Removal
  <2>2. ValidJournal(j) /\ j.action # "install"
    BY <1>1, <2>1, Departs DEF At, RemovalPlaces
  <2>3. j.previous.current \in Generations
    BY <2>2, ValidSays DEF JournalSays, RemovalSays
  <2>4. CASE \E place : Proceed(place)
    BY <2>4, GotoLooks
  <2>5. CASE /\ act = "look" => j.action = "uninstall"
             /\ ReplaceIfUnchanged(j.previous.current, Absent, "remove", "idle")
    <3>1. act \in {"look", "value", "empty", "key"} => j.action = "uninstall"
      BY <1>1, <2>1, <2>5 DEF Acting
    <3>2. act \in {"look", "value", "empty", "key"}
      BY <2>1 DEF Acting
    <3> QED
      BY <1>1, <2>1, <2>3, <2>5, <3>1, <3>2, ReplaceActs
  <2> QED
    BY <1>1, <1>6, <2>4, <2>5 DEF Removal
<1> QED
  BY <1>3, <1>4, <1>5, <1>6

\* The file that a deletion goes on to delete is the one it has looked at.
LEMMA DeletionActs ==
  ASSUME NEW place, NEW order, NEW doomed, NEW verification,
         DeleteNext(place, order, doomed, verification),
         place \in {"undo_delete", "delete"},
         NextGeneration(order, doomed) = Condemned, Condemned \in Generations
  PROVE  Acting'
<1>1. PICK g : g = Condemned
  OBVIOUS
<1>2. CASE \E next : Proceed(next) \/ Fault(next)
  BY <1>2, GotoLooks
<1>3. CASE /\ Present(g) # {} /\ Known(g, NextFile(g)) /\ Then("unlink") /\ UNCHANGED durable
           /\ pc = place
  <2>1. UNCHANGED <<pc, work, dirs, files>> /\ act' = "unlink" /\ raced' = FALSE
    BY <1>3 DEF Then, durable
  <2>2. Condemned' = Condemned
    BY <2>1 DEF Condemned, NextGeneration, New, Selected, Listed
  <2>3. NextFile(g)' = NextFile(g) /\ Known(g, NextFile(g))'
    BY <1>3, <2>1 DEF NextFile, Present, Known
  <2>4. NextFile(g) \in Files
    BY <1>3, NextFileIn
  <2>5. Known(Condemned, NextFile(Condemned))' /\ NextFile(Condemned)' \in Files
    BY <1>1, <1>3, <2>1, <2>2, <2>4 DEF NextFile, Present, Known
  <2> QED
    BY <1>1, <1>3, <2>1, <2>2, <2>5 DEF Acting
<1> QED
  BY <1>1, <1>2, <1>3 DEF DeleteNext

\* Where a deletion is, by its place.
LEMMA Condemns ==
  ASSUME Underway, pc \in {"undo_delete", "delete"}
  PROVE  /\ Condemned \in Generations
         /\ pc = "undo_delete" => NextGeneration(<<New(work)>>, {New(work)}) = Condemned
         /\ pc = "delete" =>
              NextGeneration(work.previous.generations, Selected(work)) = Condemned
<1>1. At(pc, work) /\ ValidJournal(work)
  BY Departs DEF At
<1>2. CASE pc = "undo_delete"
  <2>1. PICK new : new = New(work)
    OBVIOUS
  <2>2. new \in Generations /\ new \in dirs
    BY <1>1, <1>2, <2>1, ValidSays DEF At, InstallPlaces, InstallSays
  <2>3. <<new>> \in Seq(Generations) /\ ToSet(<<new>>) = {new}
    BY <2>2, SetOfOne
  <2> DEFINE order == <<new>>
             doomed == {new}
  <2>4. order \in Seq(Generations) /\ doomed \subseteq ToSet(order) /\ doomed \cap dirs # {}
    BY <2>2, <2>3
  <2> HIDE DEF order, doomed
  <2>5. NextGeneration(order, doomed) \in doomed
    BY <2>4, NextGenerationIn
  <2>6. NextGeneration(order, doomed) = new
    BY <2>5 DEF doomed
  <2> QED
    BY <1>2, <2>1, <2>2, <2>6 DEF Condemned, order, doomed
<1>3. CASE pc = "delete"
  <2>1. PICK order : order = work.previous.generations
    OBVIOUS
  <2>2. PICK doomed : doomed = Selected(work)
    OBVIOUS
  <2>3. doomed \cap dirs # {} /\ RemovalSays(work) /\ JournalSays(work)
    BY <1>1, <1>3, <2>2, ValidSays DEF At, RemovalPlaces
  <2>4. order \in Seq(Generations) /\ Listed(work.previous) = ToSet(order)
    BY <2>1, <2>3, ReceiptSays DEF JournalSays, RemovalSays
  <2>5. doomed \subseteq ToSet(order) /\ doomed \subseteq Generations
    BY <2>2, <2>3, <2>4 DEF JournalSays, RemovalSays
  <2>6. NextGeneration(order, doomed) \in doomed
    BY <2>3, <2>4, <2>5, NextGenerationIn
  <2> QED
    BY <1>3, <2>1, <2>2, <2>5, <2>6 DEF Condemned
<1> QED
  BY <1>2, <1>3

\* What somebody else changes meanwhile has been outrun by it, or is something else.
LEMMA OutsideActs ==
  ASSUME Lasting, Underway, Acting, Outside, Meddle \/ ForeignLeaves
  PROVE  Acting'
<1>1. UNCHANGED <<pc, work, act, dirs, receipt>> /\ raced' \in BOOLEAN /\ (raced => raced')
  BY DEF Outside, Meddle, ForeignLeaves, Acting
<1>2. \A g \in Generations : Standing(g) => Standing(g)'
  BY DEF Outside, Standing
<1>3. act = "set" =>
        \/ pc = "register" /\ Standing(New(work))'
        \/ pc = "undo"
        \/ pc = "repair" /\ Standing(receipt.current)'
  <2>1. ASSUME pc = "register", act = "set" PROVE Standing(New(work))'
    <3>1. PICK g : g = New(work)
      OBVIOUS
    <3>2. g \in Generations
      BY <2>1, <3>1, Departs, ValidSays DEF At, InstallPlaces, InstallSays
    <3>3. Standing(g)'
      BY <1>2, <2>1, <3>1, <3>2 DEF Acting
    <3> QED
      BY <1>1, <3>1, <3>3 DEF Standing, New
  <2>2. ASSUME pc = "repair", act = "set" PROVE Standing(receipt.current)'
    <3>1. PICK g : g = receipt.current
      OBVIOUS
    <3>2. g \in Generations
      BY <2>2, <3>1, ReceiptSays DEF Underway, At, InstallPlaces, RemovalPlaces
    <3>3. Standing(g)'
      BY <1>2, <2>2, <3>1, <3>2 DEF Acting
    <3> QED
      BY <1>1, <3>1, <3>3 DEF Standing
  <2>3. act = "set" => pc \in {"register", "undo", "repair"}
    BY DEF Acting
  <2> QED
    BY <2>1, <2>2, <2>3
<1>4. act \in {"set", "value", "key"} /\ ~raced' => registration' # Foreign
  <2>1. Foreign # Absent
    BY MarksDiffer
  <2> QED
    BY <1>1, <2>1 DEF Acting, Meddle, ForeignLeaves
<1>5. ASSUME act = "unlink"
      PROVE  /\ Condemned' \in Generations
             /\ NextFile(Condemned)' \in Files
             /\ ~raced' => Known(Condemned, NextFile(Condemned))'
  <2>1. PICK g : g = Condemned
    OBVIOUS
  <2>2. PICK f : f = NextFile(g)
    OBVIOUS
  <2>3. g \in Generations /\ f \in Files /\ (~raced => Known(g, f))
    BY <1>5, <2>1, <2>2 DEF Acting
  <2>4. Condemned' = g
    BY <1>1, <2>1 DEF Condemned, NextGeneration, New, Selected, Listed
  <2>5. Present(g)' = Present(g)
    BY <2>3 DEF Outside, Present
  <2>6. NextFile(g)' = f
    BY <2>2, <2>5 DEF NextFile
  <2>7. NextFile(Condemned)' = f
    BY <2>4, <2>6 DEF NextFile, Present
  <2>8. ASSUME ~raced' PROVE files'[g][f] = files[g][f]
    <3>1. CASE UNCHANGED files
      BY <3>1
    <3>2. ASSUME NEW h \in Generations, NEW e \in Files,
                 files' = [files EXCEPT ![h][e] = "changed"],
                 raced' = (raced \/ (act = "unlink" /\ h = Condemned /\ e = NextFile(h)))
          PROVE  files'[g][f] = files[g][f]
      <4>1. ~(h = g /\ e = f)
        BY <1>5, <2>1, <2>2, <2>8, <3>2
      <4>2. "changed" \in Contents
        BY DEF Contents
      <4> QED
        BY <2>3, <3>2, <4>1, <4>2, FileWritten DEF Lasting, DurableTypes
    <3> QED
      BY <3>1, <3>2 DEF Meddle, ForeignLeaves
  <2> QED
    BY <1>1, <2>3, <2>4, <2>7, <2>8 DEF Known
<1> QED
  BY <1>1, <1>3, <1>4, <1>5 DEF Acting, Old

LEMMA ActingInductive ==
  ASSUME Lasting, Lasting', Underway, Acting, Next
  PROVE  Acting'
<1>1. CASE \/ \E g \in Generations : Install(g)
           \/ \E action \in {"uninstall", "cleanup"} : BeginRemoval(action)
           \/ Recover \/ Repair
  BY <1>1, BeginsLooking DEF Install, BeginRemoval, Recover, Repair
<1>2. CASE RepairRegister \/ Register \/ UndoRegistration \/ Removal
  BY <1>2, RegistryActs
<1>3. CASE WriteJournal \/ (\E f \in Files : WriteFile(f)) \/ Probe \/ WriteReceipt \/ Finish
  BY <1>3, GotoLooks DEF WriteJournal, WriteFile, Probe, WriteReceipt, Finish
<1>4. CASE UndoReceipt \/ ForgetReceipt \/ Crash
  BY <1>4, GotoLooks DEF UndoReceipt, ForgetReceipt, Crash
<1>5. ASSUME NEW place, NEW order, NEW doomed, NEW deletion, NEW next,
             VerifyNext(place, order, doomed, deletion, next)
      PROVE  Acting'
  BY <1>5, GotoLooks DEF VerifyNext
<1>6. ASSUME DeleteNext("undo_delete", <<New(work)>>, {New(work)}, "undo_files")
      PROVE  Acting'
  <2>1. pc = "undo_delete"
    BY <1>6 DEF DeleteNext
  <2> DEFINE order == <<New(work)>>
             doomed == {New(work)}
  <2>2. Condemned \in Generations /\ NextGeneration(order, doomed) = Condemned
    BY <2>1, Condemns
  <2>3. DeleteNext("undo_delete", order, doomed, "undo_files")
    BY <1>6
  <2> HIDE DEF order, doomed
  <2> QED
    BY <2>2, <2>3, DeletionActs
<1>7. ASSUME DeleteNext("delete", work.previous.generations, Selected(work), "remove")
      PROVE  Acting'
  <2>1. pc = "delete"
    BY <1>7 DEF DeleteNext
  <2> DEFINE order == work.previous.generations
             doomed == Selected(work)
  <2>2. Condemned \in Generations /\ NextGeneration(order, doomed) = Condemned
    BY <2>1, Condemns
  <2>3. DeleteNext("delete", order, doomed, "remove")
    BY <1>7
  <2> HIDE DEF order, doomed
  <2> QED
    BY <2>2, <2>3, DeletionActs
<1>8. CASE UndoFiles \/ RemoveSelected
  BY <1>5, <1>6, <1>7, <1>8 DEF UndoFiles, RemoveSelected
<1>9. CASE Meddle \/ ForeignLeaves
  BY <1>9, MeddleKeeps, ForeignLeavesKeeps, OutsideActs
<1> QED
  BY <1>1, <1>2, <1>3, <1>4, <1>8, <1>9 DEF Next, Step

-----------------------------------------------------------------------------
(* Inv holds always *)

LEMMA InitInv == Init => Inv
<1> SUFFICES ASSUME Init PROVE Inv
  OBVIOUS
<1>1. "none" \in Contents
  BY DEF Contents
<1>2. /\ files \in [Generations -> [Files -> Contents]]
      /\ \A g \in Generations, f \in Files : files[g][f] = "none"
  BY <1>1 DEF Init
<1>3. DurableTypes
  BY <1>2 DEF Init, DurableTypes, Marks
<1>4. RegistrationWhole /\ FilesPlaced /\ NoOrphans /\ TornEarly
  BY <1>2, MarksDiffer DEF Init, RegistrationWhole, FilesPlaced, NoOrphans, TornEarly
<1>5. Lasting
  BY <1>3, <1>4, MarksDiffer DEF Init, Lasting, Marks
<1>6. Counted
  BY SetupBounds DEF Init, Counted
<1>7. Acting
  BY DEF Init, Acting
<1> QED
  BY <1>5, <1>6, <1>7 DEF Init, Inv, Underway

LEMMA CountedInductive ==
  ASSUME Counted, Next
  PROVE  Counted'
<1> DEFINE Counts == \/ UNCHANGED bounds
                     \/ faults < MaxFaults /\ faults' = faults + 1 /\ crashes' = crashes
                     \/ crashes < MaxCrashes /\ crashes' = crashes + 1 /\ faults' = faults
<1>1. /\ crashes \in Nat /\ faults \in Nat /\ crashes <= MaxCrashes /\ faults <= MaxFaults
      /\ MaxCrashes \in Nat /\ MaxFaults \in Nat
  BY SetupBounds DEF Counted
<1>2. Counts
  <2>1. \A place : Fault(place) => Counts
    BY DEF Fault
  <2>2. \A place : Proceed(place) => Counts
    BY DEF Proceed
  <2>3. \A effect : Then(effect) => Counts
    BY DEF Then
  <2>4. CASE Crash \/ Meddle \/ ForeignLeaves
    BY <2>4 DEF Crash, Meddle, ForeignLeaves, bounds
  <2>5. CASE \/ \E g \in Generations : Install(g)
             \/ \E action \in {"uninstall", "cleanup"} : BeginRemoval(action)
             \/ Recover \/ Repair
    BY <2>5 DEF Install, BeginRemoval, Recover, Repair
  <2> HIDE DEF Counts
  <2>6. \A expected, desired, next, otherwise :
          ReplaceIfUnchanged(expected, desired, next, otherwise) => Counts
    BY <2>1, <2>2, <2>3 DEF ReplaceIfUnchanged, LookRegistered, SetValue, DeleteValue, LookEmpty,
       DeleteKey
  <2>7. CASE RepairRegister \/ Register \/ UndoRegistration \/ Removal
    BY <2>2, <2>6, <2>7 DEF RepairRegister, Register, UndoRegistration, Removal
  <2>8. CASE \/ WriteJournal \/ (\E f \in Files : WriteFile(f)) \/ Probe
             \/ WriteReceipt \/ Finish \/ UndoReceipt \/ ForgetReceipt
    BY <2>1, <2>2, <2>8 DEF WriteJournal, WriteFile, Probe, WriteReceipt, Finish, UndoReceipt,
       ForgetReceipt
  <2>9. ASSUME NEW place, NEW order, NEW doomed, NEW deletion, NEW next,
               VerifyNext(place, order, doomed, deletion, next)
        PROVE  Counts
    BY <2>2, <2>9 DEF VerifyNext
  <2>10. ASSUME NEW place, NEW order, NEW doomed, NEW verification,
                DeleteNext(place, order, doomed, verification)
         PROVE  Counts
    BY <2>1, <2>2, <2>3, <2>10 DEF DeleteNext
  <2>11. CASE UndoFiles \/ RemoveSelected
    BY <2>9, <2>10, <2>11 DEF UndoFiles, RemoveSelected
  <2> QED
    BY <2>4, <2>5, <2>7, <2>8, <2>11 DEF Next, Step
<1> QED
  BY <1>1, <1>2 DEF Counted, bounds

LEMMA NextInv == Inv /\ [Next]_vars => Inv'
<1> SUFFICES ASSUME Inv, [Next]_vars PROVE Inv'
  OBVIOUS
<1>1. Lasting /\ Underway /\ Acting /\ Counted
  BY DEF Inv
<1>2. CASE UNCHANGED vars
  <2>1. /\ UNCHANGED durable
        /\ UNCHANGED <<pc, work, act, foreign, raced, crashes, faults>>
    BY <1>2 DEF vars, bounds
  <2>2. UNCHANGED <<registration, receipt, journal, dirs, files, litter>>
    BY <2>1 DEF durable
  <2>3. Lasting'
    BY <1>1, <2>1, SameHistory, NothingDurable
  <2>4. Outside
    BY <1>1, <2>1, <2>2 DEF Outside, Lasting, DurableTypes
  <2>5. Acting'
    <3>1. Condemned' = Condemned
      BY <2>1, <2>2 DEF Condemned, NextGeneration, Selected, Listed, New
    <3>2. /\ NextFile(Condemned)' = NextFile(Condemned)
          /\ Known(Condemned, NextFile(Condemned))' <=> Known(Condemned, NextFile(Condemned))
      BY <2>2, <3>1 DEF NextFile, Present, Known
    <3>3. /\ New(work)' = New(work) /\ Old(work)' = Old(work)
          /\ Standing(New(work))' <=> Standing(New(work))
          /\ Standing(receipt.current)' <=> Standing(receipt.current)
      BY <2>1, <2>2 DEF New, Old, Standing
    <3> QED
      BY <1>1, <2>1, <2>2, <3>1, <3>2, <3>3 DEF Acting
  <2> QED
    BY <1>1, <2>1, <2>3, <2>4, <2>5, OutsideKeeps DEF Inv, Counted
<1>3. CASE Next
  <2>1. Lasting' /\ Underway'
    <3>1. CASE \/ \E g \in Generations : Install(g)
               \/ \E action \in {"uninstall", "cleanup"} : BeginRemoval(action)
               \/ Recover \/ Repair \/ RepairRegister
      BY <1>1, <3>1, InstallKeeps, BeginRemovalKeeps, RecoverKeeps, RepairKeeps,
         RepairRegisterKeeps
    <3>2. CASE \/ WriteJournal \/ (\E f \in Files : WriteFile(f)) \/ Probe \/ Register
               \/ WriteReceipt \/ Finish
      BY <1>1, <3>2, WriteJournalKeeps, WriteFileKeeps, ProbeKeeps, RegisterKeeps,
         WriteReceiptKeeps, FinishKeeps
    <3>3. CASE UndoRegistration \/ UndoReceipt \/ UndoFiles
      BY <1>1, <3>3, UndoRegistrationKeeps, UndoReceiptKeeps, UndoFilesKeeps
    <3>4. CASE Removal \/ RemoveSelected \/ ForgetReceipt
      BY <1>1, <3>4, RemovalKeeps, RemoveSelectedKeeps, ForgetReceiptKeeps
    <3>5. CASE Crash \/ Meddle \/ ForeignLeaves
      BY <1>1, <3>5, CrashKeeps, MeddleKeeps, ForeignLeavesKeeps
    <3> QED
      BY <1>3, <3>1, <3>2, <3>3, <3>4, <3>5 DEF Next, Step
  <2> QED
    BY <1>1, <1>3, <2>1, ActingInductive, CountedInductive DEF Inv
<1> QED
  BY <1>2, <1>3

LEMMA InvHolds == Spec => []Inv
BY InitInv, NextInv, PTL DEF Spec

-----------------------------------------------------------------------------
(* Theorems *)

\* Whatever Firefox starts is complete: however an installation, a rollback, a removal or
\* a repair was interrupted (replace_if_unchanged, remove_generation, copy_new), the
\* registered generation exists, with every file whole but for what others did to it.
THEOREM RegisteredAlwaysWhole == Spec => []RegisteredIsWhole
<1>1. Inv => RegisteredIsWhole
  BY DEF Inv, Lasting, RegistrationWhole, Standing, RegisteredIsWhole
<1> QED
  BY <1>1, InvHolds, PTL

\* No file is forgotten: it belongs to a generation of the receipt or of the journal, so
\* that recovery or a removal will verify and delete it (persist_journal, delete_journal).
THEOREM NeverOrphaned == Spec => []NoOrphans
<1>1. Inv => NoOrphans
  BY DEF Inv, Lasting
<1> QED
  BY <1>1, InvHolds, PTL

\* Whatever stops an operation, recover accepts what is left unless the stop tore something
\* or somebody else interfered, every record that is written is one that is_valid accepts,
\* and a journal is torn only while nothing else was touched (persist_journal,
\* rollback_install, finish_removal).
THEOREM AlwaysRecoverable == Spec => []RecoverableUnlessTorn
<1>1. Inv => RecoverableUnlessTorn
  <2> SUFFICES ASSUME Inv PROVE RecoverableUnlessTorn
    OBVIOUS
  <2>1. TypeOK
    <3>1. /\ work \in Generations \cup {Absent} \/ ValidJournal(work)
          /\ pc \in {"idle", "journal", "probe", "register", "receipt", "finish", "undo",
                     "undo_receipt", "undo_files", "undo_delete", "removal", "remove", "delete",
                     "forget", "repair"} \cup Files
      <4>1. CASE pc = "idle" \/ pc = "repair" \/ pc = "journal"
        BY <4>1 DEF Inv, Underway, Begun, At
      <4>2. CASE At(pc, work)
        BY <4>2, FilesAre DEF At, InstallPlaces, RemovalPlaces
      <4> QED
        BY <4>1, <4>2 DEF Inv, Underway
    <3> QED
      BY <3>1 DEF Inv, Lasting, DurableTypes, Acting, Counted, Marks, TypeOK
  <2>2. ASSUME journal \notin Marks, Intact, ~foreign PROVE Recoverable(journal)
    <3>1. PICK j : j = journal
      OBVIOUS
    <3>2. ValidJournal(j) /\ OnRecord(j) /\ JournalSays(j)
      BY <2>2, <3>1, ValidSays DEF Inv, Lasting, DurableTypes
    <3>3. receipt \in Interrupted(j) /\ Fits(registration, j)
      BY <2>2, <3>2 DEF Intact, OnRecord, Interrupted
    <3>4. CASE j.action = "install"
      <4>1. PICK old : old = j.previous.current
        OBVIOUS
      <4>2. j.had => Standing(old) /\ old \in Generations
        BY <3>2, <3>4, <4>1 DEF ValidJournal, OnRecord, PreviousKept, JournalSays
      <4>3. j.had => Whole(old)
        BY <2>2, <4>2 DEF Intact, Standing, Whole, Sound, Known
      <4>4. New(j) \in Generations
        BY <3>2, <3>4, ValidSays DEF InstallSays
      <4> QED
        BY <2>2, <3>1, <3>3, <3>4, <4>1, <4>3, <4>4 DEF Recoverable, UndoAllowed, Fits, Intact
    <3>5. CASE j.action # "install"
      <4>1. Selected(j) \subseteq Generations
        BY <3>2, <3>5, ValidSays DEF JournalSays, RemovalSays
      <4> QED
        BY <2>2, <3>1, <3>3, <3>5, <4>1 DEF Recoverable, RemovalAllowed, Fits, Intact
    <3> QED
      BY <3>4, <3>5
  <2>3. journal = Torn /\ ~foreign =>
          registration \in {Absent, Expected(receipt)} /\ receipt # Torn
    BY DEF Inv, Lasting, TornEarly
  <2> QED
    BY <2>1, <2>2, <2>3 DEF RecoverableUnlessTorn, Marks
<1> QED
  BY <1>1, InvHolds, PTL

\* Only delete_journal ends an operation that is on record.
LEMMA OnlyFinishEnds ==
  ASSUME Inv, Next, journal \notin Marks, journal' = Absent
  PROVE  Finish
<1>1. journal' # journal
  BY DEF Marks
<1>3. pc \notin {"idle", "repair", "journal"} \/ pc = "idle"
  BY DEF Inv, Underway, Begun, At, InstallPlaces, RemovalPlaces, Marks
<1>4. CASE \/ \E g \in Generations : Install(g)
           \/ \E action \in {"uninstall", "cleanup"} : BeginRemoval(action)
           \/ Recover \/ Repair \/ RepairRegister
  BY <1>1, <1>4 DEF Install, BeginRemoval, Recover, Repair, RepairRegister, durable
<1>5. CASE WriteJournal
  BY <1>3, <1>5 DEF WriteJournal
<1>6. CASE (\E f \in Files : WriteFile(f)) \/ Probe \/ Register \/ WriteReceipt
  BY <1>1, <1>6 DEF WriteFile, Probe, Register, WriteReceipt, durable
<1>7. CASE UndoRegistration \/ UndoReceipt \/ Removal \/ ForgetReceipt
  BY <1>1, <1>7 DEF UndoRegistration, UndoReceipt, Removal, ForgetReceipt, durable
<1>8. ASSUME NEW place, NEW order, NEW doomed, NEW deletion, NEW next,
             VerifyNext(place, order, doomed, deletion, next)
      PROVE  FALSE
  BY <1>1, <1>8 DEF VerifyNext, durable
<1>9. ASSUME NEW place, NEW order, NEW doomed, NEW verification,
             DeleteNext(place, order, doomed, verification)
      PROVE  FALSE
  BY <1>1, <1>9 DEF DeleteNext, durable
<1>10. CASE UndoFiles \/ RemoveSelected
  BY <1>8, <1>9, <1>10 DEF UndoFiles, RemoveSelected
<1>11. CASE Crash \/ Meddle \/ ForeignLeaves
  <2>1. Torn # Absent
    BY MarksDiffer
  <2> QED
    BY <1>1, <1>11, <2>1 DEF Crash, Meddle, ForeignLeaves, durable
<1> QED
  BY <1>4, <1>5, <1>6, <1>7, <1>10, <1>11 DEF Next, Step

\* An operation that ends has done all it was to do, or has undone it (rollback_install,
\* finish_removal, delete_journal), however often it was interrupted and recovered before.
THEOREM OperationsAllOrNothing == Spec => AllOrNothing
<1> DEFINE A == journal \notin {Absent, Torn} /\ journal' = Absent /\ ~foreign =>
       \/ /\ receipt' = journal.next
          /\ journal.action = "install" => registration' = New(journal)
          /\ journal.action = "uninstall" => registration' = Absent
          /\ journal.action # "install" => Selected(journal) \cap dirs' = {}
       \/ /\ journal.action = "install"
          /\ receipt' = journal.previous
          /\ registration' = Old(journal)
          /\ New(journal) \notin dirs'
<1>1. Inv /\ [Next]_vars => [A]_vars
  <2> SUFFICES ASSUME Inv, Next, journal \notin {Absent, Torn}, journal' = Absent,
                      ~foreign
               PROVE  \/ /\ receipt' = journal.next
                         /\ journal.action = "install" => registration' = New(journal)
                         /\ journal.action = "uninstall" => registration' = Absent
                         /\ journal.action # "install" => Selected(journal) \cap dirs' = {}
                      \/ /\ journal.action = "install"
                         /\ receipt' = journal.previous
                         /\ registration' = Old(journal)
                         /\ New(journal) \notin dirs'
    OBVIOUS
  <2>1. Finish
    BY OnlyFinishEnds DEF Marks
  <2>2. pc = "finish" /\ UNCHANGED <<registration, receipt, dirs>>
    BY <2>1 DEF Finish
  <2>3. At("finish", work)
    BY <2>2, Departs DEF Inv
  <2>4. journal = work /\ (Done(journal) \/ Undone(journal))
    BY <2>3 DEF At
  <2> QED
    BY <2>2, <2>4 DEF Done, Undone
<1> QED
  BY <1>1, InvHolds, PTL DEF Spec, AllOrNothing

\* A file that is torn or was changed is not touched by the deletion of its generation.
LEMMA DeletionSpares ==
  ASSUME Inv, NEW g \in Generations, NEW f \in Files, files[g][f] \in {"bad", "changed"}, ~raced,
         NEW place, NEW order, NEW doomed, NEW verification,
         DeleteNext(place, order, doomed, verification),
         NextGeneration(order, doomed) = Condemned
  PROVE  files'[g][f] = files[g][f]
<1>1. PICK h : h = Condemned
  OBVIOUS
<1>2. PICK e : e = NextFile(h)
  OBVIOUS
<1>3. \/ UNCHANGED files
      \/ act = "unlink" /\ files' = [files EXCEPT ![h][e] = "none"]
  BY <1>1, <1>2 DEF DeleteNext, durable
<1>4. act = "unlink" => Known(h, e)
  BY <1>1, <1>2 DEF Inv, Acting
<1> QED
  BY <1>3, <1>4 DEF Known, Inv, Lasting, DurableTypes

LEMMA FilesSpared ==
  ASSUME Inv, Next, NEW g \in Generations, NEW f \in Files, files[g][f] \in {"bad", "changed"},
         ~raced
  PROVE  files'[g][f] = files[g][f]
<1>1. files \in [Generations -> [Files -> Contents]]
  BY DEF Inv, Lasting, DurableTypes
<1>2. ASSUME NEW e \in Files, At(e, work)
      PROVE  \A content : files' = [files EXCEPT ![New(work)][e] = content] =>
               files'[g][f] = files[g][f]
  <2>1. e \in {"helper", "extension", "manifest"}
    BY FilesAre
  <2>2. Unpublished(work, {e})
    BY <1>2, <2>1, FilesAre DEF At, Unpublished
  <2>3. files[New(work)][e] = "none"
    BY <2>2 DEF Unpublished
  <2> QED
    BY <1>1, <2>3
<1>3. \A e \in Files : pc = e => At(e, work)
  BY Departs, FilesAre DEF Inv
<1>4. CASE \/ \E h \in Generations : Install(h)
           \/ \E action \in {"uninstall", "cleanup"} : BeginRemoval(action)
           \/ Recover \/ Repair \/ RepairRegister \/ WriteJournal
  BY <1>4 DEF Install, BeginRemoval, Recover, Repair, RepairRegister, WriteJournal, durable
<1>5. ASSUME NEW e \in Files, WriteFile(e) PROVE files'[g][f] = files[g][f]
  BY <1>2, <1>3, <1>5 DEF WriteFile
<1>6. CASE Probe \/ Register \/ WriteReceipt \/ Finish
  BY <1>6 DEF Probe, Register, WriteReceipt, Finish, durable
<1>7. CASE UndoRegistration \/ UndoReceipt \/ Removal \/ ForgetReceipt
  BY <1>7 DEF UndoRegistration, UndoReceipt, Removal, ForgetReceipt, durable
<1>8. ASSUME NEW place, NEW order, NEW doomed, NEW deletion, NEW next,
             VerifyNext(place, order, doomed, deletion, next)
      PROVE  UNCHANGED files
  BY <1>8 DEF VerifyNext, durable
<1>9. ASSUME DeleteNext("undo_delete", <<New(work)>>, {New(work)}, "undo_files")
      PROVE  files'[g][f] = files[g][f]
  <2>1. pc = "undo_delete"
    BY <1>9 DEF DeleteNext
  <2> DEFINE order == <<New(work)>>
             doomed == {New(work)}
  <2>2. NextGeneration(order, doomed) = Condemned
    BY <2>1, Condemns DEF Inv
  <2>3. DeleteNext("undo_delete", order, doomed, "undo_files")
    BY <1>9
  <2> HIDE DEF order, doomed
  <2> QED
    BY <2>2, <2>3, DeletionSpares
<1>10. ASSUME DeleteNext("delete", work.previous.generations, Selected(work), "remove")
       PROVE  files'[g][f] = files[g][f]
  <2>1. pc = "delete"
    BY <1>10 DEF DeleteNext
  <2> DEFINE order == work.previous.generations
             doomed == Selected(work)
  <2>2. NextGeneration(order, doomed) = Condemned
    BY <2>1, Condemns DEF Inv
  <2>3. DeleteNext("delete", order, doomed, "remove")
    BY <1>10
  <2> HIDE DEF order, doomed
  <2> QED
    BY <2>2, <2>3, DeletionSpares
<1>11. CASE UndoFiles \/ RemoveSelected
  BY <1>8, <1>9, <1>10, <1>11 DEF UndoFiles, RemoveSelected
<1>12. CASE Crash
  <2>1. CASE pc \in Files /\ files' = [files EXCEPT ![New(work)][pc] = "bad"]
    <3>1. PICK e \in Files : e = pc
      BY <2>1
    <3> QED
      BY <1>2, <1>3, <2>1, <3>1
  <2> QED
    BY <1>12, <2>1 DEF Crash, durable
<1>13. CASE Meddle \/ ForeignLeaves
  BY <1>1, <1>13 DEF Meddle, ForeignLeaves
<1> QED
  BY <1>4, <1>5, <1>6, <1>7, <1>11, <1>12, <1>13 DEF Next, Step

\* replace_if_unchanged leaves a registration it does not expect.
LEMMA ReplaceSpares ==
  ASSUME Inv, registration = Foreign, ~raced, NEW expected \in Generations \cup {Absent},
         NEW desired, NEW next, NEW otherwise,
         ReplaceIfUnchanged(expected, desired, next, otherwise)
  PROVE  registration' = Foreign
<1>1. Foreign \notin Generations /\ Foreign # Absent
  BY MarksDiffer
<1>2. act \in {"look", "empty", "unlink"}
  BY DEF Inv, Acting
<1>3. ~Unchanged(expected)
  BY <1>1 DEF Unchanged
<1> QED
  BY <1>2, <1>3 DEF ReplaceIfUnchanged, LookRegistered, SetValue, DeleteValue, LookEmpty, DeleteKey

LEMMA ForeignSpared ==
  ASSUME Inv, Next, registration = Foreign, ~raced, <<pc, act>>' # <<pc, act>>
  PROVE  registration' = Foreign
<1>1. PICK j : j = work
  OBVIOUS
<1>2. CASE \/ \E g \in Generations : Install(g)
           \/ \E action \in {"uninstall", "cleanup"} : BeginRemoval(action)
           \/ Recover \/ Repair \/ WriteJournal \/ Probe
           \/ \E f \in Files : WriteFile(f)
  BY <1>2 DEF Install, BeginRemoval, Recover, Repair, WriteJournal, Probe, WriteFile, durable
<1>3. CASE RepairRegister
  <2>1. pc = "repair"
    BY <1>3 DEF RepairRegister
  <2>2. work \in Generations \cup {Absent}
    BY <2>1 DEF Inv, Underway, At, InstallPlaces, RemovalPlaces
  <2> QED
    BY <1>3, <2>2, ReplaceSpares DEF RepairRegister
<1>4. ASSUME pc \in {"register", "undo"}
      PROVE  Old(j) \in Generations \cup {Absent} /\ New(j) \in Generations
  <2>1. ValidJournal(j) /\ j.action = "install"
    BY <1>1, <1>4, Departs DEF Inv, At, InstallPlaces
  <2> QED
    BY <2>1, ValidSays DEF JournalSays, InstallSays
<1>5. CASE Register
  <2>1. pc = "register"
    BY <1>5 DEF Register
  <2> QED
    BY <1>1, <1>4, <1>5, <2>1, ReplaceSpares DEF Register
<1>6. CASE UndoRegistration
  <2>1. pc = "undo"
    BY <1>6 DEF UndoRegistration
  <2> QED
    BY <1>1, <1>4, <1>6, <2>1, ReplaceSpares DEF UndoRegistration
<1>7. CASE Removal
  <2>1. pc = "removal"
    BY <1>7 DEF Removal
  <2>2. ValidJournal(j) /\ j.action # "install"
    BY <1>1, <2>1, Departs DEF Inv, At, RemovalPlaces
  <2>3. j.previous.current \in Generations
    BY <2>2, ValidSays DEF JournalSays, RemovalSays
  <2> QED
    BY <1>1, <1>7, <2>3, ReplaceSpares DEF Removal
<1>8. CASE WriteReceipt \/ Finish \/ UndoReceipt \/ ForgetReceipt
  BY <1>8 DEF WriteReceipt, Finish, UndoReceipt, ForgetReceipt, durable
<1>9. ASSUME NEW place, NEW order, NEW doomed, NEW deletion, NEW next,
             VerifyNext(place, order, doomed, deletion, next)
      PROVE  UNCHANGED registration
  BY <1>9 DEF VerifyNext, durable
<1>10. ASSUME NEW place, NEW order, NEW doomed, NEW verification,
              DeleteNext(place, order, doomed, verification)
       PROVE  UNCHANGED registration
  BY <1>10 DEF DeleteNext, durable
<1>11. CASE UndoFiles \/ RemoveSelected
  BY <1>9, <1>10, <1>11 DEF UndoFiles, RemoveSelected
<1>12. CASE Crash
  BY <1>12 DEF Crash, durable
<1>13. CASE Meddle \/ ForeignLeaves
  BY <1>13 DEF Meddle, ForeignLeaves
<1> QED
  BY <1>2, <1>3, <1>5, <1>6, <1>7, <1>8, <1>11, <1>12, <1>13 DEF Next, Step

\* What setup does not recognise when it looks it leaves alone, and it looks before every
\* effect (verify_file, copy_new, replace_if_unchanged): no torn or changed file is deleted
\* or overwritten and no registration of another program replaced or deleted, but for one
\* that came between the look and the call after it (raced).
THEOREM UnknownAlwaysKept == Spec => UnknownKept
<1> DEFINE A == \A g \in Generations, f \in Files :
                  files[g][f] \in {"bad", "changed"} /\ ~raced => files'[g][f] = files[g][f]
           B == registration = Foreign /\ ~raced /\ <<pc, act>>' # <<pc, act>> =>
                  registration' = Foreign
<1>1. Inv /\ [Next]_vars => [A]_vars
  BY FilesSpared
<1>2. Inv /\ [Next]_vars => [B]_vars
  BY ForeignSpared
<1> QED
  BY <1>1, <1>2, InvHolds, PTL DEF Spec, UnknownKept

=============================================================================
