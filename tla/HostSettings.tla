---------------------------- MODULE HostSettings ----------------------------
(***************************************************************************)
(* The settings of the helper: the file settings.json, the settings of the *)
(* session, the engine's configuration, and the session's default          *)
(* destination.  An update configures the engine first, then replaces the  *)
(* file through a temporary one, and takes the engine back when that       *)
(* fails.  The helper may die between any two of these effects; the next   *)
(* one starts from the file.                                               *)
(*                                                                         *)
(* A setting is an abstract value.  Which of its fields a patch changes,   *)
(* and what makes it invalid, are left out.                                *)
(***************************************************************************)
EXTENDS Naturals

CONSTANTS
  Values,       \* valid settings
  Default,      \* the settings of a helper that finds no file
  Absent,       \* no file, no process, no update under way
  Torn          \* what a death leaves of a file being written

ASSUME SettingsAssumption ==
  /\ Default \in Values
  /\ Absent \notin Values /\ Torn \notin Values

VARIABLES
  settingsFile, \* settings.json
  temporary,    \* settings.write-new
  current,      \* SettingsStore.current
  destination,  \* Session.default_destination: the settings it was taken from
  engine,       \* the settings TaskEngine was last configured with
  update,       \* apply_settings under way: its candidate and its next effect
  unrestored    \* history: the engine could not be taken back

settingsVars ==
  <<settingsFile, temporary, current, destination, engine, update, unrestored>>

NoUpdate == [to |-> Absent, next |-> "none"]

SettingsInit ==
  /\ settingsFile = Absent /\ temporary = Absent
  /\ current = Absent /\ destination = Absent /\ engine = Absent
  /\ update = NoUpdate /\ unrestored = FALSE

-----------------------------------------------------------------------------
\* SettingsStore::load
Loaded == IF settingsFile = Absent THEN Default ELSE settingsFile

\* run_host up to the session: the engine takes over what the file says.
LoadSettings ==
  /\ current' = Loaded /\ engine' = Loaded /\ destination' = Loaded
  /\ update' = NoUpdate /\ unrestored' = FALSE
  /\ UNCHANGED <<settingsFile, temporary>>

\* TaskEngine::reconfigure while a run is going on or still holds the engine, and a patch
\* that does not make valid settings: nothing has changed.
RefuseUpdate == update = NoUpdate /\ UNCHANGED settingsVars

\* apply_settings up to the first reconfigure.
BeginUpdate(v) ==
  /\ update = NoUpdate
  /\ v \in Values
  /\ engine' = v
  /\ update' = [to |-> v, next |-> "write"]
  /\ UNCHANGED <<settingsFile, temporary, current, destination, unrestored>>

\* atomic_write: a stale temporary file is removed, a new one written and flushed
WriteTemporary ==
  /\ update.next = "write"
  /\ temporary' = update.to
  /\ update' = [update EXCEPT !.next = "rename"]
  /\ UNCHANGED <<settingsFile, current, destination, engine, unrestored>>

\* ... and renamed; the rest of SettingsStore::save and of apply_settings.
ReplaceFile ==
  /\ update.next = "rename"
  /\ settingsFile' = update.to /\ temporary' = Absent
  /\ current' = update.to /\ destination' = update.to
  /\ update' = NoUpdate /\ unrestored' = FALSE
  /\ UNCHANGED engine

\* The temporary file where the effect under way did not succeed.
Leftovers ==
  {temporary} \cup (IF update.next = "write" THEN {Absent, Torn, update.to} ELSE {})

\* Mutant: a failed save leaves the engine with the settings that were not saved.
SaveFailsOnly ==
  /\ update # NoUpdate
  /\ temporary' \in Leftovers \cup {Absent}
  /\ update' = NoUpdate
  /\ UNCHANGED <<settingsFile, current, destination, engine, unrestored>>

\* A failure of either step; the temporary file is removed if it can be.  The second
\* reconfigure may itself fail to set up a client.
SaveFails ==
  /\ update # NoUpdate
  /\ temporary' \in Leftovers \cup {Absent}
  /\ update' = NoUpdate
  /\ \/ engine' = current /\ UNCHANGED unrestored
     \/ UNCHANGED engine /\ unrestored' = TRUE
  /\ UNCHANGED <<settingsFile, current, destination>>

\* The process ends, and a write under way leaves part of its bytes.
LoseProcess ==
  /\ temporary' \in Leftovers
  /\ current' = Absent /\ destination' = Absent /\ engine' = Absent
  /\ update' = NoUpdate /\ unrestored' = FALSE
  /\ UNCHANGED settingsFile

-----------------------------------------------------------------------------
SettingsTypeOK ==
  /\ settingsFile \in Values \cup {Absent}
  /\ temporary \in Values \cup {Absent, Torn}
  /\ {current, destination, engine} \subseteq Values \cup {Absent}
  /\ update \in [to : Values \cup {Absent}, next : {"none", "write", "rename"}]
  /\ unrestored \in BOOLEAN

\* What a session reports, what the engine runs with, what a new task's destination
\* defaults to and what the next helper will load are the same settings, between two
\* updates, whether the last one was done, refused, failed or died.  Excepted is the
\* failure of a failure: when the engine could not be taken back either, it keeps the
\* settings that were not saved, although the page is told that they were not applied.
SettingsAgree ==
  (current # Absent /\ update = NoUpdate /\ ~unrestored) =>
    engine = current /\ destination = current /\ Loaded = current
=============================================================================
