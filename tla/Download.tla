------------------------------ MODULE Download ------------------------------
(***************************************************************************)
(* What the helper promises about one download to somebody who looks only  *)
(* at the destination directory and the durable record, whatever commands, *)
(* faults, crashes and changes of the resource happen meanwhile.           *)
(***************************************************************************)
EXTENDS Naturals, Sequences

CONSTANTS Chunk, Body

VARIABLES
  names,    \* published names, each with the bytes it shows
  record,   \* the durable record: its state, its partial, the chunks it claims
  stop      \* the accepted stop

vars == <<names, record, stop>>

Stops == {"none", "pause", "cancelKeep", "cancelDelete", "shutdown"}

NoRecord == [state |-> "Absent", partial |-> 0, done |-> {}]

Init == names = <<>> /\ record = NoRecord /\ stop = "none"

\* An accepted stop is forgotten when the run or the process has ended.
Accept == stop = "none" /\ stop' \in Stops /\ UNCHANGED <<names, record>>

Answer == stop' = "none" /\ UNCHANGED <<names, record>>

\* A name appears at once with all the bytes of one version, and no run that the user has
\* paused or cancelled publishes.
Publish ==
  /\ stop \in {"none", "shutdown"}
  /\ \E b \in Body : names' = Append(names, [c \in Chunk |-> b])
  /\ UNCHANGED <<record, stop>>

\* A partial is given up, or kept with all it covers; another is named only after that.
KeepsCoverage(next) ==
  \/ next.partial = 0
  \/ next.partial = record.partial /\ record.done \subseteq next.done
  \/ record.partial = 0

\* A record moves on.  Completed and Cancelled are final, and Completed needs a name.
Record ==
  /\ record'.state # "Absent"
  /\ record.state \in {"Completed", "Cancelled"} => record'.state = record.state
  /\ record'.state = "Completed" => names # <<>>
  /\ KeepsCoverage(record')
  /\ stop' \in {stop, "none"}
  /\ UNCHANGED names

\* The history of a task is removed, the names it published are not.
Remove == record' = NoRecord /\ stop' = stop /\ UNCHANGED names

Next == Accept \/ Answer \/ Publish \/ Record \/ Remove

Spec == Init /\ [][Next]_vars
=============================================================================
