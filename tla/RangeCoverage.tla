---------------------------- MODULE RangeCoverage ----------------------------
(***************************************************************************)
(* What a segmented transfer promises to the run that started it: ranges   *)
(* are covered one at a time and stay covered, the result tells the truth  *)
(* about them, and once there is a result nothing writes any more.         *)
(* TaskLifecycle relies on this with its actions CommitRange, TearRange    *)
(* and TransferReturns.                                                    *)
(***************************************************************************)
CONSTANT Range

VARIABLES
  done,       \* covered ranges
  cancelled,  \* the run was told to stop
  outcome     \* "running", then the result of the transfer

vars == <<done, cancelled, outcome>>

Init ==
  /\ done \subseteq Range
  /\ cancelled = FALSE
  /\ outcome = "running"

Commit(r) ==
  /\ outcome = "running"
  /\ r \notin done /\ done' = done \cup {r}
  /\ UNCHANGED <<cancelled, outcome>>

Cancel ==
  /\ cancelled' = TRUE
  /\ UNCHANGED <<done, outcome>>

Return ==
  /\ outcome = "running"
  /\ \/ outcome' = "ok" /\ done = Range
     \/ outcome' = "cancelled" /\ cancelled
     \/ outcome' = "failed" /\ ~cancelled
  /\ UNCHANGED <<done, cancelled>>

Next == (\E r \in Range : Commit(r)) \/ Cancel \/ Return

Spec == Init /\ [][Next]_vars
===============================================================================
