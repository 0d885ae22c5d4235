--------------------------- MODULE MCEventStream ---------------------------
(* Values for the runs over EventStream. *)
EXTENDS EventStream, TLC

CONSTANTS t1, t2

MCTasks == {t1, t2}

\* Nothing tells two tasks apart; used for safety only.
Symmetry == Permutations(MCTasks)
=============================================================================
