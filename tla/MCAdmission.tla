----------------------------- MODULE MCAdmission -----------------------------
(***************************************************************************)
(* Values for model checking Admission.                                    *)
(***************************************************************************)
EXTENDS Admission

CONSTANTS r1, r2, a, b, c

\* Settings in which the global cap, the origin's cap, or neither is the narrow one
SomeLimits == {[global |-> 1, perHost |-> 2], [global |-> 2, perHost |-> 1],
               [global |-> 2, perHost |-> 2]}
===============================================================================
