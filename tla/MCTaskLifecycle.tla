--------------------------- MODULE MCTaskLifecycle ---------------------------
(***************************************************************************)
(* Values for model checking TaskLifecycle.                                *)
(***************************************************************************)
EXTENDS TaskLifecycle

CONSTANTS b1, b2

\* Two versions of a resource that supports ranges.
SegmentedOffers ==
  { [mode |-> "segmented", strong |-> TRUE, body |-> b] : b \in {b1, b2} }

\* Two versions of a declared length that no validator tells apart.
WeakOffers == { [mode |-> "single", strong |-> FALSE, body |-> b] : b \in {b1, b2} }

\* An undeclared length with a strong ETag, and the empty resource.
StreamOffers ==
  { [mode |-> "stream", strong |-> TRUE, body |-> b] : b \in {b1, b2} }
    \cup {[mode |-> "empty", strong |-> FALSE, body |-> b1]}

\* What one response delivers, of every kind
SingleOffers == WeakOffers \cup {o \in StreamOffers : o.body = b1}
===============================================================================
