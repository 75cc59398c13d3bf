------------------------------ MODULE MCPageView ------------------------------
(* Instances of PageView: two rows, one in the part of the page written first. *)
EXTENDS PageView

CONSTANTS head, tail, a, b

\* One row there, one that an insert may add.
MCFirst == [c \in {head, tail} |-> IF c = head THEN a ELSE Gone]

\* A write of the one, an insert and an update of the other (a delete is to Apply
\* what an insert is: a record it does not replay).
MCRec ==
  {[kind |-> "write", row |-> head, val |-> b],
   [kind |-> "update", row |-> tail, val |-> b],
   [kind |-> "heap", row |-> tail, val |-> a]}
==============================================================================
