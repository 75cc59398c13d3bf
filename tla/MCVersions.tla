----------------------------- MODULE MCVersions -----------------------------
(* Instances of Versions: a row with one column and two places for undo.     *)
EXTENDS Versions, TLC

CONSTANTS c1, v1, v2, s1, s2

MCSymmetry ==
  {p @@ q : p \in {[s \in {s1, s2} |-> s], [s \in {s1, s2} |-> IF s = s1 THEN s2 ELSE s1]},
            q \in {[v \in {v1, v2} |-> v], [v \in {v1, v2} |-> IF v = v1 THEN v2 ELSE v1]}}

\* What may be at the place of an undo record: one of another table, which is not
\* decoded, and an insert.
MCForeign ==
  { [Type |-> TRX_UNDO_UPD_EXIST_REC, TrxID |-> 1, Roll |-> s, del |-> FALSE,
     Upd |-> <<>>, Err |-> FALSE, of |-> 0] : s \in {s1, s2} }
  \cup
  { [Type |-> TRX_UNDO_INSERT_REC, TrxID |-> 0, Roll |-> Zero, del |-> FALSE,
     Upd |-> <<>>, Err |-> FALSE, of |-> 0] }
=============================================================================
