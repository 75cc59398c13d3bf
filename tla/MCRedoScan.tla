----------------------------- MODULE MCRedoScan -----------------------------
(* Instances of RedoScan: three files of two blocks that take turns.         *)
EXTENDS RedoScan, TLC

CONSTANTS i1, i2, i3

MCSymmetry == Permutations({i1, i2, i3})

\* Mtrs of one and of several records, that end with a block or go on in the
\* next, and one that fills more than a block.
MCLogs ==
  { <<"single", "part", "end", "single", "long", "rest", "end", "single", "single", "part", "end", "single">>,
    <<"part", "long", "rest", "end", "single", "part", "part", "part", "end", "single", "long", "rest">> }
=============================================================================
