------------------------------ MODULE MCBrowser ------------------------------
(* Small instances of Browser for TLC. *)
EXTENDS Browser

CONSTANTS shared, single, undo, t1, t2

\* A general tablespace of two tables.
MCOne   == [p \in {shared} |-> <<t1, t2>>]
MCOneId == [p \in {shared} |-> 1]

\* Two tablespaces of one table each.
MCPair   == [p \in {shared, single} |-> IF p = shared THEN <<t1>> ELSE <<t2>>]
MCPairId == [p \in {shared, single} |-> IF p = shared THEN 1 ELSE 2]

\* A tablespace of one table and an undo tablespace.
MCUndo   == [p \in {shared, undo} |-> IF p = shared THEN <<t1>> ELSE <<>>]
MCUndoId == [p \in {shared, undo} |-> IF p = shared THEN 1 ELSE 2]

==============================================================================
