------------------------------ MODULE MCRowFormat ------------------------------
(***************************************************************************)
(* Instances of RowFormat: bytes of three bits, so that a fourth nullable  *)
(* column has a null byte of its own, and lengths from four on take two    *)
(* bytes in a column that may be longer than one can say.                   *)
(***************************************************************************)
EXTENDS RowFormat

MCKinds == {[Fixed |-> 2, MaxLen |-> 0, Nullable |-> TRUE],
            [Fixed |-> 0, MaxLen |-> 20, Nullable |-> TRUE],
            [Fixed |-> 0, MaxLen |-> 7, Nullable |-> FALSE]}
MCKeyKind == [Fixed |-> 0, MaxLen |-> 7, Nullable |-> FALSE]
MCBaseKinds == <<[Fixed |-> 2, MaxLen |-> 0, Nullable |-> TRUE],
                 [Fixed |-> 0, MaxLen |-> 20, Nullable |-> TRUE]>>
MCBase  == <<"a", "b">>
MCAdded == <<"c", "d">>
MCPrefixLengths == {1, Whole}
=============================================================================
