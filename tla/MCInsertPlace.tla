---------------------------- MODULE MCInsertPlace ----------------------------
(* An instance of InsertPlace: slots of two to three records, a page of up  *)
(* to five.                                                                 *)
EXTENDS InsertPlace

==============================================================================
