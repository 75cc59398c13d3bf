----------------------------- MODULE PageHistory -----------------------------
(***************************************************************************)
(* What the page detail promises: a page has a history of versions, the    *)
(* file holds one of them, and what is shown is a version, none older than *)
(* the file was when it was last read.  Where it cannot be one (no page    *)
(* shown, the file caught in a flush, a record that is not replayed) it is *)
(* None.                                                                   *)
(***************************************************************************)
EXTENDS Naturals, Sequences

CONSTANTS Content, \* what a page can hold
          First,   \* its first version
          None

VARIABLES hist,  \* the versions; hist[n + 1] is version n
          file,  \* the one in the file
          known, \* the one the file was last seen to hold, None when not seen
          view   \* the one shown

vars == <<hist, file, known, view>>

Init == hist = <<First>> /\ file = 0 /\ known = None /\ view = None

\* The server changes the page, and later the file.
Change ==
  /\ \E c \in Content : hist' = Append(hist, c)
  /\ UNCHANGED <<file, known, view>>

Flush ==
  /\ file' \in file + 1 .. Len(hist) - 1
  /\ UNCHANGED <<hist, known, view>>

\* The file is read, a version is shown, or both at once.
Versions(from) == {[lsn |-> n, data |-> hist[n + 1]] : n \in from .. Len(hist) - 1}

Look ==
  /\ known' \in {known, file, None}
  /\ \/ view' \in {view, None}
     \/ known' # None /\ view' \in Versions(known')
  /\ UNCHANGED <<hist, file>>

Next == Change \/ Flush \/ Look

Spec == Init /\ [][Next]_vars
==============================================================================
