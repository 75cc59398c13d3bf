SPECIFICATION Spec
INVARIANT ReplayEndsWithMtr
CONSTANTS
  head = head
  tail = tail
  a = a
  b = b
  Row = {head, tail}
  Front = {head}
  Val = {a, b}
  Gone = Gone
  None = None
  First <- MCFirst
  Rec <- MCRec
  Def = {"fixed"}
  MaxLog = 2
  Space = 1
  Other = 2
