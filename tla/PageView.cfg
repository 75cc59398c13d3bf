SPECIFICATION Spec
INVARIANT TypeOK
INVARIANT PageIsVersion
INVARIANT ReplayPosition
INVARIANT ReplayRecovers
PROPERTY ShowsHistory
CONSTANTS
  head = head
  tail = tail
  a = a
  b = b
  Row = {head, tail}
  Front = {head}
  Val = {a, b}
  Gone = Gone
  None = None
  First <- MCFirst
  Rec <- MCRec
  Def = {"varying"}
  MaxLog = 3
  Space = 1
  Other = 2
