SPECIFICATION Spec
INVARIANT TypeOK
INVARIANT StreamIsLogged
INVARIANT StreamStarts
INVARIANT ReachesTail
INVARIANT MtrsAreLogged
CONSTANTS
  i1 = i1
  i2 = i2
  i3 = i3
  Inode = {i1, i2, i3}
  FileLen = 2
  Hdr = 1
  Fill = 2
  Trl = 1
  MaxNo = 2
  Logs <- MCLogs
  Points = {3, 5, 8}
  None = None
CHECK_DEADLOCK FALSE
SYMMETRY MCSymmetry
