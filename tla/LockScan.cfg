SPECIFICATION FairSpec
INVARIANT TypeOK
INVARIANT NoPhantom
INVARIANT RowsHeld
INVARIANT NothingMore
INVARIANT ScanSucceeds
PROPERTY ScanEnds
CONSTANTS
  PageNo <- MCPageNo
  Root = 1
  Nil = Nil
  None = None
  Key <- MCKey
  Pk <- MCPk
  PkHead <- MCPkHead
  maxTreeHeight = 16
  NPages = 5
  MaxRecs = 3
  Kinds = {"clustered", "composite", "unique", "secondary", "sharedRows", "damaged"}
  Case <- MCCase
  order <- MCOrder
  LockStmt <- MCLockStmt
