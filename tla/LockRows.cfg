SPECIFICATION Spec
INVARIANT ScanSucceeds
CONSTANTS
  PageNo <- MCPageNo
  Root = 1
  Nil = Nil
  None = None
  Key <- MCKey
  Pk <- MCPk
  PkHead <- MCPkHead
  maxTreeHeight = 16
  NPages = 5
  MaxRecs = 3
  Kinds = {"compositeRows"}
  Case <- MCCase
  order <- MCOrder
  LockStmt <- MCLockStmt
