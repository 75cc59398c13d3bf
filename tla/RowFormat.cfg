SPECIFICATION Spec
CONSTANTS
  Bits = 3
  Kinds <- MCKinds
  KeyKind <- MCKeyKind
  Base <- MCBase
  BaseKinds <- MCBaseKinds
  Added <- MCAdded
  Lengths = {1, 6, 9}
  PrefixLengths <- MCPrefixLengths
  FIELD_REF_SIZE = 9
  NULL = NULL
  Default = Default
INVARIANT TypeOK
INVARIANT RowReads
INVARIANT KeysRead
