SPECIFICATION Spec
PROPERTY StatementAsPicked
CONSTANTS
  shared = shared
  single = single
  undo = undo
  t1 = t1
  t2 = t2
  None = None
  Path = {shared}
  UndoPath = {}
  Table = {t1, t2}
  Tables <- MCOne
  FirstId <- MCOneId
  FirstNew = 2
  IndexName = {"PRIMARY"}
  Clust = "PRIMARY"
  PageNo = {4}
  Comparison = {"=", "<", "<=", ">", ">=", "between"}
  Droppable = {}
  MaxSpaceId = 1
  MaxLogged = 0
