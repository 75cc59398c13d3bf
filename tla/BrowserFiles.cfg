SPECIFICATION Spec
INVARIANT TypeOK
INVARIANT PaneBacked
INVARIANT DetailBacked
INVARIANT ReplayOfPage
PROPERTY EscLeadsOut
CONSTANTS
  shared = shared
  single = single
  undo = undo
  t1 = t1
  t2 = t2
  None = None
  Path = {shared, undo}
  UndoPath = {undo}
  Table = {t1, t2}
  Tables <- MCUndo
  FirstId <- MCUndoId
  FirstNew = 3
  IndexName = {"PRIMARY"}
  Clust = "PRIMARY"
  PageNo = {4}
  Comparison = {}
  Droppable = {shared}
  MaxSpaceId = 3
  MaxLogged = 1
