------------------------------- MODULE Browser -------------------------------
(***************************************************************************)
(* The interactive session of innolens (internal/tui): one Model whose     *)
(* Update runs one handler per key, over files that a running MySQL server *)
(* creates, drops, truncates and logs changes to between two keys.         *)
(*                                                                         *)
(* A handler is atomic: bubbletea calls Update for one message at a time.  *)
(* The cursor of a pane is abstracted to the choice of the row a key acts  *)
(* on, a typed text to whether anything was typed, a page to the file, the *)
(* tablespace id and the page number it was read from, and the redo log to *)
(* the set of pages it holds a record for.  PageView has the page bytes.   *)
(***************************************************************************)
EXTENDS Naturals, Sequences, FiniteSets, Functions

CONSTANTS
  Path,        \* the tablespace files of the datadir
  UndoPath,    \* those of them that are undo tablespaces
  Table,       \* the tables in them
  Tables,      \* Tables[p] is the tables the SDI of p describes, in order
  IndexName,   \* the indexes of every table
  Clust,       \* the clustered one, first in Table.Indexes
  PageNo,      \* page numbers
  Comparison,  \* the comparisons the lock picker offers
  Droppable,   \* the files the server may drop
  FirstId,     \* the tablespace id of each file at the start
  FirstNew,    \* the next one the server hands out
  MaxSpaceId,  \* bound: tablespace ids the server hands out
  MaxLogged,   \* bound: pages with a redo record after the checkpoint
  None         \* Go's nil

ASSUME BrowserAssumption ==
  /\ UndoPath \subseteq Path
  /\ Droppable \subseteq Path
  /\ Clust \in IndexName
  /\ Tables \in [Path -> Seq(Table)]
  /\ \A p \in UndoPath : Tables[p] = <<>>
  /\ Comparison \subseteq {"=", "<", "<=", ">", ">=", "between"}
  /\ MaxSpaceId \in Nat
  /\ FirstId \in [Path -> 1..MaxSpaceId]
  /\ FirstNew \in Nat \ {0}
  /\ MaxLogged \in Nat

VARIABLES
  files,    \* server: the tablespace id of each file, 0 when there is none
  nextId,   \* server: the next tablespace id
  logged,   \* server: the pages with a redo record after the checkpoint
  quit,     \* the program returned tea.Quit
  dir,      \* Model.dir: files as the last scan saw it
  focus, prompt, query,
  lockWiz, findWiz, locks,
  space,    \* Model.space: the open handle, [path, id]
  defs,     \* Model.defs: the tables of the open tablespace
  pages,    \* Model.pages and pagesTitle: the right pane
  page, pageSpace, pagePath, pageOpen, \* the page detail
  redo,     \* Model.redo: logged as the last scan saw it
  rep       \* Model.rep: the page a replay runs on and the scan it runs from

server == <<files, nextId, logged>>
keys   == <<prompt, query>>
wiz    == <<lockWiz, findWiz>>
table  == <<space, defs, pages>>
detail == <<page, pageSpace, pagePath, pageOpen>>
replay == <<redo, rep>>
vars   == <<server, quit, dir, focus, keys, wiz, locks, table, detail, replay>>

SpaceId == 1..MaxSpaceId
PageKey == [space : SpaceId, no : PageNo]
Index   == [table : Table, name : IndexName]
Handle  == [path : Path, id : SpaceId]

-----------------------------------------------------------------------------
(* The pickers and the prompt.                                             *)

lockStepIso   == 0
lockStepOp    == 1
lockStepIndex == 2
lockStepCmp   == 3
lockStepValue == 4

Focus      == {"tables", "pages", "detail"}
PromptKind == {"none", "filter", "find", "view", "lock"}
NoPrompt   == [kind |-> "none", text |-> FALSE]
Ask(kind)  == [kind |-> kind, text |-> FALSE]

\* innodb.LockStmt: which bounds were typed, and whether they are included.
LockStmt == [lo : BOOLEAN, hi : BOOLEAN, loIncl : BOOLEAN, hiIncl : BOOLEAN, eq : BOOLEAN]
NoStmt   == [lo |-> FALSE, hi |-> FALSE, loIncl |-> FALSE, hiIncl |-> FALSE, eq |-> FALSE]

lockWizard == [step : lockStepIso..lockStepValue, ix : Index,
               cmp : Comparison \cup {None}, st : LockStmt]
findWizard == [table : Table, ix : Index \cup {None}, insert : BOOLEAN]
lockSet    == [space : Handle, stmt : LockStmt, ix : Index]

\* The page read, the closure that reads it again, and the replay of it.
pageRead   == [path : Path, id : SpaceId, no : PageNo]
pageOpener == [via : {"handle", "path"}, path : Path, id : 0..MaxSpaceId,
               no : PageNo, closed : BOOLEAN]
pageReplay == [key : PageKey, scan : SUBSET PageKey]

ASSUME NoneAssumption ==
  /\ None \notin Handle /\ None \notin Index
  /\ None \notin lockWizard /\ None \notin findWizard
  /\ None \notin pageRead /\ None \notin pageOpener
  /\ None \notin pageReplay /\ \A recs \in SUBSET PageKey : recs # None

picking == lockWiz # None \/ findWiz # None

promptOwner(kind) ==
  CASE kind = "filter" -> "tables"
    [] kind \in {"find", "lock"} -> "pages"
    [] kind = "view" -> "detail"
    [] kind = "none" -> "nobody"

\* The open prompt takes the keys of the pane that owns it.
typing == prompt.kind # "none" /\ focus = promptOwner(prompt.kind)

\* A key that Update sees: no prompt takes it.  The filter lets enter through.
keyFree   == ~quit /\ ~typing
enterFree == ~quit /\ (typing => prompt.kind = "filter")

-----------------------------------------------------------------------------
(* The panes.                                                              *)

Results   == {"FIND", "LOCKS", "INSERT"}
Title     == {"PAGES", "REDO"} \cup Results
EmptyPane == [title |-> "PAGES", space |-> None, table |-> None, rows |-> {}]
RedoPane(recs) == [title |-> "REDO", space |-> None, table |-> None, rows |-> recs]

\* A pane whose rows are pages of the open tablespace; t is the table searched.
TablePane(title, h, t) == [title |-> title, space |-> h, table |-> t, rows |-> {}]

searchable == space # None /\ defs # <<>> /\ pages.title # "REDO"

\* The index the cursor is in.  Only the rows of the page tree carry one, so
\* in a result pane, as above the first row that does, it is the first
\* table's clustered index.
currentIndex ==
  {[table |-> Head(defs), name |-> Clust]} \cup
  IF pages.title = "PAGES" THEN [table : Range(defs), name : IndexName] ELSE {}

\* Closing the open handle leaves a page closure over it dangling.
closeSpace ==
  pageOpen' = IF space # None /\ pageOpen # None /\ pageOpen.via = "handle"
              THEN [pageOpen EXCEPT !.closed = TRUE]
              ELSE pageOpen

\* Mutant: a picker left open over a page tree that was rebuilt.
closePickers_findOnly == findWiz' = None /\ UNCHANGED lockWiz

closePickers == lockWiz' = None /\ findWiz' = None

\* Mutant: the title of a result stays over the page tree.
treePane_keepsTitle(h) == TablePane(pages.title, h, None)

treePane(h) == TablePane("PAGES", h, None)

\* Mutants: the page tree, or the definitions, outlive the tablespace.
openFailed_keepsPages ==
  space' = None /\ defs' = <<>> /\ focus' = "tables" /\ UNCHANGED pages
openFailed_keepsDefs ==
  space' = None /\ pages' = EmptyPane /\ focus' = "tables" /\ UNCHANGED defs

openFailed ==
  space' = None /\ defs' = <<>> /\ pages' = EmptyPane /\ focus' = "tables"

openTable(p) ==
  /\ locks' = IF space # None /\ space.path # p THEN None ELSE locks
  /\ closeSpace
  /\ page' = None
  /\ closePickers
  /\ \/ files[p] = 0 /\ openFailed
     \/ /\ files[p] # 0
        /\ space' = [path |-> p, id |-> files[p]]
        /\ defs' \in {Tables[p], <<>>}
        /\ pages' = treePane(space')
        /\ focus' = "pages"
  /\ UNCHANGED <<server, quit, dir, keys, pageSpace, pagePath, replay>>

\* What loadRedoOnce may leave in Model.redo: the cached scan, a new one, or
\* nothing when the log cannot be read.
loadRedoOnce(cached) == IF cached = None THEN {logged, None} ELSE {cached}

openRedo(cached) ==
  /\ redo' \in loadRedoOnce(cached)
  /\ IF redo' = None
     THEN UNCHANGED <<pages, focus>>
     ELSE pages' = RedoPane(redo') /\ focus' = "pages"
  /\ UNCHANGED <<server, quit, dir, keys, wiz, locks, space, defs, detail, rep>>

-----------------------------------------------------------------------------
(* The page detail.                                                        *)

ReadPage(p, id, no) == [path |-> p, id |-> id, no |-> no]

showPage(id, p) == page' = p /\ pageSpace' = id /\ focus' = "detail"

\* What pageOpen returns: the handle keeps reading the file it was opened on,
\* even one since replaced; a path is opened anew.  None stands for an error.
Reopened ==
  {None} \cup
  IF pageOpen.via = "handle" THEN {ReadPage(pageOpen.path, pageOpen.id, pageOpen.no)}
  ELSE IF files[pageOpen.path] # 0
       THEN {ReadPage(pageOpen.path, files[pageOpen.path], pageOpen.no)}
       ELSE {}

openPage(no) ==
  /\ pagePath' = space.path
  /\ pageOpen' = [via |-> "handle", path |-> space.path, id |-> space.id,
                  no |-> no, closed |-> FALSE]
  /\ \/ UNCHANGED <<page, pageSpace, focus, rep>>
     \/ /\ showPage(space.id, ReadPage(space.path, space.id, no))
        /\ rep' = None
  /\ UNCHANGED <<server, quit, dir, keys, wiz, locks, table, redo>>

\* Mutants: a jump that leaves the path of the page it came from, or a replay
\* of it running.
openPath_keepsPath(p, id, no) ==
  /\ pageOpen' = [via |-> "path", path |-> p, id |-> 0, no |-> no, closed |-> FALSE]
  /\ showPage(id, ReadPage(p, files[p], no))
  /\ rep' = None
  /\ UNCHANGED <<server, quit, dir, keys, wiz, locks, table, redo, pagePath>>
openPath_keepsReplay(p, id, no) ==
  /\ pagePath' = p
  /\ pageOpen' = [via |-> "path", path |-> p, id |-> 0, no |-> no, closed |-> FALSE]
  /\ showPage(id, ReadPage(p, files[p], no))
  /\ UNCHANGED <<server, quit, dir, keys, wiz, locks, table, replay>>

\* Both jumps open the file themselves and close it again.
openPath(p, id, no) ==
  /\ pagePath' = p
  /\ pageOpen' = [via |-> "path", path |-> p, id |-> 0, no |-> no, closed |-> FALSE]
  /\ showPage(id, ReadPage(p, files[p], no))
  /\ rep' = None
  /\ UNCHANGED <<server, quit, dir, keys, wiz, locks, table, redo>>

jumpToPage(k) ==
  \E p \in Path :
    /\ dir[p] = k.space /\ files[p] # 0
    /\ openPath(p, k.space, k.no)

jumpToUndo(p, no) ==
  /\ dir[p] # 0 /\ files[p] # 0
  /\ openPath(p, files[p], no)

\* A result pane replaces the page tree; the detail page stays in Model.page.
showResult(title, t) ==
  /\ pages' = TablePane(title, space, t)
  /\ focus' = "pages"
  /\ UNCHANGED <<server, quit, dir, query, space, defs, detail, replay>>

-----------------------------------------------------------------------------
(* enter: the row under the cursor, of the open picker (cur) or else of the  *)
(* focused pane.                                                           *)

EnterTable ==
  /\ enterFree /\ ~picking /\ focus = "tables"
  /\ \E p \in Path : dir[p] # 0 /\ openTable(p)

EnterRedo ==
  /\ enterFree /\ ~picking /\ focus = "tables"
  /\ openRedo(redo)

EnterPage ==
  /\ enterFree /\ ~picking /\ focus = "pages"
  /\ pages.space # None
  /\ \E no \in PageNo : openPage(no)

\* A redo record names the page it modified, in the redo pane and in the redo
\* and replay sections of the page itself.
EnterRecord ==
  /\ enterFree /\ ~picking
  /\ \/ focus = "pages" /\ \E k \in pages.rows : jumpToPage(k)
     \/ /\ focus = "detail" /\ redo # None
        /\ \E k \in redo : k.space = pageSpace /\ k.no = page.no /\ jumpToPage(k)

EnterRollPtr ==
  /\ enterFree /\ ~picking /\ focus = "detail"
  /\ \E p \in UndoPath, no \in PageNo : jumpToUndo(p, no)

\* The clustered index link of a secondary index record.
EnterClustered ==
  /\ enterFree /\ ~picking /\ focus = "detail"
  /\ space # None /\ pageSpace = space.id
  /\ \E t \in Range(Tables[page.path]) : showResult("FIND", t)
  /\ UNCHANGED <<prompt, wiz, locks>>

-----------------------------------------------------------------------------
(* f, i and l: the pickers.                                                *)

onlyPicker == UNCHANGED <<server, quit, dir, focus, query, locks, table, detail, replay>>

StartFind(insert) ==
  /\ keyFree /\ focus = "pages" /\ searchable /\ ~picking
  /\ \E ix \in currentIndex :
       findWiz' = [table |-> ix.table, ix |-> None, insert |-> insert]
  /\ UNCHANGED <<prompt, lockWiz>> /\ onlyPicker

FindPick ==
  /\ enterFree /\ findWiz # None /\ prompt.kind # "find"
  /\ \E n \in IndexName :
       findWiz' = [findWiz EXCEPT !.ix = [table |-> findWiz.table, name |-> n]]
  /\ prompt' = Ask("find")
  /\ UNCHANGED lockWiz /\ onlyPicker

\* Mutants: esc on the key leaves the index chosen; esc on the list stays on it.
findBack_keepsIndex == findWiz' = IF findWiz.ix # None THEN findWiz ELSE None
findBack_stays      == findWiz' = [findWiz EXCEPT !.ix = None]

findBack ==
  findWiz' = IF findWiz.ix # None THEN [findWiz EXCEPT !.ix = None] ELSE None

StartLock ==
  /\ keyFree /\ focus = "pages" /\ searchable /\ ~picking
  /\ \E ix \in currentIndex :
       lockWiz' = [step |-> lockStepIso, ix |-> ix, cmp |-> None, st |-> NoStmt]
  /\ UNCHANGED <<prompt, findWiz>> /\ onlyPicker

\* The isolation level and the statement only reach the locks themselves, which
\* LockScan has; here every option of a step moves to the next.
lockPickOption ==
  /\ lockWiz.step \in {lockStepIso, lockStepOp}
  /\ lockWiz' = [lockWiz EXCEPT !.step = @ + 1]
  /\ UNCHANGED prompt

lockPickIndex(name) ==
  /\ lockWiz.step = lockStepIndex
  /\ lockWiz' = [lockWiz EXCEPT !.step = lockStepCmp, !.ix = [table |-> @.table, name |-> name]]
  /\ UNCHANGED prompt

lockPickCmp(cmp) ==
  /\ lockWiz.step = lockStepCmp
  /\ lockWiz' = [lockWiz EXCEPT !.step = lockStepValue, !.cmp = cmp]
  /\ prompt' = Ask("lock")

lockPick ==
  \/ lockPickOption
  \/ \E name \in IndexName : lockPickIndex(name)
  \/ \E cmp \in Comparison : lockPickCmp(cmp)

LockPick ==
  /\ enterFree /\ lockWiz # None /\ prompt.kind # "lock"
  /\ lockPick
  /\ UNCHANGED findWiz /\ onlyPicker

LockClear ==
  /\ enterFree /\ lockWiz # None /\ lockWiz.step = lockStepIso /\ locks # None
  /\ locks' = None /\ lockWiz' = None
  /\ UNCHANGED <<server, quit, dir, focus, keys, findWiz, table, detail, replay>>

\* Mutant: a step back keeps what was typed.
lockBack_keepsBounds(open) ==
  /\ prompt' = open
  /\ lockWiz' = IF lockWiz.step = lockStepIso
                THEN None ELSE [lockWiz EXCEPT !.step = @ - 1]

\* One step back; `open` is the prompt esc leaves, closed by now if it was open.
lockBack(open) ==
  CASE lockWiz.step = lockStepIso ->
         lockWiz' = None /\ prompt' = open
    [] lockWiz.step = lockStepValue /\ lockWiz.st.lo /\ lockWiz.cmp = "between" ->
         lockWiz' = [lockWiz EXCEPT !.st = [@ EXCEPT !.lo = FALSE]] /\ prompt' = Ask("lock")
    [] OTHER ->
         /\ lockWiz' = [lockWiz EXCEPT !.step = @ - 1, !.st = [@ EXCEPT !.lo = FALSE, !.hi = FALSE]]
         /\ prompt' = open

\* The statement a typed key makes of the one built so far.
bound(st, cmp) ==
  CASE cmp = "="       -> [lo |-> TRUE, hi |-> TRUE, loIncl |-> TRUE, hiIncl |-> TRUE, eq |-> TRUE]
    [] cmp = "<"       -> [st EXCEPT !.hi = TRUE]
    [] cmp = "<="      -> [st EXCEPT !.hi = TRUE, !.hiIncl = TRUE]
    [] cmp = ">"       -> [st EXCEPT !.lo = TRUE]
    [] cmp = ">="      -> [st EXCEPT !.lo = TRUE, !.loIncl = TRUE]
    [] cmp = "between" -> IF ~st.lo
                          THEN [st EXCEPT !.lo = TRUE, !.loIncl = TRUE]
                          ELSE [st EXCEPT !.hi = TRUE, !.hiIncl = TRUE]

runLock(stmt, ix) ==
  /\ locks' = [space |-> space, stmt |-> stmt, ix |-> ix]
  /\ showResult("LOCKS", ix.table)

lockValue ==
  LET w  == lockWiz
      st == bound(w.st, w.cmp)
  IN IF w.cmp = "between" /\ ~w.st.lo
     THEN /\ lockWiz' = [w EXCEPT !.st = st] /\ prompt' = Ask("lock")
          /\ UNCHANGED findWiz /\ onlyPicker
     ELSE /\ lockWiz' = None /\ prompt' = NoPrompt /\ UNCHANGED findWiz
          /\ runLock(st, w.ix)

-----------------------------------------------------------------------------
(* The prompt.                                                             *)

setQuery(text) == query' = IF prompt.kind = "filter" THEN text ELSE query

onlyPrompt == UNCHANGED <<server, quit, dir, focus, wiz, locks, table, detail, replay>>

OpenPrompt(kind) ==
  /\ keyFree /\ ~picking
  /\ kind \in {"filter", "view"} /\ focus = promptOwner(kind)
  /\ prompt' = [kind |-> kind, text |-> kind = "filter" /\ query]
  /\ UNCHANGED query /\ onlyPrompt

\* Typing, and backspacing what may be the last character.
Type(text) ==
  /\ ~quit /\ typing
  /\ prompt' = [prompt EXCEPT !.text = text]
  /\ setQuery(text) /\ onlyPrompt

closePrompt ==
  /\ setQuery(FALSE)
  /\ CASE lockWiz # None -> lockBack(NoPrompt) /\ UNCHANGED findWiz
       [] lockWiz = None /\ findWiz # None ->
            findBack /\ prompt' = NoPrompt /\ UNCHANGED lockWiz
       [] OTHER -> prompt' = NoPrompt /\ UNCHANGED wiz
  /\ UNCHANGED <<server, quit, dir, focus, locks, table, detail, replay>>

\* Enter on a key prompt.  A blank key leaves the prompt open and empty.
CommitKey ==
  /\ ~quit /\ typing /\ prompt.kind \in {"find", "lock"}
  /\ \/ /\ ~prompt.text
        /\ UNCHANGED keys /\ onlyPrompt
     \/ /\ prompt.text /\ prompt.kind = "find"
        /\ findWiz' = None /\ prompt' = NoPrompt /\ UNCHANGED <<lockWiz, locks>>
        /\ showResult(IF findWiz.insert THEN "INSERT" ELSE "FIND", findWiz.table)
     \/ /\ prompt.text /\ prompt.kind = "lock"
        /\ lockValue

CommitView ==
  /\ ~quit /\ typing /\ prompt.kind = "view"
  /\ prompt' = NoPrompt
  /\ UNCHANGED query /\ onlyPrompt

-----------------------------------------------------------------------------
(* esc.                                                                    *)

leave ==
  CASE focus = "detail" ->
         /\ focus' = "pages" /\ page' = None
         /\ UNCHANGED <<server, quit, dir, keys, wiz, locks, table, pageSpace, pagePath, pageOpen, replay>>
    [] focus = "pages" /\ lockWiz # None ->
         lockBack(prompt) /\ UNCHANGED <<query, findWiz>> /\ onlyPicker
    [] focus = "pages" /\ lockWiz = None /\ findWiz # None ->
         findBack /\ UNCHANGED <<prompt, lockWiz>> /\ onlyPicker
    [] focus = "pages" /\ ~picking /\ pages.title \in Results /\ space # None ->
         openTable(space.path)
    [] focus = "pages" /\ ~picking /\ ~(pages.title \in Results /\ space # None) ->
         focus' = "tables"
         /\ UNCHANGED <<server, quit, dir, keys, wiz, locks, table, detail, replay>>
    [] focus = "tables" ->
         /\ quit' = TRUE
         /\ UNCHANGED <<server, dir, focus, keys, wiz, locks, table, detail, replay>>

Esc == ~quit /\ IF typing THEN closePrompt ELSE leave

-----------------------------------------------------------------------------
(* r, n and p.                                                             *)

reloadPage ==
  /\ focus = "detail" /\ pageOpen # None
  /\ \E p \in Reopened :
       IF p = None
       THEN UNCHANGED <<page, rep>>
       ELSE page' = p /\ rep' = None
  /\ UNCHANGED <<server, quit, dir, focus, keys, wiz, locks, table, pageSpace, pagePath, pageOpen, redo>>

reloadPages ==
  /\ focus = "pages"
  /\ \/ pages.title = "REDO" /\ openRedo(None)
     \/ pages.title # "REDO" /\ space # None /\ openTable(space.path)

reloadTables ==
  /\ focus = "tables"
  /\ dir' = files
  /\ UNCHANGED <<server, quit, focus, keys, wiz, locks, table, detail, replay>>

Reload == keyFree /\ (reloadPage \/ reloadPages \/ reloadTables)

\* n and p.  The first of either binds the records the scan holds for the page;
\* a step re-reads the page and applies some of them to it.
ReplayStep ==
  /\ keyFree /\ focus = "detail" /\ page # None /\ pageOpen # None
  /\ IF rep # None
     THEN UNCHANGED replay
     ELSE /\ redo' \in loadRedoOnce(redo)
          /\ LET k == [space |-> pageSpace, no |-> page.no] IN
             rep' = IF redo' # None /\ k \in redo' THEN [key |-> k, scan |-> redo'] ELSE None
  /\ IF rep' = None
     THEN UNCHANGED page
     ELSE page' \in (Reopened \ {None}) \cup {page}
  /\ UNCHANGED <<server, quit, dir, focus, keys, wiz, locks, table, pageSpace, pagePath, pageOpen>>

\* Unfolding the redo section of a page is what may scan the log first.
ExpandRedo ==
  /\ keyFree /\ focus = "detail" /\ rep = None
  /\ redo' \in loadRedoOnce(redo)
  /\ UNCHANGED <<server, quit, dir, focus, keys, wiz, locks, table, detail, rep>>

CtrlC ==
  /\ ~quit
  /\ quit' = TRUE
  /\ UNCHANGED <<server, dir, focus, keys, wiz, locks, table, detail, replay>>

-----------------------------------------------------------------------------
(* The server under the files.                                             *)

session == <<quit, dir, focus, keys, wiz, locks, table, detail, replay>>

Drop(p) ==
  /\ p \in Droppable /\ files[p] # 0
  /\ files' = [files EXCEPT ![p] = 0]
  /\ UNCHANGED <<nextId, logged, session>>

\* CREATE gives a missing file an id; TRUNCATE replaces a file by a new one.
Create(p) ==
  /\ nextId <= MaxSpaceId
  /\ files' = [files EXCEPT ![p] = nextId]
  /\ nextId' = nextId + 1
  /\ UNCHANGED <<logged, session>>

Log(p, no) ==
  /\ files[p] # 0
  /\ Cardinality(logged) < MaxLogged
  /\ logged' = logged \cup {[space |-> files[p], no |-> no]}
  /\ UNCHANGED <<files, nextId, session>>

\* A checkpoint leaves no record of the pages flushed before it.
Checkpoint ==
  /\ \E kept \in SUBSET logged : logged' = kept
  /\ UNCHANGED <<files, nextId, session>>

-----------------------------------------------------------------------------
Init ==
  /\ files = FirstId /\ nextId = FirstNew /\ logged = {}
  /\ dir = files
  /\ quit = FALSE /\ focus = "tables"
  /\ prompt = NoPrompt /\ query = FALSE
  /\ lockWiz = None /\ findWiz = None /\ locks = None
  /\ space = None /\ defs = <<>> /\ pages = EmptyPane
  /\ page = None /\ pageSpace = 0 /\ pagePath = None /\ pageOpen = None
  /\ redo = None /\ rep = None

Enter ==
  \/ EnterTable \/ EnterRedo \/ EnterPage \/ EnterRecord \/ EnterRollPtr \/ EnterClustered
  \/ FindPick \/ LockPick \/ LockClear \/ CommitKey \/ CommitView

Key ==
  \/ Enter
  \/ \E insert \in BOOLEAN : StartFind(insert)
  \/ StartLock
  \/ \E kind \in PromptKind : OpenPrompt(kind)
  \/ \E text \in BOOLEAN : Type(text)
  \/ Esc \/ Reload \/ ReplayStep \/ ExpandRedo \/ CtrlC

Server ==
  \/ \E p \in Path : Drop(p) \/ Create(p)
  \/ \E p \in Path, no \in PageNo : Log(p, no)
  \/ Checkpoint

\* After tea.Quit only the server goes on.
Terminated == quit /\ UNCHANGED vars

Next == Key \/ Server \/ Terminated

Spec == Init /\ [][Next]_vars

\* The user who wants out keeps pressing esc; nothing else is owed.
FairSpec == Spec /\ WF_vars(Esc)

-----------------------------------------------------------------------------
(* Properties.                                                             *)

FilesTypeOK ==
  /\ files \in [Path -> 0..MaxSpaceId] /\ dir \in [Path -> 0..MaxSpaceId]
  /\ nextId \in Nat \ {0}
  /\ logged \subseteq PageKey /\ redo \in (SUBSET PageKey) \cup {None}
KeysTypeOK ==
  /\ quit \in BOOLEAN /\ focus \in Focus
  /\ prompt \in [kind : PromptKind, text : BOOLEAN] /\ query \in BOOLEAN
  /\ lockWiz \in lockWizard \cup {None} /\ findWiz \in findWizard \cup {None}
PaneTypeOK ==
  /\ space \in Handle \cup {None} /\ locks \in lockSet \cup {None}
  /\ defs # <<>> => space # None /\ defs = Tables[space.path]
  /\ pages \in [title : Title, space : Handle \cup {None},
                table : Table \cup {None}, rows : SUBSET PageKey]
DetailTypeOK ==
  /\ page \in pageRead \cup {None} /\ pageOpen \in pageOpener \cup {None}
  /\ pageSpace \in 0..MaxSpaceId /\ pagePath \in Path \cup {None}
  /\ rep \in pageReplay \cup {None}

\* Every variable has its type, and the definitions are those of the open file.
TypeOK == FilesTypeOK /\ KeysTypeOK /\ PaneTypeOK /\ DetailTypeOK

\* The rows of the right pane are pages of the tablespace that is open now:
\* opening one of them never goes through a nil or a closed handle.
PaneBacked ==
  /\ pages.space # None => pages.space = space
  /\ pages.title \in Results => pages.space # None

\* What the detail view shows can be read again: the closure r, n and p use is
\* over an open handle or a path, for the page on the screen, and pagePath,
\* which the baseline is found by, names its file.
DetailBacked ==
  focus = "detail" =>
    /\ page # None /\ pageOpen # None
    /\ pagePath = page.path /\ pageOpen.path = page.path /\ pageOpen.no = page.no
    /\ pageOpen.via = "handle" =>
         /\ ~pageOpen.closed /\ space # None
         /\ space = [path |-> pageOpen.path, id |-> pageOpen.id]

\* A picker floats over the page pane of an open tablespace, alone, and the
\* indexes it offers are of a table that tablespace describes.
PickerOwnsPane ==
  /\ lockWiz # None => findWiz = None /\ lockWiz.ix.table \in Range(defs)
  /\ findWiz # None => findWiz.table \in Range(defs)
  /\ picking => focus = "pages" /\ space # None /\ pages.title # "REDO"

\* A key prompt is open exactly while its picker waits for the key, which is
\* what footer, pickerView and findKey assume; the read view prompt only over
\* a page.
PromptMatchesPicker ==
  /\ prompt.kind = "lock" <=> lockWiz # None /\ lockWiz.step = lockStepValue
  /\ prompt.kind = "find" <=> findWiz # None /\ findWiz.ix # None
  /\ prompt.kind = "view" => focus = "detail"

\* Going back drops the bounds typed so far: the only one a picker holds is the
\* lower bound of the BETWEEN whose upper bound it is asking for.  It asks for
\* a key only once a comparison is picked.
BoundsMatchStep ==
  lockWiz # None =>
    /\ ~lockWiz.st.hi /\ ~lockWiz.st.hiIncl /\ ~lockWiz.st.eq
    /\ lockWiz.st.lo => lockWiz.step = lockStepValue /\ lockWiz.cmp = "between"
    /\ lockWiz.step = lockStepValue => lockWiz.cmp \in Comparison

\* The records a replay steps are those the cached scan holds for the page in
\* the detail view: replaySection annotates them with that scan's buffer.
ReplayOfPage ==
  focus = "detail" /\ rep # None =>
    /\ rep.key = [space |-> pageSpace, no |-> page.no]
    /\ rep.scan = redo /\ rep.key \in redo

\* How many esc are left until the program quits.
EscsLeft ==
  CASE quit -> 0
    [] ~quit /\ focus = "tables" -> IF prompt.kind = "filter" THEN 2 ELSE 1
    [] ~quit /\ focus = "detail" -> IF prompt.kind = "view" THEN 21 ELSE 20
    [] ~quit /\ focus = "pages" /\ lockWiz # None ->
         5 + 2 * lockWiz.step + (IF lockWiz.st.lo THEN 1 ELSE 0)
    [] ~quit /\ focus = "pages" /\ lockWiz = None /\ findWiz # None ->
         IF findWiz.ix = None THEN 5 ELSE 6
    [] OTHER -> IF pages.title \in Results THEN 4 ELSE 3

\* esc always leads towards the way out, also when the tablespace behind a
\* result pane can no longer be opened.
EscLeadsOut == [][Esc => EscsLeft' < EscsLeft]_vars

\* A user who presses nothing but esc gets out of the program.
EscQuits == <>[][Esc \/ Server \/ Terminated]_vars => <>quit

\* The statement run is the one on the picker's title, whatever was picked,
\* typed and taken back before: which bounds it has and whether "=" made it.
StatementBounds ==
  [][ CommitKey /\ lockWiz # None /\ lockWiz' = None
      => LET st == locks'.stmt  c == lockWiz.cmp IN
         /\ st.lo <=> c \in {"=", ">", ">=", "between"}
         /\ st.hi <=> c \in {"=", "<", "<=", "between"}
         /\ st.hi /\ st.hiIncl <=> c \in {"=", "<=", "between"}
         /\ st.eq <=> c = "=" ]_vars

\* "> key" is "everything after the key" (lockStep): the lower bound of the
\* statement is included for =, >= and between alone.
StatementAsPicked ==
  [][ CommitKey /\ lockWiz # None /\ lockWiz' = None /\ locks'.stmt.lo
      => (locks'.stmt.loIncl <=> lockWiz.cmp \in {"=", ">=", "between"}) ]_vars

=============================================================================
