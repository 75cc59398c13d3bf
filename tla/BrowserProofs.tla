---------------------------- MODULE BrowserProofs ----------------------------
(***************************************************************************)
(* The session of Browser keeps its invariants whatever files the server   *)
(* has, whatever keys are pressed and in whatever order: IInv is inductive.*)
(*                                                                         *)
(* None of the parts of IInv is inductive alone.  A prompt that takes the  *)
(* keys of a pane keeps the picker behind it from being closed only while  *)
(* PromptMatchesPicker holds; a result pane can be left through the handle *)
(* only while PaneBacked does; a replay is of the page shown only because  *)
(* DetailBacked ties the page to what re-reads it.                         *)
(***************************************************************************)
EXTENDS Browser, TLAPS

\* The inductive invariant.
IInv ==
  /\ TypeOK /\ PaneBacked /\ DetailBacked
  /\ PickerOwnsPane /\ PromptMatchesPicker /\ BoundsMatchStep /\ ReplayOfPage

\* A session starts with nothing open.
LEMMA InitInv == Init => IInv
<1> SUFFICES ASSUME Init PROVE IInv
  OBVIOUS
<1> USE BrowserAssumption, NoneAssumption DEF Init
<1>1. FilesTypeOK
  BY DEF FilesTypeOK
<1>2. KeysTypeOK
  BY DEF KeysTypeOK, Focus, PromptKind, NoPrompt
<1>3. PaneTypeOK /\ DetailTypeOK
  BY DEF PaneTypeOK, DetailTypeOK, EmptyPane, Title
<1>4. PaneBacked
  BY DEF PaneBacked, EmptyPane, Results
<1>5. DetailBacked /\ ReplayOfPage
  BY DEF DetailBacked, ReplayOfPage
<1>6. PickerOwnsPane /\ PromptMatchesPicker /\ BoundsMatchStep
  BY DEF PickerOwnsPane, PromptMatchesPicker, BoundsMatchStep, picking, NoPrompt
<1> QED BY <1>1, <1>2, <1>3, <1>4, <1>5, <1>6 DEF IInv, TypeOK

-----------------------------------------------------------------------------

(* What the constants give, and what an open prompt rules out. *)

\* The tables of a file are tables.
LEMMA TablesRange ==
  ASSUME NEW p \in Path
  PROVE  Range(Tables[p]) \subseteq Table
BY BrowserAssumption DEF Range

\* Definitions that are not empty have a first table.
LEMMA HeadInRange ==
  ASSUME NEW p \in Path, Tables[p] # <<>>
  PROVE  Head(Tables[p]) \in Range(Tables[p])
BY BrowserAssumption DEF Range

\* No key prompt is open without its picker.
LEMMA NoKeyPrompt ==
  ASSUME PickerOwnsPane, PromptMatchesPicker, ~picking
  PROVE  prompt.kind \notin {"lock", "find"}
BY DEF PromptMatchesPicker, picking

\* enter acts on a row only when no prompt of the pane takes it.
LEMMA NoPromptTakesEnter ==
  ASSUME PickerOwnsPane, PromptMatchesPicker, ~picking, enterFree
  PROVE  prompt.kind \notin {"lock", "find", "view"}
BY DEF PromptMatchesPicker, picking, enterFree, typing, promptOwner

-----------------------------------------------------------------------------

(* Opening a tablespace, the redo log, a page. *)

\* openTable resets everything that hung on the tablespace before it.
LEMMA OpenTableInv ==
  ASSUME IInv, NEW p \in Path, openTable(p), focus # "detail",
         prompt.kind \notin {"lock", "find"}
  PROVE  IInv'
<1> USE BrowserAssumption, NoneAssumption DEF openTable, server, keys, replay
<1>1. FilesTypeOK'
  BY DEF IInv, TypeOK, FilesTypeOK
<1>2. KeysTypeOK'
  BY DEF IInv, TypeOK, KeysTypeOK, openFailed, closePickers, Focus
<1>3. PaneTypeOK'
  BY DEF IInv, TypeOK, PaneTypeOK, FilesTypeOK, openFailed, treePane, TablePane, EmptyPane, Title, Handle, SpaceId
<1>4. DetailTypeOK'
  BY DEF IInv, TypeOK, DetailTypeOK, closeSpace, pageOpener
<1>5. PaneBacked'
  BY DEF openFailed, EmptyPane, treePane, TablePane, PaneBacked, Results
<1>6. DetailBacked' /\ ReplayOfPage'
  BY DEF openFailed, DetailBacked, ReplayOfPage
<1>7. PickerOwnsPane' /\ BoundsMatchStep'
  BY DEF closePickers, PickerOwnsPane, BoundsMatchStep, picking
<1>8. PromptMatchesPicker'
  BY DEF IInv, closePickers, PromptMatchesPicker
<1> QED BY <1>1, <1>2, <1>3, <1>4, <1>5, <1>6, <1>7, <1>8 DEF IInv, TypeOK

\* The redo pane shows the scan it was given.
LEMMA OpenRedoInv ==
  ASSUME IInv, NEW cached \in {redo, None}, openRedo(cached), focus # "detail", ~picking
  PROVE  IInv'
<1> USE BrowserAssumption, NoneAssumption DEF openRedo, server, keys, wiz, detail
<1>0. redo' \in (SUBSET PageKey) \cup {None}
  BY DEF loadRedoOnce, IInv, TypeOK, FilesTypeOK
<1>1. FilesTypeOK'
  BY <1>0 DEF IInv, TypeOK, FilesTypeOK
<1>2. KeysTypeOK'
  BY DEF IInv, TypeOK, KeysTypeOK, Focus
<1>3. PaneTypeOK'
  BY <1>0 DEF IInv, TypeOK, PaneTypeOK, RedoPane, Title
<1>4. DetailTypeOK'
  BY DEF IInv, TypeOK, DetailTypeOK
<1>5. PaneBacked'
  BY DEF IInv, PaneBacked, RedoPane, Results
<1>6. DetailBacked' /\ ReplayOfPage'
  BY DEF DetailBacked, ReplayOfPage
<1>7. PickerOwnsPane' /\ BoundsMatchStep'
  BY DEF IInv, PickerOwnsPane, BoundsMatchStep, picking
<1>8. PromptMatchesPicker'
  BY DEF IInv, PromptMatchesPicker
<1> QED BY <1>1, <1>2, <1>3, <1>4, <1>5, <1>6, <1>7, <1>8 DEF IInv, TypeOK

\* enter on a tablespace.
LEMMA EnterTableInv == IInv /\ EnterTable => IInv'
<1>1. IInv /\ EnterTable => prompt.kind \notin {"lock", "find"}
  BY DEF EnterTable, IInv, PickerOwnsPane, PromptMatchesPicker, picking
<1> QED BY <1>1, OpenTableInv DEF EnterTable

\* enter on the redo log.
LEMMA EnterRedoInv == IInv /\ EnterRedo => IInv'
<1>1. IInv /\ EnterRedo => ~picking
  BY DEF EnterRedo, IInv, PickerOwnsPane
<1> QED BY <1>1, OpenRedoInv DEF EnterRedo

\* enter on a page, through the open handle.
LEMMA EnterPageInv == IInv /\ EnterPage => IInv'
<1> SUFFICES ASSUME IInv, EnterPage, NEW no \in PageNo, openPage(no) PROVE IInv'
  BY DEF EnterPage
<1> USE BrowserAssumption, NoneAssumption DEF openPage, server, keys, wiz, table, showPage, ReadPage
<1>0. space \in Handle
  BY DEF IInv, PaneBacked, EnterPage, TypeOK, PaneTypeOK
<1>1. FilesTypeOK'
  BY DEF IInv, TypeOK, FilesTypeOK
<1>2. KeysTypeOK' /\ PaneTypeOK'
  BY DEF IInv, TypeOK, KeysTypeOK, PaneTypeOK, Focus
<1>4. DetailTypeOK'
  BY <1>0 DEF IInv, TypeOK, DetailTypeOK, pageOpener, pageRead, Handle, SpaceId
<1>5. PaneBacked'
  BY DEF IInv, PaneBacked
<1>6. DetailBacked' /\ ReplayOfPage'
  <2>1. [path |-> space.path, id |-> space.id, no |-> no] \in pageRead
    BY <1>0 DEF pageRead, Handle
  <2>2. pageOpen' \in pageOpener
    BY <1>0 DEF pageOpener, Handle, SpaceId
  <2>3. space # None /\ space = [path |-> space.path, id |-> space.id]
    BY <1>0 DEF Handle
  <2>4. CASE page' = page /\ focus' = focus
    BY <2>4 DEF EnterPage, DetailBacked, ReplayOfPage
  <2>5. CASE page' = ReadPage(space.path, space.id, no) /\ rep' = None
    <3>1. page' # None /\ pageOpen' # None /\ page'.path = space.path /\ page'.no = no
      BY <2>1, <2>2, <2>5
    <3>2. /\ pageOpen'.path = space.path /\ pageOpen'.id = space.id /\ pageOpen'.no = no
          /\ ~pageOpen'.closed /\ pagePath' = space.path /\ space' = space
      OBVIOUS
    <3> QED BY <2>3, <2>5, <3>1, <3>2 DEF DetailBacked, ReplayOfPage
  <2> QED BY <2>4, <2>5
<1>7. PickerOwnsPane' /\ BoundsMatchStep'
  BY DEF EnterPage, IInv, PickerOwnsPane, BoundsMatchStep, picking
<1>8. PromptMatchesPicker'
  BY NoPromptTakesEnter DEF EnterPage, IInv, PromptMatchesPicker, picking
<1> QED BY <1>1, <1>2, <1>4, <1>5, <1>6, <1>7, <1>8 DEF IInv, TypeOK

\* A jump opens the file of its path, so path, page and closure agree.
LEMMA OpenPathInv ==
  ASSUME IInv, NEW p \in Path, files[p] # 0, NEW id \in SpaceId, NEW no \in PageNo,
         openPath(p, id, no), enterFree, ~picking
  PROVE  IInv'
<1> USE BrowserAssumption, NoneAssumption DEF openPath, server, keys, wiz, table, showPage, ReadPage
<1>1. FilesTypeOK'
  BY DEF IInv, TypeOK, FilesTypeOK
<1>2. KeysTypeOK' /\ PaneTypeOK'
  BY DEF IInv, TypeOK, KeysTypeOK, PaneTypeOK, Focus
<1>4. DetailTypeOK'
  BY DEF IInv, TypeOK, DetailTypeOK, FilesTypeOK, pageOpener, pageRead, SpaceId
<1>5. PaneBacked'
  BY DEF IInv, PaneBacked
<1>6. DetailBacked' /\ ReplayOfPage'
  <2>1. page' \in pageRead
    BY DEF pageRead, IInv, TypeOK, FilesTypeOK, SpaceId
  <2>2. pageOpen' \in pageOpener
    BY DEF pageOpener
  <2> QED BY <2>1, <2>2 DEF DetailBacked, ReplayOfPage
<1>7. PickerOwnsPane' /\ BoundsMatchStep'
  BY DEF IInv, PickerOwnsPane, BoundsMatchStep, picking
<1>8. PromptMatchesPicker'
  BY NoPromptTakesEnter DEF IInv, PromptMatchesPicker, picking
<1> QED BY <1>1, <1>2, <1>4, <1>5, <1>6, <1>7, <1>8 DEF IInv, TypeOK

\* A jump to a page is one through a path.
LEMMA JumpInv ==
  ASSUME IInv, NEW k \in PageKey, jumpToPage(k), enterFree, ~picking
  PROVE  IInv'
BY OpenPathInv DEF jumpToPage, PageKey

\* enter on a redo record.
LEMMA EnterRecordInv == IInv /\ EnterRecord => IInv'
BY JumpInv DEF IInv, TypeOK, PaneTypeOK, FilesTypeOK, EnterRecord

\* enter on a roll pointer.
LEMMA EnterRollPtrInv == IInv /\ EnterRollPtr => IInv'
<1> SUFFICES ASSUME IInv, EnterRollPtr, NEW p \in UndoPath, NEW no \in PageNo, jumpToUndo(p, no)
             PROVE IInv'
  BY DEF EnterRollPtr
<1>1. ~picking
  BY DEF EnterRollPtr, IInv, PickerOwnsPane
<1>2. p \in Path /\ files[p] \in SpaceId
  BY BrowserAssumption DEF jumpToUndo, IInv, TypeOK, FilesTypeOK, SpaceId
<1> QED BY <1>1, <1>2, OpenPathInv DEF EnterRollPtr, jumpToUndo

\* A result pane is backed by the handle the search went through.
LEMMA ShowResultInv ==
  ASSUME IInv, NEW title \in Results, NEW t \in Table, showResult(title, t), space # None,
         prompt' = NoPrompt \/ (prompt' = prompt /\ prompt.kind \in {"none", "filter"}),
         lockWiz' = None, findWiz' = None, locks' \in lockSet \cup {None}
  PROVE  IInv'
<1> USE DEF showResult, server, detail, replay
<1>1. FilesTypeOK'
  BY DEF IInv, TypeOK, FilesTypeOK
<1>2. KeysTypeOK'
  <2>1. prompt' \in [kind : PromptKind, text : BOOLEAN]
    <3>1. NoPrompt \in [kind : PromptKind, text : BOOLEAN]
      BY DEF NoPrompt, PromptKind
    <3> QED BY <3>1 DEF IInv, TypeOK, KeysTypeOK
  <2>2. quit' = quit /\ focus' = "pages" /\ query' = query
    OBVIOUS
  <2> QED BY <2>1, <2>2 DEF IInv, TypeOK, KeysTypeOK, Focus
<1>3. PaneTypeOK'
  BY DEF IInv, TypeOK, PaneTypeOK, TablePane, Title
<1>4. DetailTypeOK'
  BY DEF IInv, TypeOK, DetailTypeOK
<1>5. PaneBacked'
  BY DEF PaneBacked, TablePane
<1>6. DetailBacked' /\ ReplayOfPage'
  BY DEF DetailBacked, ReplayOfPage
<1>7. PickerOwnsPane' /\ PromptMatchesPicker' /\ BoundsMatchStep'
  BY DEF PickerOwnsPane, PromptMatchesPicker, BoundsMatchStep, picking, NoPrompt
<1> QED BY <1>1, <1>2, <1>3, <1>4, <1>5, <1>6, <1>7 DEF IInv, TypeOK

\* enter on the clustered index link of a record.
LEMMA EnterClusteredInv == IInv /\ EnterClustered => IInv'
<1> SUFFICES ASSUME IInv, EnterClustered, NEW t \in Range(Tables[page.path]),
                    showResult("FIND", t)
             PROVE  IInv'
  BY DEF EnterClustered
<1>1. t \in Table
  <2>1. page \in pageRead
    BY DEF EnterClustered, IInv, DetailBacked, TypeOK, DetailTypeOK
  <2> QED BY <2>1, TablesRange DEF pageRead
<1>2. ~picking
  BY DEF EnterClustered, IInv, PickerOwnsPane
<1>3. prompt.kind \in {"none", "filter"}
  BY <1>2, NoPromptTakesEnter DEF EnterClustered, IInv, TypeOK, KeysTypeOK, PromptKind
<1>4. locks' \in lockSet \cup {None} /\ prompt' = prompt
  BY DEF EnterClustered, IInv, TypeOK, PaneTypeOK
<1>5. lockWiz' = None /\ findWiz' = None
  BY <1>2 DEF EnterClustered, wiz, picking
<1> QED BY <1>1, <1>3, <1>4, <1>5, ShowResultInv DEF EnterClustered, Results

-----------------------------------------------------------------------------

(* The pickers. *)

\* A step of a picker that leaves every pane alone.
LEMMA PickerStepInv ==
  ASSUME IInv, UNCHANGED <<server, quit, dir, focus, locks, table, detail, replay>>,
         prompt' \in [kind : PromptKind, text : BOOLEAN], query' \in BOOLEAN,
         lockWiz' \in lockWizard \cup {None}, findWiz' \in findWizard \cup {None},
         PickerOwnsPane', PromptMatchesPicker', BoundsMatchStep'
  PROVE  IInv'
<1> USE DEF server, table, detail, replay
<1>1. FilesTypeOK'
  BY DEF IInv, TypeOK, FilesTypeOK
<1>2. KeysTypeOK'
  BY DEF IInv, TypeOK, KeysTypeOK
<1>3. PaneTypeOK'
  BY DEF IInv, TypeOK, PaneTypeOK
<1>4. DetailTypeOK'
  BY DEF IInv, TypeOK, DetailTypeOK
<1>5. PaneBacked' /\ DetailBacked' /\ ReplayOfPage'
  BY DEF IInv, PaneBacked, DetailBacked, ReplayOfPage
<1> QED BY <1>1, <1>2, <1>3, <1>4, <1>5 DEF IInv, TypeOK

\* The index the cursor is in is of a table of the open tablespace.
LEMMA CursorIndex ==
  ASSUME IInv, searchable, NEW ix \in currentIndex
  PROVE  ix \in Index /\ ix.table \in Range(defs)
<1>1. space \in Handle /\ defs = Tables[space.path] /\ defs # <<>>
  BY DEF searchable, IInv, TypeOK, PaneTypeOK
<1>2. Range(defs) \subseteq Table /\ Head(defs) \in Range(defs)
  BY <1>1, TablesRange, HeadInRange DEF Handle
<1> QED BY <1>2, BrowserAssumption DEF currentIndex, Index

\* f and i.
LEMMA StartFindInv == \A insert \in BOOLEAN : IInv /\ StartFind(insert) => IInv'
<1> SUFFICES ASSUME NEW insert \in BOOLEAN, IInv, StartFind(insert) PROVE IInv'
  OBVIOUS
<1> USE BrowserAssumption, NoneAssumption DEF StartFind, onlyPicker, table
<1>1. PICK ix \in currentIndex : findWiz' = [table |-> ix.table, ix |-> None, insert |-> insert]
  OBVIOUS
<1>2. ix.table \in Table /\ ix.table \in Range(defs)
  BY CursorIndex DEF Index
<1>3. findWiz' \in findWizard
  BY <1>1, <1>2 DEF findWizard
<1>4. PickerOwnsPane'
  BY <1>1, <1>2, <1>3 DEF PickerOwnsPane, picking, searchable
<1>5. PromptMatchesPicker' /\ BoundsMatchStep'
  BY <1>1, <1>3 DEF IInv, PromptMatchesPicker, BoundsMatchStep, picking
<1> QED BY <1>3, <1>4, <1>5, PickerStepInv DEF IInv, TypeOK, KeysTypeOK

\* l.
LEMMA StartLockInv == IInv /\ StartLock => IInv'
<1> SUFFICES ASSUME IInv, StartLock PROVE IInv'
  OBVIOUS
<1> USE BrowserAssumption, NoneAssumption DEF StartLock, onlyPicker, table
<1>1. PICK ix \in currentIndex :
        lockWiz' = [step |-> lockStepIso, ix |-> ix, cmp |-> None, st |-> NoStmt]
  OBVIOUS
<1>2. ix \in Index /\ ix.table \in Range(defs)
  BY CursorIndex
<1>3. lockWiz' \in lockWizard
  <2>1. NoStmt \in LockStmt
    BY DEF NoStmt, LockStmt
  <2>2. lockStepIso \in lockStepIso..lockStepValue
    BY DEF lockStepIso, lockStepValue
  <2> QED BY <1>1, <1>2, <2>1, <2>2 DEF lockWizard
<1>4. PickerOwnsPane'
  BY <1>1, <1>2, <1>3 DEF PickerOwnsPane, picking, searchable
<1>5. PromptMatchesPicker' /\ BoundsMatchStep'
  <2>1. /\ lockWiz'.step # lockStepValue /\ ~lockWiz'.st.lo
        /\ ~lockWiz'.st.hi /\ ~lockWiz'.st.hiIncl /\ ~lockWiz'.st.eq
    BY <1>1 DEF NoStmt, lockStepIso, lockStepValue
  <2>2. prompt.kind # "lock" /\ prompt' = prompt /\ findWiz' = findWiz
    BY DEF IInv, PromptMatchesPicker, picking
  <2>3. prompt.kind = "view" => focus = "detail"
    BY DEF IInv, PromptMatchesPicker
  <2>4. PromptMatchesPicker'
    BY <2>1, <2>2, <2>3 DEF IInv, PromptMatchesPicker
  <2> QED BY <2>1, <2>4 DEF BoundsMatchStep
<1> QED BY <1>3, <1>4, <1>5, PickerStepInv DEF IInv, TypeOK, KeysTypeOK

\* enter on an index.
LEMMA FindPickInv == IInv /\ FindPick => IInv'
<1> SUFFICES ASSUME IInv, FindPick PROVE IInv'
  OBVIOUS
<1> USE NoneAssumption DEF FindPick, onlyPicker, table
<1>1. PICK n \in IndexName :
        findWiz' = [findWiz EXCEPT !.ix = [table |-> findWiz.table, name |-> n]]
  OBVIOUS
<1>2. findWiz \in findWizard
  BY DEF IInv, TypeOK, KeysTypeOK
<1>3. findWiz' \in findWizard /\ findWiz'.ix # None /\ findWiz'.table = findWiz.table
  BY <1>1, <1>2 DEF findWizard, Index
<1>4. PickerOwnsPane'
  BY <1>3 DEF IInv, PickerOwnsPane, picking
<1>5. PromptMatchesPicker' /\ BoundsMatchStep'
  BY <1>3 DEF IInv, PromptMatchesPicker, BoundsMatchStep, PickerOwnsPane, Ask
<1> QED BY <1>3, <1>4, <1>5, PickerStepInv DEF IInv, TypeOK, KeysTypeOK, Ask, PromptKind

\* enter on an option of the lock picker.
LEMMA LockPickInv == IInv /\ LockPick => IInv'
<1> SUFFICES ASSUME IInv, LockPick PROVE IInv'
  OBVIOUS
<1> USE NoneAssumption DEF LockPick, onlyPicker, table
<1>1. lockWiz \in lockWizard
  BY DEF IInv, TypeOK, KeysTypeOK
<1>2. lockWiz.step # lockStepValue
  BY DEF IInv, PromptMatchesPicker
<1> DEFINE Stepped ==
      /\ lockWiz' \in lockWizard
      /\ lockWiz'.step = lockWiz.step + 1 /\ lockWiz'.ix.table = lockWiz.ix.table
      /\ lockWiz'.st = lockWiz.st
      /\ prompt' = IF lockWiz.step = lockStepCmp THEN Ask("lock") ELSE prompt
      /\ lockWiz.step = lockStepCmp => lockWiz'.cmp \in Comparison
<1>3. Stepped
  <2> USE DEF lockStepIso, lockStepOp, lockStepIndex, lockStepCmp, lockStepValue
  <2>0. /\ lockWiz.step \in 0..3 /\ lockWiz.ix \in Index /\ lockWiz.st \in LockStmt
        /\ lockWiz.cmp \in Comparison \cup {None}
        /\ lockWiz = [step |-> lockWiz.step, ix |-> lockWiz.ix, cmp |-> lockWiz.cmp, st |-> lockWiz.st]
    BY <1>1, <1>2 DEF lockWizard
  <2>1. CASE lockPickOption
    BY <2>0, <2>1 DEF lockPickOption, lockWizard
  <2>2. ASSUME NEW n \in IndexName, lockPickIndex(n)
        PROVE  Stepped
    <3>1. lockWiz' = [step |-> lockStepCmp, ix |-> [table |-> lockWiz.ix.table, name |-> n],
                      cmp |-> lockWiz.cmp, st |-> lockWiz.st]
      BY <2>0, <2>2 DEF lockPickIndex
    <3>2. [table |-> lockWiz.ix.table, name |-> n] \in Index
      BY <2>0 DEF Index
    <3>3. lockWiz.step = lockStepIndex /\ prompt' = prompt
      BY <2>2 DEF lockPickIndex
    <3> QED BY <2>0, <3>1, <3>2, <3>3 DEF lockWizard
  <2>3. ASSUME NEW c \in Comparison, lockPickCmp(c)
        PROVE  Stepped
    <3>1. lockWiz' = [step |-> lockStepValue, ix |-> lockWiz.ix, cmp |-> c, st |-> lockWiz.st]
      BY <2>0, <2>3 DEF lockPickCmp
    <3>2. lockWiz.step = lockStepCmp /\ prompt' = Ask("lock")
      BY <2>3 DEF lockPickCmp
    <3> QED BY <2>0, <3>1, <3>2 DEF lockWizard
  <2> QED BY <2>1, <2>2, <2>3 DEF lockPick
<1>4. PickerOwnsPane'
  BY <1>3 DEF IInv, PickerOwnsPane, picking
<1>5. PromptMatchesPicker'
  <2>1. findWiz' = None /\ prompt.kind \notin {"lock", "find", "view"}
    BY DEF IInv, PromptMatchesPicker, PickerOwnsPane, picking
  <2>2. lockWiz' # None /\ (lockWiz'.step = lockStepValue <=> lockWiz.step = lockStepCmp)
    BY <1>1, <1>3 DEF lockWizard, lockStepIso, lockStepCmp, lockStepValue
  <2> QED BY <1>3, <2>1, <2>2 DEF PromptMatchesPicker, Ask
<1>6. BoundsMatchStep'
  BY <1>1, <1>2, <1>3 DEF IInv, BoundsMatchStep, lockWizard, lockStepIso, lockStepCmp, lockStepValue
<1> QED BY <1>3, <1>4, <1>5, <1>6, PickerStepInv DEF IInv, TypeOK, KeysTypeOK, Ask, PromptKind

\* The ways back of the lock picker, with the bounds each one drops.
LEMMA LockBackStep ==
  ASSUME IInv, lockWiz # None, NEW open, lockBack(open),
         open = NoPrompt \/ (open = prompt /\ prompt.kind # "lock")
  PROVE  /\ lockWiz' \in lockWizard \cup {None}
         /\ prompt' \in [kind : PromptKind, text : BOOLEAN]
         /\ prompt'.kind \notin {"find", "view"}
         /\ prompt'.kind = "lock" <=> lockWiz' # None /\ lockWiz'.step = lockStepValue
         /\ lockWiz' # None => /\ lockWiz'.ix = lockWiz.ix
                               /\ ~lockWiz'.st.lo /\ ~lockWiz'.st.hi
                               /\ ~lockWiz'.st.hiIncl /\ ~lockWiz'.st.eq
                               /\ lockWiz'.step = lockStepValue => lockWiz'.cmp \in Comparison
<1> USE NoneAssumption DEF lockStepIso, lockStepValue
<1>1. /\ lockWiz \in lockWizard
      /\ lockWiz.step \in 0..4 /\ lockWiz.ix \in Index /\ lockWiz.st \in LockStmt
      /\ lockWiz.cmp \in Comparison \cup {None}
      /\ lockWiz = [step |-> lockWiz.step, ix |-> lockWiz.ix, cmp |-> lockWiz.cmp, st |-> lockWiz.st]
  BY DEF IInv, TypeOK, KeysTypeOK, lockWizard
<1>2. /\ open \in [kind : PromptKind, text : BOOLEAN]
      /\ open.kind \notin {"find", "view", "lock"}
  <2>1. NoPrompt \in [kind : PromptKind, text : BOOLEAN] /\ NoPrompt.kind = "none"
    BY DEF NoPrompt, PromptKind
  <2>2. prompt \in [kind : PromptKind, text : BOOLEAN] /\ prompt.kind \notin {"find", "view"}
    BY DEF IInv, TypeOK, KeysTypeOK, PickerOwnsPane, PromptMatchesPicker, picking
  <2> QED BY <2>1, <2>2
<1>3. CASE lockWiz.step = 0
  BY <1>2, <1>3 DEF lockBack
<1>4. CASE lockWiz.step = 4 /\ lockWiz.st.lo /\ lockWiz.cmp = "between"
  <2> DEFINE st == [lockWiz.st EXCEPT !.lo = FALSE]
  <2>1. st \in LockStmt /\ ~st.lo /\ ~st.hi /\ ~st.hiIncl /\ ~st.eq
    BY <1>1 DEF LockStmt, IInv, BoundsMatchStep
  <2>2. lockWiz' = [lockWiz EXCEPT !.st = st] /\ prompt' = Ask("lock")
    BY <1>4 DEF lockBack
  <2> HIDE DEF st
  <2>3. lockWiz' = [step |-> 4, ix |-> lockWiz.ix, cmp |-> lockWiz.cmp, st |-> st]
    BY <1>1, <1>4, <2>2
  <2>4. lockWiz.cmp \in Comparison
    BY <1>4 DEF IInv, BoundsMatchStep
  <2> QED BY <1>1, <2>1, <2>2, <2>3, <2>4 DEF lockWizard, Ask, PromptKind
<1>5. CASE lockWiz.step # 0 /\ ~(lockWiz.step = 4 /\ lockWiz.st.lo /\ lockWiz.cmp = "between")
  <2> DEFINE st == [lockWiz.st EXCEPT !.lo = FALSE, !.hi = FALSE]
  <2>1. st \in LockStmt /\ ~st.lo /\ ~st.hi /\ ~st.hiIncl /\ ~st.eq
    BY <1>1 DEF LockStmt, IInv, BoundsMatchStep
  <2>2. lockWiz' = [lockWiz EXCEPT !.step = @ - 1, !.st = st] /\ prompt' = open
    BY <1>5 DEF lockBack
  <2> HIDE DEF st
  <2>3. lockWiz' = [step |-> lockWiz.step - 1, ix |-> lockWiz.ix, cmp |-> lockWiz.cmp, st |-> st]
    BY <1>1, <2>2
  <2>4. lockWiz.step - 1 \in 0..3
    BY <1>1, <1>5
  <2> QED BY <1>1, <1>2, <2>1, <2>2, <2>3, <2>4 DEF lockWizard
<1> QED BY <1>3, <1>4, <1>5

\* A step back in the lock picker.
LEMMA LockBackInv ==
  ASSUME IInv, lockWiz # None, NEW open, lockBack(open),
         open = NoPrompt \/ (open = prompt /\ prompt.kind # "lock"),
         UNCHANGED <<server, quit, dir, focus, locks, table, detail, replay, findWiz>>,
         query' \in BOOLEAN
  PROVE  IInv'
<1> USE NoneAssumption DEF table
<1>1. PickerOwnsPane'
  BY LockBackStep DEF IInv, PickerOwnsPane, picking
<1>2. PromptMatchesPicker'
  BY LockBackStep DEF IInv, PromptMatchesPicker, PickerOwnsPane
<1>3. BoundsMatchStep'
  BY LockBackStep DEF BoundsMatchStep
<1> QED BY <1>1, <1>2, <1>3, LockBackStep, PickerStepInv DEF IInv, TypeOK, KeysTypeOK

\* A step back in the find picker.
LEMMA FindBackInv ==
  ASSUME IInv, lockWiz = None, findWiz # None, findBack,
         prompt' = NoPrompt \/ (prompt' = prompt /\ prompt.kind # "find"),
         UNCHANGED <<server, quit, dir, focus, locks, table, detail, replay, lockWiz>>,
         query' \in BOOLEAN
  PROVE  IInv'
<1> USE NoneAssumption DEF table
<1>0. findWiz \in findWizard
  BY DEF IInv, TypeOK, KeysTypeOK
<1>1. /\ findWiz' \in findWizard \cup {None}
      /\ findWiz' # None => findWiz'.table = findWiz.table /\ findWiz'.ix = None
  BY <1>0 DEF findBack, findWizard
<1>2. prompt' \in [kind : PromptKind, text : BOOLEAN] /\ prompt'.kind \notin {"lock", "find", "view"}
  <2>1. NoPrompt \in [kind : PromptKind, text : BOOLEAN] /\ NoPrompt.kind = "none"
    BY DEF NoPrompt, PromptKind
  <2>2. prompt \in [kind : PromptKind, text : BOOLEAN] /\ prompt.kind \notin {"lock", "view"}
    BY DEF IInv, TypeOK, KeysTypeOK, PickerOwnsPane, PromptMatchesPicker, picking
  <2> QED BY <2>1, <2>2
<1>3. PickerOwnsPane'
  BY <1>1 DEF IInv, PickerOwnsPane, picking
<1>4. PromptMatchesPicker' /\ BoundsMatchStep'
  BY <1>1, <1>2 DEF PromptMatchesPicker, BoundsMatchStep
<1> QED BY <1>1, <1>2, <1>3, <1>4, PickerStepInv DEF IInv, TypeOK, KeysTypeOK

\* enter on clear.
LEMMA LockClearInv == IInv /\ LockClear => IInv'
<1> SUFFICES ASSUME IInv, LockClear PROVE IInv'
  OBVIOUS
<1> USE NoneAssumption DEF LockClear, server, keys, table, detail, replay
<1>1. lockWiz' = None /\ findWiz' = None /\ prompt' = prompt
  BY DEF IInv, PickerOwnsPane
<1>2. prompt.kind \notin {"lock", "find", "view"}
  BY DEF IInv, PickerOwnsPane, PromptMatchesPicker, picking, lockStepIso, lockStepValue
<1>3. FilesTypeOK' /\ KeysTypeOK'
  BY <1>1 DEF IInv, TypeOK, FilesTypeOK, KeysTypeOK
<1>4. PaneTypeOK' /\ DetailTypeOK'
  BY DEF IInv, TypeOK, PaneTypeOK, DetailTypeOK
<1>5. PaneBacked' /\ DetailBacked' /\ ReplayOfPage'
  BY DEF IInv, PaneBacked, DetailBacked, ReplayOfPage
<1>6. PickerOwnsPane' /\ PromptMatchesPicker' /\ BoundsMatchStep'
  BY <1>1, <1>2 DEF PickerOwnsPane, PromptMatchesPicker, BoundsMatchStep, picking
<1> QED BY <1>3, <1>4, <1>5, <1>6 DEF IInv, TypeOK

\* / and v.
LEMMA OpenPromptInv == \A kind \in PromptKind : IInv /\ OpenPrompt(kind) => IInv'
<1> SUFFICES ASSUME NEW kind \in PromptKind, IInv, OpenPrompt(kind) PROVE IInv'
  OBVIOUS
<1> USE NoneAssumption DEF OpenPrompt, onlyPrompt, wiz, table
<1>1. prompt' \in [kind : PromptKind, text : BOOLEAN]
  BY DEF IInv, TypeOK, KeysTypeOK
<1>2. PickerOwnsPane' /\ BoundsMatchStep'
  BY DEF IInv, PickerOwnsPane, BoundsMatchStep, picking
<1>3. PromptMatchesPicker'
  BY DEF PromptMatchesPicker, picking, promptOwner
<1> QED BY <1>1, <1>2, <1>3, PickerStepInv DEF IInv, TypeOK, KeysTypeOK

\* Typing.
LEMMA TypeInv == \A text \in BOOLEAN : IInv /\ Type(text) => IInv'
<1> SUFFICES ASSUME NEW text \in BOOLEAN, IInv, Type(text) PROVE IInv'
  OBVIOUS
<1> USE NoneAssumption DEF Type, onlyPrompt, wiz, table
<1>1. /\ prompt' \in [kind : PromptKind, text : BOOLEAN]
      /\ prompt'.kind = prompt.kind
  BY DEF IInv, TypeOK, KeysTypeOK
<1>2. PickerOwnsPane' /\ BoundsMatchStep'
  BY DEF IInv, PickerOwnsPane, BoundsMatchStep, picking
<1>3. PromptMatchesPicker'
  BY <1>1 DEF IInv, PromptMatchesPicker
<1>4. query' \in BOOLEAN
  BY DEF setQuery, IInv, TypeOK, KeysTypeOK
<1> QED BY <1>1, <1>2, <1>3, <1>4, PickerStepInv DEF IInv, TypeOK, KeysTypeOK

\* esc on a prompt.
LEMMA ClosePromptInv == IInv /\ typing /\ closePrompt => IInv'
<1> SUFFICES ASSUME IInv, typing, closePrompt PROVE IInv'
  OBVIOUS
<1> USE NoneAssumption DEF closePrompt, wiz
<1>0. query' \in BOOLEAN
  BY DEF setQuery, IInv, TypeOK, KeysTypeOK
<1>1. CASE lockWiz # None
  BY <1>0, <1>1, LockBackInv
<1>2. CASE lockWiz = None /\ findWiz # None
  BY <1>0, <1>2, FindBackInv
<1>3. CASE lockWiz = None /\ findWiz = None
  <2>1. NoPrompt \in [kind : PromptKind, text : BOOLEAN] /\ NoPrompt.kind = "none"
    BY DEF NoPrompt, PromptKind
  <2>2. prompt' = NoPrompt /\ lockWiz' = None /\ findWiz' = None
    BY <1>3
  <2>3. PickerOwnsPane' /\ PromptMatchesPicker' /\ BoundsMatchStep'
    BY <2>1, <2>2 DEF PickerOwnsPane, PromptMatchesPicker, BoundsMatchStep, picking
  <2> QED BY <1>0, <2>1, <2>2, <2>3, PickerStepInv
<1> QED BY <1>1, <1>2, <1>3

\* A bound typed makes a statement of a statement.
LEMMA BoundType ==
  ASSUME NEW st \in LockStmt, NEW cmp \in Comparison
  PROVE  bound(st, cmp) \in LockStmt
<1> USE BrowserAssumption DEF bound, LockStmt
<1>1. cmp \in {"=", "<", "<=", ">", ">=", "between"}
  OBVIOUS
<1>2. CASE cmp = "="
  BY <1>2
<1>3. CASE cmp \in {"<", "<="}
  BY <1>3
<1>4. CASE cmp \in {">", ">="}
  BY <1>4
<1>5. CASE cmp = "between"
  BY <1>5
<1> QED BY <1>1, <1>2, <1>3, <1>4, <1>5

\* enter on the key of the lock picker.
LEMMA LockValueInv ==
  ASSUME IInv, prompt.kind = "lock", query' = query, lockValue
  PROVE  IInv'
<1> USE NoneAssumption
<1>1. /\ lockWiz # None /\ findWiz = None /\ lockWiz.step = lockStepValue
      /\ space # None /\ lockWiz.cmp \in Comparison
  BY DEF IInv, PromptMatchesPicker, PickerOwnsPane, BoundsMatchStep, picking
<1>2. lockWiz \in lockWizard
  BY <1>1 DEF IInv, TypeOK, KeysTypeOK
<1> DEFINE st == bound(lockWiz.st, lockWiz.cmp)
<1>3. st \in LockStmt
  BY <1>1, <1>2, BoundType DEF lockWizard
<1>4. CASE lockWiz.cmp = "between" /\ ~lockWiz.st.lo
  <2>1. /\ lockWiz' = [lockWiz EXCEPT !.st = st] /\ prompt' = Ask("lock") /\ findWiz' = None
        /\ onlyPicker
    BY <1>1, <1>4 DEF lockValue
  <2>2. ~st.hi /\ ~st.hiIncl /\ ~st.eq
    BY <1>1, <1>2, <1>4 DEF bound, LockStmt, lockWizard, IInv, BoundsMatchStep
  <2> HIDE DEF st
  <2>3. /\ lockWiz' \in lockWizard /\ lockWiz'.step = lockWiz.step /\ lockWiz'.ix = lockWiz.ix
        /\ lockWiz'.cmp = "between" /\ lockWiz'.st = st
    BY <1>2, <1>3, <1>4, <2>1 DEF lockWizard
  <2>4. PickerOwnsPane'
    BY <2>1, <2>3, <1>1 DEF IInv, PickerOwnsPane, picking, onlyPicker, table
  <2>5. PromptMatchesPicker' /\ BoundsMatchStep'
    BY <1>1, <1>4, <2>1, <2>2, <2>3 DEF PromptMatchesPicker, BoundsMatchStep, Ask
  <2> QED BY <2>1, <2>3, <2>4, <2>5, PickerStepInv
          DEF onlyPicker, IInv, TypeOK, KeysTypeOK, Ask, PromptKind
<1>5. CASE ~(lockWiz.cmp = "between" /\ ~lockWiz.st.lo)
  <2>1. /\ lockWiz' = None /\ prompt' = NoPrompt /\ findWiz' = None
        /\ runLock(st, lockWiz.ix)
    BY <1>1, <1>5 DEF lockValue
  <2> HIDE DEF st
  <2>2. space \in Handle /\ lockWiz.ix \in Index
    BY <1>1, <1>2 DEF IInv, TypeOK, PaneTypeOK, lockWizard
  <2>3. locks' \in lockSet
    BY <1>3, <2>1, <2>2 DEF runLock, lockSet
  <2>4. showResult("LOCKS", lockWiz.ix.table) /\ lockWiz.ix.table \in Table
    BY <2>1, <2>2 DEF runLock, Index
  <2> QED BY <1>1, <2>1, <2>3, <2>4, ShowResultInv DEF Results
<1> QED BY <1>4, <1>5

\* enter on a key prompt.
LEMMA CommitKeyInv == IInv /\ CommitKey => IInv'
<1> SUFFICES ASSUME IInv, CommitKey PROVE IInv'
  OBVIOUS
<1> USE NoneAssumption
<1>1. CASE ~prompt.text /\ UNCHANGED keys /\ onlyPrompt
  BY <1>1, PickerStepInv DEF onlyPrompt, IInv, TypeOK, KeysTypeOK, keys, wiz, table,
       PickerOwnsPane, PromptMatchesPicker, BoundsMatchStep, picking
<1>2. CASE /\ prompt.kind = "find" /\ findWiz' = None /\ prompt' = NoPrompt
           /\ UNCHANGED <<lockWiz, locks>>
           /\ showResult(IF findWiz.insert THEN "INSERT" ELSE "FIND", findWiz.table)
  <2>1. findWiz # None /\ lockWiz = None /\ space # None
    BY <1>2 DEF IInv, PromptMatchesPicker, PickerOwnsPane, picking
  <2>2. findWiz.table \in Table
    BY <2>1 DEF IInv, TypeOK, KeysTypeOK, findWizard
  <2>3. locks' \in lockSet \cup {None}
    BY <1>2 DEF IInv, TypeOK, PaneTypeOK
  <2>4. (IF findWiz.insert THEN "INSERT" ELSE "FIND") \in Results
    BY DEF Results
  <2> QED BY <1>2, <2>1, <2>2, <2>3, <2>4, ShowResultInv
<1>3. CASE prompt.kind = "lock" /\ lockValue
  <2>1. query' = query
    BY <1>3 DEF lockValue, onlyPicker, runLock, showResult
  <2> QED BY <1>3, <2>1, LockValueInv
<1> QED BY <1>1, <1>2, <1>3 DEF CommitKey

\* enter on the read view prompt.
LEMMA CommitViewInv == IInv /\ CommitView => IInv'
<1> SUFFICES ASSUME IInv, CommitView PROVE IInv'
  OBVIOUS
<1> USE NoneAssumption DEF CommitView, onlyPrompt, wiz, table
<1>1. NoPrompt \in [kind : PromptKind, text : BOOLEAN] /\ NoPrompt.kind = "none"
  BY DEF NoPrompt, PromptKind
<1>2. PickerOwnsPane' /\ BoundsMatchStep'
  BY DEF IInv, PickerOwnsPane, BoundsMatchStep, picking
<1>3. PromptMatchesPicker'
  BY <1>1 DEF IInv, PromptMatchesPicker
<1> QED BY <1>1, <1>2, <1>3, PickerStepInv DEF IInv, TypeOK, KeysTypeOK

\* esc with no prompt in the way.
LEMMA LeaveInv == IInv /\ ~typing /\ leave => IInv'
<1> SUFFICES ASSUME IInv, ~typing, leave PROVE IInv'
  OBVIOUS
<1> USE NoneAssumption
<1>0. focus \in {"tables", "pages", "detail"} /\ (picking => focus = "pages")
  BY DEF IInv, TypeOK, KeysTypeOK, Focus, PickerOwnsPane
<1>1. CASE focus = "detail" \/ (focus = "pages" /\ ~picking /\ ~(pages.title \in Results /\ space # None))
  <2>1. /\ UNCHANGED <<server, quit, dir, keys, wiz, locks, table, replay, pageSpace, pagePath, pageOpen>>
        /\ focus' \in {"tables", "pages"} /\ (page' = None \/ page' = page)
    BY <1>1 DEF leave, picking, detail
  <2> USE <2>1 DEF server, keys, wiz, table, replay
  <2>2. ~picking /\ prompt.kind \notin {"lock", "find", "view"}
    BY <1>0, <1>1 DEF picking, typing, promptOwner, IInv, PromptMatchesPicker
  <2>3. FilesTypeOK' /\ KeysTypeOK'
    BY DEF IInv, TypeOK, FilesTypeOK, KeysTypeOK, Focus
  <2>4. PaneTypeOK' /\ DetailTypeOK'
    BY DEF IInv, TypeOK, PaneTypeOK, DetailTypeOK
  <2>5. PaneBacked' /\ DetailBacked' /\ ReplayOfPage'
    BY DEF IInv, PaneBacked, DetailBacked, ReplayOfPage
  <2>6. PickerOwnsPane' /\ PromptMatchesPicker' /\ BoundsMatchStep'
    BY <2>2 DEF PickerOwnsPane, PromptMatchesPicker, BoundsMatchStep, picking
  <2> QED BY <2>3, <2>4, <2>5, <2>6 DEF IInv, TypeOK
<1>2. CASE focus = "pages" /\ lockWiz # None
  <2>1. lockBack(prompt) /\ UNCHANGED <<query, findWiz>> /\ onlyPicker
    BY <1>2 DEF leave, picking
  <2>2. prompt.kind # "lock" /\ query' \in BOOLEAN
    BY <1>2, <2>1 DEF typing, promptOwner, IInv, TypeOK, KeysTypeOK
  <2> QED BY <1>2, <2>1, <2>2, LockBackInv DEF onlyPicker
<1>3. CASE focus = "pages" /\ lockWiz = None /\ findWiz # None
  <2>1. findBack /\ UNCHANGED <<prompt, lockWiz>> /\ onlyPicker
    BY <1>3 DEF leave, picking
  <2>2. prompt.kind # "find" /\ query' \in BOOLEAN
    BY <1>3, <2>1 DEF typing, promptOwner, onlyPicker, IInv, TypeOK, KeysTypeOK
  <2> QED BY <1>3, <2>1, <2>2, FindBackInv DEF onlyPicker
<1>4. CASE focus = "pages" /\ ~picking /\ pages.title \in Results /\ space # None
  <2>1. openTable(space.path)
    BY <1>4 DEF leave, picking
  <2>2. space.path \in Path
    BY <1>4 DEF IInv, TypeOK, PaneTypeOK, Handle
  <2>3. prompt.kind \notin {"lock", "find"}
    BY <1>4, NoKeyPrompt DEF IInv
  <2> QED BY <1>4, <2>1, <2>2, <2>3, OpenTableInv
<1>5. CASE focus = "tables"
  <2>1. quit' = TRUE /\ UNCHANGED <<server, dir, focus, keys, wiz, locks, table, detail, replay>>
    BY <1>5 DEF leave
  <2> USE <2>1 DEF server, keys, wiz, table, detail, replay
  <2>2. FilesTypeOK' /\ KeysTypeOK'
    BY DEF IInv, TypeOK, FilesTypeOK, KeysTypeOK
  <2>3. PaneTypeOK' /\ DetailTypeOK'
    BY DEF IInv, TypeOK, PaneTypeOK, DetailTypeOK
  <2>4. PaneBacked' /\ DetailBacked' /\ ReplayOfPage'
    BY DEF IInv, PaneBacked, DetailBacked, ReplayOfPage
  <2>5. PickerOwnsPane' /\ PromptMatchesPicker' /\ BoundsMatchStep'
    BY DEF IInv, PickerOwnsPane, PromptMatchesPicker, BoundsMatchStep, picking
  <2> QED BY <2>2, <2>3, <2>4, <2>5 DEF IInv, TypeOK
<1> QED BY <1>0, <1>1, <1>2, <1>3, <1>4, <1>5 DEF picking

\* esc.
LEMMA EscInv == IInv /\ Esc => IInv'
BY ClosePromptInv, LeaveInv DEF Esc

-----------------------------------------------------------------------------

\* What re-reads the page reads the same page of the same file.
LEMMA ReopenedType ==
  ASSUME IInv, focus = "detail", NEW p \in Reopened, p # None
  PROVE  p \in pageRead /\ p.path = page.path /\ p.no = page.no
<1>1. /\ pageOpen \in pageOpener /\ pageOpen.path = page.path /\ pageOpen.no = page.no
      /\ pageOpen.via = "handle" => space \in Handle /\ space.id = pageOpen.id
  <2>1. pageOpen \in pageOpener /\ pageOpen.path = page.path /\ pageOpen.no = page.no
    BY DEF IInv, TypeOK, DetailTypeOK, DetailBacked
  <2>2. ASSUME pageOpen.via = "handle" PROVE space \in Handle /\ space.id = pageOpen.id
    <3>1. space # None /\ space = [path |-> pageOpen.path, id |-> pageOpen.id]
      BY <2>2 DEF IInv, DetailBacked
    <3> QED BY <3>1 DEF IInv, TypeOK, PaneTypeOK
  <2> QED BY <2>1, <2>2
<1>2. CASE pageOpen.via = "handle"
  BY <1>1, <1>2 DEF Reopened, ReadPage, pageRead, pageOpener, Handle
<1>3. CASE pageOpen.via # "handle"
  <2>1. p = ReadPage(pageOpen.path, files[pageOpen.path], pageOpen.no) /\ files[pageOpen.path] # 0
    BY <1>3 DEF Reopened
  <2>2. files[pageOpen.path] \in SpaceId
    BY <1>1, <2>1 DEF IInv, TypeOK, FilesTypeOK, pageOpener, SpaceId
  <2> QED BY <1>1, <2>1, <2>2 DEF ReadPage, pageRead, pageOpener
<1> QED BY <1>2, <1>3

\* What a step that only re-reads the page of the detail view must keep.
\* A step that only replaces the page by one read again.
LEMMA DetailStepInv ==
  ASSUME IInv, focus = "detail",
         UNCHANGED <<server, quit, dir, focus, keys, wiz, locks, table, pageSpace, pagePath, pageOpen>>,
         page' = page \/ (page' \in pageRead /\ page'.path = page.path /\ page'.no = page.no),
         redo' \in (SUBSET PageKey) \cup {None}, rep' \in pageReplay \cup {None}, ReplayOfPage'
  PROVE  IInv'
<1> USE NoneAssumption DEF server, keys, wiz, table
<1>1. FilesTypeOK' /\ KeysTypeOK'
  BY DEF IInv, TypeOK, FilesTypeOK, KeysTypeOK
<1>2. PaneTypeOK' /\ DetailTypeOK'
  BY DEF IInv, TypeOK, PaneTypeOK, DetailTypeOK
<1>3. PaneBacked' /\ DetailBacked'
  BY DEF IInv, PaneBacked, DetailBacked
<1>4. PickerOwnsPane' /\ PromptMatchesPicker' /\ BoundsMatchStep'
  BY DEF IInv, PickerOwnsPane, PromptMatchesPicker, BoundsMatchStep, picking
<1> QED BY <1>1, <1>2, <1>3, <1>4 DEF IInv, TypeOK

\* r.
LEMMA ReloadInv == IInv /\ Reload => IInv'
<1> SUFFICES ASSUME IInv, Reload PROVE IInv'
  OBVIOUS
<1> USE NoneAssumption
<1>1. CASE reloadPage
  <2>1. PICK p \in Reopened : IF p = None THEN UNCHANGED <<page, rep>> ELSE page' = p /\ rep' = None
    BY <1>1 DEF reloadPage
  <2>2. /\ focus = "detail" /\ redo' = redo
        /\ UNCHANGED <<server, quit, dir, focus, keys, wiz, locks, table, pageSpace, pagePath, pageOpen>>
    BY <1>1 DEF reloadPage
  <2>3. redo \in (SUBSET PageKey) \cup {None} /\ rep \in pageReplay \cup {None}
    BY DEF IInv, TypeOK, FilesTypeOK, DetailTypeOK
  <2>4. CASE p = None
    <3>1. page' = page /\ rep' = rep
      BY <2>1, <2>4
    <3>2. ReplayOfPage'
      BY <2>2, <3>1 DEF IInv, ReplayOfPage
    <3> QED BY <2>2, <2>3, <3>1, <3>2, DetailStepInv
  <2>5. CASE p # None
    <3>1. page' \in pageRead /\ page'.path = page.path /\ page'.no = page.no /\ rep' = None
      BY <2>1, <2>2, <2>5, ReopenedType
    <3>2. ReplayOfPage'
      BY <3>1 DEF ReplayOfPage
    <3> QED BY <2>2, <2>3, <3>1, <3>2, DetailStepInv
  <2> QED BY <2>4, <2>5
<1>2. CASE reloadPages
  <2>1. focus = "pages" /\ keyFree
    BY <1>2 DEF reloadPages, Reload
  <2>2. prompt.kind \notin {"lock", "find"}
    BY <2>1 DEF keyFree, typing, promptOwner
  <2>3. CASE pages.title = "REDO" /\ openRedo(None)
    BY <2>1, <2>3, OpenRedoInv DEF IInv, PickerOwnsPane
  <2>4. CASE space # None /\ openTable(space.path)
    <3>1. space.path \in Path
      BY <2>4 DEF IInv, TypeOK, PaneTypeOK, Handle
    <3> QED BY <2>1, <2>2, <2>4, <3>1, OpenTableInv
  <2> QED BY <1>2, <2>3, <2>4 DEF reloadPages
<1>3. CASE reloadTables
  <2> USE <1>3 DEF reloadTables, server, keys, wiz, table, detail, replay
  <2>1. FilesTypeOK'
    BY DEF IInv, TypeOK, FilesTypeOK
  <2>2. KeysTypeOK' /\ PaneTypeOK' /\ DetailTypeOK'
    BY DEF IInv, TypeOK, KeysTypeOK, PaneTypeOK, DetailTypeOK
  <2>3. PaneBacked' /\ DetailBacked' /\ ReplayOfPage'
    BY DEF IInv, PaneBacked, DetailBacked, ReplayOfPage
  <2>4. PickerOwnsPane' /\ PromptMatchesPicker' /\ BoundsMatchStep'
    BY DEF IInv, PickerOwnsPane, PromptMatchesPicker, BoundsMatchStep, picking
  <2> QED BY <2>1, <2>2, <2>3, <2>4 DEF IInv, TypeOK
<1> QED BY <1>1, <1>2, <1>3 DEF Reload

\* A scan of the redo log is a set of pages.
LEMMA LoadRedoType ==
  ASSUME FilesTypeOK, NEW r \in loadRedoOnce(redo)
  PROVE  r \in (SUBSET PageKey) \cup {None} /\ (redo # None => r = redo)
BY DEF FilesTypeOK, loadRedoOnce

\* n and p.
LEMMA ReplayStepInv == IInv /\ ReplayStep => IInv'
<1> SUFFICES ASSUME IInv, ReplayStep PROVE IInv'
  OBVIOUS
<1> USE NoneAssumption
<1> DEFINE k == [space |-> pageSpace, no |-> page.no]
<1>1. /\ focus = "detail" /\ page # None
      /\ UNCHANGED <<server, quit, dir, focus, keys, wiz, locks, table, pageSpace, pagePath, pageOpen>>
  BY DEF ReplayStep
<1>2. page' = page \/ (page' \in pageRead /\ page'.path = page.path /\ page'.no = page.no)
  BY <1>1, ReopenedType DEF ReplayStep
<1>3. /\ redo' \in (SUBSET PageKey) \cup {None} /\ rep' \in pageReplay \cup {None}
      /\ rep' # None => rep'.key = k /\ rep'.scan = redo' /\ k \in redo'
  <2>1. CASE rep # None
    BY <1>1, <2>1 DEF ReplayStep, replay, IInv, TypeOK, FilesTypeOK, DetailTypeOK, ReplayOfPage
  <2>2. CASE rep = None
    <3>1. /\ redo' \in loadRedoOnce(redo)
          /\ rep' = IF redo' # None /\ k \in redo' THEN [key |-> k, scan |-> redo'] ELSE None
      BY <2>2 DEF ReplayStep
    <3>2. redo' \in (SUBSET PageKey) \cup {None}
      BY <3>1, LoadRedoType DEF IInv, TypeOK
    <3> QED BY <3>1, <3>2 DEF pageReplay
  <2> QED BY <2>1, <2>2
<1>4. page' # None => page'.no = page.no
  BY <1>2
<1>5. page' # None
  BY <1>1, <1>2
<1>6. ReplayOfPage'
  BY <1>1, <1>3, <1>4, <1>5 DEF ReplayOfPage
<1> QED BY <1>1, <1>2, <1>3, <1>6, DetailStepInv

\* Unfolding the redo section.
LEMMA ExpandRedoInv == IInv /\ ExpandRedo => IInv'
<1> SUFFICES ASSUME IInv, ExpandRedo PROVE IInv'
  OBVIOUS
<1>1. /\ focus = "detail" /\ page' = page /\ rep' = rep /\ rep = None
      /\ UNCHANGED <<server, quit, dir, focus, keys, wiz, locks, table, pageSpace, pagePath, pageOpen>>
  BY DEF ExpandRedo, detail
<1>2. redo' \in (SUBSET PageKey) \cup {None}
  BY LoadRedoType DEF ExpandRedo, IInv, TypeOK
<1>3. ReplayOfPage'
  BY <1>1 DEF ReplayOfPage
<1> QED BY <1>1, <1>2, <1>3, DetailStepInv

\* ctrl+c.
LEMMA CtrlCInv == IInv /\ CtrlC => IInv'
<1> SUFFICES ASSUME IInv, CtrlC PROVE IInv'
  OBVIOUS
<1> USE DEF CtrlC, server, keys, wiz, table, detail, replay
<1>1. FilesTypeOK' /\ KeysTypeOK'
  BY DEF IInv, TypeOK, FilesTypeOK, KeysTypeOK
<1>2. PaneTypeOK' /\ DetailTypeOK'
  BY DEF IInv, TypeOK, PaneTypeOK, DetailTypeOK
<1>3. PaneBacked' /\ DetailBacked' /\ ReplayOfPage'
  BY DEF IInv, PaneBacked, DetailBacked, ReplayOfPage
<1>4. PickerOwnsPane' /\ PromptMatchesPicker' /\ BoundsMatchStep'
  BY DEF IInv, PickerOwnsPane, PromptMatchesPicker, BoundsMatchStep, picking
<1> QED BY <1>1, <1>2, <1>3, <1>4 DEF IInv, TypeOK

-----------------------------------------------------------------------------

\* A step of the server disturbs nothing of the session but what it reads next.
\* The session does not see what the server does until a key reads it.
LEMMA ServerStepInv ==
  ASSUME IInv, UNCHANGED session, FilesTypeOK'
  PROVE  IInv'
<1> USE DEF session, keys, wiz, table, detail, replay
<1>1. KeysTypeOK' /\ PaneTypeOK' /\ DetailTypeOK'
  BY DEF IInv, TypeOK, KeysTypeOK, PaneTypeOK, DetailTypeOK
<1>2. PaneBacked' /\ DetailBacked' /\ ReplayOfPage'
  BY DEF IInv, PaneBacked, DetailBacked, ReplayOfPage
<1>3. PickerOwnsPane' /\ PromptMatchesPicker' /\ BoundsMatchStep'
  BY DEF IInv, PickerOwnsPane, PromptMatchesPicker, BoundsMatchStep, picking
<1> QED BY <1>1, <1>2, <1>3 DEF IInv, TypeOK

\* A step of the server.
LEMMA ServerInv == IInv /\ Server => IInv'
<1> SUFFICES ASSUME IInv, Server PROVE IInv'
  OBVIOUS
<1>0. FilesTypeOK
  BY DEF IInv, TypeOK
<1>1. ASSUME NEW p \in Path, Drop(p) PROVE IInv'
  <2>1. FilesTypeOK'
    BY <1>0, <1>1, BrowserAssumption DEF Drop, FilesTypeOK, session, replay
  <2> QED BY <1>1, <2>1, ServerStepInv DEF Drop
<1>2. ASSUME NEW p \in Path, Create(p) PROVE IInv'
  <2>1. FilesTypeOK'
    BY <1>0, <1>2, BrowserAssumption DEF Create, FilesTypeOK, session, replay
  <2> QED BY <1>2, <2>1, ServerStepInv DEF Create
<1>3. ASSUME NEW p \in Path, NEW no \in PageNo, Log(p, no) PROVE IInv'
  <2>1. [space |-> files[p], no |-> no] \in PageKey
    BY <1>0, <1>3, BrowserAssumption DEF Log, FilesTypeOK, PageKey, SpaceId
  <2>2. FilesTypeOK'
    BY <1>0, <1>3, <2>1 DEF Log, FilesTypeOK, session, replay
  <2> QED BY <1>3, <2>2, ServerStepInv DEF Log
<1>4. CASE Checkpoint
  <2>1. FilesTypeOK'
    BY <1>0, <1>4 DEF Checkpoint, FilesTypeOK, session, replay
  <2> QED BY <1>4, <2>1, ServerStepInv DEF Checkpoint
<1> QED BY <1>1, <1>2, <1>3, <1>4 DEF Server

\* enter.
LEMMA EnterInv == IInv /\ Enter => IInv'
BY EnterTableInv, EnterRedoInv, EnterPageInv, EnterRecordInv, EnterRollPtrInv, EnterClusteredInv,
   FindPickInv, LockPickInv, LockClearInv, CommitKeyInv, CommitViewInv DEF Enter

\* A stuttering step.
LEMMA StutterInv == IInv /\ UNCHANGED vars => IInv'
BY ServerStepInv DEF vars, session, server, IInv, TypeOK, FilesTypeOK, replay

\* Every step keeps IInv.
LEMMA NextInv == IInv /\ [Next]_vars => IInv'
<1>1. IInv /\ Key => IInv'
  BY EnterInv, StartFindInv, StartLockInv, OpenPromptInv, TypeInv, EscInv, ReloadInv,
     ReplayStepInv, ExpandRedoInv, CtrlCInv DEF Key
<1> QED BY <1>1, ServerInv, StutterInv DEF Next, Terminated

\* The session in every datadir: the invariant all the theorems below follow from.
\* Every state of every session satisfies the inductive invariant.
THEOREM Invariant == Spec => []IInv
BY InitInv, NextInv, PTL DEF Spec

\* The variables of a session keep their types, and the definitions it searches
\* with are those of the tablespace it has open (TypeOK).
THEOREM TypeCorrect == Spec => []TypeOK
BY Invariant, PTL DEF IInv

\* No row of the right pane outlives the tablespace it is a page of: Enter and r
\* never go through a nil or closed handle (openTable, runFind, runLock).
THEOREM RowsAreOfTheOpenTablespace == Spec => []PaneBacked
BY Invariant, PTL DEF IInv

\* r, n and p always re-read the page that is shown, through a handle that is
\* open, however it was reached and whatever was opened since (openPage,
\* jumpToPage, jumpToUndo).
THEOREM DetailCanBeReadAgain == Spec => []DetailBacked
BY Invariant, PTL DEF IInv

\* A picker never outlives the page tree it was opened over, and offers indexes
\* of a table the open tablespace has (closePickers, enter).
THEOREM PickerOverItsTablespace == Spec => []PickerOwnsPane
BY Invariant, PTL DEF IInv

\* A key prompt is open exactly while its picker waits for one, through every
\* esc, enter and reload (closePrompt, findBack, lockBack).
THEOREM PromptFollowsPicker == Spec => []PromptMatchesPicker
BY Invariant, PTL DEF IInv

\* A replay never runs on over another page or another scan of the log
\* (showPage, reloadPage, replayStep).
THEOREM ReplayFollowsDetail == Spec => []ReplayOfPage
BY Invariant, PTL DEF IInv

-----------------------------------------------------------------------------

\* Each way back of the lock picker is one of the esc EscsLeft counts.
LEMMA EscLockBack ==
  ASSUME IInv, lockWiz # None, ~quit, NEW open, lockBack(open), UNCHANGED <<quit, focus, findWiz, pages>>,
         open = NoPrompt \/ (open = prompt /\ prompt.kind # "lock")
  PROVE  EscsLeft' < EscsLeft
<1> USE NoneAssumption DEF lockStepIso, lockStepValue
<1>1. /\ lockWiz.step \in 0..4 /\ lockWiz.st \in LockStmt /\ lockWiz \in lockWizard
      /\ focus = "pages" /\ findWiz = None
      /\ lockWiz.st.lo => lockWiz.step = 4 /\ lockWiz.cmp = "between"
  BY DEF IInv, TypeOK, KeysTypeOK, lockWizard, PickerOwnsPane, picking, BoundsMatchStep
<1>2. EscsLeft = 5 + 2 * lockWiz.step + (IF lockWiz.st.lo THEN 1 ELSE 0)
  BY <1>1 DEF EscsLeft
<1>3. CASE lockWiz.step = 0
  <2>1. lockWiz' = None /\ findWiz' = None /\ focus' = "pages" /\ ~quit'
    BY <1>1, <1>3 DEF lockBack
  <2>2. EscsLeft' \in {3, 4}
    BY <2>1 DEF EscsLeft
  <2> QED BY <1>1, <1>2, <1>3, <2>2
<1>4. CASE lockWiz.step # 0
  <2>1. /\ lockWiz' # None /\ ~lockWiz'.st.lo
        /\ IF lockWiz.st.lo THEN lockWiz'.step = lockWiz.step ELSE lockWiz'.step = lockWiz.step - 1
    <3>1. CASE lockWiz.st.lo
      <4>1. lockWiz' = [lockWiz EXCEPT !.st = [@ EXCEPT !.lo = FALSE]]
        BY <1>1, <3>1 DEF lockBack
      <4>2. lockWiz'.st = [lockWiz.st EXCEPT !.lo = FALSE] /\ lockWiz'.step = lockWiz.step
        BY <1>1, <4>1 DEF lockWizard
      <4>3. lockWiz' \in lockWizard
        BY <1>1, <4>1 DEF lockWizard, LockStmt
      <4> QED BY <1>1, <3>1, <4>2, <4>3 DEF LockStmt
    <3>2. CASE ~lockWiz.st.lo
      <4>1. lockWiz' = [lockWiz EXCEPT !.step = @ - 1, !.st = [@ EXCEPT !.lo = FALSE, !.hi = FALSE]]
        BY <1>1, <1>4, <3>2 DEF lockBack
      <4>2. lockWiz'.step = lockWiz.step - 1
            /\ lockWiz'.st = [lockWiz.st EXCEPT !.lo = FALSE, !.hi = FALSE]
        BY <1>1, <4>1 DEF lockWizard
      <4>3. lockWiz.step - 1 \in 0..4 /\ [lockWiz.st EXCEPT !.lo = FALSE, !.hi = FALSE] \in LockStmt
        <5>1. lockWiz.step - 1 \in 0..4
          BY <1>1, <1>4
        <5> QED BY <1>1, <5>1 DEF LockStmt
      <4>4. lockWiz' \in lockWizard
        BY <1>1, <4>1, <4>3 DEF lockWizard
      <4> QED BY <1>1, <3>2, <4>2, <4>4 DEF LockStmt
    <3> QED BY <3>1, <3>2
  <2>2. EscsLeft' = 5 + 2 * lockWiz'.step
    BY <1>1, <2>1 DEF EscsLeft
  <2> QED BY <1>1, <1>2, <2>1, <2>2
<1> QED BY <1>3, <1>4

\* So is a step back in the find picker.
LEMMA EscFindBack ==
  ASSUME IInv, lockWiz = None, findWiz # None, ~quit, findBack, UNCHANGED <<quit, focus, lockWiz, pages>>
  PROVE  EscsLeft' < EscsLeft
<1> USE NoneAssumption
<1>1. findWiz \in findWizard /\ focus = "pages"
  BY DEF IInv, TypeOK, KeysTypeOK, PickerOwnsPane, picking
<1>2. CASE findWiz.ix = None
  <2>1. EscsLeft = 5
    BY <1>1, <1>2 DEF EscsLeft
  <2>2. EscsLeft' \in {3, 4}
    BY <1>1, <1>2 DEF EscsLeft, findBack
  <2> QED BY <2>1, <2>2
<1>3. CASE findWiz.ix # None
  <2>1. EscsLeft = 6
    BY <1>1, <1>3 DEF EscsLeft
  <2>2. findWiz' \in findWizard /\ findWiz'.ix = None
    BY <1>1, <1>3 DEF findBack, findWizard
  <2>3. EscsLeft' = 5
    BY <1>1, <2>2 DEF EscsLeft
  <2> QED BY <2>1, <2>3
<1> QED BY <1>2, <1>3

\* esc on a prompt.
LEMMA EscClosesPrompt == IInv /\ ~quit /\ typing /\ closePrompt => EscsLeft' < EscsLeft
<1> SUFFICES ASSUME IInv, ~quit, typing, closePrompt PROVE EscsLeft' < EscsLeft
  OBVIOUS
<1> USE NoneAssumption DEF closePrompt, table
<1>1. CASE lockWiz # None
  BY <1>1, EscLockBack
<1>2. CASE lockWiz = None /\ findWiz # None
  BY <1>2, EscFindBack
<1>3. CASE lockWiz = None /\ findWiz = None
  <2>1. prompt.kind \in {"filter", "view"} /\ (prompt.kind = "filter" <=> focus = "tables")
    BY <1>3 DEF IInv, TypeOK, KeysTypeOK, PromptKind, PromptMatchesPicker, typing, promptOwner
  <2>2. focus \in {"tables", "detail"}
    BY <2>1 DEF typing, promptOwner
  <2>3. prompt'.kind = "none" /\ focus' = focus /\ quit' = quit
    BY <1>3 DEF NoPrompt
  <2> QED BY <2>1, <2>2, <2>3 DEF EscsLeft
<1> QED BY <1>1, <1>2, <1>3

\* esc with no prompt in the way.
LEMMA EscLeaves == IInv /\ ~quit /\ ~typing /\ leave => EscsLeft' < EscsLeft
<1> SUFFICES ASSUME IInv, ~quit, ~typing, leave PROVE EscsLeft' < EscsLeft
  OBVIOUS
<1> USE NoneAssumption
<1>0. focus \in {"tables", "pages", "detail"} /\ (picking => focus = "pages")
  BY DEF IInv, TypeOK, KeysTypeOK, Focus, PickerOwnsPane
<1>1. CASE focus = "detail"
  <2>1. EscsLeft = 20
    BY <1>1 DEF EscsLeft, typing, promptOwner
  <2>2. focus' = "pages" /\ ~quit' /\ lockWiz' = None /\ findWiz' = None
    BY <1>0, <1>1 DEF leave, picking, wiz
  <2>3. EscsLeft' \in {3, 4}
    BY <2>2 DEF EscsLeft
  <2> QED BY <2>1, <2>3
<1>2. CASE focus = "pages" /\ lockWiz # None
  <2>1. lockBack(prompt) /\ UNCHANGED <<query, findWiz>> /\ onlyPicker
    BY <1>2 DEF leave, picking
  <2>2. prompt.kind # "lock"
    BY <1>2 DEF typing, promptOwner
  <2> QED BY <1>2, <2>1, <2>2, EscLockBack DEF onlyPicker, table
<1>3. CASE focus = "pages" /\ lockWiz = None /\ findWiz # None
  <2>1. findBack /\ UNCHANGED <<prompt, lockWiz>> /\ onlyPicker
    BY <1>3 DEF leave, picking
  <2> QED BY <1>3, <2>1, EscFindBack DEF onlyPicker, table
<1>4. CASE focus = "pages" /\ ~picking /\ pages.title \in Results /\ space # None
  <2>1. openTable(space.path)
    BY <1>4 DEF leave, picking
  <2>2. EscsLeft = 4
    BY <1>4 DEF EscsLeft, picking
  <2>3. ~quit' /\ lockWiz' = None /\ findWiz' = None /\ focus' \in {"tables", "pages"}
        /\ pages'.title = "PAGES"
    BY <2>1 DEF openTable, closePickers, openFailed, EmptyPane, treePane, TablePane
  <2>4. EscsLeft' \in {1, 2, 3}
    BY <2>3 DEF EscsLeft, Results
  <2> QED BY <2>2, <2>4
<1>5. CASE focus = "pages" /\ ~picking /\ ~(pages.title \in Results /\ space # None)
  <2>1. pages.title \notin Results
    BY <1>5 DEF IInv, PaneBacked
  <2>2. EscsLeft = 3
    BY <1>5, <2>1 DEF EscsLeft, picking
  <2>3. focus' = "tables" /\ ~quit'
    BY <1>5 DEF leave, picking
  <2>4. EscsLeft' \in {1, 2}
    BY <2>3 DEF EscsLeft
  <2> QED BY <2>2, <2>4
<1>6. CASE focus = "tables"
  <2>1. quit'
    BY <1>6 DEF leave
  <2>2. EscsLeft' = 0
    BY <2>1 DEF EscsLeft
  <2>3. EscsLeft \in {1, 2}
    BY <1>6 DEF EscsLeft
  <2> QED BY <2>2, <2>3
<1> QED BY <1>0, <1>1, <1>2, <1>3, <1>4, <1>5, <1>6 DEF picking

\* Every esc brings the session nearer to its end, in every state it can reach:
\* EscsLeft is a bound on the keys to the way out.
THEOREM EscAlwaysLeadsOut == Spec => EscLeadsOut
<1>1. IInv /\ Esc => EscsLeft' < EscsLeft
  BY EscClosesPrompt, EscLeaves DEF Esc
<1> QED BY <1>1, Invariant, PTL DEF EscLeadsOut

-----------------------------------------------------------------------------

\* The bounds a comparison makes of a statement that has none of its own.
LEMMA BoundsOfComparison ==
  ASSUME NEW st \in LockStmt, NEW c \in {"=", "<", "<=", ">", ">=", "between"},
         ~st.hi, ~st.hiIncl, ~st.eq, st.lo => c = "between", c = "between" => st.lo
  PROVE  LET b == bound(st, c) IN
         /\ b.lo <=> c \in {"=", ">", ">=", "between"}
         /\ b.hi <=> c \in {"=", "<", "<=", "between"}
         /\ b.hi /\ b.hiIncl <=> c \in {"=", "<=", "between"}
         /\ b.eq <=> c = "="
<1> USE DEF bound, LockStmt
<1>1. CASE c = "="
  BY <1>1
<1>2. CASE c = "<"
  BY <1>2
<1>3. CASE c = "<="
  BY <1>3
<1>4. CASE c = ">"
  BY <1>4
<1>5. CASE c = ">="
  BY <1>5
<1>6. CASE c = "between"
  BY <1>6
<1> QED BY <1>1, <1>2, <1>3, <1>4, <1>5, <1>6

\* The bounds of a statement are those of the comparison on its title, whatever
\* was typed and taken back before it (lockBack, lockValue).
THEOREM StatementHasTheBoundsPicked == Spec => StatementBounds
<1> DEFINE Bounds(st, c) ==
      /\ st.lo <=> c \in {"=", ">", ">=", "between"}
      /\ st.hi <=> c \in {"=", "<", "<=", "between"}
      /\ st.hi /\ st.hiIncl <=> c \in {"=", "<=", "between"}
      /\ st.eq <=> c = "="
<1>1. ASSUME IInv, CommitKey, lockWiz # None, lockWiz' = None
      PROVE  Bounds(locks'.stmt, lockWiz.cmp)
  <2> USE NoneAssumption, BrowserAssumption
  <2>1. lockWiz \in lockWizard /\ lockWiz.st \in LockStmt /\ findWiz = None
    BY <1>1 DEF IInv, TypeOK, KeysTypeOK, lockWizard, PickerOwnsPane
  <2>2. prompt.kind = "lock" /\ lockValue
    BY <1>1, <2>1 DEF CommitKey, IInv, PromptMatchesPicker, onlyPrompt, wiz
  <2>3. /\ lockWiz.cmp \in {"=", "<", "<=", ">", ">=", "between"}
        /\ ~lockWiz.st.hi /\ ~lockWiz.st.hiIncl /\ ~lockWiz.st.eq
        /\ lockWiz.st.lo => lockWiz.cmp = "between"
    BY <1>1, <2>2 DEF IInv, PromptMatchesPicker, BoundsMatchStep
  <2>4. ~(lockWiz.cmp = "between" /\ ~lockWiz.st.lo)
    <3>1. ASSUME lockWiz.cmp = "between", ~lockWiz.st.lo PROVE FALSE
      <4> DEFINE st == bound(lockWiz.st, lockWiz.cmp)
      <4>1. lockWiz' = [lockWiz EXCEPT !.st = st]
        BY <2>2, <3>1 DEF lockValue
      <4>2. st \in LockStmt
        BY <2>1, <3>1, <2>3 DEF bound, LockStmt
      <4> HIDE DEF st
      <4>3. lockWiz' \in lockWizard
        BY <2>1, <4>1, <4>2 DEF lockWizard
      <4> QED BY <1>1, <4>3
    <3> QED BY <3>1
  <2>5. locks'.stmt = bound(lockWiz.st, lockWiz.cmp)
    BY <2>2, <2>4 DEF lockValue, runLock
  <2>6. Bounds(bound(lockWiz.st, lockWiz.cmp), lockWiz.cmp)
    BY <2>1, <2>3, <2>4, BoundsOfComparison
  <2> QED BY <2>5, <2>6
<1>2. IInv => (CommitKey /\ lockWiz # None /\ lockWiz' = None => Bounds(locks'.stmt, lockWiz.cmp))
  BY <1>1
<1> QED BY <1>2, Invariant, PTL DEF StatementBounds

=============================================================================
