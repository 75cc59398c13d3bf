# innolens: a formal model

innolens is a terminal browser for the InnoDB files of a MySQL datadir. This
directory holds TLA+ modules of its core logic, the TLC configurations that
check them and the TLAPS proofs about them. Source paths are relative to the
repository; line numbers are in `PROJECT.json`, which maps every definition to
the code it stands for.

    tlc -workers 2 -config BrowserFiles.cfg MCBrowser     # one run
    tlapm BrowserProofs.tla                               # the proofs of one module

The modules with proofs are `BrowserProofs`, `PageViewProofs`, `RedoScanProofs`,
`VersionsProofs`, `InsertPlaceProofs`, `LockScanProofs`, `RowFormatProofs` and `NatSets`.

## The system

innolens is one process with no goroutines of its own: `tea.Program` calls
`Model.Update` for one message at a time. What makes it hard is not threads. It
is that the files belong to a *running server*, which creates, drops,
truncates, flushes and logs between any two reads; that the session is a nest of
small state machines (pane focus, prompt, two wizards, a result pane, a page
detail, a replay) with shared state and many ways back; and that the simulations
(locks, inserts, replay) claim to answer what InnoDB would do.

| component | state it keeps | operations | hard behaviour | what makes it correct |
|---|---|---|---|---|
| session (`tui/tui.go`, `reload.go`, `undo.go`) | focus, open `Space`, definitions, right pane and title, page detail with the closure that reads it again | `enter`, `esc`, `r`, jumps to a page or an undo record | the open handle is closed while rows and closures over it stand; a failed open half way; stale `dir` | panes read through what is open; the page shown can be read again; esc always leads out |
| prompt (`tui.go`) | kind, text, filter query | open, type, commit, close | a prompt swallows the keys of one pane and closing it steps a wizard back | prompt and wizard step agree |
| lock picker (`tui/locks.go`) | wizard step, index, comparison, statement so far; the last lock set | pick, back, value, clear, run | what survives a step back; locks outliving the table | the statement run is the one picked; locks go with the table |
| find and insert picker (`find.go`, `insert.go`) | table, index, find or insert | pick, back, key | the same | the same |
| datadir scan, filter (`datadir.go`, `filter.go`) | file of each tablespace id, query | scan, filter | stale as soon as the server creates or truncates | jumps show a page or an error |
| B+tree search (`innodb/search.go`) | none | `descend`, `Descend` | keys equal to separators, equal keys over several leaves, looping pointers | ends on the leaf the key belongs to; ends |
| lock simulation (`innodb/lock.go`) | cursor, last record, `first`, `stopFound`, locks so far | `SimulateLocks` | delete-marked records, page ends, exclusive and composite bounds, stale separators, looping next pointers | every row read is locked; no insert fits in the range; nothing more is locked |
| insert simulation (`innodb/insert.go`, `index.go`) | none | place, duplicate, blocked, run, split | duplicates among delete-marked entries and over a page boundary; a record that just fits | finds the duplicate and the lock it waits for; there is room where it says, before and after a split |
| redo scan (`innodb/redo.go`, `redorec.go`, `tui/redo.go`) | headers, stream, mtrs by page; cached in the session | `OpenRedo`, `Scan`, `MTRs`, `loadRedo` | the log is written and recycled during the scan; torn tail | a prefix of what was logged; no half mtr is replayed |
| replay (`innodb/apply.go`, `tui/replay.go`) | records bound, position | `n`, `p`, reload | the page is flushed between steps; records that are not replayed or fail | the page at position n is what n records make of the file |
| versions (`tui/versions.go`, `innodb/undo.go`) | read view | walk, mark | purge and reuse of undo pages, loops | ends; marks at most one version |
| records and definitions (`rec.go`, `dd.go`) | none | `parseRec`, `buildTable` | rows written before and after an instant ALTER, null bits and lengths that cross a byte | every row is cut into columns where it was written |
| decoding (`page.go`, `types.go`, `collation.go`, `sdi.go`, `ddl.go`, `redoimage.go`) | none | parse | formats | unit tests over recorded files |
| layout (`tree.go`, `help.go`, `theme.go`), `cmd`, `scripts` | cursor, folding | draw | none | not modelled |

The parts interact by calls alone. A key goes to the prompt first
(`promptKey`), then to the focused pane or the picker over it (`cur`, `enter`).
`openTable` is the hub: `enter` on a table, `r` over the pages and `esc` from a
result all come to it, and it resets nearly everything. The pickers end in a
simulation over the open `Space`, whose result replaces the page tree; the lock
set it leaves is what later inserts are checked against. The page detail keeps a
closure that reads its page again, over the open handle (`openPage`) or over a
path (`jumpToPage`, `jumpToUndo`), and `r`, `n` and `p` go through it.

## Modules

`Browser.tla` is the session over the server's files. Its variables are the
fields of `Model` under their own names; `files`, `nextId` and `logged` are
the server's. The actions are the keys as `Update` sees them:

| key | action | code |
|---|---|---|
| enter | `EnterTable` `EnterRedo` `EnterPage` `EnterRecord` `EnterRollPtr` `EnterClustered`, `FindPick`, `LockPick`, `LockClear`, `CommitKey`, `CommitView` | `enter`, `commitPrompt` |
| esc | `Esc` = `closePrompt` or `leave`, which go through `lockBack`, `findBack` and `openTable` | `Update`, `closePrompt` |
| f, i, l | `StartFind`, `StartLock` | `startFind`, `startLock` |
| r | `reloadPage`, `reloadPages`, `reloadTables` | `reload` |
| n, p | `ReplayStep` | `replayStep` |
| right, on a redo section | `ExpandRedo` | `redoSection` |
| /, v, text | `OpenPrompt`, `Type` | `promptKey` |
| ctrl+c | `CtrlC` | `Update` |
| (server) | `Drop`, `Create`, `Log`, `Checkpoint` | outside the repository |

One action is one call of `Update`, whole: `EnterTable` contains everything
`openTable` does, with its failed open. What is abstracted: the cursor (a key acts
on any row it could be on), typed text (something or nothing), a page (file,
tablespace id and number it was read from), the redo log (the set of pages it has
a record for). Whether a read fails is a free choice where the server could make
it fail. `ReadTables` returns the tables of the file or none.

`PageView.tla` is one page of that session with its bytes, and the server that
changes it. The server logs records for the page in mini-transactions, writes its
log up to any record, flushes the page in two parts and may replace the file by
another tablespace's (`Log`, `WriteLog`, `Flush`, `FlushRest`, `Truncate`). The
session opens the page over the handle or by path, steps the redo records with n
and p, reloads with r and scans the log anew. A replay is not one step there:
`ReplayStep` is the key and the read, `ReplayTurn` one turn of the loop in
`replayTo` (one `Apply`), `ReplayShow` what follows the loop, with the server's
steps in between. That is finer than the code needs, since the loop touches
no file after the read, and what holds there holds for the code. A page
is its tablespace id, its LSN, its rows and what its checksum was computed over;
an LSN is the number of records of this page, since the code only compares
them. `PageHistory.tla` is what the page detail promises, without a redo log or
a replay: what is shown is a version the page had, and none older than the file
was when it was last read. `PageView` is shown to implement it.

`RedoScan.tla` is `loadRedo` over the files of the log and a server that goes on
writing them. The server's state is what the log holds (fixed in advance, `written`
says how far it is in the files), its newest checkpoint, and the files by inode,
since a recycled file keeps its inode and changes its name. A block on disk is
named by its place in the log and by how much of the log there was when it was
written; header, data and `first_rec_group` are functions of that, and a file
renamed over keeps the blocks it had. The scan is cut into the reads it makes:
`ReadDir`, `OpenFile`, `ReadHeader` for each file, `Choose` (the newest
checkpoint), then one `ScanBlock` or `StopAt` for each block, with `Write`,
`Checkpoint`, `Recycle` and `NewFile` of the server between any two. `LSN` and
`MTRs` are functions of the stream returned. Files are opened in any order, which
covers the order of their names. A record is a byte, or two when it is cut by the
end of a block. Left out are the decoding of records, encrypted logs, and a file
that shrinks. `PageView` relies on two things shown here: that a scan leaves out no
mtr that began after the checkpoint (`StreamStarts`), and that `EndLSN` orders
records as the log does (`EndsInOrder`, a part of `MtrsAreLogged`). An entry of `Files`
has the name the file was opened by and what its header said then, which need not agree:
a file recycled and taken into use between the two has a later start. Then no file may
have the block after the checkpoint's file, and the scan ends there with "no file" though
the log goes on; `ReachesTail` leaves out a scan over such a file, since the code takes
no other look at it.

`Versions.tla` is the version chain of one row: `OpenPage` reads the row, `Expand`
begins the walk, and `WalkStep`, `WalkFail` and `WalkOver` are the turns of the
loop in `walkVersions`, one undo record each, with the server between two reads
(`Insert`, `Update`, `Delete`, `RollBack`, `Commit`, `Purge`). `setReadView` marks
what was walked. Two variables are there for the properties alone: `versions` keeps
every version the row had and `was` which of them each one shown should be: the one
the undo record followed was written to restore. The page may hold any version the row
had when it was flushed. At the place of an undo record there may be the record written last or, before a flush or after a purge, one of
another row (`Foreign`): the walk does not compare the record's key with the row, and
shows such a record as a version. `faithful` says that this has not happened, and
the properties about content are stated for that; `ChainEnds` and `MarksFollowView`
hold without it. Left out are the decoding of undo records, but for the columns
that are not decoded whole, and their key.

`BTree.tla` is the tree a search runs over and `descend`: the page each page is left
for (`follow`), and the `walk` of at most `maxTreeHeight` pages that stays on a leaf once it
is there. A page is a leaf, a node page or `Bad`, one that cannot be read or parsed; node pointers
and next pointers may lead to any of them. `ordered(tree, o)` is what InnoDB keeps true of
a tree of any height, with `o` the order of its leaves and the keys each page was
given. `InsertPlan.tla` is the part of `SimulateInsert` that meets the locks:
which record is a duplicate, which one the new record goes before, and which lock
it waits for. `LockScan.tla` is `SimulateLocks`; a step is one page of the descent
(`Descend`, with `depth` the pages passed) or one turn of the loop in `lockSim.scan`,
split by the branch it takes (`ReadMiss`, `ReadCommitted`, `ReadPast`, `ReadNext`,
`RunOff`). The row behind a secondary index entry is looked for in the step that reads
the entry as far as the first leaf (`rowAt`; this second descent, by the same `walk`, is
not cut into pages again). Where the records that share the first primary key column go
on behind that leaf (`rowRunsOn`), each further leaf is a step
`RowRunOn`, with `cl` the leaf and `rowHops` the leaves passed. `m.leaf` reads those
with the definition of the index *scanned*, so what their records decode to is anything:
an error, another key, or the same key up to the end of the page. That it is never the
row is taken for granted; an index whose columns begin with the whole primary key, where
the definition may happen to fit, is left out, and so is the refusal of a descending
index (`search.go:68`), before which nothing is read. It extends `InsertPlan`, so that
what the locks promise can be stated as what an insert would do.

`InsertPlace.tla` is the rest of `SimulateInsert`: whether the record fits, where its
bytes go (`place`), the directory slot it falls under, the insert pattern (`run`),
and where the page is cut (`split`). The code computes a plan and changes nothing, so
what makes the plan meaningful is the page it is computed on: the module is a leaf
page and a server that inserts as planned (`InsertFreeList`, `InsertHeap`,
`InsertReorganize`, `Split`), frees records (`Free`) and thereby makes every mix
of heap, free list, garbage, slots and insert pattern there can be. A record is its place
and its size; the order of `recs` stands for the keys, and a place to insert at is a
number of records before it. The constants of InnoDB are CONSTANTS here. `PageUsage`
is the adding up that the page detail shows (`usage`), with the bytes themselves.

`RowFormat.tla` is one table whose columns a server adds and drops INSTANT
(`AddColumn`, `DropColumn`), one row it writes in between (`WriteRow`), a secondary
index (`CreateIndex`) and a session that reads the definitions now and then
(`ReadTables`, which is `buildTable`). A byte of data is the name of the column it
belongs to, so a record cut wrongly shows. A byte of the header is the set of its bits,
of which it has `Bits`: a null bit is a member of it, a version and a length are the
`number` it is. `parseRec` reads one column after another as the loop of the code does,
for leaf rows, secondary entries and node pointers; the two recursions of the server, what
it writes of a row and which rows there are, are functions of how many columns they are of.

`NatSets.tla` has the facts that the proofs share: about least and greatest numbers, and
about a function applied a number of times.

`MCBrowser.tla`, `MCPageView.tla`, `MCLockScan.tla`, `MCRedoScan.tla`, `MCVersions.tla`,
`MCInsertPlace.tla` and `MCRowFormat.tla` give the instances. The theorems are in the
modules named `...Proofs`. Operators
named `x_y` and marked *Mutant* are plausible bugs of the operator `x` that follows them, used to see that each property notices.

## Runs

| run | instance | shows |
|---|---|---|
| `BrowserPickers` | one tablespace of two tables, one index each, all six comparisons, a server that drops it | `PickerOwnsPane`, `PromptMatchesPicker`, `StatementBounds`, `EscQuits` |
| `BrowserFiles` | a general and an undo tablespace, one page, one record in the log, one new tablespace id, no comparison | `TypeOK`, `PaneBacked`, `DetailBacked`, `ReplayOfPage`, `EscLeadsOut` |
| `PageView` | a page of two rows, one in each part of a flush; three kinds of record, up to 3 logged; columns of varying length | `TypeOK`, `PageIsVersion`, `ReplayPosition`, `ReplayRecovers`, `ShowsHistory` |
| `LockScan` | up to 3 records of keys 1..3 on up to 3 leaves, every cut, every separator a purge may leave, every delete mark; every comparison under both isolation levels, ends of a BETWEEN the wrong way round, a bound left included by a step back; rows that share a first primary key column on one leaf; damaged trees, whose pointers lead to any page, one of them unreadable | `TypeOK`, `NoPhantom`, `RowsHeld`, `NothingMore`, `ScanSucceeds`, `ScanEnds` |
| `RedoScan` | three files of two blocks that take turns, two bytes to a block; two logs of twelve bytes; header numbers repeat every second block; checkpoints at three places | `TypeOK`, `StreamIsLogged`, `StreamStarts`, `ReachesTail`, `MtrsAreLogged` |
| `Versions` | a row of one column, two places for undo, up to three versions by two transactions, chains of up to two records, three foreign records, one read view | `TypeOK`, `VersionsWereTheRow`, `ChainIsWhole`, `ChainEnds`, `MarksFollowView`, `ReadsTheSnapshot` |
| `InsertPlace` | slots of two to three records, two record sizes, a page of up to five records | `TypeOK`, `PageUsage`, `PlanFits`, `SlotsCount`, `RunBehind`, `SplitFits` |
| `RowFormat` | two columns at the start, up to two instant ALTERs, each column fixed, varying or long; values short, long, external or NULL; one index, on a whole column or a prefix | `TypeOK`, `RowReads`, `KeysRead` |
| `BrowserStatement`, `ReplayMtr`, `LockRows`, `RowSecondary` | small instances | each refutes one sentence of the code's comments or docs, below |

The bounds. In `Browser` nothing depends on how many pages, tables or files there
are beyond *this one* or *another one*, so two tables, two files and one page give
every case of a mismatch; two tablespace ids on one path are what a truncate
needs. `BrowserPickers` has one id, so the server only drops there; a create under an
open picker is in the proofs of its safety properties. The pickers and the files are checked apart because they meet only in
`openTable` and `showResult`, which both runs have; the proofs cover them
together. In `LockScan` a leaf boundary, a delete-marked record and a record
past the bound can all occur next to each other with three records; keys 1..3
leave a bound with records on both sides, on either or on none. `NPages` is 5,
one more than the pages of the instance, and `maxTreeHeight` the code's 16: each of the three loops (the descent, the scan, the search for a row) has trees it would run for ever on,
and runs to its error there. The mutants that stop counting, one for each loop, all break
`ScanEnds`.
`MaxLogged` and `MaxSpaceId` bound the server and nothing else. In `PageView`
three records are what a replay needs to have one the file already holds, one that
is passed over or fails, and one after it; the records are of a write to the row
flushed first, an update of the other row, and one that adds that row and is not
replayed. `MaxLog` bounds the server alone. `Def` is one way of the index definition
per run: with columns of varying length an update of a row that is not there fails,
with fixed ones it writes over other bytes, which `ReplayMtr` and the proofs cover.

In `RedoScan` a log of six blocks fills each of the three files, and those before a
checkpoint come round again, so that a file is recycled before, between and after the
reads of a scan, and the checkpoint may be in the first, the middle or the last of those
it opened; with two files no file lies between that of the checkpoint and the last. With
`MaxNo` 2 the header number of a recycled block is that of the block looked for,
and only the epoch tells them apart. The two logs have mtrs that end with a block,
go on in the next and fill more than one. `Points` bounds the checkpoints. The server
stands still once the scan is over, since nothing reads its files any more; that
is where the run may stop, so deadlock is not checked there.

In `Versions` three versions are what a chain needs to have a middle: a record applied
to the page's image and one applied to the image that made. Two places are written
over as soon as something is purged, and lead in a circle. Two transactions can
come to the row in either order of their ids. The read view is that of transaction 1,
which either is seen with its own change or is what the other is too new for; a snapshot
is taken at most once. The server rests while a chain stands shown, since the next read is
not before the page is opened again. Undo places and values are symmetric.

In `InsertPlace` the heap starts at byte 1, a slot takes 1 byte and owns two or three
records, a page has 13 bytes, compacting must gain 2 bytes and a run must leave 3:
with records of 2 and 3 bytes each limit is met exactly, missed and passed by one, and
five records have up to two slots of their own to add to and split. Nothing bounds the
server but the page.

In `RowFormat` a byte of three bits makes the fourth nullable column need a null byte
of its own and a value of four bytes or more two length bytes; lengths 1, 6 and 9
are one of one byte, one of two whose low byte alone would do for a shorter column, and one
that can be external. Two ALTERs are what it takes to drop a column that was itself
added, before or after the row was written. The row is written once: an update writes a row
as an insert would.

What a page is worth. `PageView` calls a page *trusted* when it is of the
tablespace, was not read in the middle of a flush, and no record between the file's
LSN and its own was passed over because its type is not replayed. Only then does
`PageIsVersion` say its bytes are a version. Both exceptions are things the code shows
(the checksum line, the *not replayed* note); a torn page is the one it can hide,
since `Apply` computes the checksum anew. It does so on purpose (`apply.go:40`) and promises
nothing of a torn page, so no property is about one.

Instances are ones InnoDB writes: a secondary index row has one entry that is
not delete-marked, separators sort between the leaves they tell apart, and the
leaves of the clustered index have the rows. `written` says so of an index of any size
(`intact` of the one scanned), the properties about locks are stated for it, and
`ScanEnds` is not. The instance has trees that are torn on purpose; `MCWritten`, an
assumption TLC evaluates, says that all the others are `written`.
`NoPhantom` is stated for X statements: the insert that rewrites a delete-marked
clustered record is shown waiting for X locks only.

Fairness. `Browser` assumes nothing of the user but in `EscQuits`: a user who
from some point presses nothing but esc, and does press it (`WF_vars(Esc)`), gets
out, whatever the server does meanwhile. `LockScan` has `WF_vars(Next)`:
`SimulateLocks` is one call, and nothing keeps its loops from their next turn.

## What the runs found

- `BrowserStatement` (`tui/locks.go:192`): a step back clears the bounds but not
  whether they are included. BETWEEN, a lower bound, back, back, `> key` runs as
  `>= key`, though the title says `>`.
- `ReplayMtr` (`innodb/redorec.go:244`): "replay steps the redo records that modified
  one page onto its bytes, the way recovery does after a crash". The mini-transaction
  the log was cut off in is kept with its records, and n steps them; recovery would
  apply none of them.
- `LockRows` (`innodb/lock.go:330`): the row behind a secondary index entry is
  looked for from the *last* leaf that may hold the first primary key column on,
  and later leaves are parsed with the wrong definition, so rows of a composite
  primary key that share the column across a page boundary are reported missing.
- `RowSecondary` (`innodb/dd.go:290`, `rec.go:162`): an entry of a secondary index has no
  version, but the columns of its definition keep the version they were added in. In an
  index on a column added INSTANT that column is taken for one the entry does not
  store, and the primary key behind it is read from the column's bytes, though the link
  under the entry "shows the primary key the record stores" (`README.md:55` of the
  repository).

### Disagreements

Places where code and comment part that the models agree with but no run is kept for.

- `tui/tui.go:402`: "the locks of a statement belong to its table: they stay through a
  reload or a return from a search, and go with the table". They are compared with the
  open tablespace, and a failed open has none: locks of a dropped table stay. What they
  can do then is mark pages of the next table opened, as `addLocks` goes by the page
  number; inserts compare the index too.
- `innodb/insert.go:123`: the duplicate check sees one leaf. A live entry at the end of it
  is missed when delete-marked entries of the key begin the next, and the insert is shown
  going through.
- `tui/versions.go:214`: an undo record keeps the DB_TRX_ID and DB_ROLL_PTR of the version
  before outside its update vector, and `applyUndo` puts back the vector alone, so every
  older version lists those of the newest among its columns. The line that ends a
  chain names `rec.TrxID` as the transaction that inserted the row, which an insert
  record does not have: it reads "trx 0" (`tui/versions.go:164`).
- `tui/locks.go:230`: the BETWEEN of the lock picker does not compare its ends, where
  `ParseLockStmt` refuses the wrong order: "the range is empty and nothing is locked"
  (`innodb/lock.go:52`). The picker's statement is simulated and shown with locks; on a
  clustered index the record at the lower bound, past the upper one, is locked itself.
  `GapPastBound` leaves such a range out.
- `innodb/index.go:210`: a record on the free list that is delete-marked is said to be
  "freed by purge: the row is gone". A split frees the delete-marked records it moves
  with the others, and those are on the new page.
- `innodb/insert.go:99`: when the new record is the first of the upper half, "everything on
  the page stays where it is". With a run to the right and one record behind the new
  one, that one moves (`splitMoved` with `splitAt` 0).
- `tui/reload.go:119`: r on a page keeps the definitions of the last open. `RowReads` is
  stated for definitions as new as the row, and fails without that.

## Proofs

`BrowserProofs` proves for every set of files, tables, indexes, page numbers and
comparisons, from `BrowserAssumption` (what a datadir is: undo tablespaces have
no table definition, every file has an id) and `NoneAssumption` (nil is no value):

- `Invariant`: `Spec => []IInv`, with
  `IInv == TypeOK /\ PaneBacked /\ DetailBacked /\ PickerOwnsPane /\ PromptMatchesPicker /\ BoundsMatchStep /\ ReplayOfPage`;
- `TypeCorrect`, `RowsAreOfTheOpenTablespace`, `DetailCanBeReadAgain`,
  `PickerOverItsTablespace`, `PromptFollowsPicker`, `ReplayFollowsDetail`: its parts;
- `EscAlwaysLeadsOut`: every esc lowers `EscsLeft`, a measure of the nest of panes,
  pickers and prompts;
- `StatementHasTheBoundsPicked`: the statement run has the bounds of the comparison.

None of the parts of `IInv` is inductive alone. A result pane is left by
`openTable(m.space.Path)`, which needs the open tablespace `PaneBacked` promises.
A jump out of the detail view keeps `DetailBacked` only because no picker is open
there (`PickerOwnsPane`), or a picker step would act under it. Esc in a key prompt
steps the wizard back and closes the prompt; that these end up agreeing needs the
step and the prompt tied together before (`PromptMatchesPicker`) and a lower bound
held only at the second key of a BETWEEN (`BoundsMatchStep`). A replay belongs to
the page shown because every way to another page drops it, and to the scan cached
because the pane that reloads the scan is not the detail view (`ReplayOfPage`).
The step lemma has one lemma per action; `OpenTableInv`, `OpenPathInv`,
`ShowResultInv`, `LockBackInv` and `FindBackInv` are the operations several keys
share. Temporal steps are the last line of each theorem.

`PageViewProofs` proves for any rows, values, records, index definitions and any part
of the page flushed first, from `PageViewAssumption` (the records are of the page's
rows, the two tablespaces differ, nil is no value):

- `ViewInvariant`: `Spec => []IInv`, with
  `IInv == TypeOK /\ LogInv /\ DiskInv /\ ScanInv /\ PageInv /\ StepsInv`;
- `ViewTypeCorrect`, `PageShownIsAVersion` (`PageIsVersion`), `PositionIsOfThePage`
  (`ReplayPosition`), `FullReplayRecovers` (`ReplayRecovers`);
- `DetailShowsHistory`: `Spec => ShowsHistory`, the refinement of `PageHistory`.

`PageIsVersion` is about the page shown, and the page shown is the outcome of a
loop, so the invariant has to hold of the page in the middle of the loop:
`Built(p, r, k)` says that `p` is the page `r` read from the file with `k` records
passed, `Passed` that each of the `k` is on it unless it is not replayed.
`ApplyInv` takes one record more. Its heart is that the record applied is the one
just after the page's LSN: any record between was passed before, so the page has
seen it or it is not replayed, and then the page is not trusted. The first record
needs a start: nothing may lie between the file's LSN and the first
record scanned, which is `ScanInv`'s `redo.from <= flushed`. It holds because
a checkpoint is not past the oldest change not flushed, and it stays true because
`flushed` only grows while the scan is kept. Were the start later, `ReplayRecovers` would
fail (its mutant). In the refinement a step of the server that changes
the page or the file is a step of `PageHistory`, a read or a page shown is its
`Look`, and everything inside the loop is a stutter.

`RedoScanProofs` proves for any logs, checkpoints, numbers of files, file and block
sizes and range of header numbers, from `RedoScanAssumption` (a block has a header,
data and a trailer; there are finitely many files; of a record cut in two the parts
follow one another):

- `Invariant`: `Spec => []IInv`, with
  `IInv == TypeOK /\ FileInv /\ StreamInv /\ StreamIsLogged /\ StreamStarts`;
- `TypeCorrect`, `StreamIsARunOfTheLog` (`StreamIsLogged`),
  `StreamBeginsAtTheCheckpoint` (`StreamStarts`);
- `TailInvariant`: `Spec => [](IInv /\ TailInv)`, with
  `TailInv == LiveInv /\ HeldInv /\ NameInv /\ OpenInv /\ ScanInv /\ ReachesTail`;
- `ScanReachesTheTail` (`ReachesTail`) and `MtrsAreTheLoggedOnes` (`MtrsAreLogged`).

The scan never compares the file it reads from with what it takes it for, so the argument
cannot be about files. It is that a block says which one it is: header number
and epoch are the quotient and the rest of one number, so they name one block of the log
(`BlockRead`), and `FileInv` says that what is on disk as a block was written as that
block. The rest is arithmetic: `Stands(n)` says that a scan before block `n` goes on with
the first byte of its data, or, while it has none, that nothing began between the
checkpoint and it; `TakenOf` and `BytesOf` are what a block adds, `LsnOfByte` is that a
byte and its log sequence number determine each other, and `LsnAppended` that a block
added leaves the numbers of the bytes before as they were. The server's steps keep all of
it because it only appends (`ServerKeeps`).

That the stream reaches the tail is about files after all. `LiveInv` is what the server
keeps true: the live files do not overlap, have the log from the checkpoint to its
end, and the one with the checkpoint has it in its header. `HeldInv` carries that over to
the files the scan has open, which keep their blocks when they are recycled, until they
are taken into use again; then they have a later name (`NameInv`). The names that
`ReadDir` lists go from a checkpoint to the end of the log; the checkpoint chosen is that
one or a newer one (`Listed`), because a header is overwritten by newer ones only. So the scan,
which begins at the checkpoint chosen and goes up, finds a file for each block that was
written when it began (`ScanInv`), and in it that block: it cannot stop with "no file" or
"end of log" before the tail, and a block that is not full is the last (`PartialOf`).

The split is two recursions over the offsets of the stream. Both go up only, so
there are functions as they say (`MtrIs`, `SplitIs`), and what is true of them follows from the
end of the stream down (`Downward`): a walk from where a record begins ends behind the
first record that closes an mtr, or there is none (`WalkOf`), and a split from where an mtr
begins is made of such walks (`SplitOf`). The stream has to begin with a whole record, which it does
because it begins with an mtr (`StreamRecords`). `EndsInOrder` is that `lsn` grows with
the byte (`LsnOrder`); the end of the stream is the one offset with no byte of its own, and has the
number after the last byte's (`Ended`).

`VersionsProofs` proves for any columns, values, undo places, transactions, bound on the
chain and records of other rows:

- `Invariant`: `Spec => []IInv`, with `IInv` the properties below and
  `VersionsInv /\ UndoInv /\ OutInv /\ WalkInv`;
- `TypeCorrect`, `VersionsShownWereTheRow` (`VersionsWereTheRow`), `ChainEndsAtTheInsert`
  (`ChainIsWhole`), `WalksEnd` (`ChainEnds`), `MarksAreOfTheView` (`MarksFollowView`);
- `SnapshotInvariant`: `Spec => [](IInv /\ SnapInv)`, and `SnapshotIsRead`
  (`ReadsTheSnapshot`).

An undo record written for the row restores the version before the one it was
written with (`Restores`, `UndoInv`): the columns it has and those it leaves. That stays
true because versions are only added, and rolling back and purging change which of them is
current, not what they were. A walk that has only followed such records stands on a
version of the row with that version's roll pointer to follow (`WalkInv`), so the next
record is the one of that version or of another row. `SnapInv` says what a snapshot
divides: transactions get their ids in the order they start, so the versions there were
when it was taken are those with an id it counts as committed, and every version made
later was made from another such version or from the row of then. A chain that begins past the snapshot therefore
meets the row of then first among the older versions, which is the one marked.

`InsertPlaceProofs` proves for any sizes of records, slots and pages that let a page take
two records (`InsertPlaceAssumption`):

- `Invariant`: `Spec => []IInv`, with `IInv == Layout(...) /\ Heap /\ Slots /\ Pattern`;
- `TypeCorrect`, `UsageAddsUp` (`PageUsage`), `PlanHasRoom` (`PlanFits`),
  `DirectoryCounts` (`SlotsCount`), `RunIsThere` (`RunBehind`), and, for records of one
  size, `SplitHasRoom` (`SplitFits`).

`Heap` is what the properties lack: it charges the directory for every record that was
ever put in the heap, as `maxInsertSize` does, where `PageUsage` only has the slots there
are, and a reorganized page keeps it because `dirReserved` of fewer records is less.
`SplitHasRoom` is that both halves have a record (`BothHalves`), so neither has more
than the page had before, which fit. That is why it is stated for records of one size: with
others a half may not take the record, and the server splits again.

`LockScanProofs` proves for any trees, statements, keys and tablespace sizes, from
`BTreeAssumption` (page numbers are finite, keys sort after the empty one),
`LockScanAssumption` (a clustered index is unique, a tablespace has as many pages as
the tree uses, nil is no record) and `LockStmtAssumption` (what the picker and
`ParseLockStmt` build). Nothing is assumed of where a pointer leads:

- `TypeCorrect`, on any file: a next pointer may lead to a node page or to one that cannot
  be read, which is why the last record read may be a node pointer;
- from the inductive `IInv`, `RowsStayHeld` (`RowsHeld`),
  `NothingMoreLocked` (`NothingMore`) and `NoRowGained` (`NoPhantom`);
- `ScanIsAnswered` (`ScanSucceeds`), where `rowsOnOneLeaf`: without it the property
  is false, which is what `LockRows` shows.

Three arguments meet. The descent: on a tree that is `ordered` every page of the walk was
given the key (`given`), as `childSlot` leaves a page through the child that was, and
a level is lost with each page, so the walk ends on the leaf of the key (`Descended`).
`CursorInv` says that the pages passed are those of `walk`, so the descent, a page to a
step, ends where `walk` does (`WalkEnds`).
It is about what a function applied `n` times keeps (`IterateStays`), which needs no
induction over the tree. The places: a record is number `i` on leaf number `m`, and the scan
passes the places in their order (`before`) from the one the descent opens at; nothing
before it is above the lower bound and nothing from it on below (`StartBelow`), and
an INSERT of a key in the range puts it at none before (`InsertPlaced`). The scan: `ScanInv`
says of every place passed what is locked there (`RowsBehind`, `AllBehind`), of every lock
that its place was passed (`LocksBehind`), and of a scan that is done why (`Ended`): at the
end of the index, behind or at a record past the bound, or at the one record that can have
the key. Whatever the reason, no place further on has a key in the range, so a row
in it was passed (`MatchSeen`), and the gap an INSERT needs is that of a place passed or of
the place the scan ended at (`GapBlocked`). Few of the conjuncts are inductive
alone: `Ended` needs `ReadBehind`, since the bound that ended a leaf, or spared the gap
behind it, was seen at an earlier step, and all need the cursor's place (`CursorPlaced`).
That no supremum is locked above a record past the bound (`SupremumInRange`) needs that
nothing passed sorts after the last record read (`PrevLast`).
The four ways to read a record share one shape, `ReadsRec`, and one obligation, `ReadRight`.

`RowFormatProofs` proves for any columns at the start and added later, any kinds of
column, lengths, prefixes and width of a byte, from `RowFormatAssumption` (a byte has three
bits or more; no two columns have a name; the versions of a row fit a byte, and the longest
value two length bytes):

- `RowInvariant`: `Spec => []RowInv`, with
  `RowInv == Layout /\ Index /\ Definitions /\ Row`;
- `RowTypes` (`TypeOK`), `RowsRead` (`RowReads`), `RowKeysRead` (`KeysRead`).

Whether a record can be read says nothing of whether it can be read after the next ALTER,
so the invariant is not about reading. It says that the columns of the SDI, the definitions
a session has and the fields of the row are those of versions of one table, and `later`
what the versions of a table have in common: a later one has the fields of an earlier one
first, each `grown` by nothing but being dropped in a version after it, and then
fields added after it. `AddColumnStep` and `DropColumnStep` show that an ALTER makes a later
version, and `Transitive` that any number of them does; that definitions have the fields
in the order the row has them is `ByPosition`, from `Positions`: once there are versions the
SDI has the place of every field. From there `Agreeing` is all that versions are needed for:
of the fields of a row, definitions as new as the row tell those with bytes from those
dropped before, and those added after. The rest is about one record. `placed` says where in it
a reader is that has passed some of the columns: at the null bit which is the
number of nullable columns passed, at the length byte and at the byte of the data behind what was
`stored` for them. `FieldStep` shows that `readField` goes on to the next such place and shows
the value that was written there, whether the column is NULL, has a value or is not in the record;
`LengthBytes` that one and two length bytes are told apart, `NullPlaces` and `NullBit`
that the null bit found is the column's own, `Bytes` that a number is that of one
byte. Leaf rows, node pointers and secondary entries are three cases of
`RecordRead`, which differ in the columns and in how many null bits they leave room for
(`RowNullables`, `PointerNullables`). A recursion over a bounded range of numbers is made
to be a function by `Upward`, which is what makes induction over the columns possible here. TLC does not evaluate `RowInv` itself: the fields of the row's
version, which it says there are, range over all sequences of columns.

Only model-checked: `EscQuits` and `ScanEnds`, being liveness. The four properties that a
run refutes have no theorem, of course, and neither has that an instance is one InnoDB writes
(`MCWritten`).

## Details left out

Errors and cases of the mapped code that the models do not have, none of them met on the
files the instances stand for:

- `RedoScan`: a checkpoint slot is written at once, so `c.ChecksumOK` (`redo.go:90`) is
  always true.
- `RowFormat`, `parseRec`: a header that runs below the buffer (`rec.go:133`, `173`, `188`,
  `196`), a field past the end of the page (`207`), more unique fields than columns (`146`),
  the instant layout from before 8.0.29 and a record without a definition (`127`). A
  record the server wrote, read with a definition of its index, meets none of them.
- `RowFormat`, `buildTable`: the errors for a row format (`dd.go:229`), a missing
  `physical_pos` (`275`), a column out of range (`287`) and a table without a clustered
  index (`309`), and the skipping of FULLTEXT and SPATIAL indexes (`238`).
- `RowFormat`, `clusteredCols`: a primary key on the prefix of a column, which `dd.go:295`
  cuts. The primary key is one whole column.
- `LockScan`: descending indexes, and indexes that begin with the whole primary key where
  the row lies behind the first leaf (see Modules).

## Plan

| module | what it adds | checks and proofs |
|---|---|---|
| `Browser`, `BrowserProofs` | the session | done |
| `BTree`, `InsertPlan`, `LockScan`, `LockScanProofs` | search, locks, insert against locks | done |
| `PageView`, `PageHistory`, `PageViewProofs` | a page's bytes, its redo records and the server's flushes | done; left out are the baseline comparison and LSNs that count other pages' records |
| `RedoScan`, `RedoScanProofs` | the log's files, `Scan` against a running writer, `MTRs` | done |
| `Versions`, `VersionsProofs` | the version chain over an undo log with purge and rollback, the read view | done |
| `InsertPlace`, `InsertPlaceProofs` | heap, free list, garbage, directory slots, split of a leaf page | done |
| `RowFormat`, `RowFormatProofs` | records and the definitions that cut them, over instant ALTERs | done |

## Not modelled

What the bytes of a value mean (types, collations, JSON), the annotation of
pages, the reading of the SDI and the printing of DDL are pure functions of bytes:
there is no state for an interleaving to disturb, and they are tested against files a
server wrote. The
decoding of redo and undo records is the same, with one exception worth naming:
`parseIndexLog` builds an index definition out of the record itself, which
`PageView` has as `Def`, a choice, and not as the bytes it is built from. The tree widget
(`tree.go`), help and colours keep a cursor and what is folded, and no other part reads
either but as *the row selected*, which is any row in `Browser`. The command line
parses two arguments, and `scripts` run a statement on a throwaway server and keep its
files. `PROJECT.json` lists the components with what is left out of each, and the hazards
of the code with the property that covers each or why none does.
