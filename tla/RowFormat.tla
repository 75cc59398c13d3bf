------------------------------- MODULE RowFormat -------------------------------
(***************************************************************************)
(* How a record is cut into columns (parseRec of internal/innodb/rec.go) by *)
(* the index definitions built from the SDI (buildTable of dd.go), while    *)
(* the server adds and drops columns INSTANT: the rows written before keep  *)
(* the layout they had, and the version in a record says which.             *)
(*                                                                         *)
(* A table has one row.  A record is its header below the 5 bytes every     *)
(* record has, read downwards from hdr[1], and its data; a byte of data is  *)
(* the name of the column it is of.  A byte of the header is the set of its *)
(* bits, and has Bits of them.                                              *)
(***************************************************************************)
EXTENDS Integers, SequencesExt

CONSTANTS
  Bits,          \* in a byte: the code's masks are those of 8
  Kinds,         \* what a column may be: [Fixed, MaxLen, Nullable]
  KeyKind,       \* the primary key column
  Base, BaseKinds, \* the other columns a table starts with, in order
  Added,         \* the names of the columns added later, in order
  Lengths,       \* how long a value may be
  PrefixLengths, \* how much of a column a secondary index may take
  FIELD_REF_SIZE,
  NULL, Default  \* no value, and that of a column added after the row

Key       == "key"
DB_TRX_ID == "DB_TRX_ID"
Virtual   == "virtual"
NoPos     == -1          \* no physical_pos in the SDI
Whole     == -1          \* 0xFFFFFFFF, not a prefix
Other     == "other"     \* a byte of another record

\* 2 to the power of k.
weight[k \in 0 .. Bits] == IF k = 0 THEN 1 ELSE 2 * weight[k - 1]
Byte == weight[Bits]

\* The number that a byte is, and the byte that a number is.
number(byte) ==
  LET low[k \in 0 .. Bits] ==
        IF k = 0 THEN 0 ELSE low[k - 1] + (IF k - 1 \in byte THEN weight[k - 1] ELSE 0)
  IN  low[Bits]
byteOf(n) == CHOOSE byte \in SUBSET (0 .. Bits - 1) : number(byte) = n

\* The elements of s at the indexes in S, in order.
nth(S, k)      == CHOOSE i \in S : Cardinality({j \in S : j < i}) = k - 1
selected(s, S) == [k \in 1 .. Cardinality(S) |-> s[nth(S, k)]]

names == <<Key, DB_TRX_ID, Virtual>> \o Base \o Added
Kind  == [Fixed : Nat, MaxLen : Nat, Nullable : BOOLEAN]
Value == [Extern : BOOLEAN, bytes : Seq(ToSet(names) \cup {Default})]

\* A row has a version for every ALTER and all of them fit a byte; no value is longer
\* than two length bytes can say, as no page is.
ASSUME RowFormatAssumption ==
  /\ Bits \in Nat /\ Bits >= 3
  /\ Kinds \cup {KeyKind} \subseteq Kind /\ ~KeyKind.Nullable
  /\ Base \in Seq(STRING) /\ Added \in Seq(STRING)
  /\ BaseKinds \in Seq(Kind) /\ Len(BaseKinds) = Len(Base)
  /\ \A i, j \in DOMAIN names : names[i] = names[j] => i = j
  /\ Len(Added) < Byte
  /\ Lengths \subseteq 0 .. Byte * (Byte \div 4) - 1
  /\ PrefixLengths \subseteq (Nat \ {0}) \cup {Whole}
  /\ FIELD_REF_SIZE \in Nat
  /\ NULL \notin Value

VARIABLES
  columns,     \* the columns of the SDI: those dropped last
  physical,    \* the columns in the order a row has them
  version,     \* of the rows written now
  elements,    \* of a secondary index, <<>> when there is none
  row,         \* the row as it was written, NULL when there is none
  defs         \* the definitions a session read last

vars == <<columns, physical, version, elements, row, defs>>

column(name) == columns[CHOOSE i \in DOMAIN columns : columns[i].name = name]

-----------------------------------------------------------------------------
(* The definitions.                                                        *)

hasPhysicalPos == \E i \in DOMAIN columns : columns[i].physical_pos # NoPos

\* The elements of the clustered index in the SDI: the key, the hidden columns,
\* what is left of the others.
clusteredElements ==
  selected(physical, {i \in DOMAIN physical : column(physical[i]).VersionDropped = 0})

trxIDPos(els) == Min({i \in DOMAIN els : els[i] = DB_TRX_ID})

\* An instant ALTER leaves the elements in another order than the fields are in, and
\* without the columns dropped.
byPosition_virtual ==                                                  \* Mutant
  [k \in DOMAIN columns |->
     LET before(c) == {d \in ToSet(columns) : d.physical_pos < c.physical_pos}
     IN  CHOOSE c \in ToSet(columns) : Cardinality(before(c)) = k - 1]
byPosition ==
  LET fields    == {c \in ToSet(columns) : ~c.IsVirtual}
      before(c) == {d \in fields : d.physical_pos < c.physical_pos}
  IN  [k \in 1 .. Cardinality(fields) |-> CHOOSE c \in fields : Cardinality(before(c)) = k - 1]

clusteredCols ==
  IF hasPhysicalPos THEN byPosition
  ELSE [i \in DOMAIN clusteredElements |-> column(clusteredElements[i])]

\* A prefix of a column of fixed length is fixed at the prefix.
secondaryCols_whole ==                                                 \* Mutant
  [i \in DOMAIN elements |-> column(elements[i].name)]
secondaryCols ==
  [i \in DOMAIN elements |->
     LET c == column(elements[i].name)
     IN  [c EXCEPT !.Fixed = IF elements[i].Length # Whole /\ elements[i].Length < c.Fixed
                             THEN elements[i].Length ELSE c.Fixed]]

\* The clustered index, and the secondary one after it.
buildTable ==
  [clustered |-> [Cols |-> clusteredCols, NUniqueInTree |-> trxIDPos(clusteredElements) - 1],
   secondary |-> [Cols |-> secondaryCols, NUniqueInTree |-> Len(secondaryCols)],
   version   |-> version]

-----------------------------------------------------------------------------
(* Reading a record.                                                       *)

presentIn(c, v) == c.VersionAdded <= v /\ (c.VersionDropped = 0 \/ c.VersionDropped > v)

nullableIn_all(cols, v) ==                                             \* Mutant
  Cardinality({i \in DOMAIN cols : cols[i].Nullable /\ cols[i].VersionAdded <= v})
nullableIn(cols, v) ==
  Cardinality({i \in DOMAIN cols : cols[i].Nullable /\ presentIn(cols[i], v)})

\* What is past a record belongs to others.
headerByte(r, i)   == IF i \in DOMAIN r.hdr THEN r.hdr[i] ELSE {}
slice(r, pos, len) ==
  [i \in 1 .. len |-> IF pos + i \in DOMAIN r.data THEN r.data[pos + i] ELSE Other]

\* s is how far the record is read: the null bit and the length byte that come next,
\* how much of the data, and the fields so far.
show(s, c, value) == [s EXCEPT !.Fields = Append(@, [Name |-> c.name, Value |-> value])]

nextNull(s, c) ==
  LET full == s.nullBit = Bits
  IN  IF ~c.Nullable THEN s
      ELSE [s EXCEPT !.nullByte = IF full THEN @ + 1 ELSE @,
                     !.nullBit  = IF full THEN 1 ELSE @ + 1]

isNull(r, s, c) == c.Nullable /\ s.nullBit - 1 \in headerByte(r, s.nullByte)

readValue(r, s, c) ==
  LET first  == headerByte(r, s.lens)
      long   == c.MaxLen > Byte - 1 /\ Bits - 1 \in first
      size   == IF c.Fixed > 0 THEN 0 ELSE IF long THEN 2 ELSE 1
      length == CASE size = 0 -> c.Fixed
                  [] size = 1 -> number(first)
                  [] size = 2 -> number(first \ {Bits - 1, Bits - 2}) * Byte
                                   + number(headerByte(r, s.lens + 1))
      read   == show(s, c, [Extern |-> size = 2 /\ Bits - 2 \in first, bytes |-> slice(r, s.pos, length)])
  IN  [read EXCEPT !.lens = @ + size, !.Extra = @ + size, !.pos = @ + length]

readField(r, v, s, c) ==
  LET next == nextNull(s, c)
  IN  CASE ~r.nodePtr /\ c.VersionDropped # 0 /\ c.VersionDropped <= v -> s
        [] ~r.nodePtr /\ (c.VersionDropped = 0 \/ c.VersionDropped > v) /\ c.VersionAdded > v ->
             show(s, c, Default)
        [] (r.nodePtr \/ presentIn(c, v)) /\ isNull(r, next, c)  -> show(next, c, NULL)
        [] (r.nodePtr \/ presentIn(c, v)) /\ ~isNull(r, next, c) -> readValue(r, next, c)

parseRec(r, idx) ==
  LET v         == IF r.versioned THEN number(headerByte(r, 1)) ELSE 0
      nulls     == IF r.versioned THEN 2 ELSE 1
      cols      == IF r.nodePtr THEN SubSeq(idx.Cols, 1, idx.NUniqueInTree) ELSE idx.Cols
      nNull     == nullableIn(idx.Cols, IF r.nodePtr THEN 0 ELSE v)
      nullBytes == (nNull + Bits - 1) \div Bits
      start     == [nullByte |-> nulls, nullBit |-> 0, lens |-> nulls + nullBytes,
                    Extra |-> nulls - 1 + nullBytes, pos |-> 0, Fields |-> <<>>]
      read[i \in 0 .. Len(cols)] ==
        IF i = 0 THEN start ELSE readField(r, v, read[i - 1], cols[i])
  IN  read[Len(cols)]

-----------------------------------------------------------------------------
(* The server: external.                                                   *)

newColumn(name, kind, added) ==
  [name |-> name, Fixed |-> kind.Fixed, MaxLen |-> kind.MaxLen, Nullable |-> kind.Nullable,
   IsVirtual |-> FALSE, physical_pos |-> NoPos, VersionAdded |-> added, VersionDropped |-> 0]

\* The values a column takes.
values(c) ==
  LET bytes(n) == [i \in 1 .. n |-> c.name]
      short    == {[Extern |-> FALSE, bytes |-> bytes(n)] :
                     n \in IF c.Fixed > 0 THEN {c.Fixed} ELSE {l \in Lengths : l <= c.MaxLen}}
      extern   == {[Extern |-> TRUE, bytes |-> bytes(n)] :
                     n \in {l \in Lengths : l >= FIELD_REF_SIZE /\ c.Fixed = 0 /\ c.MaxLen > Byte - 1}}
  IN  short \cup extern \cup (IF c.Nullable THEN {NULL} ELSE {})

\* The length of a value in the header.
lengthBytes(c, x) ==
  LET n == Len(x.bytes)
  IN  CASE c.Fixed > 0 -> <<>>
        [] c.Fixed = 0 /\ c.MaxLen >= Byte /\ (x.Extern \/ n >= Byte \div 2) ->
             <<byteOf(n \div Byte) \cup {Bits - 1} \cup (IF x.Extern THEN {Bits - 2} ELSE {}),
               byteOf(n % Byte)>>
        [] OTHER -> <<byteOf(n)>>

\* The place of a column among the null bits, and the places of those that are NULL.
nullPos(cols, vals, i) ==
  Cardinality({j \in 1 .. i - 1 : cols[j].Nullable /\ cols[j].name \in DOMAIN vals})
nullBits(cols, vals) ==
  {nullPos(cols, vals, i) :
     i \in {i \in DOMAIN cols : cols[i].name \in DOMAIN vals /\ vals[cols[i].name] = NULL}}

\* The lengths and the data of a record with one more column.
written(s, c, vals) ==
  IF c.name \notin DOMAIN vals \/ vals[c.name] = NULL THEN s
  ELSE [s EXCEPT !.lens = @ \o lengthBytes(c, vals[c.name]), !.data = @ \o vals[c.name].bytes]

\* The record of the columns in cols that vals has values of, its null bits in the
\* bytes that n of them take.
record(cols, vals, n, header, nodePtr) ==
  LET nulls       == nullBits(cols, vals)
      nullByte(j) == {k \in 0 .. Bits - 1 : (j - 1) * Bits + k \in nulls}
      stored[i \in 0 .. Len(cols)] ==
        IF i = 0 THEN [lens |-> <<>>, data |-> <<>>] ELSE written(stored[i - 1], cols[i], vals)
  IN  [nodePtr   |-> nodePtr,
       versioned |-> header # <<>>,
       hdr       |-> header \o [j \in 1 .. (n + Bits - 1) \div Bits |-> nullByte(j)]
                       \o stored[Len(cols)].lens,
       data      |-> stored[Len(cols)].data]

\* How many columns of cols among those named can be NULL.
nullables(cols, named) == Cardinality({i \in DOMAIN cols : cols[i].Nullable /\ cols[i].name \in named})

fields == [i \in DOMAIN physical |-> column(physical[i])]

\* Once a table has row versions its rows say theirs.
leafRecord(vals, v) ==
  record(fields, vals, nullables(fields, DOMAIN vals), IF v > 0 THEN <<byteOf(v)>> ELSE <<>>, FALSE)

\* The rows that have all their values: those of the columns there are.
with(f, n, x) == [m \in DOMAIN f \cup {n} |-> IF m = n THEN x ELSE f[m]]
widened(S, c) ==
  IF c.VersionDropped # 0 THEN S ELSE {with(f, c.name, x) : f \in S, x \in values(c)}
rows ==
  LET upTo[i \in 0 .. Len(fields)] == IF i = 0 THEN {<<>>} ELSE widened(upTo[i - 1], fields[i])
  IN  upTo[Len(fields)]

\* A value of the row as the server reads it, and what an index entry holds of it.
current(c) ==
  IF c.name \in DOMAIN row.vals THEN row.vals[c.name]
  ELSE [Extern |-> FALSE, bytes |-> [i \in 1 .. (IF c.Fixed > 0 THEN c.Fixed ELSE 1) |-> Default]]
entryValue(e) ==
  LET x      == current(column(e.name))
      prefix == IF e.Length # Whole /\ e.Length < Len(x.bytes) THEN e.Length ELSE Len(x.bytes)
  IN  IF x = NULL THEN NULL ELSE [Extern |-> FALSE, bytes |-> SubSeq(x.bytes, 1, prefix)]

entryVals ==
  [n \in {elements[i].name : i \in DOMAIN elements} |->
     entryValue(elements[CHOOSE i \in DOMAIN elements : elements[i].name = n])]

\* Only rows of the clustered index have a version.
entryRecord(nodePtr) ==
  LET cols == [i \in DOMAIN elements |-> column(elements[i].name)]
  IN  record(cols, entryVals, nullables(cols, DOMAIN entryVals), <<>>, nodePtr)

\* A node pointer of the clustered index has the null bits of the first version.
nodePointer ==
  record(<<column(Key)>>, [n \in {Key} |-> row.vals[n]],
         nullables(fields, {n \in ToSet(physical) : column(n).VersionAdded = 0}), <<>>, TRUE)

\* From the first instant ALTER on the SDI has the position of every field.
positioned(cols, order) ==
  [i \in DOMAIN cols |->
     IF cols[i].IsVirtual THEN cols[i]
     ELSE [cols[i] EXCEPT !.physical_pos = CHOOSE j \in DOMAIN order : order[j] = cols[i].name]]

AddColumn(kind, first) ==
  LET name  == Added[version + 1]
      new   == newColumn(name, kind, version + 1)
      order == Append(physical, name)
      shown == selected(columns, {i \in DOMAIN columns : columns[i].VersionDropped = 0})
      gone  == selected(columns, {i \in DOMAIN columns : columns[i].VersionDropped # 0})
      all   == (IF first THEN <<new>> \o shown ELSE Append(shown, new)) \o gone
  IN  /\ version < Len(Added)
      /\ columns' = positioned(all, order)
      /\ physical' = order
      /\ version' = version + 1
      /\ UNCHANGED <<elements, row, defs>>

DropColumn(name) ==
  LET kept == selected(columns, {i \in DOMAIN columns : columns[i].name # name})
      gone == [column(name) EXCEPT !.VersionDropped = version + 1]
  IN  /\ version < Len(Added)
      /\ name \notin {Key, DB_TRX_ID, Virtual} \cup {elements[i].name : i \in DOMAIN elements}
      /\ column(name).VersionDropped = 0
      /\ columns' = positioned(Append(kept, gone), physical)
      /\ version' = version + 1
      /\ UNCHANGED <<physical, elements, row, defs>>

CreateIndex(name, length) ==
  /\ elements = <<>>
  /\ name \notin {Key, DB_TRX_ID, Virtual} /\ column(name).VersionDropped = 0
  /\ elements' = <<[name |-> name, Length |-> length], [name |-> Key, Length |-> Whole]>>
  /\ UNCHANGED <<columns, physical, version, row, defs>>

\* An update writes the row as an insert would, so once is enough.
WriteRow ==
  /\ row = NULL
  /\ \E vals \in rows : row' = [vals |-> vals, version |-> version, leaf |-> leafRecord(vals, version)]
  /\ UNCHANGED <<columns, physical, version, elements, defs>>

\* A session opens the tablespace, or reloads it.
ReadTables ==
  /\ defs' = buildTable
  /\ UNCHANGED <<columns, physical, version, elements, row>>

-----------------------------------------------------------------------------

Init ==
  /\ columns = <<newColumn(Key, KeyKind, 0),
                 newColumn(DB_TRX_ID, [Fixed |-> 1, MaxLen |-> 0, Nullable |-> FALSE], 0),
                 [newColumn(Virtual, KeyKind, 0) EXCEPT !.IsVirtual = TRUE]>>
               \o [i \in DOMAIN Base |-> newColumn(Base[i], BaseKinds[i], 0)]
  /\ physical = <<Key, DB_TRX_ID>> \o Base
  /\ version = 0 /\ elements = <<>> /\ row = NULL
  /\ defs = buildTable

Server ==
  \/ \E kind \in Kinds, first \in BOOLEAN : AddColumn(kind, first)
  \/ \E i \in DOMAIN columns : DropColumn(columns[i].name)
  \/ \E i \in DOMAIN columns, length \in PrefixLengths : CreateIndex(columns[i].name, length)
  \/ WriteRow

Next == Server \/ ReadTables

Spec == Init /\ [][Next]_vars

-----------------------------------------------------------------------------
(* Properties.                                                             *)

\* Every variable keeps its type: what a session knows of an index is columns that
\* records have.
TypeOK ==
  /\ version \in 0 .. Len(Added) /\ defs.version \in 0 .. version
  /\ ToSet(physical) = {c.name : c \in {c \in ToSet(columns) : ~c.IsVirtual}}
  /\ Len(physical) = Cardinality(ToSet(physical))
  /\ \A i \in DOMAIN defs.clustered.Cols : defs.clustered.Cols[i].name = physical[i]
  /\ defs.clustered.NUniqueInTree = 1
  /\ row # NULL => row.version \in 0 .. version

\* The record r reads as vals, but for the columns it is too old for, and is read to
\* its ends: every column of the definition not dropped is one field of it.
readsAs(r, idx, vals) ==
  LET read == parseRec(r, idx)
      shown(name) == {i \in DOMAIN read.Fields : read.Fields[i].Name = name}
  IN  /\ \A i \in DOMAIN read.Fields :
           LET f == read.Fields[i]
           IN  f.Value = IF f.Name \in DOMAIN vals THEN vals[f.Name] ELSE Default
      /\ \A i \in DOMAIN idx.Cols :
           idx.Cols[i].VersionDropped = 0 => Cardinality(shown(idx.Cols[i].name)) = 1
      /\ read.Extra = Len(r.hdr) /\ read.pos = Len(r.data)

\* "Records decoded into column values using the table's SDI, including layouts
\* rewritten by instant ADD/DROP COLUMN" (README.md:39): definitions as new as a row
\* read it whatever was altered before it was written or after.
RowReads ==
  row # NULL /\ row.version <= defs.version => readsAs(row.leaf, defs.clustered, row.vals)

\* So does a node pointer, whose child page is where its key ends, and an entry of a
\* secondary index on a column that was not added INSTANT.
KeysRead ==
  row # NULL =>
    /\ LET read == parseRec(nodePointer, defs.clustered)
       IN  read.Fields = <<[Name |-> Key, Value |-> row.vals[Key]]>> /\ read.pos = Len(nodePointer.data)
    /\ Len(defs.secondary.Cols) > 0 /\ defs.secondary.Cols[1].VersionAdded = 0 =>
         \A nodePtr \in BOOLEAN : readsAs(entryRecord(nodePtr), defs.secondary, entryVals)

\* "A clustered index link under every secondary index leaf record: it shows the
\* primary key the record stores" (README.md:55).
EntryReads ==
  row # NULL /\ Len(defs.secondary.Cols) > 0 => readsAs(entryRecord(FALSE), defs.secondary, entryVals)
=============================================================================
