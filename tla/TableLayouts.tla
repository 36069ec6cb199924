---------------------------- MODULE TableLayouts -----------------------------
(***************************************************************************)
(* The arithmetic of rows: where PaxLayout puts columns on a page, where   *)
(* DataChunkLayout puts them in a chunk, how many rows the free space      *)
(* manager sends to a page, and the byte string KeyNormEncoder makes of a  *)
(* row for an index.  These are computed once, when a table or an index is *)
(* created, so the state is the table or the index that was created: any   *)
(* short list of column sizes or a schema of the catalog, any kind of key. *)
(***************************************************************************)
EXTENDS Integers, Sequences, SequencesExt, PrefixSums

CONSTANTS
  MaxColumns,   \* bound: columns of an arbitrary table
  Radix,        \* values of a byte, 256
  StringLength  \* bound: characters of a string

ASSUME TableLayoutsAssumption ==
  /\ MaxColumns \in Nat /\ StringLength \in Nat
  /\ Radix \in Nat /\ Radix >= 4 /\ Radix % 2 = 0

DB7_PAGE_SIZE == 8192
HEADER_SIZE   == 4       \* sizeof(PageHeader)

VARIABLES
  sizes,  \* the sizes of the table's columns, empty while there is no table
  types   \* the types of the index's columns, empty while there is no index

tableVars == <<sizes, types>>

-----------------------------------------------------------------------------
(* Types and schemas *)

SizeOf ==
  [BOOLEAN |-> 1, TINYINT |-> 1, SMALLINT |-> 2, INTEGER |-> 4, DOUBLE |-> 8,
   VARCHAR |-> 16, VARBINARY |-> 16]

Times(n, type) == [i \in 1 .. n |-> type]

\* The columns of the system tables, in the order of their positions.
CreateDatabaseSchema  == <<"INTEGER", "VARCHAR">>
CreateNamespaceSchema == <<"INTEGER", "VARCHAR">>
CreateClassSchema == <<"INTEGER", "VARCHAR", "INTEGER", "TINYINT", "VARCHAR">>
CreateAttributeSchema ==
  <<"INTEGER", "INTEGER", "VARCHAR", "INTEGER", "SMALLINT", "BOOLEAN">>
CreateIndexSchema == Times(2, "INTEGER") \o Times(7, "BOOLEAN") \o <<"TINYINT">>
CreateTypeSchema ==
  <<"INTEGER", "VARCHAR", "INTEGER", "SMALLINT", "BOOLEAN", "TINYINT">>
CreateConstraintSchema ==
  <<"INTEGER", "VARCHAR", "INTEGER", "TINYINT">>
    \o Times(3, "BOOLEAN") \o Times(3, "INTEGER")
CreateLanguageSchema ==
  <<"INTEGER", "VARCHAR">> \o Times(2, "BOOLEAN") \o Times(3, "INTEGER")
CreateProcSchema ==
  <<"INTEGER", "VARCHAR", "INTEGER", "INTEGER", "DOUBLE", "DOUBLE", "INTEGER">>
    \o Times(4, "BOOLEAN") \o <<"TINYINT", "SMALLINT", "SMALLINT", "INTEGER">>
    \o Times(5, "VARBINARY") \o <<"VARCHAR", "VARBINARY">>

Schemas ==
  {CreateDatabaseSchema, CreateNamespaceSchema, CreateClassSchema,
   CreateAttributeSchema, CreateIndexSchema, CreateTypeSchema,
   CreateConstraintSchema, CreateLanguageSchema, CreateProcSchema}

\* Table::CreateLayoutFromSchema: sizes by position.
CreateLayoutFromSchema(schema) == [i \in DOMAIN schema |-> SizeOf[schema[i]]]

\* Every order of columns up to the bound, since a chunk is laid out in the
\* order in which the schema's hash map is iterated, and the system tables.
SizeLists ==
  (UNION {[1 .. n -> {1, 2, 4, 8, 16}] : n \in 1 .. MaxColumns})
    \cup {CreateLayoutFromSchema(s) : s \in Schemas}

AlignUp(n, to) == ((n + to - 1) \div to) * to

RowSize(cols) == PartialSums(cols)[Len(cols)]

\* The loop both layouts share, over the columns: each is aligned, takes its
\* width, and leaves the offset behind it.
Ends(from, aligns, widths) ==
  LET end[i \in 0 .. Len(aligns)] ==
        IF i = 0 THEN from ELSE AlignUp(end[i - 1], aligns[i]) + widths[i]
  IN  end

Starts(from, aligns, widths) ==
  LET end == Ends(from, aligns, widths)
  IN  [i \in 1 .. Len(aligns) |-> AlignUp(end[i - 1], aligns[i])]

-----------------------------------------------------------------------------
(* PaxLayout *)

WorstCasePad(cols) == RowSize([i \in 1 .. Len(cols) |-> cols[i] - 1])

\* Mutant: the padding between columns is forgotten.
MaxRowCountNoPad(cols) ==
  ((DB7_PAGE_SIZE - HEADER_SIZE) * 8) \div (1 + 8 * RowSize(cols))

MaxRowCount(cols) ==
  ((DB7_PAGE_SIZE - HEADER_SIZE - WorstCasePad(cols)) * 8)
    \div (1 + 8 * RowSize(cols))

\* The deleted bitmap follows the header and the columns follow the bitmap.
CalculateOffsets(cols) ==
  LET rows == MaxRowCount(cols)
  IN  Starts(HEADER_SIZE + (rows + 7) \div 8, cols,
             [i \in 1 .. Len(cols) |-> rows * cols[i]])

\* The first byte of a value.
CalcOffset(cols, row, column) ==
  row * cols[column] + CalculateOffsets(cols)[column]

\* The byte of the bitmap that Delete and IsDeleted address.
DeletedByte(row) == HEADER_SIZE + row \div 8

-----------------------------------------------------------------------------
(* DataChunkLayout and the free space manager *)

\* Mutant: the array of offsets is left out of the header.
ChunkHeaderSizeNoOffsets(cols) == 8 + 4 * Len(cols)

\* column_count_, total_size_, the column ids and the offsets.
ChunkHeaderSize(cols) == AlignUp(8 + 4 * Len(cols), 2) + 2 * Len(cols)

\* Columns are aligned to their sizes, at most to 8 bytes.
ChunkAligns(cols) == [i \in 1 .. Len(cols) |-> IF cols[i] < 8 THEN cols[i] ELSE 8]

DataChunkLayout(cols) ==
  LET header == ChunkHeaderSize(cols)
  IN  [total   |-> AlignUp(Ends(header, ChunkAligns(cols), cols)[Len(cols)], 8),
       offsets |-> Starts(header, ChunkAligns(cols), cols)]

\* DataChunk::GetOffsetsPtr and GetDataPtr recompute the header on their own.
GetOffsetsPtr(cols) == AlignUp(8 + 4 * Len(cols), 4)
GetDataPtr(cols)    == GetOffsetsPtr(cols) + 2 * Len(cols)

\* FreeSpaceManagerVarlen::Get charges the size of the whole chunk, header
\* included, against the page: at most so many rows get the same page.
RowsSentToPage(cols) ==
  (DB7_PAGE_SIZE - HEADER_SIZE) \div DataChunkLayout(cols).total

-----------------------------------------------------------------------------
(* KeyNormEncoder, with two-byte numbers over a small radix *)

Half == (Radix * Radix) \div 2
Ints == -Half .. Half - 1
Nats == 0 .. 2 * Half - 1

\* Doubles by magnitude; the largest is the quiet NaN that Encode makes of all.
Doubles == 2 - Half .. Half - 1

\* EncodeUnsigned: big-endian bytes.
EncodeUnsigned(u) == <<u \div Radix, u % Radix>>

\* Mutant: the sign bit is not flipped.
EncodeSignedRaw(i) == EncodeUnsigned(i % (2 * Half))

\* u ^= sign bit of the two's complement.
EncodeSigned(i) == EncodeUnsigned(((i % (2 * Half)) + Half) % (2 * Half))

\* A double is sign and magnitude; -0.0 becomes 0.0.  The sign bit of a
\* positive number is set and all bits of a negative one are flipped.
EncodeDouble(d) ==
  EncodeUnsigned(IF d < 0 THEN (2 * Half - 1) - (Half - d) ELSE d + Half)

\* utf8proc: case is folded and characters are decomposed.  2 folds to 1, and
\* 3 is 1 with the mark 3.
Normalized(s) ==
  FlattenSeq([i \in DOMAIN s |-> CASE s[i] = 1 -> <<1>> [] s[i] = 2 -> <<1>>
                                   [] s[i] = 3 -> <<1, 3>>])

\* EncodeStringNormalized counts the terminator in.  It neither refuses nor
\* escapes a byte 0 inside the data, of VARCHAR or of VARBINARY; Strings has none.
EncodeString(s) == Append(Normalized(s), 0)

SwitchType(type, v) ==
  CASE type \in {"BOOLEAN", "UINTEGER"}  -> EncodeUnsigned(v)
    [] type = "INTEGER"                  -> EncodeSigned(v)
    [] type = "DOUBLE"                   -> EncodeDouble(v)
    [] type = "VARCHAR"                  -> EncodeString(v)

\* The columns of the key one after the other, then the tuple id.
BuildKey(key, row, tid) ==
  FlattenSeq([i \in DOMAIN key |-> SwitchType(key[i], row[i])])
    \o EncodeUnsigned(tid)

\* The keys of the catalog's indexes, and two more kinds of column.
KeyTypes ==
  {<<"INTEGER">>, <<"VARCHAR">>, <<"INTEGER", "VARCHAR">>, <<"UINTEGER", "DOUBLE">>,
   <<"VARCHAR", "INTEGER">>}

-----------------------------------------------------------------------------
TablesInit == sizes = <<>> /\ types = <<>>

\* The layouts of a table and of its chunks are computed.
CreateLayouts ==
  /\ sizes' \in SizeLists
  /\ UNCHANGED types

\* An index is created: its key is encoded with these types.
CreateKey ==
  /\ types' \in KeyTypes
  /\ UNCHANGED sizes

TablesNext == tableVars = <<<<>>, <<>>>> /\ (CreateLayouts \/ CreateKey)

TablesSpec == TablesInit /\ [][TablesNext]_tableVars

-----------------------------------------------------------------------------
(* Properties *)

\* PaxLayout is sound for every table: bitmap and columns do not overlap,
\* end within the page and are aligned, and the free space manager, which
\* counts chunk bytes and not rows, never sends so many rows to a page that
\* the assertion of IncrementHeaderCount fails.
PagesHoldRows ==
  sizes # <<>> =>
    LET rows == MaxRowCount(sizes)
        n    == Len(sizes)
    IN /\ DeletedByte(rows - 1) < CalcOffset(sizes, 0, 1)
       /\ \A i \in 1 .. n : CalcOffset(sizes, 0, i) % sizes[i] = 0
       /\ \A i \in 1 .. n - 1 :
            CalcOffset(sizes, rows, i) <= CalcOffset(sizes, 0, i + 1)
       /\ CalcOffset(sizes, rows, n) <= DB7_PAGE_SIZE
       /\ RowsSentToPage(sizes) < rows

\* A chunk is sound in whatever order its columns come: the accessors of
\* DataChunk find the header where DataChunkLayout wrote it, and no column
\* overlaps the header, another column or the end.
ChunksWellFormed ==
  sizes # <<>> =>
    LET chunk == DataChunkLayout(sizes)
        n     == Len(sizes)
        End(i) == chunk.offsets[i] + sizes[i]
    IN /\ GetDataPtr(sizes) <= chunk.offsets[1]
       /\ \A i \in 1 .. n - 1 : End(i) <= chunk.offsets[i + 1]
       /\ End(n) <= chunk.total
       /\ \A i \in 1 .. n : chunk.offsets[i] % (IF sizes[i] < 8 THEN sizes[i] ELSE 8) = 0

\* Text without the character 0.
Strings == UNION {[1 .. n -> 1 .. 3] : n \in 0 .. StringLength}

ValuesOf(type) ==
  CASE type = "UINTEGER" -> Nats [] type = "INTEGER" -> Ints
    [] type = "DOUBLE" -> Doubles [] type = "VARCHAR" -> Strings

\* Lexicographic order, which is how memcmp compares bytes.
Before(a, b) ==
  \E i \in DOMAIN b :
    /\ \A j \in 1 .. i - 1 : j <= Len(a) /\ a[j] = b[j]
    /\ i = Len(a) + 1 \/ (i <= Len(a) /\ a[i] < b[i])

\* The order of values; strings are compared after normalization.
Less(type, a, b) ==
  IF type = "VARCHAR" THEN Before(Normalized(a), Normalized(b)) ELSE a < b

RowLess(key, x, y) ==
  \E i \in DOMAIN key :
    /\ Less(key[i], x[i], y[i])
    /\ \A j \in 1 .. i - 1 : ~Less(key[j], x[j], y[j]) /\ ~Less(key[j], y[j], x[j])

\* Rows of one or two columns.
RowsOf(key) ==
  IF Len(key) = 1 THEN {<<v>> : v \in ValuesOf(key[1])}
  ELSE {<<v, w>> : v \in ValuesOf(key[1]), w \in ValuesOf(key[2])}

\* The bytes of keys are in the order of the rows they were made from, and of
\* the tuple ids where the rows are equal, although columns have different
\* lengths and their encodings are put together without separators: this is
\* what lets the B-link tree compare keys with memcmp.  For strings without a
\* byte 0, on which the terminator relies.
KeyOrder ==
  types # <<>> => \A x, y \in RowsOf(types), k, l \in {0, Radix - 1, Radix} :
    Before(BuildKey(types, x, k), BuildKey(types, y, l)) <=>
      \/ RowLess(types, x, y)
      \/ ~RowLess(types, y, x) /\ k < l
=============================================================================
