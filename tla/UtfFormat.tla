------------------------------ MODULE UtfFormat ------------------------------
(***************************************************************************)
(* The two readers of a UTF table: NewUTFTable of internal/cricodecs/acb,   *)
(* which refuses a table it cannot read to the end, and getUTFTable of      *)
(* internal/cricodecs/usm, which ignores every read error and so reads      *)
(* zeros.  A row is a function from the names of its columns to values.     *)
(***************************************************************************)
EXTENDS Bytes, FiniteSetsExt

UtfMagic == <<64, 85, 84, 70>>
utfMaxSchemaSize == 32768

\* columnValueSize; 0 for a type it does not know.
columnValueSize(typ) ==
    CASE typ \in {0, 1} -> 1 [] typ \in {2, 3} -> 2 [] typ \in {4, 5, 8, 10} -> 4
      [] typ \in {6, 11} -> 8 [] OTHER -> 0

\* The flags of a column: it has one value for all rows, or one per row.
HasDefault(info) == (info \div 32) % 2 = 1
HasRow(info)     == (info \div 64) % 2 = 1
Flag(info)       == 16 * (info \div 16)

\* readColumnValue with resolvePromise, and readColumnData: the value of type typ
\* at position p; strings and data are kept elsewhere in the table.  A float stays the
\* bits it is read as.
ValueAt(data, typ, p, strings, blobs) ==
    CASE typ = 10 -> StringAt(data, strings + Spelled(data, p, 4))
      [] typ = 11 -> Slice(data, blobs + Spelled(data, p, 4), Spelled(data, p + 4, 4))
      [] typ \in {1, 3, 5} -> SpelledSigned(data, p, columnValueSize(typ))
      [] OTHER -> Spelled(data, p, columnValueSize(typ))

-----------------------------------------------------------------------------
(* NewUTFTable.                                                             *)

\* That value can be read to its end.
Readable(data, typ, p, strings, blobs) ==
    /\ Has(data, p, columnValueSize(typ))
    /\ typ = 10 => Zeros(data, strings + Spelled(data, p, 4)) # {}
    /\ typ = 11 => Has(data, blobs + Spelled(data, p, 4), Spelled(data, p + 4, 4))

UtfHeader(data) ==
    [size    |-> Spelled(data, 4, 4) + 8,
     row     |-> Spelled(data, 10, 2) + 8,
     strings |-> Spelled(data, 12, 4) + 8,
     blobs   |-> Spelled(data, 16, 4) + 8,
     name    |-> Spelled(data, 20, 4),
     fields  |-> Spelled(data, 24, 2),
     rowSize |-> Spelled(data, 26, 2),
     rows    |-> Spelled(data, 28, 4)]

HeaderTaken(data) ==
    /\ Has(data, 0, 32) /\ Slice(data, 0, 4) = UtfMagic
    /\ LET h == UtfHeader(data) IN
       /\ h.fields # 0
       /\ h.row - 32 >= 0 /\ h.row - 32 < utfMaxSchemaSize
       /\ {h.row, h.strings, h.blobs} \subseteq 0..h.size
       /\ Zeros(data, h.strings + h.name) # {}

\* Mutant: a column with both flags is read from the row.
RowOfBoth(info) == HasRow(info)

\* parseSchema: a column is read from its row; DEFAULT takes priority.
FromRow(info) == HasRow(info) /\ ~HasDefault(info)

\* parseSchema, one column: its flags and type, its name, its value if it has one for
\* all rows; s is what came of the columns before it.
schemaColumn(data, h, s) ==
    LET info == ByteAt(data, s.at)
        typ  == info % 16
        size == columnValueSize(typ)
        name == h.strings + Spelled(data, s.at + 1, 4)
    IN  [ok   |-> /\ s.ok /\ Has(data, s.at, 5) /\ Zeros(data, name) # {}
                  /\ Flag(info) \in {16, 48, 80, 112} /\ size > 0
                  /\ HasDefault(info) => Has(data, s.at + 5, size),
         at   |-> s.at + 5 + (IF HasDefault(info) THEN size ELSE 0),
         off  |-> s.off + (IF FromRow(info) THEN size ELSE 0),
         cols |-> Append(s.cols, [info |-> info, typ |-> typ, name |-> StringAt(data, name),
                                  pos |-> IF HasDefault(info) THEN s.at + 5 ELSE s.off])]

\* The columns, each with the place of its value in the schema or in a row; ok is FALSE
\* when it fails.
parseSchema(data) ==
    LET h == UtfHeader(data)
        fold[i \in 0..h.fields] ==
            IF i = 0 THEN [ok |-> TRUE, at |-> 32, off |-> 0, cols |-> << >>]
            ELSE schemaColumn(data, h, fold[i - 1])
    IN  fold[h.fields]

\* readRows: where the value of column c in row n, from 0, is.
FieldAt(h, c, n) == c.pos + (IF FromRow(c.info) THEN h.row + n * h.rowSize ELSE 0)

RowsReadable(data, cols) ==
    LET h == UtfHeader(data) IN
    \A i \in DOMAIN cols :
        LET c == cols[i] IN
        /\ FromRow(c.info) => \A n \in 0..h.rows - 1 :
               Readable(data, c.typ, FieldAt(h, c, n), h.strings, h.blobs)
        /\ HasDefault(c.info) => Readable(data, c.typ, c.pos, h.strings, h.blobs)

\* readRows: row n, from 0.  Of columns of one name the last one wins, and one read
\* from the row before a default.
readRow(data, cols, n) ==
    LET h == UtfHeader(data)
        perRow(name) == {i \in DOMAIN cols : cols[i].name = name /\ FromRow(cols[i].info)}
        fixed(name)  == {i \in DOMAIN cols : cols[i].name = name /\ HasDefault(cols[i].info)}
        named == {cols[i].name : i \in {k \in DOMAIN cols : HasRow(cols[k].info)
                                                            \/ HasDefault(cols[k].info)}}
    IN  [name \in named |->
            LET c == cols[Max(IF perRow(name) # {} THEN perRow(name) ELSE fixed(name))]
            IN  ValueAt(data, c.typ, FieldAt(h, c, n), h.strings, h.blobs)]

\* The rows; << >> for a table that it refuses.
NewUTFTable(data) ==
    IF ~(HeaderTaken(data) /\ parseSchema(data).ok
         /\ RowsReadable(data, parseSchema(data).cols)) THEN << >>
    ELSE [n \in 1..UtfHeader(data).rows |-> readRow(data, parseSchema(data).cols, n - 1)]

-----------------------------------------------------------------------------
(* getUTFTable.                                                             *)

UsmHeader(data) ==
    [row     |-> Spelled(data, 8, 2),
     strings |-> Spelled(data, 10, 4),
     blobs   |-> Spelled(data, 14, 4),
     fields  |-> Spelled(data, 22, 2),
     rows    |-> Spelled(data, 26, 4)]

\* The rest of the table, which the reader takes for tableData; the columns, and
\* whether each has one value for all rows.
UsmData(data)    == SubSeq(data, 31, 30 + Spelled(data, 4, 4) - 24)
UsmFixed(info)   == Flag(info) \in {48, 112}
UsmColumns(data) ==
    LET h == UsmHeader(data)
        d == UsmData(data)
        step(s) ==
            LET info == ByteAt(d, s.at)
            IN  [at   |-> s.at + 5 + (IF UsmFixed(info) THEN columnValueSize(info % 16) ELSE 0),
                 off  |-> s.off + (IF UsmFixed(info) THEN 0 ELSE columnValueSize(info % 16)),
                 cols |-> Append(s.cols,
                    [info |-> info, pos |-> IF UsmFixed(info) THEN s.at + 5 ELSE s.off,
                     name |-> StringAt(d, h.strings + Spelled(d, s.at + 1, 4) - 24)])]
        fold[i \in 0..h.fields] ==
            IF i = 0 THEN [at |-> 0, off |-> 0, cols |-> << >>] ELSE step(fold[i - 1])
    IN  fold[h.fields]

\* extractFilename: the column called name of the last row, << >> without one.  The
\* rows follow each other as their columns are wide, whatever the header says.
extractFilename(data, name) ==
    LET h == UsmHeader(data)
        c == UsmColumns(data)
        named == {i \in DOMAIN c.cols : c.cols[i].name = name}
    IN  IF Slice(data, 0, 4) # UtfMagic \/ h.rows = 0 \/ named = {} THEN << >>
        ELSE LET col == c.cols[Max(named)]
                 row == IF UsmFixed(col.info) THEN 0 ELSE h.row - 24 + (h.rows - 1) * c.off
             IN  IF col.info % 16 # 10 THEN << >>
                 ELSE ValueAt(UsmData(data), 10, row + col.pos, h.strings - 24, h.blobs - 24)
=============================================================================
