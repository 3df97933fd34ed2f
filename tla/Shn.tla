-------------------------------- MODULE Shn --------------------------------
(***************************************************************************)
(* CShn (Common/CShn.hpp): a table of the game's data, read from an         *)
(* enciphered file, with rows that are found by number or by name.          *)
(*                                                                         *)
(* The cipher's key depends on the length of the file and the place of the  *)
(* byte; a byte is known here with the set of keys it is under.  The names  *)
(* of the columns are left out.                                             *)
(***************************************************************************)
EXTENDS Integers, Sequences, SequencesExt, FiniteSetsExt

CONSTANTS
  Columns,   \* the columns of a table: type and columnSize of each
  Ids,       \* the numbers that stand in the tables: four bytes, the lowest first
  Strings,   \* the strings that do: bytes other than 0
  MaxRows    \* bound: rows of a table

ASSUME ColumnsAre == Columns \subseteq Seq([type : Nat, size : Nat])
ASSUME MaxRowsIs == MaxRows \in Nat
ASSUME IdsAre == Ids \subseteq [1..4 -> Nat]
\* In a column of fixed length stands nothing that is longer.
ASSUME StringsAre ==
  /\ Strings \subseteq Seq(Nat \ {0})
  /\ \A cols \in Columns : \A j \in DOMAIN cols : \A str \in Strings :
       cols[j].type = 9 => Len(str) <= cols[j].size

VARIABLES
  columns,   \* of the table
  table,     \* the rows of the file: the bytes of the value in each column
  rows,      \* what Open made of them
  idMap,     \* by the word in column useIdMap
  strMap,    \* by the string in column useStrMap
  isOpen

shnVars == <<columns, table, rows, idMap, strMap, isOpen>>

Nothing == <<>>
Numeric == {1, 2, 3, 11, 18, 27}
Textual == {9, 26}
WidthOf(column) == CASE column.type = 1 -> 1 [] column.type = 2 -> 2
                     [] column.type \in {3, 11, 18, 27} -> 4 [] OTHER -> column.size

\* What may stand in a column; of a type that is not known, nothing is looked at.
ValuesOf(column) == CASE column.type \in Numeric -> {SubSeq(id, 1, WidthOf(column)) : id \in Ids}
                      [] column.type \in Textual -> Strings
                      [] OTHER -> {Nothing}

RowsWith(cols) ==
  {r \in [DOMAIN cols -> UNION {ValuesOf(cols[j]) : j \in DOMAIN cols}] :
     \A j \in DOMAIN cols : r[j] \in ValuesOf(cols[j])}

ShnInit == /\ columns \in Columns
           /\ table = <<>> /\ rows = <<>>
           /\ idMap = Nothing /\ strMap = Nothing /\ isOpen = FALSE
-----------------------------------------------------------------------------
(* The file                                                                 *)

Zeros(n) == [i \in 1..n |-> 0]
CellBytes(column, value) ==
  CASE column.type \in Numeric -> value
    [] column.type = 26 -> Append(value, 0)
    [] OTHER -> value \o Zeros(column.size - Len(value))

\* Behind the header; a row begins with its size, a word.
FileData(written) ==
  <<0>> \o FlattenSeq([i \in DOMAIN written |->
             Zeros(2) \o FlattenSeq([j \in DOMAIN columns |-> CellBytes(columns[j], written[i][j])])])

\* The first byte is not enciphered; each of the others is, once.
Enciphered(bytes) ==
  [i \in DOMAIN bytes |-> [v |-> bytes[i], keys |-> IF i = 1 THEN {} ELSE {<<Len(bytes), i>>}]]

Decrypt(data) ==
  [i \in DOMAIN data |-> IF i = 1 THEN data[i]
                         ELSE [data[i] EXCEPT !.keys = SymDiff(@, {<<Len(data), i>>})]]

\* The bytes that a program sees; one that is still under a key is none that was written.
Seen(data) == [i \in DOMAIN data |-> IF data[i].keys = {} THEN data[i].v ELSE -1]
-----------------------------------------------------------------------------
(* Open                                                                     *)

UpToZero(bytes) ==
  LET zeros == {i \in DOMAIN bytes : bytes[i] = 0} IN
  IF zeros = {} THEN bytes ELSE SubSeq(bytes, 1, Min(zeros) - 1)

\* One cell: its value, and where the next begins.  Of a type 26 the zero is not
\* passed over.
Cell(column, data, pos) ==
  LET bytes == SubSeq(data, pos + 1, Min({pos + WidthOf(column), Len(data)}))
      text == UpToZero(SubSeq(data, pos + 1, Len(data))) IN
  CASE column.type \in Numeric -> [value |-> bytes, pos |-> pos + WidthOf(column)]
    [] column.type = 9 -> [value |-> UpToZero(bytes), pos |-> pos + WidthOf(column)]
    [] column.type = 26 -> [value |-> text, pos |-> pos + Len(text)]
    [] OTHER -> [value |-> Nothing, pos |-> pos + WidthOf(column)]

\* A row: its size, which is not looked at, and its cells.
Row(data, pos) ==
  FoldLeft(LAMBDA read, column :
             LET cell == Cell(column, data, read.pos) IN
             [cells |-> Append(read.cells, cell.value), pos |-> cell.pos],
           [cells |-> <<>>, pos |-> pos + 2], columns)

RowsOf(data, count) ==
  FoldLeft(LAMBDA read, i :
             LET row == Row(data, read.pos) IN
             [rows |-> Append(read.rows, row.cells), pos |-> row.pos],
           [rows |-> <<>>, pos |-> 1], Zeros(count)).rows

\* wData: of a longer number the lower word.
WordIn(cell) == [i \in 1..2 |-> IF i <= Len(cell) THEN cell[i] ELSE 0]

\* The last row with this number.
IdMapOf(read, column) ==
  [id \in {WordIn(read[i][column]) : i \in DOMAIN read} |->
     Max({i \in DOMAIN read : WordIn(read[i][column]) = id})]

\* Mutant: a later row of the same name takes the place.
StrMapOf_Last(read, column) ==
  [str \in {read[i][column] : i \in DOMAIN read} |-> Max({i \in DOMAIN read : read[i][column] = str})]

\* The first row with this string.
StrMapOf(read, column) ==
  [str \in {read[i][column] : i \in DOMAIN read} |-> Min({i \in DOMAIN read : read[i][column] = str})]

IdColumns == {j \in DOMAIN columns : columns[j].type \in Numeric}
StrColumns == {j \in DOMAIN columns : columns[j].type \in Textual}
Readable == \A j \in DOMAIN columns : columns[j].type # 26

\* The file is opened with the first column for the numbers and one for the names.
OpenShn(written) ==
  /\ ~isOpen
  /\ isOpen' = TRUE /\ table' = written
  /\ LET read == RowsOf(Seen(Decrypt(Enciphered(FileData(written)))), Len(written)) IN
       /\ rows' = read
       /\ idMap' = IF IdColumns = {} THEN Nothing ELSE IdMapOf(read, Min(IdColumns))
       /\ strMap' = IF StrColumns = {} THEN Nothing ELSE StrMapOf(read, Min(StrColumns))
  /\ UNCHANGED columns

\* ~CShn.
CloseShn == /\ isOpen /\ isOpen' = FALSE
            /\ table' = <<>> /\ rows' = <<>> /\ idMap' = Nothing /\ strMap' = Nothing
            /\ UNCHANGED columns

ShnNext ==
  \/ \E n \in 0..MaxRows : \E written \in [1..n -> RowsWith(columns)] : OpenShn(written)
  \/ CloseShn
-----------------------------------------------------------------------------
(* Lookups                                                                  *)

\* RowById, RowByString; GetByteId and the like, 0 when there is no such row.
RowById(id) == IF id \in DOMAIN idMap THEN rows[idMap[id]] ELSE <<>>
RowByString(str) == IF str \in DOMAIN strMap THEN rows[strMap[str]] ELSE <<>>

\* A row that is looked up has the number or the name that was asked for, and is
\* the one the file means: the last with the lower word of the number, the first
\* with the name (CShn.hpp:157).
LookupsFind ==
  isOpen /\ Readable =>
    /\ IdColumns # {} => \A i \in DOMAIN table : LET id(k) == WordIn(table[k][Min(IdColumns)]) IN
         RowById(id(i)) = table[Max({k \in DOMAIN table : id(k) = id(i)})]
    /\ StrColumns # {} => \A i \in DOMAIN table : LET str(k) == table[k][Min(StrColumns)] IN
         RowByString(str(i)) = table[Min({k \in DOMAIN table : str(k) = str(i)})]
=============================================================================
