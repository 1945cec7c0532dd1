------------------------------- MODULE Tables -------------------------------
(***************************************************************************)
(* From an uploaded file to the table every later stage works on           *)
(* (parsers/csv_parser.py, parsers/xlsx_parser.py, domain/ingest_facts.py):*)
(* which row and which column a cell ends up in, the unique key of each    *)
(* column, and the facts about the file that detectors may report.         *)
(* Decoding, quoting, delimiters and the XLSX package are left out: a file *)
(* is what its format's reader yields, a header and rows for CSV, numbered *)
(* rows of sparse cells for a worksheet.                                   *)
(***************************************************************************)
EXTENDS Integers, Sequences, FiniteSets, TLC, Functions

CONSTANTS
    None,       \* the cell that is not there
    ReadName,   \* what the code reads in each column name: keys, its
                \* _normalize_internal_key as it is and with each suffix;
                \* plain, stripped and lower case; key, _column_name_key; and
                \* whether it names an email, a percentage, an amount of money
    FormulaOnly,\* an XLSX cell with a formula and no stored result
    ErrorValue, \* an XLSX cell with a spreadsheet error, read as its text
    MaxRows,    \* limits.max_rows
    MaxColumns  \* limits.max_columns

ASSUME TablesAssumption ==
    /\ MaxRows \in Nat /\ MaxColumns \in Nat
    /\ None \notin {"", FormulaOnly, ErrorValue}

\* The suffixes _2, _3 and so on are all different.
ASSUME KeysAreDistinct ==
    \A n \in DOMAIN ReadName : \A j, k \in 1 .. MaxColumns :
        ReadName[n].keys[j] = ReadName[n].keys[k] => j = k

\* Mutations: a key that is taken is used again; rows keep the length they
\* have in the file; the blank rows before a row with data are forgotten.
BaseKeyAgain(keys, used) == keys[1]
RowAsItIs(row, width) == row

\* A key is taken as it is, or with the first free suffix from 2 on: later
\* stages look cells up by key, so two columns must never share one.
FreeKey(keys, used) ==
    keys[CHOOSE k \in 1 .. MaxColumns :
            keys[k] \notin used /\ \A j \in 1 .. k - 1 : keys[j] \in used]

InternalKeys(names) ==
    LET Upto[n \in 0 .. Len(names)] ==
            IF n = 0 THEN << >>
            ELSE Append(Upto[n - 1],
                        FreeKey(ReadName[names[n]].keys, Range(Upto[n - 1])))
    IN Upto[Len(names)]

\* An empty header cell is called after its position.
DisplayName(header, c) ==
    IF header[c] = "" THEN "column_" \o ToString(c - 1) ELSE header[c]

\* _build_columns
Columns(header) ==
    LET names == [c \in 1 .. Len(header) |-> DisplayName(header, c)]
        keys == InternalKeys(names)
    IN [c \in 1 .. Len(header) |-> [name |-> names[c], key |-> keys[c]]]

\* _normalize_row: short rows are filled up, long ones are cut.
FitRow(row, width) ==
    [c \in 1 .. width |-> IF c <= Len(row) THEN row[c] ELSE None]

Unnamed(header) == {c \in 1 .. Len(header) : header[c] = ""}

\* parse_csv, and project_ingest_facts on its warnings.
ParseCsv(file) ==
    [columns |-> Columns(file.header),
     rows    |-> [i \in 1 .. Len(file.rows) |->
                     FitRow(file.rows[i], Len(file.header))],
     unnamed |-> Unnamed(file.header),
     ragged  |-> {i \in 1 .. Len(file.rows) :
                     Len(file.rows[i]) # Len(file.header)},
     unreadable |-> 0]

CsvIsReadable(file) ==
    Len(file.header) \in 1 .. MaxColumns /\ Len(file.rows) <= MaxRows

-----------------------------------------------------------------------------
(* A worksheet is a sequence of [index, cells], cells a function on the     *)
(* columns that are written.  The reader goes over it once.                 *)

\* _finish_cell: a cell without a value, or an empty one, is not kept.
Kept(cells) ==
    Restrict(cells, {c \in DOMAIN cells : cells[c] \notin {"", FormulaOnly}})

SetMax(S) == CHOOSE m \in S : \A x \in S : x <= m

Unread == [header |-> << >>, rows |-> << >>, last |-> 0, blank |-> 0,
           ragged |-> {}, ordered |-> TRUE]

Filled(cells, width) ==
    [c \in 1 .. width |-> IF c \in DOMAIN cells THEN cells[c] ELSE None]

GapForgotten(sheet, row) ==
    LET cells == Kept(row.cells)
        width == Len(sheet.header)
        moved == [sheet EXCEPT !.last = row.index,
                               !.ordered = @ /\ row.index > sheet.last]
    IN IF sheet.header = << >>
       THEN IF cells = << >> THEN moved
            ELSE [moved EXCEPT !.header =
                     [c \in 1 .. SetMax(DOMAIN cells) |->
                         IF c \in DOMAIN cells THEN cells[c] ELSE ""]]
       ELSE IF cells = << >> THEN moved
       ELSE [moved EXCEPT !.rows = Append(@, Filled(cells, width))]

\* _start_row and _finish_row: blank rows wait until a row with data follows.
ReadRow(sheet, row) ==
    LET cells == Kept(row.cells)
        width == Len(sheet.header)
        blank == sheet.blank + row.index - sheet.last - 1
        moved == [sheet EXCEPT !.last = row.index,
                               !.ordered = @ /\ row.index > sheet.last]
        gap == [i \in 1 .. blank |-> [c \in 1 .. width |-> None]]
    IN IF sheet.header = << >>
       THEN IF cells = << >> THEN moved
            ELSE [moved EXCEPT !.header =
                     [c \in 1 .. SetMax(DOMAIN cells) |->
                         IF c \in DOMAIN cells THEN cells[c] ELSE ""]]
       ELSE IF cells = << >> THEN [moved EXCEPT !.blank = blank + 1]
       ELSE [moved EXCEPT
                !.blank = 0,
                !.rows = @ \o gap \o << Filled(cells, width) >>,
                !.ragged = @ \cup {Len(sheet.rows) + blank + 1 :
                                   c \in {c \in DOMAIN cells : c > width}}]

ReadSheet(file) ==
    LET Upto[n \in 0 .. Len(file.rows)] ==
            IF n = 0 THEN Unread ELSE ReadRow(Upto[n - 1], file.rows[n])
    IN Upto[Len(file.rows)]

UnreadableCells(file) ==
    UNION {{<<i, c>> : c \in {c \in DOMAIN file.rows[i].cells :
                              file.rows[i].cells[c] \in {FormulaOnly, ErrorValue}}} :
              i \in DOMAIN file.rows}

\* parse_xlsx
ParseXlsx(file) ==
    LET sheet == ReadSheet(file)
    IN [columns |-> Columns(sheet.header), rows |-> sheet.rows,
        unnamed |-> Unnamed(sheet.header), ragged |-> sheet.ragged,
        unreadable |-> Cardinality(UnreadableCells(file))]

XlsxIsReadable(file) ==
    LET sheet == ReadSheet(file)
    IN /\ sheet.ordered /\ sheet.header # << >> /\ Len(sheet.rows) <= MaxRows
       /\ \A i \in DOMAIN file.rows :
              DOMAIN Kept(file.rows[i].cells) \subseteq 1 .. MaxColumns

-----------------------------------------------------------------------------
\* _parse_analysis_content
IsReadable(file) ==
    IF file.format = "csv" THEN CsvIsReadable(file) ELSE XlsxIsReadable(file)

Parsed(file) == IF file.format = "csv" THEN ParseCsv(file) ELSE ParseXlsx(file)

\* The position a worksheet cell is promised: as many rows below the header
\* as in the sheet, blank rows included, the blank rows at its end left out.
InPlace(file) ==
    LET filled == {i \in DOMAIN file.rows : Kept(file.rows[i].cells) # << >>}
        top == CHOOSE i \in filled : \A j \in filled : i <= j
        table == ParseXlsx(file)
    IN /\ Len(table.rows) =
              SetMax({file.rows[i].index : i \in filled}) - file.rows[top].index
       /\ \A i \in filled \ {top} : \A c \in DOMAIN table.columns :
              table.rows[file.rows[i].index - file.rows[top].index][c]
                  = Filled(Kept(file.rows[i].cells), Len(table.columns))[c]
=============================================================================
