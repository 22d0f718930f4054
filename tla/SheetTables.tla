---------------------------- MODULE SheetTables ----------------------------
(***************************************************************************)
(* How a sheet of a workbook becomes a table that can be asked: the parser    *)
(* looks at a preview, finds the header (header_detector.py) and writes the   *)
(* schema a model is shown (excel_parser_repo.py, table_sampler.py); the       *)
(* pipeline reads the sheet again, finds the header again and stores the rows *)
(* (pipeline.py); the executor loads and trims them and answers               *)
(* (table_executor.py).  Scores are in units of 1/6000, exact up to six        *)
(* columns.                                                                 *)
(***************************************************************************)
EXTENDS Integers, Sequences, FiniteSets, FiniteSetsExt, SequencesExt

CONSTANTS
    Workbooks,      \* sequences of sheets: a name, rows of cells, and how they were meant
    Clean,          \* normalize_whitespace of a sheet's name
    Numbers, Prose, \* cells that are numbers; dates, and texts longer than a header's may be
    Length,         \* characters of a cell
    ScanRows, SheetRows, SheetColumns,   \* MAX_SCAN_ROWS, _MAX_SHEET_ROWS, _MAX_SHEET_COLUMNS
    TypeRows, SampleRows,                \* TYPE_INFERENCE_ROWS, SUMMARY_SAMPLE_ROWS
    ResultRows, SliceRows                \* MAX_RESULT_ROWS, MAX_SLICE_ROWS

VARIABLES
    book,       \* the workbook
    sheet,      \* the sheet a table is made of
    profile,    \* what the parser says of it, None before and for an empty sheet
    asset,      \* what is stored: columns, rows, and what they were made from
    reply,      \* the last answer to a query of all columns of the schema
    page        \* how far a reader has read with read_slice, and what it saw

tableVars == <<book, sheet, profile, asset, reply, page>>

None == [status |-> "none"]
Refused == [status |-> "refused"]

TablesInit ==
    /\ book \in Workbooks /\ sheet \in DOMAIN book
    /\ profile = None /\ asset = None /\ reply = None /\ page = None

-----------------------------------------------------------------------------
(* The score of a row.                                                      *)

Filled(row) == {c \in DOMAIN row : row[c] # ""}
Texts(row) == {c \in Filled(row) : row[c] \notin Numbers \cup Prose}
Figures(row) == Filled(row) \ Texts(row)
Words(row) == {row[c] : c \in Filled(row)}

Unique(rows, i) == {c \in Filled(rows[i]) : \A k \in i + 1..Len(rows) : rows[k][c] # rows[i][c]}

First(s, n) == SubSeq(s, 1, Min({n, Len(s)}))

\* Shares are compared in tenths.
Alike(a, b, tenths) == 10 * Cardinality(Words(a) \cap Words(b)) > tenths * Cardinality(Words(a) \cup Words(b))
Similar(a, b, tenths) == Words(a) # {} /\ Words(b) # {} /\ Alike(a, b, tenths)
Unlike(a, b) ==
    Words(a) = {} \/ Words(b) = {}
      \/ 10 * Cardinality(Words(a) \cap Words(b)) < 3 * Cardinality(Words(a) \cup Words(b))

Transition(rows, i) ==
    IF i = Len(rows) THEN 0
    ELSE LET row == rows[i] next == rows[i + 1] filled == Cardinality(Filled(row))
         IN  (IF Cardinality(Texts(row)) >= 2 /\ 2 * Cardinality(Texts(row)) >= filled
                   /\ Figures(next) # {} THEN 750 ELSE 0)
             + (IF filled > 0 /\ Filled(next) # {} /\ 10 * Cardinality(Filled(next)) >= 3 * filled
                THEN 450 ELSE 0)
             + (IF Unlike(row, next) THEN 300 ELSE 0)

Dense(row) == 10 * Cardinality(Filled(row)) >= 4 * Len(row)
Conciseness(row) ==
    LET letters == MapThenSumSet(LAMBDA c : Length[row[c]], Filled(row))
        n == Cardinality(Filled(row))
    IN  Max({0, Min({600, 750 - (10 * letters) \div n})})

Score(rows, i) ==
    LET row == rows[i] n == Cardinality(Filled(row)) below == Max({Len(rows) - i, 1})
    IN  IF n = 0 THEN 0
        ELSE (2400 * Cardinality(Texts(row))) \div n
             + (180 * Cardinality(Unique(rows, i)) * Min({below, 5})) \div n
             + Conciseness(row) + Transition(rows, i)
             + (IF Dense(row) THEN (120 * Min({6 * n, 5 * Len(row)})) \div Len(row) ELSE 0)
             - (IF Figures(row) # {} THEN 2100 ELSE 0)

-----------------------------------------------------------------------------
(* The header.                                                              *)

Candidates(rows) ==
    {i \in DOMAIN rows : /\ Score(rows, i) >= 3300 /\ Figures(rows[i]) = {}
                         /\ Dense(rows[i]) /\ Cardinality(Filled(rows[i])) >= 2}

\* Runs of candidates, one other row between two of them forgiven.
Runs(S) ==
    {{j \in S : j >= i /\ \A k \in S : i < k /\ k <= j => {k - 1, k - 2} \cap S # {}} :
        i \in {s \in S : {s - 1, s - 2} \cap S = {}}}
Total(rows, C) == MapThenSumSet(LAMBDA i : Score(rows, i), C)
\* The longest run, of these the one with the best scores, of these the first.
Rank(rows, C) == <<Cardinality(C), Total(rows, C), -Min(C)>>
Exceeds(a, b) == \E k \in DOMAIN a : a[k] > b[k] /\ \A j \in 1..k - 1 : a[j] = b[j]
Best(rows, runs) == CHOOSE a \in runs : \A b \in runs \ {a} : Exceeds(Rank(rows, a), Rank(rows, b))

\* The sum of the confidences of the rows of a header.
Confidence(rows, C) ==
    LET n == Cardinality(C)
        next == Max(C) + 1
        second == IF n > 1 THEN Min(C \ {Min(C)}) ELSE 0
        widest == Max({Cardinality(Filled(rows[i])) : i \in C})
        follows == next <= Len(rows) /\ Filled(rows[next]) # {}
                     /\ 10 * Cardinality(Figures(rows[next])) >= 3 * Cardinality(Filled(rows[next]))
    IN  (IF follows THEN Min({Total(rows, C) + 900 * n, 6000 * n}) ELSE Total(rows, C))
        - (IF n > 1 /\ Similar(rows[Min(C)], rows[second], 7) THEN 1200 * n ELSE 0)
        - (IF 10 * widest < Max({3 * Len(rows[1]), 20}) THEN 900 * n ELSE 0)

Trusted(rows, C) == IF Confidence(rows, C) >= 3000 * Cardinality(C) THEN C ELSE {}
Header(rows, candidates) ==
    IF candidates = {} THEN {} ELSE Trusted(rows, Best(rows, Runs(candidates)))

\* A header in several rows that follow each other names a column by all of them, any other by its
\* last row; a column without a name has its number.
Name(parts, c) == [parts |-> parts, at |-> IF parts = <<>> THEN c ELSE 0, copy |-> 0]
PartsOf(rows, C, c) ==
    FoldLeft(LAMBDA parts, i : IF i \in C /\ rows[i][c] # "" /\ ~Contains(parts, rows[i][c])
                               THEN Append(parts, rows[i][c]) ELSE parts,
             <<>>, [i \in 1..Max(C) |-> i])
Levels(C) == IF Max(C) - Min(C) + 1 = Cardinality(C) THEN C ELSE {Max(C)}
Deduplicate(names) ==
    [c \in DOMAIN names |->
        [names[c] EXCEPT !.copy = Cardinality({b \in 1..c - 1 : names[b] = names[c]})]]
Columns(rows, C) ==
    Deduplicate([c \in DOMAIN rows[1] |-> Name(IF C = {} THEN <<>> ELSE PartsOf(rows, Levels(C), c), c)])

Split(frame, scanned, header) ==
    LET start == Max({0} \cup header)
    IN  [columns |-> Columns(scanned, header), start |-> start, rows |-> SubSeq(frame, start + 1, Len(frame))]
Detected(frame, scanned) == Split(frame, scanned, Header(scanned, Candidates(scanned)))
Table(frame) == Detected(frame, First(frame, ScanRows))

-----------------------------------------------------------------------------
(* The parser.                                                              *)

Used(rows) == UNION {Filled(rows[i]) : i \in DOMAIN rows}
Ordered(S) == SetToSortSeq(S, LAMBDA a, b : a < b)
Shown(row, columns) == [k \in DOMAIN columns |-> row[columns[k]]]

\* Without what is blank.
Frame(rows, columns) ==
    LET some == SelectSeq([i \in DOMAIN rows |-> Shown(rows[i], columns)], LAMBDA r : Filled(r) # {})
        used == Ordered(Used(some))
    IN  [i \in DOMAIN some |-> Shown(some[i], used)]

Rows == book[sheet].rows
Active == Ordered(Used(First(Rows, ScanRows)))
Preview == Frame(First(Rows, SheetRows + ScanRows), First(Active, SheetColumns))

\* What a column is said to hold.
Values(rows, c) == {i \in DOMAIN rows : rows[i][c] # ""}
Numeric(rows, c) ==
    LET n == Cardinality(Values(rows, c))
    IN  n > 0 /\ Cardinality({i \in Values(rows, c) : rows[i][c] \in Numbers}) >= Max({1, (7 * n) \div 10})
TypeOf(rows, c) ==
    LET n == Cardinality(Values(rows, c))
        few == Min({10, Max({3, n \div 2})})
    IN  IF n = 0 THEN "empty" ELSE IF Numeric(rows, c) THEN "number"
        ELSE IF Cardinality({rows[i][c] : i \in Values(rows, c)}) <= few THEN "enum" ELSE "text"

Profile(table, data, total) ==
    [columns |-> table.columns, types |-> [c \in DOMAIN table.columns |-> TypeOf(First(data, TypeRows), c)],
     sample |-> First(data, SampleRows), rows |-> Max({total - table.start, Len(data)})]
Profiled(table, total) == Profile(table, First(table.rows, SheetRows), total)

Parse ==
    /\ profile = None /\ Preview # <<>>
    /\ profile' = Profiled(Table(Preview),
                          IF Len(Rows) <= SheetRows + ScanRows THEN Len(Preview) ELSE Len(Rows))
    /\ UNCHANGED <<book, sheet, asset, reply, page>>

-----------------------------------------------------------------------------
(* The asset.                                                               *)

\* The sheet is looked up by its cleaned name; the first one stands in.
Named == {k \in DOMAIN book : book[k].name = Clean[book[sheet].name]}
Selected == IF Named = {} THEN 1 ELSE Min(Named)

\* read_excel takes the first row for the header.
Workbook(rows) ==
    [from |-> "file", columns |-> Deduplicate([c \in DOMAIN rows[1] |->
                                     Name(IF rows[1][c] = "" THEN <<>> ELSE <<rows[1][c]>>, c)]),
     rows |-> Tail(rows)]

\* What the parser has shown of the sheet.
Sample == [from |-> "sample", columns |-> profile.columns, rows |-> profile.sample]

\* The rows of the sheet; the sample of the parser when they cannot be had; else the workbook.
Kept(table) ==
    IF table.rows # <<>> THEN [from |-> "sheet", columns |-> table.columns, rows |-> table.rows]
    ELSE IF profile.sample # <<>> THEN Sample
    ELSE IF Named = {} THEN [from |-> "nothing", columns |-> <<>>, rows |-> <<>>]
    ELSE Workbook(Rows)
Unread == [columns |-> <<>>, rows |-> <<>>]
Persist(converts) ==
    /\ profile # None /\ asset = None
    /\ LET rows == book[Selected].rows
       IN  asset' = Kept(IF converts THEN Table(Frame(rows, Ordered(Used(rows)))) ELSE Unread)
    /\ UNCHANGED <<book, sheet, profile, reply, page>>

-----------------------------------------------------------------------------
(* The reader.                                                              *)

\* A column most of whose cells are numbers loses the others.
Coerced(rows) ==
    [i \in DOMAIN rows |-> [c \in DOMAIN rows[i] |->
        IF Numeric(rows, c) /\ rows[i][c] \notin Numbers THEN "" ELSE rows[i][c]]]

\* Rows at the end that are sparse, notes and signatures, are left out of wide tables.
Trimmed(rows) ==
    LET fill == [i \in DOMAIN rows |-> Cardinality(Filled(rows[i]))]
        most == Max({fill[i] : i \in DOMAIN rows})
        least == Max({2, (6 * most + 9) \div 10 + 1})
        full == {i \in DOMAIN rows : fill[i] >= least}
    IN  IF rows = <<>> \/ Len(rows[1]) < 4 THEN rows
        ELSE IF most <= 2 \/ full = {} THEN rows ELSE SubSeq(rows, 1, Max(full))

Loaded(coerce) == Trimmed(IF coerce THEN Coerced(asset.rows) ELSE asset.rows)

Shows(rows) == [rows |-> First(rows, ResultRows), count |-> Len(rows), truncated |-> Len(rows) > ResultRows]

\* A SELECT of the columns of the schema.
Execute ==
    /\ asset # None /\ reply = None
    /\ reply' = IF \/ asset.from = "nothing"
                   \/ asset.rows # <<>> /\ ~(ToSet(profile.columns) \subseteq ToSet(asset.columns))
                THEN Refused
                ELSE Shows(Loaded(TRUE))
    /\ UNCHANGED <<book, sheet, profile, asset, page>>

\* inspect: what there is to read.
Inspect ==
    /\ asset # None /\ page = None
    /\ page' = [at |-> 0, seen |-> <<>>, count |-> Len(Loaded(FALSE))]
    /\ UNCHANGED <<book, sheet, profile, asset, reply>>

ReadSlice(count) ==
    /\ page # None /\ page.at < page.count
    /\ LET rows == Loaded(FALSE)
           wanted == Min({Max({1, count}), SliceRows})
           start == Min({page.at, Len(rows)})
           end == Min({start + wanted, Len(rows)})
       IN  page' = [page EXCEPT !.at = end, !.seen = @ \o SubSeq(rows, start + 1, end)]
    /\ UNCHANGED <<book, sheet, profile, asset, reply>>

\* An empty sheet has no table; any other has been asked and read to its end.
TablesDone ==
    IF profile = None THEN Preview = <<>>
    ELSE asset # None /\ reply # None /\ page # None /\ page.at = page.count

TablesNext ==
    \/ Parse \/ Execute \/ Inspect
    \/ \E converts \in BOOLEAN : Persist(converts)
    \/ \E count \in 0..SliceRows + 1 : ReadSlice(count)

TablesSpec == TablesInit /\ [][TablesNext]_tableVars

-----------------------------------------------------------------------------
TablesConstants ==
    /\ Numbers \cap Prose = {} /\ {"" } \cap (Numbers \cup Prose) = {}
    /\ \A b \in Workbooks : \A k \in DOMAIN b : b[k].name \in DOMAIN Clean
    /\ {ScanRows, SheetRows, SheetColumns, TypeRows, SampleRows, ResultRows, SliceRows} \subseteq Nat \ {0}

\* The sheet as it was meant: a title of one cell, rows of names of which the last names two columns
\* or more, and rows with a number in each.
Meant == book[sheet].meant
Regular == Meant.regular /\ Len(Meant.header) < ScanRows
Filing == Named = {sheet}
Seen == Used(Rows) = ToSet(Active) /\ Len(Active) <= SheetColumns /\ Len(Rows) <= SheetRows + ScanRows

\* header_detector.py:57: a header is found where a reader would see it, so that no row of the body
\* becomes a name and no title a row; the schema says how many rows there are.
HeaderFound ==
    profile # None /\ Regular /\ Seen =>
        profile.rows = Len(Meant.body) /\ profile.sample = First(Meant.body, SampleRows)

\* excel_parser_repo.py:107, pipeline.py:1106: the two looks at a sheet agree, so that a query written
\* from the schema names columns the table has.
SchemaAgrees ==
    asset # None => (asset.from = "sheet" /\ Seen /\ Filing => asset.columns = profile.columns)

\* table_sampler.py:218, table_executor.py:340: what the schema calls a number a query reads as one,
\* and nothing else, as long as the types were inferred from all rows.
TypesAgree ==
    asset # None =>
        (asset.from = "sheet" /\ Seen /\ Filing /\ Len(asset.rows) <= Min({TypeRows, SheetRows}) =>
            \A c \in DOMAIN profile.types :
                (profile.types[c] = "number") <=>
                    \E i \in DOMAIN asset.rows : Coerced(asset.rows)[i][c] # ""
                        /\ \A k \in DOMAIN asset.rows : Coerced(asset.rows)[k][c] \in Numbers \cup {""})

\* table_executor.py:249: a query sees every row of a regular sheet whose rows are full, and is told
\* when it is shown only the first.
BodyAnswered ==
    reply \notin {None, Refused} =>
        (asset.from = "sheet" /\ Regular /\ Meant.full /\ Filing =>
            /\ reply.count = Len(Meant.body) /\ reply.rows = First(Meant.body, ResultRows)
            /\ reply.truncated <=> reply.rows # Meant.body)

\* table_executor.py:170: reading on from where a slice ended gives every row once, in order.
PagesTile ==
    page # None => page.seen = SubSeq(Loaded(FALSE), 1, page.at) /\ page.at <= page.count

TablesSound == HeaderFound /\ SchemaAgrees /\ TypesAgree /\ BodyAnswered /\ PagesTile
=============================================================================
