---------------------------- MODULE InputFiles ----------------------------
(***************************************************************************)
(* The files a user hands to a turn (agent/workspace.py,                    *)
(* agent/file_manifest.py): those outside the workspace are copied into it,  *)
(* each under a name of its own, and the turn keeps a manifest of all of      *)
(* them, with a preview of the tables, which its model is shown in every      *)
(* request and after every resume.                                         *)
(*                                                                         *)
(* A file is what a table has in its rows; other files have no rows.  A name  *)
(* is a sequence: the one it has, and the numbers appended to it.  A place of *)
(* the workspace is a directory, of the project (0) or for inputs, and a name *)
(* in it.                                                                   *)
(***************************************************************************)
EXTENDS Integers, FiniteSets, SequencesExt

CONSTANTS
    Names,        \* names of files, sequences
    Tables,       \* contents: sequences of rows, of cells: "empty", "label" and "other", two texts,
                  \* "number", a number or a text that is no label
    Requested,    \* sequences of [inside, name] that turns are given
    Namespaced,   \* whether turns have directories of their own (not in a temporary workspace)
    SampleRows,   \* _PROBE_MAX_ROWS
    MaxTurns,     \* bound: turns
    MaxChanges    \* bound: changes of files by the user

VARIABLES
    outside,    \* files of the user elsewhere: name |-> content
    workspace,  \* files of the workspace: place |-> content
    manifests,  \* the manifest of each turn, as its checkpoints keep it
    origins,    \* history: for each manifest, what was copied from where
    changes

inputFileVars == <<outside, workspace, manifests, origins, changes>>

Update(f, place, content) == [p \in DOMAIN f \cup {place} |-> IF p = place THEN content ELSE f[p]]

-----------------------------------------------------------------------------
(* import_files.                                                            *)

\* _unique_dest: the name, or the first name__k that is free.
RECURSIVE FirstFree(_, _, _, _)
FirstFree(files, dir, name, k) ==
    LET place == <<dir, IF k = 0 THEN name ELSE Append(name, k)>>
    IN  IF place \in DOMAIN files THEN FirstFree(files, dir, name, k + 1) ELSE place

Destination(files, dir, name) == FirstFree(files, dir, name, 0)

\* One source after the other; a file that is missing ends the import, which leaves what it copied.
RECURSIVE Import(_, _, _, _)
Import(files, dir, sources, imported) ==
    IF sources = <<>> THEN [files |-> files, imported |-> imported, raised |-> FALSE]
    ELSE LET s == Head(sources)
             project == <<0, s.name>>
         IN  IF s.inside
             THEN IF project \in DOMAIN files
                  THEN Import(files, dir, Tail(sources), Append(imported, project))
                  ELSE [files |-> files, imported |-> imported, raised |-> TRUE]
             ELSE IF s.name \in DOMAIN outside
                  THEN LET place == Destination(files, dir, s.name)
                       IN  Import(Update(files, place, outside[s.name]), dir, Tail(sources),
                                  Append(imported, place))
                  ELSE [files |-> files, imported |-> imported, raised |-> TRUE]

-----------------------------------------------------------------------------
(* The preview: _candidate_header_rows, with confidences times 3600.         *)

NonEmpty(row) == Cardinality({i \in DOMAIN row : row[i] # "empty"})
Labels(row) == {i \in DOMAIN row : row[i] \in {"label", "other"}}
Distinct(row) == Cardinality({row[i] : i \in Labels(row)})

\* The rows after a row that speak for it.
Following(rows, i) ==
    SubSeq(rows, i + 1, IF i + 3 <= Len(rows) THEN i + 3 ELSE Len(rows))
Density(following, expected) ==
    IF following = <<>> THEN 0
    ELSE FoldSeq(LAMBDA row, sum :
                    sum + (36 * (IF NonEmpty(row) < expected THEN NonEmpty(row) ELSE expected)) \div expected,
                 0, following) \div Len(following)
LooksLikeData(following) == \E i \in DOMAIN following : "number" \in Range(following[i])

Confidence(rows, i) ==
    LET labels == Cardinality(Labels(rows[i]))
    IN  45 * ((36 * labels) \div NonEmpty(rows[i]))
            + (IF labels = 0 THEN 0 ELSE 20 * ((36 * Distinct(rows[i])) \div labels))
            + 20 * Density(Following(rows, i), NonEmpty(rows[i]))
            + (IF LooksLikeData(Following(rows, i)) THEN 15 * 36 ELSE 0)

\* The row a table's columns are named by: of the rows that can be it the best, of these the first.
Header(content) ==
    LET rows == SubSeq(content, 1, IF Len(content) < SampleRows THEN Len(content) ELSE SampleRows)
        candidates == {i \in DOMAIN rows : NonEmpty(rows[i]) >= 2 /\ Confidence(rows, i) >= 55 * 36}
        best == {i \in candidates : \A j \in candidates : Confidence(rows, j) <= Confidence(rows, i)}
    IN  IF best = {} THEN 0 ELSE CHOOSE i \in best : \A j \in best : i <= j

\* The row pandas takes the names from: told to skip the rows above the header and, in what is
\* left, to count as many again.
NamedBy(content) ==
    LET above == IF Header(content) = 0 THEN 0 ELSE Header(content) - 1
    IN  2 * above + 1

\* _build_entry.
EntryOf(files, place) ==
    [place |-> place, rows |-> Len(files[place]), header |-> Header(files[place]),
     columns |-> IF NamedBy(files[place]) <= Len(files[place])
                 THEN files[place][NamedBy(files[place])] ELSE <<>>]

-----------------------------------------------------------------------------
InputFilesInit ==
    /\ outside \in [Names -> Tables]
    /\ \E content \in Tables : workspace = [p \in {<<0, n>> : n \in Names} |-> content]
    /\ manifests = <<>> /\ origins = <<>> /\ changes = 0

\* A turn begins; if a file is missing it fails.
BeginTurn(sources) ==
    /\ Len(manifests) < MaxTurns
    /\ LET dir == IF Namespaced THEN Len(manifests) + 1 ELSE MaxTurns + 1
           done == Import(workspace, dir, sources, <<>>)
       IN  /\ workspace' = done.files
           /\ manifests' = Append(manifests,
                IF done.raised THEN <<>>
                ELSE [i \in DOMAIN done.imported |-> EntryOf(done.files, done.imported[i])])
           /\ origins' = Append(origins,
                IF done.raised THEN <<>>
                ELSE [i \in DOMAIN sources |->
                        [inside |-> sources[i].inside, content |-> done.files[done.imported[i]],
                         name |-> sources[i].name,
                         source |-> IF sources[i].inside THEN workspace[<<0, sources[i].name>>]
                                    ELSE outside[sources[i].name]]])
    /\ UNCHANGED <<outside, changes>>

\* The user changes or removes a file of their own.
ChangeFile(name) ==
    /\ changes < MaxChanges /\ changes' = changes + 1
    /\ name \in DOMAIN outside
    /\ \/ \E content \in Tables : outside' = Update(outside, name, content)
       \/ outside' = [n \in DOMAIN outside \ {name} |-> outside[n]]
    /\ UNCHANGED <<workspace, manifests, origins>>

InputFilesNext ==
    \/ \E sources \in Requested : BeginTurn(sources)
    \/ \E name \in Names : ChangeFile(name)

-----------------------------------------------------------------------------
\* Every file a turn was handed is where its manifest says, and a copy is what its source was,
\* whatever is imported later and whatever becomes of the source.
CopiesKept ==
    \A t \in DOMAIN manifests : \A i \in DOMAIN manifests[t] :
        LET entry == manifests[t][i]
            origin == origins[t][i]
        IN  /\ entry.place \in DOMAIN workspace
            /\ origin.content = origin.source
            /\ workspace[entry.place] = origin.source
            /\ ~origin.inside =>
                \A j \in DOMAIN manifests[t] : j # i => manifests[t][j].place # entry.place

\* The header of a table is found below the lines that precede it, and names the columns of the
\* preview if no line precedes it, when a number is in one of the three rows below it or in none of
\* the rows that are looked at (else a row of data closer to the number is the better header).
TitleRows(content) == {k \in 0..Len(content) : \A i \in 1..k : NonEmpty(content[i]) < 2}
ProperTable(content, k) ==
    /\ k + 1 < Len(content) /\ k + 1 <= SampleRows
    /\ LET header == content[k + 1]
           numbers == {i \in (k + 2)..Len(content) : i <= SampleRows /\ "number" \in Range(content[i])}
       IN  /\ NonEmpty(header) = Len(header) /\ Len(header) >= 2 /\ Labels(header) = DOMAIN header
           /\ Distinct(header) = Len(header)
           /\ \A i \in (k + 2)..Len(content) : NonEmpty(content[i]) = Len(header)
           /\ numbers = {} \/ \E i \in numbers : i <= k + 4
HeaderFound ==
    \A t \in DOMAIN manifests : \A i \in DOMAIN manifests[t] :
        LET content == workspace[manifests[t][i].place]
        IN  \A k \in TitleRows(content) : ProperTable(content, k) =>
                /\ manifests[t][i].header = k + 1
                /\ k = 0 => manifests[t][i].columns = content[1]

\* workspace.py:114, file_manifest.py:447: what a turn is handed stays as it was, and its tables
\* are shown with their header.
InputsKept == CopiesKept /\ HeaderFound
=============================================================================
