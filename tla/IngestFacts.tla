----------------------------- MODULE IngestFacts -----------------------------
(***************************************************************************)
(* One ingest after another, row by row (rag/ingest/pipeline.py).  The      *)
(* facts of a batch of requests come first: its sources, documents,         *)
(* sections and assets, with the bytes they stand on in the object store;   *)
(* then a summary and a vector for each fact, for the whole batch at once;  *)
(* only then the documents may say that they are searchable.                *)
(*                                                                         *)
(* In SQLite the facts of a batch are one transaction.  PostgresMetadataRepo *)
(* has no transaction(): every row is committed on its own, and after one   *)
(* statement has failed the connection refuses all others until the process *)
(* restarts, since nothing rolls it back.  In both, a row is found again by *)
(* its key, so that what is ingested twice keeps its ids.                   *)
(***************************************************************************)
EXTENDS Integers, Sequences, FiniteSets, SequencesExt

CONSTANTS
  Contents,       \* what can be ingested: name -> [at, bytes, fails, sections, elements]
  Batches,        \* the calls of run and run_many: sequences of names
  Transactional,  \* whether the facts are kept in SQLite
  Strict,         \* whether a summary must come from the model
  MaxIngests, MaxIngestFaults

VARIABLES
  facts,          \* the tables: [sources, documents, sections, assets, layouts, states, next]
  blobs,          \* the keys of the object store
  summaries,      \* the summaries with a vector: [kind, id, of, by], of which content and by whom
  ingest,         \* the call at work: [at, batch, item, k, model, before, done]
  counts          \* [ingests, faults, broken]

ingestVars == <<facts, blobs, summaries, ingest, counts>>

\* A section of a parse: its path and pages, the assets its text anchors, and, for a window of a
\* longer section, that section and its place in it (0 for none); whether it is too long to be its
\* own summary.
\* An element: its id and kind, its path, page and bytes.
IngestConstants ==
  /\ \A b \in Batches : Range(b) \subseteq DOMAIN Contents
  /\ \A n \in DOMAIN Contents : Contents[n].fails \in {"", "parse", "empty", "span", "order"}
  /\ {Transactional, Strict} \subseteq BOOLEAN /\ MaxIngests \in Nat /\ MaxIngestFaults \in Nat

AssetKinds == {"table", "figure", "image_summary", "caption", "speaker_note", "ocr_region"}
Asset(e) == e.kind \in AssetKinds

-----------------------------------------------------------------------------
(* The tables.  A row without an id is looked up by the key of its table;    *)
(* without such a row it gets the next id.                                  *)

Tables == {"sources", "documents", "sections", "assets", "layouts"}
SourceKey(r) == <<r.at, r.bytes>>
DocumentKey(r) == <<r.source, r.bytes>>
SectionKey(r) == <<r.doc, r.order>>
AssetKey(r) == <<r.doc, r.bytes>>
LayoutKey(r) == <<r.source, r.bytes>>
KeyOf(table, r) ==
  CASE table = "sources" -> SourceKey(r)
    [] table = "documents" -> DocumentKey(r)
    [] table = "sections" -> SectionKey(r)
    [] table = "assets" -> AssetKey(r)
    [] table = "layouts" -> LayoutKey(r)

Known(table, r) == {old \in facts[table] : KeyOf(table, old) = KeyOf(table, r)}
IdFor(table, r) ==
  IF r.id > 0 THEN r.id
  ELSE IF Known(table, r) # {} THEN (CHOOSE old \in Known(table, r) : TRUE).id
  ELSE facts.next

\* The row goes in the place of the row of its id (SQLite) or of its key (Postgres).
Replaced(table, r) ==
  IF Transactional THEN {old \in facts[table] : old.id = IdFor(table, r)} ELSE Known(table, r)
Saved(table, r) ==
  [facts EXCEPT ![table] = (@ \ Replaced(table, r)) \cup {[r EXCEPT !.id = IdFor(table, r)]},
                !.next = IF IdFor(table, r) = @ THEN @ + 1 ELSE @]

SavedState(id, status) ==
  [facts EXCEPT !.states = {s \in @ : s.id # id} \cup {[id |-> id, status |-> status]}]

-----------------------------------------------------------------------------
Content == Contents[ingest.batch[ingest.item]]
Raw(c) == <<"raw", c.bytes>>
Visible(c) == <<"visible", c.bytes>>
Payload(e) == <<e.kind, e.bytes>>

Source(c) == CHOOSE s \in facts.sources : SourceKey(s) = <<c.at, c.bytes>>
Doc(c) == CHOOSE d \in facts.documents : DocumentKey(d) = <<Source(c).id, c.bytes>>
SectionAt(c, order) == CHOOSE s \in facts.sections : SectionKey(s) = <<Doc(c).id, order>>
AssetOf(c, e) == CHOOSE a \in facts.assets : AssetKey(a) = <<Doc(c).id, e.bytes>>

Assets(c) == SelectSeq(c.elements, Asset)

SourceRow(c, key) == [id |-> 0, at |-> c.at, bytes |-> c.bytes, key |-> key]
DocumentRow(c) ==
  [id |-> 0, source |-> Source(c).id, bytes |-> c.bytes, active |-> TRUE, ready |-> FALSE,
   error |-> FALSE]
SectionRow(c, k) ==
  [id |-> 0, doc |-> Doc(c).id, order |-> k, path |-> c.sections[k].path, first |-> c.sections[k].first,
   last |-> c.sections[k].last, parent |-> 0, key |-> Raw(c), text |-> Visible(c)]

\* The windows of one longer section form a group, its first window the parent of them all; a group
\* of one has none.
Group(c, k) ==
  {j \in DOMAIN c.sections : c.sections[j].of = c.sections[k].of /\ c.sections[j].path = c.sections[k].path}
Bound(c) == {k \in DOMAIN c.sections : c.sections[k].of > 0 /\ Cardinality(Group(c, k)) > 1}
Leader(c, k) ==
  CHOOSE j \in Group(c, k) : \A i \in Group(c, k) :
    \/ c.sections[j].window < c.sections[i].window
    \/ c.sections[j].window = c.sections[i].window /\ j <= i

\* The section of an element: the first whose text anchors it, else the first under its headings,
\* else the first with its page.
First(c, Is(_)) == CHOOSE k \in DOMAIN c.sections : Is(k) /\ \A j \in 1..(k - 1) : ~Is(j)
SectionOf(c, e) ==
  LET Anchors(k) == e.id \in c.sections[k].anchors
      Titled(k) == c.sections[k].path = e.path
      Holds(k) == /\ c.sections[k].first > 0
                  /\ c.sections[k].first <= e.page /\ e.page <= c.sections[k].last
  IN  CASE \E k \in DOMAIN c.sections : Anchors(k) -> First(c, Anchors)
        [] \E k \in DOMAIN c.sections : Titled(k) -> First(c, Titled)
        [] e.page > 0 /\ \E k \in DOMAIN c.sections : Holds(k) -> First(c, Holds)
        [] OTHER -> 0
AssetRow(c, e) ==
  [id |-> 0, doc |-> Doc(c).id, bytes |-> e.bytes, page |-> IF e.page > 0 THEN e.page ELSE 1,
   section |-> IF SectionOf(c, e) = 0 THEN 0 ELSE SectionAt(c, SectionOf(c, e)).id,
   key |-> Payload(e)]
LayoutRow(c) == [id |-> 0, source |-> Source(c).id, bytes |-> c.bytes, doc |-> Doc(c).id]

-----------------------------------------------------------------------------
(* The call at work.  "before" is what the tables held when the transaction  *)
(* began, or what they hold outside of one.                                 *)

Idle == [at |-> "idle", batch |-> <<>>, item |-> 0, k |-> 0, model |-> "", before |-> <<>>,
         done |-> "none"]
IngestInit ==
  /\ facts = [t \in Tables \cup {"states", "next"} |-> IF t = "next" THEN 1 ELSE {}]
  /\ blobs = {} /\ summaries = {} /\ ingest = Idle
  /\ counts = [ingests |-> 0, faults |-> 0, broken |-> FALSE]

Begin(batch) ==
  /\ ingest.at = "idle" /\ counts.ingests < MaxIngests
  /\ ingest' = [Idle EXCEPT !.at = "source", !.batch = batch, !.item = 1, !.before = facts]
  /\ counts' = [counts EXCEPT !.ingests = @ + 1]
  /\ UNCHANGED <<facts, blobs, summaries>>

\* A step of the code between two statements.
To(at, k) == ingest' = [ingest EXCEPT !.at = at, !.k = k]
\* A statement that succeeds: in Postgres only on a connection that has seen no error.
Statement(rows) == ~counts.broken /\ facts' = rows /\ UNCHANGED <<summaries, counts>>
Save(table, row, at, k) == Statement(Saved(table, row)) /\ To(at, k)

\* The call is over before the facts are complete: a transaction leaves nothing behind.
Back == IF Transactional THEN ingest.before ELSE facts
Refused ==
  /\ facts' = Back /\ ingest' = [ingest EXCEPT !.at = "idle", !.done = "refused"]
  /\ UNCHANGED <<blobs, summaries, counts>>

-----------------------------------------------------------------------------
(* The facts of one request.                                                *)

SaveSource ==
  /\ ingest.at = "source" /\ Save("sources", SourceRow(Content, ""), "parse", 0)
  /\ UNCHANGED blobs

Parse ==
  /\ ingest.at = "parse"
  /\ IF Content.fails \in {"parse", "empty"} THEN Refused
     ELSE To("blobs", 0) /\ UNCHANGED <<facts, blobs, summaries, counts>>

PutBytes ==
  /\ ingest.at = "blobs" /\ blobs' = blobs \cup {Raw(Content), Visible(Content)}
  /\ Save("sources", [Source(Content) EXCEPT !.key = Raw(Content)], "document", 0)

SaveDocument ==
  /\ ingest.at = "document" /\ Save("documents", DocumentRow(Content), "spans", 0)
  /\ UNCHANGED blobs

CheckSpans ==
  /\ ingest.at = "spans"
  /\ IF Content.fails = "span" THEN Refused
     ELSE To("sections", 1) /\ UNCHANGED <<facts, blobs, summaries, counts>>

\* A section that is not at its place ends the call, after those before it were saved.
SaveSection ==
  /\ ingest.at = "sections"
  /\ IF ingest.k > Len(Content.sections)
     THEN To("bind", 1) /\ UNCHANGED <<facts, blobs, summaries, counts>>
     ELSE IF Content.fails = "order" /\ ingest.k = Len(Content.sections) THEN Refused
     ELSE Save("sections", SectionRow(Content, ingest.k), "sections", ingest.k + 1) /\ UNCHANGED blobs

BindParent ==
  LET left == {k \in Bound(Content) : k >= ingest.k}
      k == CHOOSE i \in left : \A j \in left : i <= j
      parent == SectionAt(Content, Leader(Content, k)).id
  IN  /\ ingest.at = "bind" /\ UNCHANGED blobs
      /\ IF left = {} THEN To("assets", 1) /\ UNCHANGED <<facts, summaries, counts>>
         ELSE Save("sections", [SectionAt(Content, k) EXCEPT !.parent = parent], "bind", k + 1)

SaveAsset ==
  LET e == Assets(Content)[ingest.k]
  IN  /\ ingest.at = "assets"
      /\ IF ingest.k > Len(Assets(Content))
         THEN To("layout", 0) /\ UNCHANGED <<facts, blobs, summaries, counts>>
         ELSE /\ Save("assets", AssetRow(Content, e), "assets", ingest.k + 1)
              /\ blobs' = blobs \cup {Payload(e)}

SaveLayout ==
  /\ ingest.at = "layout" /\ UNCHANGED blobs
  /\ IF Content.elements = <<>> THEN To("processing", 0) /\ UNCHANGED <<facts, summaries, counts>>
     ELSE Save("layouts", LayoutRow(Content), "processing", 0)

\* After the last request the transaction ends.
SaveProcessing ==
  /\ ingest.at = "processing" /\ UNCHANGED blobs
  /\ Statement(SavedState(Doc(Content).id, "processing"))
  /\ ingest' = IF ingest.item < Len(ingest.batch)
               THEN [ingest EXCEPT !.at = "source", !.item = @ + 1]
               ELSE [ingest EXCEPT !.at = "embed", !.before = facts']

-----------------------------------------------------------------------------
(* The summaries of the batch, then its marks.                              *)

RecordsOf(n) ==
  LET c == Contents[n]
      Summary(kind, row, by) == [kind |-> kind, id |-> row.id, of |-> n, by |-> by]
      Writer(k) == IF c.sections[k].long THEN ingest.model ELSE "text"
  IN  <<Summary("doc", Doc(c), ingest.model)>>
      \o [k \in DOMAIN c.sections |-> Summary("section", SectionAt(c, k), Writer(k))]
      \o [k \in DOMAIN Assets(c) |-> Summary("asset", AssetOf(c, Assets(c)[k]), ingest.model)]
Records == FlattenSeq([i \in DOMAIN ingest.batch |-> RecordsOf(ingest.batch[i])])

\* A later record of the same fact takes the place of an earlier one.
Upserted(records) ==
  LET last == {records[i] : i \in {j \in DOMAIN records : \A m \in (j + 1)..Len(records) :
                 <<records[m].kind, records[m].id>> # <<records[j].kind, records[j].id>>}}
      Same(s, r) == <<s.kind, s.id>> = <<r.kind, r.id>>
  IN  {s \in summaries : \A r \in last : ~Same(s, r)} \cup last

Marking(at) == ingest' = [ingest EXCEPT !.at = at, !.item = 1, !.before = facts]

\* The summaries are written by the model, but for sections that are short, and embedded.
WriteBy(model) ==
  ingest.at = "embed" /\ ingest' = [ingest EXCEPT !.at = "upsert", !.model = model]
Embed == WriteBy("model") /\ UNCHANGED <<facts, blobs, summaries, counts>>
Upsert ==
  /\ ingest.at = "upsert" /\ summaries' = Upserted(Records) /\ Marking("ready")
  /\ UNCHANGED <<facts, blobs, counts>>

Marked(ready) ==
  [facts EXCEPT !.documents = {IF d.id = Doc(Content).id
                               THEN [d EXCEPT !.ready = ready, !.error = ~ready] ELSE d : d \in @}]
Mark(at, ready, next) ==
  /\ ingest.at = at /\ Statement(Marked(ready)) /\ To(next, 0) /\ UNCHANGED blobs
MarkState(at, status, again) ==
  /\ ingest.at = at /\ Statement(SavedState(Doc(Content).id, status)) /\ UNCHANGED blobs
  /\ ingest' = IF ingest.item < Len(ingest.batch)
               THEN [ingest EXCEPT !.at = again, !.item = @ + 1]
               ELSE [ingest EXCEPT !.at = "idle", !.done = status]

MarkReady == Mark("ready", TRUE, "ready_state")
MarkReadyState == MarkState("ready_state", "ready", "ready")
MarkFailed == Mark("failing", FALSE, "failing_state")
MarkFailedState == MarkState("failing_state", "failed", "failing")

-----------------------------------------------------------------------------
(* What goes wrong: a statement, the object store, the models, the vectors;  *)
(* the process.                                                             *)

FactStatements == {"source", "blobs", "document", "sections", "bind", "assets", "layout", "processing"}
Faulty == counts.faults < MaxIngestFaults
Fault == counts' = [counts EXCEPT !.faults = @ + 1]

\* A statement fails by itself, or because one has failed before on this connection.
StatementFails ==
  /\ \/ Faulty /\ counts' = [counts EXCEPT !.faults = @ + 1, !.broken = ~Transactional]
     \/ counts.broken /\ UNCHANGED counts
  /\ \/ /\ ingest.at \in FactStatements
        /\ ingest' = [ingest EXCEPT !.at = "idle", !.done = "refused"]
     \/ ingest.at \in {"ready", "ready_state"} /\ ingest' = [ingest EXCEPT !.at = "failing", !.item = 1]
     \/ /\ ingest.at \in {"failing", "failing_state"}
        /\ ingest' = [ingest EXCEPT !.at = "idle", !.done = "unmarked"]
  /\ facts' = Back /\ UNCHANGED <<blobs, summaries>>

\* The object store takes the bytes of the request but not its text.
PutFails ==
  /\ ingest.at = "blobs" /\ Faulty /\ Fault /\ blobs' = blobs \cup {Raw(Content)}
  /\ facts' = Back /\ ingest' = [ingest EXCEPT !.at = "idle", !.done = "refused"]
  /\ UNCHANGED summaries

\* The model fails or says nothing: the text has to do, unless that is not allowed.
ModelFails ==
  /\ ingest.at = "embed" /\ Faulty /\ Fault /\ UNCHANGED <<facts, blobs, summaries>>
  /\ IF Strict THEN Marking("failing") ELSE WriteBy("text")
EmbedFails ==
  /\ ingest.at = "embed" /\ Faulty /\ Fault /\ Marking("failing") /\ UNCHANGED <<facts, blobs, summaries>>

\* Part of the vectors are stored.
UpsertFails ==
  /\ ingest.at = "upsert" /\ Faulty /\ Fault /\ Marking("failing") /\ UNCHANGED <<facts, blobs>>
  /\ \E n \in 0..Len(Records) : summaries' = Upserted(SubSeq(Records, 1, n))

Dies ==
  /\ ingest.at # "idle" /\ Faulty /\ facts' = Back /\ ingest' = Idle
  /\ counts' = [counts EXCEPT !.faults = @ + 1, !.broken = FALSE] /\ UNCHANGED <<blobs, summaries>>
Restarts ==
  /\ ingest.at = "idle" /\ counts.broken /\ ingest' = Idle
  /\ counts' = [counts EXCEPT !.broken = FALSE] /\ UNCHANGED <<facts, blobs, summaries>>

IngestNext ==
  \/ \E b \in Batches : Begin(b)
  \/ SaveSource \/ Parse \/ PutBytes \/ SaveDocument \/ CheckSpans \/ SaveSection \/ BindParent
  \/ SaveAsset \/ SaveLayout \/ SaveProcessing
  \/ Embed \/ Upsert \/ MarkReady \/ MarkReadyState \/ MarkFailed \/ MarkFailedState
  \/ StatementFails \/ PutFails \/ ModelFails \/ EmbedFails \/ UpsertFails \/ Dies \/ Restarts

-----------------------------------------------------------------------------
(* What a parse says, apart from how the code gets there.                   *)

Row(table, id) == {r \in facts[table] : r.id = id}
SectionsOf(d, order) == {s \in facts.sections : s.doc = d.id /\ s.order = order}

\* A window knows the first window of its group.
Lineage(d, c, k) ==
  LET group == {j \in DOMAIN c.sections : c.sections[j].of = c.sections[k].of}
  IN  IF c.sections[k].of = 0 \/ group = {k} THEN {0}
      ELSE {s.id : s \in SectionsOf(d, CHOOSE j \in group : c.sections[j].window = 1)}
Same(d, c, k) ==
  \E s \in SectionsOf(d, k) :
    /\ s.path = c.sections[k].path /\ s.first = c.sections[k].first /\ s.last = c.sections[k].last
    /\ s.parent \in Lineage(d, c, k)

\* An element with bytes like another's is the same asset, where the last of them is; its section
\* anchors it, or no section does.
Placed(d, c, i) ==
  LET e == c.elements[i]
      later == {j \in (i + 1)..Len(c.elements) : Asset(c.elements[j]) /\ c.elements[j].bytes = e.bytes}
      anchoring == {k \in DOMAIN c.sections : e.id \in c.sections[k].anchors}
  IN  \/ ~Asset(e) \/ later # {}
      \/ \E a \in facts.assets :
           /\ a.doc = d.id /\ a.bytes = e.bytes /\ e.page \in {0, a.page}
           /\ anchoring # {} => \E k \in anchoring : a.section \in {s.id : s \in SectionsOf(d, k)}

Told(d, n) ==
  LET c == Contents[n]
      Has(kind, id) == \E s \in summaries : s.kind = kind /\ s.id = id /\ s.of = n
  IN  /\ Has("doc", d.id)
      /\ \A k \in DOMAIN c.sections : \A s \in SectionsOf(d, k) : Has("section", s.id)
      /\ \A a \in facts.assets :
           a.doc = d.id /\ (\E e \in Range(Assets(c)) : e.bytes = a.bytes) => Has("asset", a.id)

Complete(d, n) ==
  LET c == Contents[n]
  IN  /\ \E s \in Row("sources", d.source) : s.at = c.at /\ s.bytes = c.bytes /\ d.bytes = c.bytes
      /\ \A k \in DOMAIN c.sections : Same(d, c, k)
      /\ \A i \in DOMAIN c.elements : Placed(d, c, i)
      /\ Told(d, n)

DocsOf(n) == {d \in facts.documents : \E s \in Row("sources", d.source) :
                s.at = Contents[n].at /\ d.bytes = Contents[n].bytes}
StatusOf(d) == {s.status : s \in Row("states", d.id)}
-----------------------------------------------------------------------------
\* Rows point at rows and bytes that are there, of their own document; no fact has two rows.
LinksHold ==
  /\ \A table \in Tables : \A r1, r2 \in facts[table] :
       r1.id = r2.id \/ KeyOf(table, r1) = KeyOf(table, r2) => r1 = r2
  /\ \A d \in facts.documents : Row("sources", d.source) # {}
  /\ \A s \in facts.sections :
       /\ Row("documents", s.doc) # {} /\ {s.key, s.text} \subseteq blobs
       /\ s.parent = 0 \/ \E p \in Row("sections", s.parent) : p.doc = s.doc
  /\ \A a \in facts.assets :
       /\ Row("documents", a.doc) # {} /\ a.key \in blobs
       /\ a.section = 0 \/ \E s \in Row("sections", a.section) : s.doc = a.doc
  /\ \A s \in facts.sources : s.key = "" \/ s.key \in blobs

\* A document that says it is searchable has the facts and the summaries of one parse of its bytes,
\* whatever was ingested, refused or cut off before; in SQLite its source names its bytes.
ReadyIsComplete ==
  \A d \in facts.documents : d.ready =>
    /\ \E n \in DOMAIN Contents : d \in DocsOf(n) /\ Complete(d, n)
    /\ Transactional /\ ingest.at = "idle" => \A s \in Row("sources", d.source) : s.key \in blobs

\* What the caller is told is so: all of the batch is searchable, or nothing of it and it says why,
\* or, in SQLite, nothing of it was kept; and where the model must write, it wrote.
OutcomeTrue ==
  /\ ingest.done = "ready" =>
       \A n \in Range(ingest.batch) : \A d \in DocsOf(n) : d.ready /\ StatusOf(d) = {"ready"}
  /\ ingest.done = "failed" =>
       \A n \in Range(ingest.batch) : \A d \in DocsOf(n) :
         ~d.ready /\ d.error /\ StatusOf(d) = {"failed"}
  /\ ingest.done \in {"ready", "failed"} => \A n \in Range(ingest.batch) : DocsOf(n) # {}
  /\ Strict => \A s \in summaries :
       \/ s.by = "model"
       \/ s.kind = "section" /\ \E r \in Range(Contents[s.of].sections) : ~r.long
  /\ ingest.done = "refused" /\ Transactional =>
       \A n \in Range(ingest.batch) : \A d \in DocsOf(n) :
         \E old \in ingest.before.documents : old = d
  /\ Transactional /\ ingest.at = "idle" /\ counts.faults = 0 =>
       \A s \in facts.states : s.status = "ready"

\* pipeline.py:277, pipeline.py:419: however an ingest ends, its rows hold together, a searchable
\* document is complete, and what it told its caller is so.
FactsSound == LinksHold /\ ReadyIsComplete /\ OutcomeTrue
=============================================================================
