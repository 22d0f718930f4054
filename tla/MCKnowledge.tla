---------------------------- MODULE MCKnowledge ----------------------------
(***************************************************************************)
(* One instance of the modules of the knowledge side: the guards of the      *)
(* query path, the plan of a question and its branches, the way from hits to *)
(* evidence, the answer made of it, the windows of a section, the facts an   *)
(* ingest keeps, the tables it makes of sheets and the values of formulas in  *)
(* them, the stores of vectors, and the summary index with queues.           *)
(* They share no state of the models (a retired document is gone from the    *)
(* context whatever the index says), so a behaviour is a behaviour of one    *)
(* of them.                                                                *)
(***************************************************************************)
EXTENDS QueryGuards, IndexSync, Formulas, TLC

CONSTANT p1     \* the process that keeps the index

VARIABLES
  part,                                     \* the module at work
  found, visible, unread, flow,             \* EvidenceFlow
  table, rows, dims, buffer, saving, lost, answer, spent,   \* VectorStores
  active, indexed, question, paths, branches,               \* RetrievalPlanning
  section, from, assigned, cuts,                            \* SectionWindows
  facts, blobs, summaries, ingest, counts,                  \* IngestFacts
  pack, asking, attempts, reply, shown, ran, questions,     \* GroundedAnswers
  book, sheet, profile, stored, told, leaf                  \* SheetTables

evidenceVars == <<found, visible, unread, flow>>
indexVars == vars
storeVars == <<table, rows, dims, buffer, saving, lost, answer, spent>>
planVars == <<active, indexed, question, paths, branches>>
windowVars == <<section, from, assigned, cuts>>
ingestVars == <<facts, blobs, summaries, ingest, counts>>
replyVars == <<pack, asking, attempts, reply, shown, ran, questions>>
sheetVars == <<book, sheet, profile, stored, told, leaf>>
keptVars == <<storeVars, windowVars, ingestVars, replyVars, sheetVars, formulaVars>>
allVars == <<part, guardVars, evidenceVars, indexVars, planVars, keptVars>>

-----------------------------------------------------------------------------
(* Seven records of six targets in two documents: two records of one target, *)
(* a dead one, two assets, a section with two targets that are neighbours.   *)

Hit(asset, target, d, live, feature, tokens) ==
  [asset |-> asset, target |-> target, doc |-> d, live |-> live, feature |-> feature,
   tokens |-> tokens]
MCHits ==
  <<Hit(FALSE, "s1", "d1", TRUE, 0, 30), Hit(FALSE, "s2", "d1", TRUE, 10, 30),
    Hit(FALSE, "s3", "d1", TRUE, 0, 50), Hit(FALSE, "s3", "d1", TRUE, 5, 50),
    Hit(FALSE, "s4", "d2", TRUE, 0, 20), Hit(TRUE, "a1", "d2", TRUE, 30, 20),
    Hit(TRUE, "a2", "d1", FALSE, 0, 20)>>

Found(S, n) == {s \in UNION {[1..k -> S] : k \in 0..n} : IsInjective(s)}
MCVector == Found({1, 2, 3, 5}, 2) \cup {<<3, 4, 1>>, <<4, 3>>, <<1, 2, 4, 3>>}
MCRerank == {<<>>, [h \in 1..7 |-> h], [h \in 1..7 |-> 10 - h]}
MCGroups == [s1 |-> "g1", s2 |-> "g2", s3 |-> "g1", s4 |-> "g3", a1 |-> "g3", a2 |-> "g1"]
MCNeighbours == [s1 |-> <<"s2">>, s2 |-> <<"s1">>, s3 |-> <<>>, s4 |-> <<>>, a1 |-> <<>>,
                 a2 |-> <<>>]
MCWindows == [s1 |-> <<45, 20>>, s2 |-> <<60>>, s3 |-> <<>>, s4 |-> <<80>>, a1 |-> <<30>>,
              a2 |-> <<10>>]

Evidence == INSTANCE EvidenceFlow WITH
  Hits <- MCHits, Vector <- MCVector, Special <- Found({6, 7}, 2), RerankScores <- MCRerank,
  Limits <- [pool |-> 2, top |-> 3, per_section |-> 2, targets |-> 2, items |-> 3,
             passage |-> 70],
  Groups <- MCGroups, Neighbours <- MCNeighbours, Windows <- MCWindows,
  Unreadable <- {{}, {"s1"}}, Docs <- {"d1", "d2"}, OutputTokens <- 150, Budgets <- {30, 100}
ASSUME Evidence!EvidenceConstants

-----------------------------------------------------------------------------
(* Six items under three keys of two kinds: the same record hot and cold, a   *)
(* vector of another dimension, an item that is not active.                 *)

Item(id, kind, d, live, tier, dim, score) ==
  [id |-> id, kind |-> kind, space |-> "e", doc |-> d, source |-> "s1", active |-> live, ready |-> TRUE,
   tier |-> tier, dim |-> dim, score |-> score]
MCItem1 == Item(1, "section", "d1", TRUE, "hot", 2, 5)
MCItem2 == Item(2, "section", "d2", TRUE, "hot", 2, 9)
MCItems == [one |-> MCItem1, cold |-> [MCItem1 EXCEPT !.tier = "cold", !.score = 7],
            two |-> MCItem2, wide |-> [MCItem2 EXCEPT !.dim = 3],
            doc |-> Item(1, "doc", "d1", TRUE, "hot", 2, 3),
            gone |-> Item(3, "section", "d2", FALSE, "hot", 2, 3)]

Stores == INSTANCE VectorStores WITH
  Items <- {MCItems[n] : n \in DOMAIN MCItems},
  Collection <- [at \in {"section", "doc"} \X {"e"} |-> at[1]],
  Singles <- {MCItems.cold, MCItems.two, MCItems.wide},
  Batches <- {<<MCItems.one, MCItems.doc>>, <<MCItems.gone, MCItems.two>>},
  Scopes <- {{}, {"d1"}}, HitLimit <- 2, QueryDim <- 2, BufferSize <- 2,
  MaxVectorCalls <- 3, MaxVectorFaults <- 1
ASSUME Stores!VectorConstants

-----------------------------------------------------------------------------
(* Two versions of a document and two other documents, of which sections,     *)
(* documents and assets are indexed in the spaces of two providers.          *)

Paper(source, group, title, department) ==
  [source |-> source, group |-> group, title |-> title, department_id |-> department,
   auth_tag |-> "", tenant_id |-> "t"]
MCDocuments == [d1 |-> Paper("s1", "g1", "A", "x"), d2 |-> Paper("s2", "g1", "A", "x"),
                d3 |-> Paper("s1", "g2", "B", "x"), d4 |-> Paper("s1", "g3", "B", "y")]
Record(kind, d, space, first, last, type, asset, focus, score) ==
  [kind |-> kind, doc |-> d, space |-> space, first |-> first, last |-> last, type |-> type,
   asset |-> asset, focus |-> focus, score |-> score]
MCRecords ==
  <<Record("section_summary", "d1", "e", 1, 2, "pdf", "", "match", <<5, 1>>),
    Record("section_summary", "d2", "e", 1, 2, "pdf", "", "match", <<6, 2>>),
    Record("section_summary", "d3", "e", 3, 3, "docx", "", "other", <<7, 3>>),
    Record("section_summary", "d3", "e", 2, 3, "pdf", "", "none", <<4, 9>>),
    Record("section_summary", "d4", "f", 0, 0, "", "", "match", <<8, 1>>),
    Record("doc_summary", "d3", "e", 0, 0, "docx", "", "none", <<9, 5>>),
    Record("doc_summary", "d1", "e", 0, 0, "pdf", "", "none", <<3, 0>>),
    Record("asset_summary", "d1", "e", 1, 1, "", "table", "none", <<3, 2>>),
    Record("asset_summary", "d3", "f", 3, 3, "", "chart", "none", <<6, 2>>),
    Record("section_summary", "d3", "e", 2, 2, "docx", "", "none", <<8, 1>>)>>

About(scope) ==
  [scope |-> scope, pages |-> {}, ranges |-> <<>>, types |-> {}, names |-> {}, titles |-> {},
   focus |-> FALSE, targets |-> {}, graph |-> FALSE, profile |-> "auto"]
MCQuestions ==
  {About({}), About({"d1", "d3"}), About({"s1"}), About({"d1", "d3", "d4"}),
   [About({"d1"}) EXCEPT !.pages = {1, 3}],
   [About({"d3"}) EXCEPT !.pages = {2}, !.types = {"pdf"}, !.profile = "fast"],
   [About({}) EXCEPT !.pages = {1, 3}, !.types = {"pdf"}],
   [About({}) EXCEPT !.ranges = <<<<1, 1>>, <<3, 3>>>>, !.profile = "fast"],
   [About({}) EXCEPT !.targets = {"table"}], [About({}) EXCEPT !.focus = TRUE, !.graph = TRUE],
   [About({}) EXCEPT !.names = {"B"}, !.profile = "asset"],
   [About({"d1"}) EXCEPT !.pages = {1}, !.ranges = <<<<3, 3>>>>]}

Planning(hybrid) == INSTANCE RetrievalPlanning WITH
  Documents <- MCDocuments, Records <- MCRecords, Questions <- MCQuestions,
  Bindings <- <<"e", "f">>, Hybrid <- hybrid,
  Sizes <- [retrieval |-> 1, final |-> 2, whitelist |-> 2, values |-> 1, window |-> 3]
ASSUME Planning(TRUE)!PlanningConstants /\ Planning(FALSE)!PlanningConstants

-----------------------------------------------------------------------------
(* Sections of seven tokens with up to two anchors anywhere.                *)

Stretches == {<<a, b>> \in (0..7) \X (0..7) : a < b}
MCAnchors ==
  {<<>>} \cup {<<a>> : a \in Stretches}
  \cup {pair \in Stretches \X Stretches : pair[1][2] <= pair[2][1]}

Windows == INSTANCE SectionWindows WITH
  Texts <- {[tokens |-> [k \in 1..7 |-> <<k - 1, k>>], anchors |-> a, marks |-> [k \in DOMAIN a |-> k]] :
             a \in MCAnchors},
  WindowSizes <- {[size |-> w[1], overlap |-> w[2]] : w \in {<<2, 1>>, <<3, 1>>, <<4, 0>>, <<4, 3>>}}
ASSUME Windows!WindowConstants

-----------------------------------------------------------------------------
(* A document of three sections, two of them windows of a long one, with a    *)
(* table and two figures that are alike; the same bytes read in another way   *)
(* or not at all, other bytes at its place, and documents that go wrong.     *)

Section(path, first, last, anchors, of, window) ==
  [path |-> path, first |-> first, last |-> last, anchors |-> anchors, of |-> of,
   window |-> window, long |-> of > 0]
Element(id, kind, path, page, bytes) ==
  [id |-> id, kind |-> kind, path |-> path, page |-> page, bytes |-> bytes]
File(at, bytes, fails, sections, elements) ==
  [at |-> at, bytes |-> bytes, fails |-> fails, sections |-> sections, elements |-> elements]
MCPlain(first) == Section("o", first, first, {}, 0, 0)
MCContents ==
  [long |-> File("here", "b1", "",
     <<Section("p", 1, 2, {"t1"}, 1, 1), Section("p", 1, 2, {}, 1, 2), Section("q", 3, 3, {}, 0, 0)>>,
     <<Element("t1", "table", "q", 1, "x"), Element("h", "heading", "p", 1, "h"),
       Element("f1", "figure", "r", 3, "y"), Element("f2", "figure", "q", 0, "y")>>),
   short |-> File("here", "b1", "", <<MCPlain(0)>>, <<>>),
   torn |-> File("here", "b1", "parse", <<>>, <<>>),
   other |-> File("here", "b2", "", <<MCPlain(1)>>, <<>>),
   bad |-> File("there", "b1", "order", <<MCPlain(0), MCPlain(0)>>, <<>>),
   odd |-> File("there", "b2", "span", <<MCPlain(0)>>, <<>>)]

Ingests(sqlite) == INSTANCE IngestFacts WITH
  Contents <- MCContents, Transactional <- sqlite, Strict <- sqlite,
  Batches <- {<<"long">>, <<"short">>, <<"torn">>, <<"other", "bad">>, <<"odd">>, <<"short", "other">>},
  MaxIngests <- 2, MaxIngestFaults <- 1
ASSUME Ingests(TRUE)!IngestConstants /\ Ingests(FALSE)!IngestConstants

-----------------------------------------------------------------------------
(* Three parts of two documents; a passage and a table; two tables alone.    *)

Said(kind, d, n, word) == [kind |-> kind, doc |-> d, n |-> n, word |-> word]
Say(word) == Said("word", 0, 0, word)
Named(n) == Said("alias", 0, n, "")
Wish(t, sql) == Said("compute", 0, t, sql)
Sql(sql) == Said("select", 0, 0, sql)
Saying(words) == [k \in DOMAIN words |-> Say(words[k])]
Piece(d, target, words, title, score, t) ==
  [doc |-> d, target |-> target, text |-> Saying(words), title |-> title, score |-> score,
   picture |-> t > 0, table |-> t, result |-> 0]
Part(text, ids) == [text |-> text, ids |-> ids]
Told(text, sections) == [text |-> text, sections |-> sections, insufficient |-> FALSE]

MCPacks ==
  {<<>>,
   <<Piece(7, 2, <<"a", "b">>, {}, 5, 0), Piece(7, 9, <<"b", "c">>, {Say("d")}, 8, 0),
     Piece(3, 1, <<"c", "d", "a">>, {}, 2, 0)>>,
   <<Piece(5, 0, <<"a", "b">>, {}, 5, 0), Piece(6, 4, <<"t">>, {Say("c")}, 4, 1)>>,
   <<Piece(6, 4, <<"t">>, {}, 4, 1), Piece(8, 2, <<"t">>, {}, 4, 2)>>}
MCPayloads ==
  {Told(<<Say("a"), Say("b"), Named(1), Say("c"), Named(2)>>,
        <<Part(<<Say("c"), Named(2)>>, <<3, 1>>), Part(<<Say("b")>>, <<9>>)>>),
   Told(<<Say("z")>>, <<>>), Told(<<>>, <<Part(<<>>, <<1>>)>>),
   Told(<<Say("a"), Said("ref", 7, 2, ""), Say("d"), Said("section", 0, 1, "")>>,
        <<Part(<<Say("d"), Say("c")>>, <<2, 1>>), Part(<<Say("a")>>, <<1>>)>>),
   [Told(<<Say("a")>>, <<>>) EXCEPT !.insufficient = TRUE], Told(<<Wish(1, "select")>>, <<>>)}
MCOutputs ==
  {<<>>, <<Say("a"), Named(1), Named(3)>>, <<Wish(0, "select")>>, <<Wish(3, "drop")>>,
   <<Wish(1, "")>>, <<Sql("select")>>, <<Sql("select"), Say("t"), Sql("other")>>,
   <<Wish(3, "select"), Said("ref", 6, 4, "")>>}

Answers == INSTANCE GroundedAnswers WITH
  Packs <- MCPacks, Payloads <- MCPayloads, Outputs <- MCOutputs, Providers <- 2,
  HasExecutor <- TRUE, MaxQuestions <- 2, call <- asking, answer <- reply, executed <- ran
ASSUME Answers!GroundedConstants

-----------------------------------------------------------------------------
(* Sheets of four columns: a title or none, a header of one or two rows, a    *)
(* body of figures; and sheets that go wrong.                               *)

Heads == [one |-> <<"a", "b", "c", "d">>, over |-> <<"", "g", "g", "h">>, twice |-> <<"a", "b", "b", "">>]
Lines == [x |-> <<"x", "1", "2", "3">>, y |-> <<"y", "1", "", "3">>, z |-> <<"x", "1", "2", "1">>,
          like |-> <<"1", "2", "3", "2">>, text |-> <<"y", "x", "b", "1">>, words |-> <<"y", "x", "b", "">>,
          blank |-> <<"", "", "", "">>]
Title(word) == <<word, "", "", "">>
Written(n, titles, header, body) ==
  [name |-> n, rows |-> titles \o header \o body,
   meant |-> [regular |-> TRUE, header |-> titles \o header,
              full |-> \A k \in DOMAIN body : \A c \in 2..4 : body[k][1] # "" /\ body[k][c] \in {"1", "2", "3"},
              body |-> SelectSeq(body, LAMBDA line : line # Lines.blank)]]
Loose(n, lines) ==
  [name |-> n, rows |-> lines, meant |-> [regular |-> FALSE, header |-> <<>>, full |-> FALSE, body |-> lines]]
MCRegular ==
  {Written("s", titles, header, body) :
     titles \in {<<>>, <<Title("title")>>, <<Title("prose")>>, <<Title("title"), Lines.blank>>},
     header \in {<<Heads.one>>, <<Heads.over, Heads.one>>, <<Heads.twice>>, <<Heads.one, Heads.over>>},
     body \in {<<Lines.x>>, <<Lines.x, Lines.z>>, <<Lines.z, Lines.x, Lines.z>>, <<Lines.x, Lines.like, Lines.z>>,
               <<Lines.y, Lines.text, Lines.x>>, <<Lines.text, Lines.y>>, <<Lines.x, Lines.blank, Lines.y>>}}
MCLoose ==
  {<<Heads.one, Lines.x, Lines.words, Lines.z>>, <<Heads.one, Lines.words>>, <<Lines.blank>>,
   <<Lines.x, Lines.z>>, <<Heads.twice, Lines.y, Lines.z, Lines.z, Lines.z, Lines.x>>,
   <<Heads.one>> \o [k \in 1..8 |-> Lines.x], <<Heads.one>> \o [k \in 1..8 |-> Lines.blank] \o <<Lines.x>>,
   <<Heads.one \o <<"e">>, Lines.x \o <<"1">>, Lines.z \o <<"2">>>>}
MCBooks ==
  {<<s>> : s \in MCRegular} \cup {<<Loose("s", lines)>> : lines \in MCLoose}
  \cup {<<Loose("s", <<Heads.twice, Lines.y>>), Written(n, <<>>, <<Heads.one>>, <<Lines.x>>)>> : n \in {"t", "u "}}

Sheets == INSTANCE SheetTables WITH
  Workbooks <- MCBooks, Clean <- [n \in {"s", "t", "u "} |-> IF n = "u " THEN "u" ELSE n],
  Numbers <- {"1", "2", "3"}, Prose <- {"prose"},
  Length <- [v \in {"title", "prose", "a", "b", "c", "d", "e", "g", "h", "x", "y", "1", "2", "3", ""} |->
              IF v = "prose" THEN 90 ELSE IF v = "title" THEN 20 ELSE 2],
  ScanRows <- 5, SheetRows <- 3, SheetColumns <- 4, TypeRows <- 3, SampleRows <- 2, ResultRows <- 2, SliceRows <- 2,
  asset <- stored, reply <- told, page <- leaf
ASSUME Sheets!TablesConstants

-----------------------------------------------------------------------------
(* Sums and quotients of each other; two cells that hang on each other; a     *)
(* lookup, a condition and a saved value; a chain as long as may be.          *)

Val(kind, n, text) == [op |-> "value", value |-> [kind |-> kind, n |-> n, text |-> text]]
Digit(n) == Val("int", n, "")
Ref(at) == [op |-> "ref", at |-> at]
Block(cells, width) == [op |-> "range", cells |-> cells, width |-> width]
Fn(f, args) == [op |-> "call", f |-> f, args |-> args]
Above(n) == [op |-> "value", value |-> [kind |-> "criterion", op |-> ">", with |-> Digit(n).value]]
Bare(e) == [holds |-> e, saved |-> Val("none", 0, "").value]
MCFormulae ==
  {[a |-> Bare(Digit(1)), b |-> Bare(Fn("+", <<Ref("a"), Digit(2)>>)),
    c |-> Bare(Fn("SUM", <<Block(<<"a", "b", "x">>, 1)>>)),
    d |-> Bare(Fn("IFERROR", <<Fn("/", <<Ref("c"), Ref("x")>>), Digit(9)>>)),
    e |-> Bare(Fn("MAX", <<Ref("c"), Ref("d")>>))],
   [a |-> Bare(Fn("+", <<Ref("b"), Digit(1)>>)), b |-> Bare(Fn("SUM", <<Ref("a"), Ref("c")>>)),
    c |-> Bare(Fn("/", <<Digit(4), Digit(2)>>)), d |-> Bare(Fn("IF", <<Ref("a"), Ref("c"), Digit(7)>>)),
    e |-> Bare(Fn("ABS", <<Ref("c")>>))],
   [a |-> Bare(Val("word", 0, "u")), b |-> Bare(Digit(3)), c |-> Bare(Val("digits", 3, "")),
    d |-> [holds |-> Fn("-", <<Ref("d"), Ref("b")>>), saved |-> Digit(4).value],
    e |-> Bare(Fn("VLOOKUP", <<Ref("b"), Block(<<"a", "b", "c", "d">>, 2), Digit(2)>>)),
    f |-> Bare(Fn("SUMIF", <<Block(<<"b", "d", "e">>, 1), Above(3)>>)),
    g |-> Bare(Fn("NOW", <<Ref("f")>>)),
    h |-> Bare(Fn("AND", <<Fn("=", <<Ref("f"), Ref("d")>>), Fn("OR", <<Ref("x"), Ref("a")>>)>>)),
    i |-> Bare(Fn("MIN", <<Block(<<"a", "e", "g", "x">>, 2)>>))],
   [c \in {"a", "b", "c", "d", "e"} |->
      LET next == [a |-> "b", b |-> "c", c |-> "d", d |-> "e"]
      IN  Bare(IF c = "e" THEN Digit(0) ELSE Fn("+", <<Ref(next[c]), Digit(1)>>))]}
ASSUME FormulaConstants

-----------------------------------------------------------------------------
(* The limiter with two users, and the breaker with one whose generations     *)
(* may fail.                                                                *)

Probes == INSTANCE QueryGuards WITH Users <- {"u"}, MaxFailures <- 2

-----------------------------------------------------------------------------
(* One process, four calls, three faults.                                   *)

ASSUME IndexConstants /\ p1 \in Procs

-----------------------------------------------------------------------------
Parts == {"limits", "probes", "evidence", "index", "stores", "milvus", "sqlite", "windows", "facts", "rows",
          "answers", "sheets", "formulas"}

NoEvidence == found = <<>> /\ visible = {} /\ unread = {} /\ flow = [at |-> "none"]
NoStores == table = {} /\ rows = {} /\ dims = <<>> /\ buffer = <<>> /\ saving = <<>> /\ lost = {}
            /\ answer = <<>> /\ spent = <<>>
NoPlan == active = {} /\ indexed = {} /\ question = <<>> /\ paths = <<>> /\ branches = <<>>
NoWindows == section = <<>> /\ from = 0 /\ assigned = {} /\ cuts = <<>>
NoIngest == facts = <<>> /\ blobs = {} /\ summaries = {} /\ ingest = <<>> /\ counts = <<>>
NoAnswers == pack = <<>> /\ asking = <<>> /\ attempts = <<>> /\ reply = <<>> /\ shown = <<>>
             /\ ran = FALSE /\ questions = 0
NoSheets == book = <<>> /\ sheet = 0 /\ profile = <<>> /\ stored = <<>> /\ told = <<>> /\ leaf = <<>>
NoFormulas == grid = <<>> /\ memo = <<>>

MCInit ==
  /\ part \in Parts
  /\ IF part = "probes" THEN Probes!GuardsInit ELSE GuardsInit
  /\ Init
  /\ IF part = "evidence" THEN Evidence!EvidenceInit ELSE NoEvidence
  /\ IF part = "stores" THEN Stores!VectorInit ELSE NoStores
  /\ IF part \in {"milvus", "sqlite"} THEN Planning(TRUE)!PlanningInit ELSE NoPlan
  /\ IF part = "windows" THEN Windows!WindowsInit ELSE NoWindows
  /\ IF part \in {"facts", "rows"} THEN Ingests(TRUE)!IngestInit ELSE NoIngest
  /\ IF part = "answers" THEN Answers!GroundedInit ELSE NoAnswers
  /\ IF part = "sheets" THEN Sheets!TablesInit ELSE NoSheets
  /\ IF part = "formulas" THEN FormulasInit ELSE NoFormulas

GuardsPart(where, A) ==
  part = where /\ A /\ UNCHANGED <<part, evidenceVars, indexVars, planVars, keptVars>>
IndexPart(A) == part = "index" /\ A /\ UNCHANGED <<part, guardVars, evidenceVars, planVars, keptVars>>
PlanningPart(A) == A /\ UNCHANGED <<part, guardVars, evidenceVars, indexVars, keptVars>>
KeptPart(A) == A /\ UNCHANGED <<part, guardVars, evidenceVars, indexVars, planVars>>

\* An answered question stays answered, a section is cut once, and a process may be given no more
\* calls; the guards and the index must never stop.
Answered ==
  /\ \/ part = "evidence" /\ flow.at = "asked"
     \/ part \in {"milvus", "sqlite"} /\ question # Planning(TRUE)!NoQuestion /\ paths = <<>>
     \/ part = "answers" /\ Answers!GroundedDone
     \/ part = "stores" /\ saving = Stores!Rest
     \/ part = "windows" /\ Windows!WindowsDone
     \/ part \in {"facts", "rows"} /\ ingest.at = "idle"
     \/ part = "sheets" /\ Sheets!TablesDone
     \/ part = "formulas" /\ FormulasDone
  /\ UNCHANGED allVars

MCNext ==
  \/ GuardsPart("limits", GuardsNext)
  \/ GuardsPart("probes", Probes!GuardsNext)
  \/ IndexPart(Next)
  \/ part = "evidence" /\ Evidence!EvidenceNext /\ UNCHANGED <<part, guardVars, indexVars, planVars, keptVars>>
  \/ part = "stores" /\ KeptPart(Stores!VectorNext /\ UNCHANGED <<windowVars, ingestVars, replyVars, sheetVars, formulaVars>>)
  \/ part = "windows" /\ KeptPart(Windows!WindowsNext /\ UNCHANGED <<storeVars, ingestVars, replyVars, sheetVars, formulaVars>>)
  \/ part = "facts" /\ KeptPart(Ingests(TRUE)!IngestNext /\ UNCHANGED <<storeVars, windowVars, replyVars, sheetVars, formulaVars>>)
  \/ part = "rows" /\ KeptPart(Ingests(FALSE)!IngestNext /\ UNCHANGED <<storeVars, windowVars, replyVars, sheetVars, formulaVars>>)
  \/ part = "answers" /\ KeptPart(Answers!GroundedNext /\ UNCHANGED <<storeVars, windowVars, ingestVars, sheetVars, formulaVars>>)
  \/ part = "sheets" /\ KeptPart(Sheets!TablesNext /\ UNCHANGED <<storeVars, windowVars, ingestVars, replyVars, formulaVars>>)
  \/ part = "formulas" /\ FormulasNext
     /\ UNCHANGED <<part, guardVars, evidenceVars, indexVars, planVars, storeVars, windowVars, ingestVars, replyVars, sheetVars>>
  \/ part = "milvus" /\ PlanningPart(Planning(TRUE)!PlanningNext)
  \/ part = "sqlite" /\ PlanningPart(Planning(FALSE)!PlanningNext)
  \/ Answered

MCSpec ==
  /\ MCInit /\ [][MCNext]_allVars
  /\ WF_allVars(GuardsPart("probes", Probes!Tick))
  /\ \A t \in Threads : /\ WF_allVars(GuardsPart("probes", Probes!QueryStep(t)))
                       /\ WF_allVars(GuardsPart("probes", Probes!Asks(t)))
  /\ WF_allVars(IndexPart(Step(p1))) /\ WF_allVars(IndexPart(CallQuery(p1)))
  /\ WF_allVars(IndexPart(LeaseExpires)) /\ WF_allVars(IndexPart(BackoffPasses))

-----------------------------------------------------------------------------
(* The properties of the parts, as the modules state and explain them.      *)

\* l3_l4_engine.py:375, query_pipeline.py:234: the ranking does not depend on the order of the
\* branches and keeps its limits; the context holds no retired document and fits its budget.
\* evidence.py:105, planning_graph.py:507: the branches bring what was asked for, in force and
\* within limits, and the best of it.  generation.py:543: the answer rests on that evidence, names what
\* the prompt named, and has a footnote for each number.
\* milvus_vector_repo.py:386: Milvus with its buffer keeps up with what it was given, as the table
\* of SQLite does, and a search sees what was stored and deleted before it.
\* section_refiner.py:75, pipeline.py:277: the windows of a section lose none of it, and the facts
\* of a searchable document are complete in either database.  pipeline.py:1106: the table stored for a
\* sheet is the one the schema describes, and a query or a reader sees all of it.
\* excel_formula_evaluator.py:31: a formula's value does not depend on the order cells are read in.
KnowledgeSound ==
  /\ part = "evidence" => Evidence!EvidenceSound
  /\ part = "milvus" => Planning(TRUE)!RetrievalSound
  /\ part = "sqlite" => Planning(FALSE)!RetrievalSound
  /\ part = "answers" => Answers!AnswersSound
  /\ part = "stores" => Stores!VectorsSound
  /\ part = "windows" => Windows!WindowsSound
  /\ part = "facts" => Ingests(TRUE)!FactsSound
  /\ part = "rows" => Ingests(FALSE)!FactsSound
  /\ part = "sheets" => Sheets!TablesSound
  /\ part = "formulas" => FormulasSound

\* storage_lifecycle_service.py, index_sync_service.py: a delete that stopped half way is finished,
\* and a queued summary is indexed.
QueuesDrain == DeletionCompletes /\ SummariesGetIndexed
=============================================================================
