--------------------------- MODULE GroundedAnswers ---------------------------
(***************************************************************************)
(* From evidence to an answer with footnotes (rag/providers/generation.py,  *)
(* query_pipeline.py, citation_formatter.py).  The prompt gives the k-th    *)
(* item of evidence the id Ek and its document the name Doc-n, n counting    *)
(* the documents in order.  Each provider is asked for a payload, then for   *)
(* a plain text; when all have failed the answer is a sentence of the        *)
(* evidence.  In the answer the names become references [document:target],   *)
(* and each section has evidence: what it names, or what it overlaps most.   *)
(*                                                                         *)
(* Of a table too big for the prompt the evidence says only its schema: the  *)
(* model may ask for a computation instead of answering, is told to when it  *)
(* did not, and answers again with the result as its only evidence.  At last *)
(* the references are replaced by numbers of footnotes.                     *)
(*                                                                         *)
(* A text is a sequence of atoms, and is one sentence.  All evidence has     *)
(* text.                                                                   *)
(***************************************************************************)
EXTENDS Integers, Sequences, FiniteSets, SequencesExt

CONSTANTS
  Packs,          \* what the prompt can be built from: sequences of items
  Payloads,       \* structured answers: [text, sections, insufficient]
  Outputs,        \* plain texts of a model
  Providers,      \* how many providers can be asked
  HasExecutor,    \* whether tables can be computed
  MaxQuestions

VARIABLES
  pack,           \* the evidence of the prompt
  call,           \* [at, round, provider, candidate, asset]: where the question is
  attempts,       \* the attempts of the call of generate() at work
  answer,         \* the answer as generated, or NoAnswer
  shown,          \* the answer as rendered: [marks, footnotes]
  executed,       \* whether this pipeline has ever computed
  questions

answerVars == <<pack, call, attempts, answer, shown, executed, questions>>

\* Words; the names of the prompt; references to a target of a document, to a document, and to a
\* section by its number; requests to compute a table, and statements of SQL on their own.
Atom(kind, doc, n, word) == [kind |-> kind, doc |-> doc, n |-> n, word |-> word]
Word(w) == Atom("word", 0, 0, w)
Alias(n) == Atom("alias", 0, n, "")
Reference(doc, target) == Atom("ref", doc, target, "")
Document(doc) == Atom("doc", doc, 0, "")
SectionMark(n) == Atom("section", 0, n, "")
Request(asset, sql) == Atom("compute", 0, asset, sql)
Statement(sql) == Atom("select", 0, 0, sql)

\* An item: its document, the section or asset it came from (0 for none), its text, the words of its
\* place, its score, whether it is a table or a picture, and the table it stands for (0 for none) or
\* whose result it holds.
GroundedConstants ==
  /\ \A p \in Packs : \A i \in DOMAIN p : p[i].text # <<>> /\ p[i].doc > 0
  /\ Providers \in Nat /\ HasExecutor \in BOOLEAN /\ MaxQuestions \in Nat

Lesser(a, b) == IF a < b THEN a ELSE b
Distinct(s) == FoldLeft(LAMBDA seen, x : IF x \in Range(seen) THEN seen ELSE Append(seen, x), <<>>, s)
Of(t, kind) == SelectSeq(t, LAMBDA a : a.kind = kind)
Words(t) == Range(Of(t, "word"))

-----------------------------------------------------------------------------
(* References and support.                                                  *)

Numbered(p) == Distinct([i \in DOMAIN p |-> p[i].doc])
Canonical(item) == IF item.target > 0 THEN Reference(item.doc, item.target) ELSE Document(item.doc)

\* The reference of a name is that of the first item of its document.
Meant(n, p) == Canonical(p[SelectInSeq(p, LAMBDA item : item.doc = Numbered(p)[n])])
Rewritten(t, p) ==
  FlattenSeq([k \in DOMAIN t |->
    IF t[k].kind # "alias" THEN <<t[k]>>
    ELSE IF t[k].n \in DOMAIN Numbered(p) THEN <<Meant(t[k].n, p)>> ELSE <<>>])

\* A text that refers to none of its support gets its first two references.
Normalized(t, support, p) ==
  LET text == Rewritten(t, p)
      refs == Distinct([k \in DOMAIN support |-> Canonical(p[support[k]])])
  IN  IF text = <<>> \/ Range(refs) \cap Range(text) # {} THEN text
      ELSE text \o SubSeq(refs, 1, Lesser(2, Len(refs)))

Overlap(t, words) == Cardinality(Words(t) \cap words)
Searched(item) == Words(item.text) \cup item.title

Better(t, i, j, p) ==
  \/ Overlap(t, Searched(p[i])) > Overlap(t, Searched(p[j]))
  \/ /\ Overlap(t, Searched(p[i])) = Overlap(t, Searched(p[j]))
     /\ \/ Overlap(t, Words(p[i].text)) > Overlap(t, Words(p[j].text))
        \/ /\ Overlap(t, Words(p[i].text)) = Overlap(t, Words(p[j].text))
           /\ p[i].score > p[j].score \/ (p[i].score = p[j].score /\ i < j)
Supporting(t, p) ==
  LET ranked == SetToSortSeq(DOMAIN p, LAMBDA i, j : Better(t, i, j, p))
  IN  IF p = <<>> THEN <<>>
      ELSE IF Overlap(t, Searched(p[ranked[1]])) = 0 THEN <<ranked[1]>>
      ELSE SelectSeq(SubSeq(ranked, 1, Lesser(2, Len(p))),
                     LAMBDA i : Overlap(t, Searched(p[i])) > 0)

\* A sentence is grounded when half of its words, and two of them, are in an item or in all of them
\* together, when an item says it, or when it shares a word with a table or a picture.
Enough(t) == LET half == (Cardinality(Words(t)) + 1) \div 2 IN IF half < 2 THEN 2 ELSE half
Says(item, t) == Of(t, "word") \in SubSeqs(item.text)
Grounded(t, p, items) ==
  /\ Words(t) # {}
  /\ \/ \E i \in items : Says(p[i], t) \/ Overlap(t, Words(p[i].text)) >= Enough(t)
     \/ Overlap(t, UNION {Words(p[i].text) : i \in items}) >= Enough(t)
     \/ \E i \in items : p[i].picture /\ Overlap(t, Searched(p[i])) > 0

-----------------------------------------------------------------------------
(* The answer made of a payload.                                            *)

NoAnswer == [raw |-> <<>>, text |-> <<>>, sections |-> <<>>, links |-> <<>>, grounded |-> FALSE,
             insufficient |-> FALSE, provider |-> 0]
Regret == Word("insufficient")
InsufficientAnswer ==
  [NoAnswer EXCEPT !.raw = <<Regret>>, !.text = <<Regret>>, !.sections = <<<<Regret>>>>,
                   !.grounded = TRUE, !.insufficient = TRUE]

\* What a section names of the evidence, in its order; nothing of it: what supports the section.
EvidenceOf(s, p) ==
  LET named == SelectSeq(s.ids, LAMBDA i : i \in DOMAIN p)
  IN  IF named # <<>> THEN named ELSE Supporting(s.text, p)
Everything(p) == [i \in DOMAIN p |-> i]
SupportOr(support, p) == IF support # <<>> THEN support ELSE Everything(p)

\* One link for each section and item of its evidence; the citations are the items linked, once.
Materialized(text, sections, p) ==
  LET evidence == [s \in DOMAIN sections |-> EvidenceOf(sections[s], p)]
      texts == [s \in DOMAIN sections |->
                  Normalized(sections[s].text, SupportOr(evidence[s], p), p)]
      whole == Normalized(text, SupportOr(FlattenSeq(evidence), p), p)
  IN  [raw |-> text, text |-> whole, sections |-> texts,
       links |-> FlattenSeq([s \in DOMAIN sections |->
                   [k \in DOMAIN evidence[s] |-> [section |-> s, item |-> evidence[s][k]]]]),
       grounded |-> /\ \A s \in DOMAIN sections :
                         Grounded(texts[s], p, Range(SupportOr(evidence[s], p)))
                    /\ Len(sections) > 1 \/ Grounded(whole, p, DOMAIN p),
       insufficient |-> FALSE, provider |-> 0]

OneSection(text, ids) == <<[text |-> text, ids |-> ids]>>
FromPayload(payload, p, candidate) ==
  LET text == IF payload.text # <<>> THEN payload.text ELSE candidate
      sections == SelectSeq(payload.sections, LAMBDA s : s.text # <<>>)
  IN  IF p = <<>> \/ payload.insufficient THEN InsufficientAnswer
      ELSE Materialized(text, IF sections # <<>> THEN sections ELSE OneSection(text, <<>>), p)
FromOutput(output, p, candidate) ==
  LET text == IF output # <<>> THEN output ELSE candidate
  IN  IF p = <<>> THEN InsufficientAnswer ELSE Materialized(text, OneSection(text, <<>>), p)
Fallback(candidate, p) == Materialized(candidate, OneSection(candidate, Supporting(candidate, p)), p)

\* The sentence that stands for an answer comes from a table or picture when such are asked for, from
\* an item about the place asked for, or from the items that overlap the question most; of these
\* scores the model keeps only which items can win.
NoHits == Word("no evidence")
Leads(p, most, Fit(_)) ==
  {Of(p[i].text, "word") : i \in {k \in 1..Lesser(most, Len(p)) : Fit(p[k])}}
SpecialLeads(p) == Leads(p, 8, LAMBDA item : item.picture)
StructureLeads(p) == Leads(p, 8, LAMBDA item : TRUE)
OverlapLeads(p) == Leads(p, 6, LAMBDA item : TRUE)
Candidates(p) ==
  IF p = <<>> THEN {<<NoHits>>} ELSE SpecialLeads(p) \cup StructureLeads(p) \cup OverlapLeads(p)

-----------------------------------------------------------------------------
(* Tables.                                                                  *)

NoRequest == Request(0, "")
Tables(p) == {p[i].table : i \in DOMAIN p} \ {0}
HasResult(p) == \E i \in DOMAIN p : p[i].result > 0
Pending(p) == Tables(p) # {} /\ ~HasResult(p)
OnlyTable(p) == IF Cardinality(Tables(p)) = 1 THEN CHOOSE a \in Tables(p) : TRUE ELSE 0

\* The first request of the answer or its sections, of the table it names or the only one; without
\* one, the only statement of SQL, on the only table.
Asked(a, p) ==
  LET said == a.text \o FlattenSeq(a.sections)
      requests == Of(said, "compute")
      statements == Distinct(Of(said, "select"))
      table == IF requests # <<>> /\ requests[1].n > 0 THEN requests[1].n ELSE OnlyTable(p)
      sql == IF requests # <<>> THEN requests[1].word
             ELSE IF Len(statements) = 1 THEN statements[1].word ELSE ""
  IN  IF table = 0 \/ sql = "" THEN NoRequest ELSE Request(table, sql)

\* The result takes the place of the table, or comes last in the guise of the first item; only what
\* holds the result stays.
ResultWord(asset) == Atom("word", 0, asset, "result")
Injected(p, asset) ==
  LET at == SelectInSeq(p, LAMBDA item : item.table = asset)
      held(item) == [item EXCEPT !.text = Append(@, ResultWord(asset)), !.table = 0,
                                 !.result = asset, !.score = 100]
  IN  IF at > 0 THEN [p EXCEPT ![at] = held(@)]
      ELSE IF p = <<>> THEN <<>>
      ELSE Append(p, [p[1] EXCEPT !.text = <<ResultWord(asset)>>, !.table = 0, !.result = asset,
                                  !.score = 100])
Focused(p, asset) == SelectSeq(p, LAMBDA item : item.result = asset)

-----------------------------------------------------------------------------
(* Footnotes.  A reference [document:target] is taken for the link whose     *)
(* position, or the id of whose evidence, is the number of the target.       *)

Position(n, links) ==
  LET at == SelectInSeq([i \in DOMAIN links |-> <<i, links[i].item>>], LAMBDA link : n \in Range(link))
  IN  IF at > 0 THEN at ELSE ((n - 1) % Len(links)) + 1
Marked(a) == a.kind \in {"ref", "section"}

\* The links referred to, in the order of their first marks, one of each item.
Ordered(links, marks) ==
  FoldLeft(LAMBDA kept, at :
             IF \E k \in DOMAIN kept : links[kept[k]].item = links[at].item THEN kept
             ELSE Append(kept, at),
           <<>>, marks)

\* The number at each place of the text, 0 for none, and the item of each footnote.
Rendered(a) ==
  LET items == Distinct([i \in DOMAIN a.links |-> a.links[i].item])
      marks == [k \in DOMAIN a.text |-> IF Marked(a.text[k]) THEN Position(a.text[k].n, a.links) ELSE 0]
      order == Ordered(a.links, SelectSeq(marks, LAMBDA m : m > 0))
  IN  IF a.links = <<>> THEN [marks |-> [k \in DOMAIN a.text |-> 0], footnotes |-> <<>>]
      ELSE IF order = <<>> THEN [marks |-> marks, footnotes |-> items]
      ELSE [marks |-> [k \in DOMAIN marks |-> SelectInSeq(order, LAMBDA at : at = marks[k])],
            footnotes |-> [n \in DOMAIN order |-> a.links[order[n]].item]]

-----------------------------------------------------------------------------
Idle == [at |-> "idle", round |-> "", provider |-> 0, candidate |-> <<>>, asset |-> 0]
NothingShown == [marks |-> <<>>, footnotes |-> <<>>]

GroundedInit ==
  /\ pack = <<>> /\ call = Idle /\ attempts = <<>> /\ answer = NoAnswer /\ shown = NothingShown
  /\ executed = FALSE /\ questions = 0

\* A prompt is built of the pack, and the providers are asked from the first on.
Generates(p, round, asset) ==
  \E candidate \in Candidates(p) :
    /\ pack' = p /\ attempts' = <<>>
    /\ call' = [at |-> "structured", round |-> round, provider |-> 1, candidate |-> candidate,
                asset |-> asset]

Question(p) ==
  /\ call.at = "idle" /\ questions < MaxQuestions /\ questions' = questions + 1
  /\ Generates(p, "first", 0)
  /\ answer' = NoAnswer /\ shown' = NothingShown /\ UNCHANGED executed

Attempt(ok) == Append(attempts, [provider |-> call.provider, path |-> call.at, ok |-> ok])
Answers(a) ==
  /\ answer' = [a EXCEPT !.provider = call.provider]
  /\ attempts' = Attempt(TRUE) /\ call' = [call EXCEPT !.at = "compute"]
  /\ UNCHANGED <<pack, shown, executed, questions>>

\* A text that is a payload in JSON is read as one.
Structured(payload) ==
  /\ call.at \in {"structured", "text"} /\ call.provider <= Providers
  /\ Answers(FromPayload(payload, pack, call.candidate))
Text(output) ==
  /\ call.at = "text" /\ Answers(FromOutput(output, pack, call.candidate))

\* A call that fails, or an answer of no such form: the text path, then the next provider.
ProviderFails ==
  /\ call.at \in {"structured", "text"} /\ call.provider <= Providers
  /\ attempts' = Attempt(FALSE)
  /\ call' = IF call.at = "structured" THEN [call EXCEPT !.at = "text"]
             ELSE [call EXCEPT !.at = "structured", !.provider = @ + 1]
  /\ UNCHANGED <<pack, answer, shown, executed, questions>>

AllFailed ==
  /\ call.at = "structured" /\ call.provider > Providers
  /\ answer' = Fallback(call.candidate, pack)
  /\ call' = [call EXCEPT !.at = "compute"]
  /\ UNCHANGED <<pack, attempts, shown, executed, questions>>

-----------------------------------------------------------------------------
(* A question that bypasses the evidence: plain texts only, no loop.         *)

NoReply == Word("no content")
DirectQuestion ==
  /\ call.at = "idle" /\ questions < MaxQuestions /\ questions' = questions + 1
  /\ pack' = <<>> /\ attempts' = <<>> /\ answer' = NoAnswer /\ shown' = NothingShown
  /\ call' = [Idle EXCEPT !.at = "direct", !.round = "direct", !.provider = 1]
  /\ UNCHANGED executed

DirectAnswer(text) == [NoAnswer EXCEPT !.raw = text, !.text = text, !.sections = <<text>>]
DirectText(output) ==
  /\ call.at = "direct" /\ call.provider <= Providers
  /\ answer' = [DirectAnswer(IF output = <<>> THEN <<NoReply>> ELSE output)
                  EXCEPT !.provider = call.provider]
  /\ attempts' = Attempt(TRUE) /\ call' = [call EXCEPT !.at = "render"]
  /\ UNCHANGED <<pack, shown, executed, questions>>

DirectFails ==
  /\ call.at = "direct"
  /\ IF call.provider <= Providers
     THEN attempts' = Attempt(FALSE) /\ call' = [call EXCEPT !.provider = @ + 1] /\ answer' = answer
     ELSE /\ answer' = [DirectAnswer(<<Regret>>) EXCEPT !.insufficient = TRUE]
          /\ call' = [call EXCEPT !.at = "render"] /\ attempts' = attempts
  /\ UNCHANGED <<pack, shown, executed, questions>>

-----------------------------------------------------------------------------
(* The loop of the computation, after an answer.                            *)

MayCompute == HasExecutor /\ ~executed
Wanted == IF MayCompute THEN Asked(answer, pack) ELSE NoRequest

Passes ==
  /\ call.at = "compute" /\ Wanted = NoRequest
  /\ ~MayCompute \/ call.round # "first" \/ ~Pending(pack)
  /\ call' = [call EXCEPT !.at = "render"]
  /\ UNCHANGED <<pack, attempts, answer, shown, executed, questions>>

\* A table waits and the model did not ask: it is told to.
AsksAgain ==
  /\ call.at = "compute" /\ Wanted = NoRequest /\ MayCompute /\ call.round = "first" /\ Pending(pack)
  /\ call' = [call EXCEPT !.at = "structured", !.round = "retry", !.provider = 1]
  /\ attempts' = <<>>
  /\ UNCHANGED <<pack, answer, shown, executed, questions>>

\* No such table, no file of it, or a statement that is no query or fails.
CannotCompute ==
  /\ call.at = "compute" /\ Wanted # NoRequest
  /\ executed' = TRUE /\ call' = [call EXCEPT !.at = "render"]
  /\ UNCHANGED <<pack, attempts, answer, shown, questions>>

IsQuery(sql) == sql = "select"
Computes ==
  /\ call.at = "compute" /\ Wanted # NoRequest /\ IsQuery(Wanted.word)
  /\ executed' = TRUE
  /\ Generates(Focused(Injected(pack, Wanted.n), Wanted.n), "final", Wanted.n)
  /\ UNCHANGED <<answer, shown, questions>>

Render ==
  /\ call.at = "render"
  /\ shown' = Rendered(answer) /\ call' = [call EXCEPT !.at = "idle"]
  /\ UNCHANGED <<pack, attempts, answer, executed, questions>>

GroundedNext ==
  \/ \E p \in Packs : Question(p)
  \/ \E payload \in Payloads : Structured(payload)
  \/ \E output \in Outputs : Text(output)
  \/ ProviderFails \/ AllFailed
  \/ DirectQuestion \/ DirectFails \/ \E output \in Outputs : DirectText(output)
  \/ Passes \/ AsksAgain \/ CannotCompute \/ Computes \/ Render

GroundedDone == call.at = "idle" /\ questions = MaxQuestions
GroundedSpec == GroundedInit /\ [][GroundedNext]_answerVars
-----------------------------------------------------------------------------
(* The properties.                                                          *)

\* The answer is one to the prompt at hand.
Answered == call.at \in {"compute", "render"} /\ call.round # "direct"
Linked == {answer.links[i].item : i \in DOMAIN answer.links}

\* generation.py:543: every link leads to an item of the prompt and a section of the answer; a section
\* without a link means that there was no evidence; and the text refers to some of what is linked.
LinksSound ==
  /\ \A i \in DOMAIN answer.links :
       answer.links[i].item \in DOMAIN pack /\ answer.links[i].section \in DOMAIN answer.sections
  /\ pack # <<>> /\ ~answer.insufficient =>
       /\ \A s \in DOMAIN answer.sections : \E i \in DOMAIN answer.links : answer.links[i].section = s
       /\ \A t \in {answer.text} \cup Range(answer.sections) :
            t # <<>> => Range(t) \cap {Canonical(pack[i]) : i \in Linked} # {}

\* generation.py:750: a name of the prompt is never shown as such, and stands for the document that
\* the prompt gave it to, though the evidence may show several parts of one document.
NamesSound ==
  LET before(i) == {pack[j].doc : j \in 1..(i - 1)}
  IN  /\ Of(answer.text \o FlattenSeq(answer.sections), "alias") = <<>>
      /\ ~answer.insufficient => \A i \in DOMAIN pack :
           pack[i].doc \notin before(i) /\ Alias(Cardinality(before(i)) + 1) \in Range(answer.raw) =>
             \E a \in Range(answer.text) : a.doc = pack[i].doc

\* generation.py:674: what counts as grounded shares words with the evidence, in every section.
GroundedMeansShared ==
  answer.grounded /\ ~answer.insufficient =>
    \A s \in DOMAIN answer.sections : \E i \in DOMAIN pack : Overlap(answer.sections[s], Searched(pack[i])) > 0

\* generation.py:877: the attempts are in the order of the providers, each asked in two ways, until one
\* answers; that one is named, and none when all have failed.
AttemptsTell ==
  /\ \A k \in DOMAIN attempts :
       /\ attempts[k].provider = IF call.round = "direct" THEN k ELSE (k + 1) \div 2
       /\ attempts[k].path = IF call.round = "direct" THEN "direct"
                             ELSE IF k % 2 = 1 THEN "structured" ELSE "text"
       /\ attempts[k].ok => k = Len(attempts)
  /\ call.at = "render" =>
       IF answer.provider = 0
       THEN Len(attempts) = (IF call.round = "direct" THEN 1 ELSE 2) * Providers
       ELSE attempts # <<>> /\ Last(attempts).ok /\ Last(attempts).provider = answer.provider

\* query_pipeline.py:330: an answer after a computation rests on its result alone, however many tables
\* and passages there were.
ResultIsUsed ==
  call.round = "final" => ~Pending(pack) /\ pack # <<>> /\ \A i \in DOMAIN pack : pack[i].result = call.asset

\* citation_formatter.py:36: the footnotes are of what the answer links, each once; the numbers in the
\* text begin with 1 and grow by one with each new footnote, and each footnote is referred to unless
\* no reference is left in the text.
FootnotesSound ==
  LET seen(k) == {shown.marks[i] : i \in 1..k} \ {0}
      count == Len(shown.footnotes)
  IN  /\ Range(shown.footnotes) \subseteq Linked
      /\ \A m, n \in 1..count : shown.footnotes[m] = shown.footnotes[n] => m = n
      /\ \A k \in DOMAIN shown.marks : seen(k) = 1..Cardinality(seen(k)) /\ shown.marks[k] <= count
      /\ Len(shown.marks) > 0 => seen(Len(shown.marks)) \in {{}, 1..count}

AnswersSound ==
  /\ AttemptsTell /\ ResultIsUsed
  /\ Answered => LinksSound /\ NamesSound /\ GroundedMeansShared
  /\ FootnotesSound

\* citation_formatter.py:126: "the mapping of section_id / evidence_id in evidence_links is used to find
\* the Doc number that fits best": the footnote of a reference is of the target it names, when the
\* answer links that target.
FootnotesTrue ==
  call.at = "idle" => \A k \in DOMAIN shown.marks :
    LET named == {i \in Linked : Canonical(pack[i]) = answer.text[k]}
    IN  shown.marks[k] > 0 /\ named # {} => shown.footnotes[shown.marks[k]] \in named

=============================================================================
