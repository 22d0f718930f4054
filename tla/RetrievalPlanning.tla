--------------------------- MODULE RetrievalPlanning ---------------------------
(***************************************************************************)
(* From a question to the hits of its branches: the planning graph (version  *)
(* gate, predicate, paths and stages), the retrievers of the two kinds of    *)
(* index, which search the spaces of the embedding providers in turn, and    *)
(* the filter the hits pass before they are fused.                         *)
(*                                                                         *)
(* It is the planner the runtime builds, with summary paths only: a vector   *)
(* branch over sections, and over documents when these are few, and a        *)
(* branch over assets.  Versions become active and the index follows, while  *)
(* a question is between its plan and its branches.                        *)
(***************************************************************************)
EXTENDS Integers, Sequences, FiniteSets, SequencesExt, FiniteSetsExt

CONSTANTS
  Documents,   \* document -> [source, group, title, department_id, auth_tag, tenant_id]
  Records,     \* record -> [kind, doc, space, first, last, type, asset, focus, score]
  Questions,   \* [scope, pages, ranges, types, names, titles, focus, targets, graph, profile]
  Bindings,    \* the spaces of the embedding providers, in their order
  Sizes,       \* [retrieval, final, whitelist, values, window]: the limits of the planner
  Hybrid       \* TRUE: Milvus, whose retriever takes the plan; FALSE: SQLite

\* What an instance must assume of the constants.  Records are numbered as their ids order.
PlanningConstants ==
  /\ DOMAIN Records \subseteq Nat /\ Hybrid \in BOOLEAN
  /\ \A r \in DOMAIN Records : Records[r].doc \in DOMAIN Documents /\ Records[r].score \in Nat \X Nat

VARIABLES
  active,    \* the versions in force
  indexed,   \* the versions the index takes for active and ready
  question,  \* the question and its plan, once there is one
  paths,     \* the paths whose branches are still to come
  branches   \* what came: [branch, limit, items, deaf, fresh, active]

planningVars == <<active, indexed, question, paths, branches>>

NoQuestion == [plan |-> "none"]

-----------------------------------------------------------------------------
(* The plan. *)

Versions(d) == {e \in active : Documents[e].group = Documents[d].group}

\* _version_gate: the active versions of a document in the scope stand for it; ids that are no
\* documents (sources may be asked for) are left out, unless there are no others.
InForce(d) == IF Versions(d) = {} THEN {d} ELSE Versions(d)
VersionGate(scope) ==
  LET gated == UNION {InForce(d) : d \in scope \cap DOMAIN Documents}
  IN IF gated = {} THEN scope ELSE gated

\* _attribute_filters: the attribute all of them have with the fewest values.
Attributes == <<"department_id", "auth_tag", "tenant_id">>
ValuesOf(f, docs) == {Documents[d][f] : d \in docs}
Usable(docs) ==
  {i \in DOMAIN Attributes : /\ docs \subseteq DOMAIN Documents /\ "" \notin ValuesOf(Attributes[i], docs)
                             /\ Cardinality(ValuesOf(Attributes[i], docs)) <= Sizes.values}
BestAttribute(docs) ==
  CHOOSE i \in Usable(docs) : \A j \in Usable(docs) :
    LET n(k) == Cardinality(ValuesOf(Attributes[k], docs)) IN n(i) < n(j) \/ (n(i) = n(j) /\ i <= j)

\* _predicate_plan: the documents themselves while they are few, else what they share.
Predicate(docs) ==
  IF docs = {} THEN [strategy |-> "none", docs |-> {}, field |-> ""]
  ELSE IF Cardinality(docs) <= Sizes.whitelist
       THEN [strategy |-> "doc_id_whitelist", docs |-> docs, field |-> ""]
  ELSE IF Usable(docs) # {}
       THEN [strategy |-> "attribute_filter", docs |-> docs, field |-> Attributes[BestAttribute(docs)]]
  ELSE [strategy |-> "none", docs |-> docs, field |-> ""]

\* _semantic_route, and the branch over assets it asks for.
Route(q) ==
  IF q.targets # {} THEN IF q.focus THEN "text_plus_asset" ELSE "asset_first"
  ELSE IF q.types \cap {"pptx", "xlsx", "image", "pdf"} # {} /\ q.pages # {} THEN "text_plus_asset"
  ELSE "text_first"
WantsAssets(q) == Route(q) # "text_first"

Path(name, limit) == [branch |-> name, limit |-> limit]
RetrievalPaths(q) ==
  <<Path("vector", IF q.profile = "fast" THEN Sizes.retrieval ELSE 2 * Sizes.retrieval)>>
  \o IF q.profile = "asset" \/ WantsAssets(q) THEN <<Path("special", Sizes.retrieval)>> ELSE <<>>

\* _branch_stage_plans.
Floor == Max({2, Min({Sizes.final, 5})})
Stage(kind, limit, min) == [kind |-> kind, limit |-> limit, min |-> min]
Stages(q, path) ==
  IF path.branch = "vector"
  THEN <<Stage("section_summary", 2 * Sizes.retrieval, 0),
         Stage("doc_summary", Max({Sizes.retrieval, Floor}), Floor)>>
  ELSE <<Stage("asset_summary", IF WantsAssets(q) THEN Sizes.retrieval ELSE path.limit, 0)>>

\* _query_tasks: a question that is decomposed and rewritten is searched in both forms.
Tasks(q) == IF q.graph /\ q.focus THEN <<1, 2>> ELSE <<1>>

-----------------------------------------------------------------------------
(* The expressions of the collections.  A test is the set of the records that pass it; an      *)
(* expression is a sequence of tests one of which must pass.  Expressions are joined as text,  *)
(* where "and" binds tighter than "or".                                                         *)

AndText(a, b) ==
  IF a = <<>> THEN b ELSE IF b = <<>> THEN a
  ELSE Front(a) \o <<Last(a) \cap Head(b)>> \o Tail(b)

Passing(Test(_)) == {r \in DOMAIN Records : Test(Records[r])}
Overlap(r, range) == r.first <= range[2] /\ r.last >= range[1]
ClausesOf(q, kind) ==
  LET typed == IF q.types = {} THEN <<>> ELSE <<Passing(LAMBDA r : r.type \in q.types)>>
      paged == [i \in 1..Cardinality(q.pages) |->
                  LET n == SetToSortSeq(q.pages, LAMBDA a, b : a < b)[i] IN Passing(LAMBDA r : Overlap(r, <<n, n>>))]
      ranged == [i \in DOMAIN q.ranges |-> Passing(LAMBDA r : Overlap(r, q.ranges[i]))]
      onPages == IF q.pages = {} THEN <<>> ELSE <<Passing(LAMBDA r : r.first \in q.pages)>>
      targeted == IF q.targets = {} THEN <<>> ELSE <<Passing(LAMBDA r : r.asset \in q.targets)>>
  IN CASE kind = "doc_summary" -> typed
       [] kind = "section_summary" -> AndText(AndText(typed, paged), ranged)
       [] kind = "asset_summary" -> AndText(AndText(onPages, ranged), targeted)

Base(p) ==
  CASE p.strategy = "doc_id_whitelist" -> Passing(LAMBDA r : r.doc \in p.docs)
    [] p.strategy = "attribute_filter" ->
         Passing(LAMBDA r : Documents[r.doc][p.field] \in ValuesOf(p.field, p.docs))
    [] p.strategy = "none" -> DOMAIN Records
Pushed(q, p, kind) ==
  Base(p) \cap (IF ClausesOf(q, kind) = <<>> THEN DOMAIN Records ELSE UNION ToSet(ClausesOf(q, kind)))

-----------------------------------------------------------------------------
(* The retrievers. *)

\* _effective_scope: a retriever that knows the plan is not limited when attributes limit it.
Effective(q, p) ==
  CASE p.strategy = "doc_id_whitelist" -> p.docs
    [] p.strategy = "attribute_filter" /\ Hybrid -> {}
    [] OTHER -> q.scope

\* A scope names documents or sources; Milvus takes the names for documents only.
Scoped(r, scope) == scope = {} \/ {Records[r].doc, Documents[Records[r].doc].source} \cap scope # {}
Searched(scope, kind, space) ==
  {r \in DOMAIN Records :
     /\ Records[r].kind = kind /\ Records[r].space = space
     /\ IF Hybrid THEN Records[r].doc \in indexed /\ (scope = {} \/ Records[r].doc \in scope)
        ELSE Scoped(r, scope)}

First(s, n) == SubSeq(s, 1, IF Len(s) < n THEN Len(s) ELSE n)
ByScore(S, task) ==
  SetToSortSeq(S, LAMBDA a, b : \/ Records[a].score[task] > Records[b].score[task]
                                \/ (Records[a].score[task] = Records[b].score[task] /\ a < b))

\* MilvusSummaryHybridRetriever._search_binding: task by task and stage by stage until the branch
\* is full; a later stage only when there are too few hits.
StagedHits(q, p, path, space, tasks) ==
  LET scope == Effective(q, p)
      Steps == FlattenSeq([i \in DOMAIN tasks |-> [j \in DOMAIN Stages(q, path) |-> <<tasks[i], Stages(q, path)[j]>>]])
      Step(hits, s) ==
        LET stage == s[2]
            room == Max({Min({stage.limit, path.limit}) - Len(hits), 1})
            found == First(ByScore(Searched(scope, stage.kind, space) \cap Pushed(q, p, stage.kind), s[1]), room)
        IN IF Len(hits) >= path.limit \/ (stage.min > 0 /\ Len(hits) >= stage.min) THEN hits
           ELSE hits \o SelectSeq(found, LAMBDA r : r \notin ToSet(hits))
  IN First(FoldLeft(Step, <<>>, Steps), path.limit)

\* MultiProviderBackedVectorRetriever._search_binding: one kind, twelve hits, no plan.
PlainHits(q, p, path, space) ==
  First(ByScore(Searched(Effective(q, p), IF path.branch = "vector" THEN "section_summary" ELSE "asset_summary",
                         space), 1), Sizes.window)

\* build_summary_candidates_from_vector_results: what is visible by now, best first.
Weighed(r) == Records[r].score[1] * (CASE Records[r].kind = "doc_summary" -> 94
                                       [] Records[r].kind = "asset_summary" -> 97
                                       [] OTHER -> 100)
Candidates(q, p, hits) ==
  LET kept == {r \in ToSet(hits) : /\ Weighed(r) > 0 /\ Records[r].doc \in active
                                   /\ Scoped(r, Effective(q, p))}
  IN First(SetToSortSeq(kept, LAMBDA a, b : Weighed(a) > Weighed(b) \/ (Weighed(a) = Weighed(b) /\ a < b)), Sizes.window)

\* The first space with candidates wins; a provider may fail to embed a form of the question.
Heard(q, space, deaf) == SelectSeq(Tasks(q), LAMBDA t : <<space, t>> \notin deaf)
FromSpace(q, p, path, space, deaf) ==
  Candidates(q, p, IF Hybrid THEN StagedHits(q, p, path, space, Heard(q, space, deaf))
                   ELSE IF <<space, 1>> \in deaf THEN <<>> ELSE PlainHits(q, p, path, space))
Retrieved(q, p, path, deaf) ==
  LET speaking == SelectSeq(Bindings, LAMBDA s : FromSpace(q, p, path, s, deaf) # <<>>)
  IN IF speaking = <<>> THEN <<>> ELSE FromSpace(q, p, path, speaking[1], deaf)

-----------------------------------------------------------------------------
(* EvidenceService.filter_candidates: the question's own scope and constraints; what a candidate *)
(* does not say is not held against it.                                                          *)

ByMetadata(q, r) ==
  LET c == Records[r]
      name == Documents[c.doc].title
  IN /\ q.types = {} \/ c.type \in q.types \cup {""}
     /\ q.names = {} \/ name \in q.names
     /\ q.titles = {} \/ name \in q.titles
     /\ \/ q.pages = {} /\ q.ranges = <<>>
        \/ c.first = 0
        \/ \E n \in q.pages : Overlap(c, <<n, n>>)
        \/ \E i \in DOMAIN q.ranges : Overlap(c, q.ranges[i])
ByStructure(q, r) == ~q.focus \/ Records[r].focus \in {"none", "match"}
Kept(q, r) == Scoped(r, q.scope) /\ ByMetadata(q, r) /\ ByStructure(q, r)

-----------------------------------------------------------------------------
(* The steps. *)

PlanningInit ==
  /\ active \in {S \in SUBSET DOMAIN Documents : \A d \in DOMAIN Documents :
                                                  Cardinality({e \in S : Documents[e].group = Documents[d].group}) = 1}
  /\ indexed = active /\ question = NoQuestion /\ paths = <<>> /\ branches = <<>>

Plan ==
  /\ question = NoQuestion
  /\ \E q \in Questions :
       /\ question' = [plan |-> Predicate(VersionGate(q.scope)), q |-> q]
       /\ paths' = RetrievalPaths(q)
  /\ UNCHANGED <<active, indexed, branches>>

\* _collect_async: the next branch; one that found nothing is not handed on.
Collect ==
  /\ paths # <<>> /\ paths' = Tail(paths)
  /\ \E deaf \in SUBSET (ToSet(Bindings) \X ToSet(Tasks(question.q))) :
       LET items == First(SelectSeq(Retrieved(question.q, question.plan, Head(paths), deaf),
                                    LAMBDA r : Kept(question.q, r)), Head(paths).limit)
       IN branches' = Append(branches, [branch |-> Head(paths).branch, limit |-> Head(paths).limit,
                                        items |-> items, deaf |-> deaf, fresh |-> active = indexed,
                                        active |-> active])
  /\ UNCHANGED <<active, indexed, question>>

\* A version of a document takes the place of another, or of none; later the index knows.
Supersede ==
  /\ paths # <<>> /\ UNCHANGED <<indexed, question, paths, branches>>
  /\ \E d \in DOMAIN Documents \ active :
       active' = {e \in active : Documents[e].group # Documents[d].group} \cup {d}
Reindex == paths # <<>> /\ indexed # active /\ indexed' = active /\ UNCHANGED <<active, question, paths, branches>>

PlanningNext == Plan \/ Collect \/ Supersede \/ Reindex

-----------------------------------------------------------------------------
(* What should hold. *)

\* What the question asks for, in its own words.
ScopeAsked(q, r) == q.scope = {} \/ {Records[r].doc, Documents[Records[r].doc].source} \cap q.scope # {}
PagesAsked(q) == q.pages \cup UNION {q.ranges[k][1]..q.ranges[k][2] : k \in DOMAIN q.ranges}
PageAsked(q, r) == PagesAsked(q) = {} \/ Records[r].first..Records[r].last \cap PagesAsked(q) # {}

\* evidence.py:105, graph.py:692: whatever was planned, a branch brings each item once, within its
\* limits, only of versions in force when it ran, and only what the question allows; what a record
\* does not say is not held against it.
BranchesSound ==
  \A i \in DOMAIN branches :
    LET b == branches[i]
        q == question.q
    IN /\ Len(b.items) <= b.limit /\ Len(b.items) <= Sizes.window /\ IsInjective(b.items)
       /\ \A r \in ToSet(b.items) :
            /\ Records[r].doc \in b.active /\ ScopeAsked(q, r)
            /\ Records[r].first = 0 \/ PageAsked(q, r)
            /\ q.types = {} \/ Records[r].type \in {""} \cup q.types

\* planning_graph.py:507: what is pushed down into the search loses nothing that was asked for.
\* When every provider answers and the index knows the versions in force, the best section that
\* was asked for comes back, if documents limit the search and every constraint is pushed down:
\* names and headings are looked at only among the best hits, as a scope too large to be listed
\* is; a section that does not say its pages or type is pushed out; and the constraints must not be
\* of two kinds when one of them is a choice of pages.
BestIsFound ==
  \A i \in DOMAIN branches :
    LET b == branches[i]
        q == question.q
        p == question.plan
        Wanted == {r \in DOMAIN Records :
                     /\ Records[r].kind = "section_summary" /\ Records[r].space = Bindings[1]
                     /\ Records[r].doc \in b.active /\ Records[r].score[1] > 0
                     /\ q.types = {} \/ Records[r].type \in q.types
                     /\ ScopeAsked(q, r) /\ (p.docs = {} \/ Records[r].doc \in p.docs)
                     /\ PageAsked(q, r)}
    IN (/\ b.branch = "vector" /\ b.deaf = {} /\ b.fresh /\ Hybrid
        /\ p.strategy = "doc_id_whitelist" \/ q.scope = {}
        /\ q.names = {} /\ q.titles = {} /\ ~q.focus /\ (q.pages = {} \/ q.ranges = <<>>)
        /\ q.types = {} \/ Cardinality(q.pages) + Len(q.ranges) <= 1
        /\ Wanted # {})
       => ByScore(Wanted, 1)[1] \in ToSet(b.items)

RetrievalSound == BranchesSound /\ BestIsFound
==============================================================================
