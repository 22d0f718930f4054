---------------------------- MODULE EvidenceFlow ----------------------------
(***************************************************************************)
(* From the hits of the retrieval branches to the evidence in the prompt:   *)
(* fusion, clean-up and reranking, the reading of the passages behind the   *)
(* first targets, the last look at the documents, and the token budget.     *)
(*                                                                         *)
(* This is the path the runtime builds: a vector branch, an asset branch    *)
(* when the question asks for assets, no web search, no graph expansion.    *)
(* A hit is the number of its summary record; numbers order as ids do.      *)
(* Scores are in millionths, rounded down.  While a question is answered     *)
(* documents are retired: the index the branches read may be behind.        *)
(***************************************************************************)
EXTENDS Integers, Sequences, FiniteSets, SequencesExt, FiniteSetsExt

CONSTANTS
  Hits,         \* the records: [asset, target, doc, live, feature, tokens]
  Vector,       \* what the vector branch may find: sequences of hits
  Special,      \* what the asset branch may find
  RerankScores, \* what the reranker may say: functions from hits, <<>> when it is off
  Limits,       \* [pool, top, per_section, targets, items, passage]: the limits of the path
  Groups,       \* the section prefix of each target
  Neighbours,   \* the targets next to a target, which are read along with it
  Windows,      \* the passages of a target: sequences of token counts
  Unreadable,   \* the sets of targets the object store may not deliver in time
  Docs,
  OutputTokens, \* max_output_tokens of the grounding
  Budgets       \* the token budgets of the evidence

\* What an instance must assume of the constants.
EvidenceConstants ==
  /\ \A h \in DOMAIN Hits : Hits[h].doc \in Docs /\ {Hits[h].feature, Hits[h].tokens} \subseteq Nat
  /\ Budgets \subseteq Nat \ {0} /\ OutputTokens \in Nat \ {0}

VARIABLES
  found,    \* the branches and their hits
  visible,  \* the documents that are active, ready and not retired
  unread,   \* the targets whose text the object store does not deliver in time
  flow      \* what the pipeline has so far

evidenceVars == <<found, visible, unread, flow>>

-----------------------------------------------------------------------------
(* ReciprocalRankFusion. *)

Weight(rank) == 1000000 \div (60 + rank)
Rank(s, h) == CHOOSE i \in DOMAIN s : s[i] = h

\* Branches that found nothing are not there; every branch weighs the same.  A fused score
\* is kept as its sum over the branches, Many times too large.
Many(branches) == Len(SelectSeq(branches, LAMBDA b : b # <<>>))
FusedHits(branches) == UNION {ToSet(branches[i]) : i \in DOMAIN branches}
Fused(branches) ==
  [h \in FusedHits(branches) |->
     MapThenSumSet(LAMBDA i : IF h \in ToSet(branches[i]) THEN Weight(Rank(branches[i], h)) ELSE 0,
                   DOMAIN branches)]

-----------------------------------------------------------------------------
(* IndustrialRerankService: clean-up by fused score, then the final score.  *)

Better(score, a, b) == score[a] > score[b] \/ (score[a] = score[b] /\ a < b)
Best(n, S, score) == {h \in S : Cardinality({g \in S : Better(score, g, h)}) < n}

Deduped(S, score) ==
  {h \in S : \A g \in S : Hits[g].target = Hits[h].target => ~Better(score, g, h)}

Governed(S) == {h \in S : Hits[h].live}

\* The floors of the two families: 0.01 and a fifth of the best for text, 0.001 and a tenth of
\* the best for assets.  _filter_versions before it drops nothing: its key holds the hit.
AboveFloor(S, score, many) ==
  LET Family(h) == {g \in S : Hits[g].asset = Hits[h].asset}
      Top(h) == CHOOSE g \in Family(h) : \A f \in Family(h) : score[f] <= score[g]
  IN {h \in S : IF Hits[h].asset
                THEN score[h] >= 1000 * many /\ 10 * score[h] >= score[Top(h)]
                ELSE score[h] >= 10000 * many /\ 5 * score[h] >= score[Top(h)]}

Diverse(S, score) ==
  {h \in S : h \in Best(Limits.per_section, {g \in S : Groups[Hits[g].target] = Groups[Hits[h].target]}, score)}

\* What is left once cleaned up.
Cleaned(score, many) ==
  Diverse(AboveFloor(Governed(Deduped(DOMAIN score, score)), score, many), score)

\* _fuse_scores: retrieval rank, rerank rank if the reranker spoke, and the features; a hit
\* outside the pool the reranker is shown has no score and ranks after all that have one.
Final(S, score, pool, rerank) ==
  LET Place(h, T, f) == 1 + Cardinality({g \in T : Better(f, g, h)})
      Reranked(h) == IF h \in pool THEN Place(h, pool, rerank)
                     ELSE 1 + Cardinality(pool) + Cardinality({g \in S \ pool : g < h})
  IN [h \in S |-> Weight(Place(h, S, score)) + 200 * Hits[h].feature
                  + IF rerank = <<>> \/ S = {} THEN 0 ELSE Weight(Reranked(h))]

\* arank and the collapse of _rank_branches; the order of the branches must not matter.
FirstOf(s, n) == SubSeq(s, 1, IF Len(s) < n THEN Len(s) ELSE n)
OncePerTarget(order) ==
  LET First(i) == \A j \in 1..i - 1 : Hits[order[j]].target # Hits[order[i]].target
  IN SelectSeq([i \in DOMAIN order |-> IF First(i) THEN order[i] ELSE 0], LAMBDA h : h # 0)
Ordered(final, score) ==
  LET Tie(h) == 100 * final[h] + Hits[h].feature
  IN SetToSortSeq(DOMAIN final, LAMBDA a, b : \/ Tie(a) > Tie(b)
                                             \/ (Tie(a) = Tie(b) /\ Better(score, a, b)))
RankedFrom(S, score, rerank) ==
  FirstOf(OncePerTarget(Ordered(Final(S, score, Best(Limits.pool, S, score), rerank), score)),
          Limits.top)
RankedBy(score, many, rerank) == RankedFrom(Cleaned(score, many), score, rerank)
Ranked(branches, rerank) == RankedBy(Fused(branches), Many(branches), rerank)

-----------------------------------------------------------------------------
(* GroundingService and the pipeline: an evidence item is a record.         *)

Item(h) == [target |-> Hits[h].target, window |-> 0, doc |-> Hits[h].doc,
            group |-> Groups[Hits[h].target], tokens |-> Hits[h].tokens]

\* The passages of a target and of its neighbours; a text that does not arrive leaves one
\* passage that says so, and the document of the item that led there is kept.
WindowsOf(item, t) ==
  LET At(i, n) == [item EXCEPT !.target = t, !.group = Groups[t], !.window = i, !.tokens = n]
  IN IF t \in unread THEN <<At(1, 1)>> ELSE [i \in DOMAIN Windows[t] |-> At(i, Windows[t][i])]
Near(t) == <<t>> \o Neighbours[t]
Passages(item) ==
  FlattenSeq([i \in DOMAIN Near(item.target) |-> WindowsOf(item, Near(item.target)[i])])

\* The passages in order while the output has room, the last one cut to what is left.
Filled(passages, room) ==
  LET Fill(acc, p) ==
        LET left == room - acc.used
            cut == IF p.tokens > left THEN left ELSE p.tokens
        IN IF left = 0 \/ p.tokens = 0 THEN acc
           ELSE [used |-> acc.used + cut, items |-> Append(acc.items, [p EXCEPT !.tokens = cut])]
  IN FoldLeft(Fill, [used |-> 0, items |-> <<>>], passages).items

Grounded(items) ==
  LET read == FirstOf(items, Limits.targets)
      grounded == Filled(FlattenSeq([i \in DOMAIN read |-> Passages(read[i])]), OutputTokens)
  IN IF grounded = <<>> THEN read ELSE grounded

\* _section_diversity_filter: by section, in the order sections first appear.
Spread(items) ==
  IF Len(items) <= Limits.per_section THEN items
  ELSE LET first == SelectSeq([i \in DOMAIN items |-> i],
                      LAMBDA i : \A j \in 1..i - 1 : items[j].group # items[i].group)
       IN FlattenSeq([k \in DOMAIN first |->
            FirstOf(SelectSeq(items, LAMBDA e : e.group = items[first[k]].group),
                    Limits.per_section)])

\* A last look at the wrong moment: at what the index said.
SeenByIndex(items) == SelectSeq(items, LAMBDA e : \E h \in DOMAIN Hits : Hits[h].doc = e.doc)
\* SynthesisService.filter_evidence: the documents as they are now.
StillVisible(items) == SelectSeq(items, LAMBDA e : e.doc \in visible)

\* _allocate_token_budgets, in the order of the scores: what fits is given, less than 40 is
\* nothing, and an item with nothing is cut to one token.
Allocated(items, order, budget) ==
  LET Give(acc, i) ==
        LET want == Min({items[i].tokens, budget - acc.used, Limits.passage})
            given == IF want < 40 THEN 0 ELSE want
        IN [acc EXCEPT !.used = @ + given, !.given[i] = IF given = 0 THEN 1 ELSE given]
      tokens == [i \in DOMAIN items |-> items[i].tokens]
  IN IF FoldLeft(LAMBDA n, k : n + k, 0, tokens) <= budget THEN tokens
     ELSE FoldLeft(Give, [used |-> 0, given |-> tokens], order).given

\* truncate: family, score, group, document and place decide which items are kept, in their
\* order, and which of them is served first; the model leaves both open.
MostItems(items, budget) == Min({Limits.items, budget, Len(items)})
Kept(items, budget) ==
  {LET places == SetToSortSeq(S, <) IN [k \in DOMAIN places |-> items[places[k]]] :
     S \in kSubset(MostItems(items, budget), DOMAIN items)}
Truncations(items, budget) ==
  {LET given == Allocated(kept, order, budget)
   IN [i \in DOMAIN kept |-> [kept[i] EXCEPT !.tokens = given[i]]] :
     kept \in Kept(items, budget), order \in SetToSeqs(1..MostItems(items, budget))}

-----------------------------------------------------------------------------
(* The question. *)

EvidenceInit ==
  /\ found \in {<<v>> : v \in Vector} \cup {<<v, s>> : v \in Vector, s \in Special}
  /\ visible = Docs
  /\ unread \in Unreadable
  /\ \E r \in RerankScores, b \in Budgets :
       flow = [at |-> "found", rerank |-> r, budget |-> b, ranked |-> <<>>, items |-> <<>>, seen |-> {}]

RankBranches ==
  /\ flow.at = "found"
  /\ flow' = [flow EXCEPT !.at = "ranked", !.ranked = Ranked(found, flow.rerank)]
  /\ UNCHANGED <<found, visible, unread>>

Ground ==
  /\ flow.at = "ranked"
  /\ flow' = [flow EXCEPT !.at = "grounded",
                !.items = Grounded([i \in DOMAIN flow.ranked |-> Item(flow.ranked[i])])]
  /\ UNCHANGED <<found, visible, unread>>

BuildContext ==
  /\ flow.at = "grounded"
  /\ \E items \in Truncations(StillVisible(Spread(flow.items)), flow.budget) :
       flow' = [flow EXCEPT !.at = "asked", !.seen = visible, !.items = items]
  /\ UNCHANGED <<found, visible, unread>>

Retire(d) ==
  /\ flow.at # "asked" /\ d \in visible
  /\ visible' = visible \ {d}
  /\ UNCHANGED <<found, unread, flow>>

EvidenceNext ==
  \/ RankBranches \/ Ground \/ BuildContext
  \/ \E d \in Docs : Retire(d)

EvidenceSpec == EvidenceInit /\ [][EvidenceNext]_evidenceVars

-----------------------------------------------------------------------------
(* Properties. *)

\* l3_l4_engine.py:375: however the branches overlap and in whichever order they come back,
\* the ranking is the same, names no target twice and no dead record, and keeps within its
\* limits.
RankingSound ==
  flow.at = "ranked" =>
    LET r == flow.ranked IN
    /\ r = Ranked(Reverse(found), flow.rerank)
    /\ \A i, j \in DOMAIN r : i # j => Hits[r[i]].target # Hits[r[j]].target
    /\ \A i \in DOMAIN r : Hits[r[i]].live /\ r[i] \in FusedHits(found)
    /\ Len(r) <= Limits.top
    /\ \A i \in DOMAIN r : Cardinality({j \in DOMAIN r :
         Groups[Hits[r[j]].target] = Groups[Hits[r[i]].target]}) <= Limits.per_section

\* query_pipeline.py:234, context.py:83: a document retired before the context is built is not
\* in it, whatever the index and the grounding still said of it; the passages come from the
\* ranked targets or their neighbours; and all but the items that get a single token fit the
\* budget.
ContextSound ==
  flow.at = "asked" =>
    LET tokens(i) == flow.items[i].tokens
    IN /\ \A i \in DOMAIN flow.items :
            /\ flow.items[i].doc \in flow.seen
            /\ \E h \in ToSet(flow.ranked) : flow.items[i].target \in ToSet(Near(Hits[h].target))
       /\ Len(flow.items) <= Limits.items
       /\ MapThenSumSet(LAMBDA i : IF tokens(i) = 1 THEN 0 ELSE tokens(i), DOMAIN flow.items)
            <= flow.budget

EvidenceSound == RankingSound /\ ContextSound

\* grounding_service.py:409: no passage is in the context twice.
PassagesOnce ==
  flow.at = "asked" =>
    \A i, j \in DOMAIN flow.items :
      i # j => <<flow.items[i].target, flow.items[i].window>>
                 # <<flow.items[j].target, flow.items[j].window>>

\* What "text_plus_asset" says: a question routed to text and assets keeps the text it found.
TextKept ==
  flow.at = "ranked" /\ Len(found) = 2 /\ found[1] # <<>> /\ Hits[found[1][1]].live =>
    \E i \in DOMAIN flow.ranked : ~Hits[flow.ranked[i]].asset
=============================================================================
