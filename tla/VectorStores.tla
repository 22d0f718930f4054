----------------------------- MODULE VectorStores -----------------------------
(***************************************************************************)
(* The two summary indexes a deployment may choose, given the same calls:    *)
(* Milvus, with one collection for a kind and a space, a hot and a cold      *)
(* partition and rows that wait in the process until something is read, and  *)
(* SQLite, with one table every call commits to.  The table is what the      *)
(* interface promises; the property is that Milvus keeps up with it.         *)
(*                                                                         *)
(* One process, whose calls follow one another.  An item stands for a        *)
(* summary record with its vector; its score is its similarity to the one    *)
(* question that is asked.                                                 *)
(***************************************************************************)
EXTENDS Integers, Sequences, FiniteSets, SequencesExt

CONSTANTS
  Items,       \* what may be stored: [id, kind, space, doc, source, active, ready, tier, dim, score]
  Collection,  \* _collection_name: <<kind, space>> -> name
  Singles,     \* the items upsert_record may be given
  Batches,     \* the sequences of items upsert_records may be given
  Scopes,      \* what a search may be limited to: sets of documents, {} for all
  HitLimit, QueryDim,
  BufferSize,  \* _UPSERT_BUFFER_SIZE
  MaxVectorCalls, MaxVectorFaults

\* What an instance must assume of the constants.  Milvus keeps letters and digits of the name
\* of a space: two spaces of one such name would share a collection.
VectorConstants ==
  /\ \A i, j \in Items : Collection[i.kind, i.space] = Collection[j.kind, j.space]
                         => i.kind = j.kind /\ i.space = j.space
  /\ \A i, j \in Items : i.id = j.id /\ i.kind = j.kind => i.doc = j.doc
  /\ BufferSize \in Nat \ {0} /\ MaxVectorCalls \in Nat /\ MaxVectorFaults \in Nat

VARIABLES
  table,   \* SQLite: a set of items, one of a key
  rows,    \* Milvus: a set of [part, item]
  dims,    \* the dimension each collection was created with, 0 before
  buffer,  \* _pending_upserts: by collection, the items in the order they came
  saving,  \* the items upsert_records has left to add, and whether it flushes then
  lost,    \* the keys of calls that raised or died, about which Milvus owes nothing
  answer,  \* the last search, [raised, milvus, sqlite, asked]; forgotten by other calls
  spent    \* [calls, faults]

vectorVars == <<table, rows, dims, buffer, saving, lost, answer, spent>>

Home(i) == Collection[i.kind, i.space]
Homes == {Home(i) : i \in Items}
Key(i) == <<i.id, i.kind, i.space>>
KeysOf(S) == {Key(i) : i \in S}
Rest == [at |-> "rest", left |-> <<>>, flush |-> FALSE]
Silent == [raised |-> TRUE, milvus |-> <<>>, sqlite |-> <<>>, asked |-> <<>>]

VectorInit ==
  /\ table = {} /\ rows = {} /\ lost = {} /\ saving = Rest /\ answer = Silent
  /\ dims = [c \in Homes |-> 0] /\ buffer = [c \in Homes |-> <<>>]
  /\ spent = [calls |-> 0, faults |-> 0]

-----------------------------------------------------------------------------
(* The buffer and its way to the server. *)

\* _partition_name.
Partition(i) == IF i.tier = "cold" \/ ~i.active THEN "cold" ELSE "hot"

\* ON CONFLICT DO UPDATE.
Put(S, i) == {j \in S : Key(j) # Key(i)} \cup {i}

\* _drain_pending_collection: the last item of each key, in one upsert for a partition.
Latest(s) == FoldLeft(Put, {}, s)
Waiting(b, D) ==
  {w \in {[home |-> c, items |-> {i \in Latest(b[c]) : Partition(i) = p}] : c \in D, p \in {"hot", "cold"}} :
     w.items # {}}

\* The server replaces the row of a key wherever it lies, and refuses a vector of another
\* dimension than the collection's.
Upserted(R, S) == {r \in R : Key(r.item) \notin KeysOf(S)}
                  \cup {[part |-> Partition(i), item |-> i] : i \in S}
Refused(w) == \E i \in w.items : i.dim # dims'[w.home]

\* A collection's buffer is emptied once all its upserts are done.
Left(b, D, done) == [c \in Homes |-> IF c \in D /\ \A w \in Waiting(b, D) \ done : w.home # c
                                     THEN <<>> ELSE b[c]]
Arrived(done) == Upserted(rows, UNION {w.items : w \in done})

\* _flush_dirty_collections of the collections D: to its end, or until an upsert raises, one
\* collection after the other.
Flushes(b, D) == \A w \in Waiting(b, D) : ~Refused(w)
Breaks(b, D, done) ==
  \E f \in Waiting(b, D) \ done :
    /\ \A w \in done : ~Refused(w) /\ \A v \in Waiting(b, D) \ done : v.home = w.home => w.home = f.home
    /\ Refused(f) \/ spent.faults < MaxVectorFaults
    /\ spent' = IF Refused(f) THEN spent ELSE [spent EXCEPT !.faults = @ + 1]
Raises(b, D) ==
  \E done \in SUBSET Waiting(b, D) :
    Breaks(b, D, done) /\ rows' = Arrived(done) /\ buffer' = Left(b, D, done)

-----------------------------------------------------------------------------
(* The calls that store. *)

Called == spent.calls < MaxVectorCalls /\ spent' = [spent EXCEPT !.calls = @ + 1]

\* upsert_record, or upsert_records, which flushes at the end.  SQLite commits it as one.
Saves(s, flush) ==
  /\ saving.at = "rest" /\ Called
  /\ saving' = [at |-> "adds", left |-> s, flush |-> flush]
  /\ table' = FoldLeft(Put, table, s) /\ lost' = lost \ KeysOf(ToSet(s)) /\ answer' = Silent
  /\ UNCHANGED <<rows, dims, buffer>>
Upsert == \E i \in Singles : Saves(<<i>>, FALSE)
UpsertRecords == \E s \in Batches : Saves(s, TRUE)

\* A call that raised has not stored what it had left.
GivesUp == saving' = Rest /\ lost' = lost \cup KeysOf(ToSet(Tail(saving.left)))
GoesOn == saving' = [saving EXCEPT !.left = Tail(@)] /\ UNCHANGED <<lost, spent>>

\* upsert: open or create the collection, append, drain it when the buffer is full.
Adds ==
  /\ saving.at = "adds" /\ saving.left # <<>> /\ UNCHANGED <<table, answer>>
  /\ LET i == Head(saving.left)
         b == [buffer EXCEPT ![Home(i)] = Append(@, i)]
     IN /\ dims' = [dims EXCEPT ![Home(i)] = IF @ = 0 THEN i.dim ELSE @]
        /\ \/ /\ Len(b[Home(i)]) < BufferSize
              /\ buffer' = b /\ UNCHANGED rows /\ GoesOn
           \/ /\ Len(b[Home(i)]) >= BufferSize /\ Flushes(b, {Home(i)})
              /\ rows' = Arrived(Waiting(b, {Home(i)}))
              /\ buffer' = Left(b, {Home(i)}, Waiting(b, {Home(i)})) /\ GoesOn
           \/ Len(b[Home(i)]) >= BufferSize /\ Raises(b, {Home(i)}) /\ GivesUp

Returns ==
  /\ saving.at = "adds" /\ saving.left = <<>> /\ saving' = Rest
  /\ UNCHANGED <<table, dims, lost, answer>>
  /\ \/ ~saving.flush /\ UNCHANGED <<rows, buffer, spent>>
     \/ /\ saving.flush /\ Flushes(buffer, Homes) /\ UNCHANGED spent
        /\ rows' = Arrived(Waiting(buffer, Homes))
        /\ buffer' = Left(buffer, Homes, Waiting(buffer, Homes))
     \/ saving.flush /\ Raises(buffer, Homes)

-----------------------------------------------------------------------------
(* The calls that read or delete: all of them flush first. *)

\* get_entry, existing_item_ids, count_vectors and close see the rows once nothing waits.
Looks ==
  /\ saving.at = "rest" /\ answer' = Silent /\ UNCHANGED <<table, dims, saving, lost>>
  /\ \E c \in Homes : buffer[c] # <<>>
  /\ \/ /\ Flushes(buffer, Homes) /\ UNCHANGED spent
        /\ rows' = Arrived(Waiting(buffer, Homes))
        /\ buffer' = Left(buffer, Homes, Waiting(buffer, Homes))
     \/ Raises(buffer, Homes)

Ranked(S) == LET Score(i) == IF i.dim = QueryDim THEN i.score ELSE 0
             IN SetToSortSeq(S, LAMBDA i, j : \/ Score(i) > Score(j)
                                              \/ (Score(i) = Score(j) /\ i.id < j.id))
Top(S) == LET s == Ranked(S) IN SubSeq(s, 1, IF Len(s) < HitLimit THEN Len(s) ELSE HitLimit)

\* search: what is active and ready; the cold partition only when the hot one has nothing.
InScope(i, scope) == i.active /\ i.ready /\ (scope = {} \/ i.doc \in scope)
Sought(R, kind, space, scope) ==
  LET Found(parts) == {r.item : r \in {r \in R : /\ r.part \in parts /\ InScope(r.item, scope)
                                                 /\ r.item.kind = kind /\ r.item.space = space}}
  IN Top(IF Found({"hot"}) # {} THEN Found({"hot"}) ELSE Found({"hot", "cold"}))

\* _matches_expr and _vector_scope_tokens: a scope may name the source of an item as well.
Selected(kind, space, scope) ==
  Top({i \in table : /\ i.kind = kind /\ i.space = space /\ i.active /\ i.ready
                     /\ scope = {} \/ {i.doc, i.source} \cap scope # {}})

Search ==
  /\ saving.at = "rest" /\ UNCHANGED <<table, dims, saving, lost>>
  /\ \E at \in DOMAIN Collection, scope \in Scopes :
       \/ /\ Flushes(buffer, Homes) /\ UNCHANGED spent
          /\ rows' = Arrived(Waiting(buffer, Homes))
          /\ buffer' = Left(buffer, Homes, Waiting(buffer, Homes))
          /\ answer' = IF dims[Collection[at]] \notin {0, QueryDim} THEN Silent
                       ELSE [raised |-> FALSE, asked |-> <<at[1], at[2], scope>>,
                             milvus |-> Sought(rows', at[1], at[2], scope),
                             sqlite |-> Selected(at[1], at[2], scope)]
       \/ Raises(buffer, Homes) /\ answer' = Silent

\* delete: the rows of a document, collection by collection; SQLite deletes them at once.
OfDoc(d) == {Key(i) : i \in {j \in Items : j.doc = d}}
Delete ==
  /\ saving.at = "rest" /\ answer' = Silent /\ UNCHANGED <<dims, saving>>
  /\ \E d \in {i.doc : i \in Items} :
       /\ table' = {i \in table : i.doc # d}
       /\ \/ /\ Called /\ Flushes(buffer, Homes) /\ lost' = lost \ OfDoc(d)
             /\ rows' = {r \in Arrived(Waiting(buffer, Homes)) : r.item.doc # d}
             /\ buffer' = Left(buffer, Homes, Waiting(buffer, Homes))
          \/ /\ Flushes(buffer, Homes) /\ lost' = lost \cup OfDoc(d)
             /\ spent.faults < MaxVectorFaults /\ spent' = [spent EXCEPT !.faults = @ + 1]
             /\ \E done \in SUBSET Homes \ {Homes} :
                  rows' = {r \in Arrived(Waiting(buffer, Homes)) : r.item.doc # d \/ Home(r.item) \notin done}
             /\ buffer' = Left(buffer, Homes, Waiting(buffer, Homes))
          \/ Raises(buffer, Homes) /\ lost' = lost \cup OfDoc(d)

\* The process ends: what waits is gone, and what the call at work had left.
Dies ==
  /\ spent.faults < MaxVectorFaults /\ spent' = [spent EXCEPT !.faults = @ + 1]
  /\ lost' = lost \cup KeysOf(UNION {ToSet(buffer[c]) : c \in Homes} \cup ToSet(saving.left))
  /\ buffer' = [c \in Homes |-> <<>>] /\ saving' = Rest /\ answer' = Silent
  /\ UNCHANGED <<table, rows, dims>>

VectorNext == Upsert \/ UpsertRecords \/ Adds \/ Returns \/ Looks \/ Search \/ Delete \/ Dies

-----------------------------------------------------------------------------
(* What should hold. *)

\* What the server holds and what is on its way there.
View == {i \in {r.item : r \in rows} : Key(i) \notin KeysOf(ToSet(buffer[Home(i)]))}
        \cup UNION {Latest(buffer[c]) : c \in Homes}

\* milvus_vector_repo.py:386: between calls, the server with the buffer holds what SQLite holds,
\* whatever upserts failed half way, except for keys of calls that raised or of rows that were
\* still in the buffer when the process died.
KeepsUp ==
  saving.at = "rest" =>
    {i \in View : Key(i) \notin lost} = {i \in table : Key(i) \notin lost}

\* milvus_vector_repo.py:102: a search sees all that was stored before it, and nothing that was
\* deleted: what it answers is the best of the hot items, or of the cold when there are none,
\* and SQLite would find each of them.
AnswersAgree ==
  ~answer.raised /\ lost = {} =>
    LET kind == answer.asked[1]
        space == answer.asked[2]
        all == {i \in table : i.kind = kind /\ i.space = space /\ InScope(i, answer.asked[3])}
        hot == {i \in all : Partition(i) = "hot"}
    IN /\ answer.milvus = Top(IF hot # {} THEN hot ELSE all)
       /\ Len(answer.sqlite) < HitLimit => ToSet(answer.milvus) \subseteq ToSet(answer.sqlite)

VectorsSound == KeepsUp /\ AnswersAgree
==============================================================================
