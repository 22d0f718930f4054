----------------------------- MODULE MemoryFiles -----------------------------
(***************************************************************************)
(* Persistent memory (rag/agent/memory/persistent): one file per memory, an  *)
(* index written after each of them, an extractor that adds or merges what a *)
(* run has taught, and a consolidator that merges and deletes.  A write may  *)
(* be refused and the process may die between any two; what the language     *)
(* model answers is chosen freely, in the formats its prompts ask for.       *)
(*                                                                         *)
(* A memory is a set of facts under a name; whether it is about the user is  *)
(* part of the name.  A merge is asked for in the format of an extraction    *)
(* and read in the format of a file, so it comes back without its name.      *)
(***************************************************************************)
EXTENDS Naturals, Sequences, FiniteSets, FiniteSetsExt, SequencesExt

CONSTANTS
  Names,        \* names of memories, "unnamed" among them, in the order files are listed in
  UserNames,    \* those of memories of type user
  Findings,     \* what the model may find in a run: sequences of memories
  Threshold,    \* consolidation_threshold
  LlmThreshold, MaxSelected, MaxLoaded,   \* of the selector; MaxLoaded counts facts
  MaxRuns, MaxFaults                 \* bounds: runs extracted from, faults

VARIABLES
  files,    \* the memories on disk
  index,    \* the names MEMORY.md lists
  work,     \* what the running extraction has left to do
  stored,   \* history: facts that were on disk
  dropped,  \* history: facts that the model's answers left out
  stale,    \* history: the last rebuild of the index failed or was cut off
  runs, faults

memoryVars == <<files, index, work, stored, dropped, stale, runs, faults>>

Files == ToSet(Names)
Memory(name, facts) == [name |-> name, facts |-> facts]
NoFacts == {}
Present == {n \in Files : files[n] # NoFacts}
FactsOf(names) == UNION {files[n] : n \in names}
Idle == [at |-> "idle"]

MemoryInit ==
  /\ files = [n \in Files |-> NoFacts] /\ index = {} /\ work = Idle
  /\ stored = {} /\ dropped = {} /\ stale = FALSE /\ runs = 0 /\ faults = 0

-----------------------------------------------------------------------------
(* Extraction. *)

\* The model finds memories in a run.
Extract(found) ==
  /\ work.at = "idle" /\ runs < MaxRuns
  /\ work' = [at |-> "extract", found |-> found] /\ runs' = runs + 1
  /\ UNCHANGED <<files, index, stored, dropped, stale, faults>>

\* _find_similar and _merge; the similar memory itself is not deleted.
Merged(facts) == Memory("unnamed", facts)
Placed(new, similar) ==
  IF similar = "none" THEN new ELSE Merged(files[similar] \cup new.facts)

PlaceNext ==
  /\ work.at = "extract" /\ work.found # <<>>
  /\ LET new == Head(work.found)
         rest == [at |-> "extract", found |-> Tail(work.found)]
     IN \E similar \in Present \cup {"none"} :
          \/ /\ similar # "none" /\ work' = rest     \* the merge failed: nothing is written
             /\ dropped' = dropped
          \/ LET memory == Placed(new, similar)
             IN /\ work' = [at |-> "write", memory |-> memory, then |-> rest]
                /\ dropped' = dropped \cup (files[memory.name] \ memory.facts)
  /\ UNCHANGED <<files, index, stored, stale, runs, faults>>

-----------------------------------------------------------------------------
(* write_memory, delete_memory: the file, then the index. *)

Fault == faults < MaxFaults /\ faults' = faults + 1

WriteFile ==
  /\ work.at = "write"
  /\ files' = [files EXCEPT ![work.memory.name] = work.memory.facts]
  /\ stored' = stored \cup work.memory.facts /\ dropped' = dropped \ work.memory.facts
  /\ work' = [at |-> "reindex", then |-> work.then] /\ stale' = TRUE
  /\ UNCHANGED <<index, runs, faults>>

\* The caller is told, and goes on with what is left; a consolidation will not delete.
WriteFails ==
  /\ work.at = "write" /\ Fault
  /\ work' = IF work.then.at = "settle" THEN [work.then EXCEPT !.ok = FALSE] ELSE work.then
  /\ UNCHANGED <<files, index, stored, dropped, stale, runs>>

DeleteFile ==
  /\ work.at = "delete"
  /\ files' = [files EXCEPT ![work.name] = NoFacts] /\ stale' = TRUE
  /\ work' = [at |-> "reindex", then |-> work.then]
  /\ UNCHANGED <<index, stored, dropped, runs, faults>>

DeleteFails ==
  /\ work.at = "delete" /\ Fault
  /\ work' = work.then
  /\ UNCHANGED <<files, index, stored, dropped, stale, runs>>

\* rebuild_index, from the files that are there; nobody is told when it fails.
RebuildIndex ==
  /\ work.at = "reindex"
  /\ index' = Present /\ stale' = FALSE
  /\ work' = work.then
  /\ UNCHANGED <<files, stored, dropped, runs, faults>>
RebuildFails ==
  /\ work.at = "reindex" /\ Fault
  /\ work' = work.then
  /\ UNCHANGED <<files, index, stored, dropped, stale, runs>>

-----------------------------------------------------------------------------
(* Consolidation. *)

Decision(action, name, with) == [action |-> action, name |-> name, with |-> with]
Mentions(d) == {d.name, d.with} \ {"none"}
Decisions ==
  LET single == {Decision(a, n, "none") : a \in {"KEEP", "DELETE"}, n \in Present}
      merges == {Decision("MERGE", n, m) : n \in Present, m \in Present}
  IN single \cup {d \in merges : d.name # d.with}

\* Up to two decisions; the memories that none mentions are kept.
Answers == UNION {[1..k -> Decisions] : k \in 1..2}

\* What one decision keeps, when its merge, if it is one, comes back or fails.
KeptBy(d, merges) ==
  IF d.action = "DELETE" THEN <<>>
  ELSE IF d.action = "KEEP" THEN <<Memory(d.name, files[d.name])>>
  ELSE IF merges THEN <<Merged(files[d.name] \cup files[d.with])>>
  ELSE <<Memory(d.name, files[d.name]), Memory(d.with, files[d.with])>>

\* Of two memories of one name the first is kept.
FirstOfEach(memories) ==
  FoldLeft(LAMBDA kept, m : IF \E k \in ToSet(kept) : k.name = m.name THEN kept ELSE Append(kept, m),
           <<>>, memories)

Final(ds, merges) ==
  LET mentioned == UNION {Mentions(ds[i]) : i \in DOMAIN ds}
      others == SelectSeq(Names, LAMBDA n : n \in Present \ mentioned)
  IN FirstOfEach(FlattenSeq([i \in DOMAIN ds |-> KeptBy(ds[i], merges[i])])
                 \o [i \in DOMAIN others |-> Memory(others[i], files[others[i]])])

\* After the writes: delete what is not kept, unless a write failed.
Deleting(settle) == IF settle.ok THEN settle.gone ELSE <<>>

\* Too few memories, or the model fails or decides nothing.
SkipConsolidation ==
  /\ work.at = "extract" /\ work.found = <<>>
  /\ work' = Idle
  /\ UNCHANGED <<files, index, stored, dropped, stale, runs, faults>>

Consolidate ==
  /\ work.at = "extract" /\ work.found = <<>> /\ Cardinality(Present) >= Threshold
  /\ \E ds \in Answers : \E merges \in [DOMAIN ds -> BOOLEAN] :
       LET final == Final(ds, merges)
           names == {final[i].name : i \in DOMAIN final}
       IN /\ \A i \in DOMAIN ds : ds[i].action # "MERGE" => ~merges[i]
          /\ work' = [at |-> "settle", ok |-> TRUE, writes |-> final,
                      gone |-> SelectSeq(Names, LAMBDA n : n \in Present \ names)]
          /\ dropped' = dropped \cup (FactsOf(Present) \ UNION {final[i].facts : i \in DOMAIN final})
  /\ UNCHANGED <<files, index, stored, stale, runs, faults>>

Settle ==
  /\ work.at = "settle"
  /\ work' = IF work.writes # <<>>
               THEN [at |-> "write", memory |-> Head(work.writes),
                     then |-> [work EXCEPT !.writes = Tail(@)]]
             ELSE IF Deleting(work) # <<>>
               THEN [at |-> "delete", name |-> Head(work.gone),
                     then |-> [work EXCEPT !.gone = Tail(@)]]
             ELSE IF work.ok THEN [at |-> "reindex", then |-> Idle]
             ELSE Idle
  /\ UNCHANGED <<files, index, stored, dropped, stale, runs, faults>>

Dies == work.at # "idle" /\ Fault /\ work' = Idle
        /\ UNCHANGED <<files, index, stored, dropped, stale, runs>>

MemoryNext ==
  \/ \E found \in Findings : Extract(found)
  \/ PlaceNext \/ WriteFile \/ WriteFails \/ DeleteFile \/ DeleteFails \/ RebuildIndex
  \/ RebuildFails \/ SkipConsolidation \/ Consolidate \/ Settle \/ Dies

MemorySpec == MemoryInit /\ [][MemoryNext]_memoryVars

-----------------------------------------------------------------------------
(* MemorySelector.select: the memories a run starts with. *)

\* _truncate_to_budget: the first always, then as many as have room.
Truncated(memories) ==
  LET Size(k) == FoldLeft(LAMBDA sum, n : sum + Cardinality(files[n]), 0, SubSeq(memories, 1, k))
      fitting == {k \in DOMAIN memories : \A j \in 2..k : Size(j) <= MaxLoaded}
  IN IF memories = <<>> THEN <<>> ELSE SubSeq(memories, 1, Min({Max(fitting), MaxSelected}))

\* picked: what the model named, or the newest when it did not answer.
Selected(picked) ==
  LET all == SelectSeq(Names, LAMBDA n : n \in Present)
      users == SelectSeq(all, LAMBDA n : n \in UserNames)
      others == SelectSeq(all, LAMBDA n : n \notin UserNames)
      slots == MaxSelected - Len(users)
  IN IF index = {} THEN <<>>
     ELSE IF Len(all) <= LlmThreshold THEN Truncated(users \o others)
     ELSE IF slots <= 0 THEN Truncated(users)
     ELSE Truncated(users \o SelectSeq(picked, LAMBDA n : n \in ToSet(others)))

-----------------------------------------------------------------------------
(* Properties. *)

\* consolidator.py:180: a fact that was on disk is on disk, unless an answer of the model left
\* it out, whatever write fails and wherever the process dies.
FactsKept == stored \ dropped \subseteq FactsOf(Files)

\* store.py:144: between runs the index lists the files, unless the last rebuild was lost.
IndexAgrees == work = Idle /\ ~stale => index = Present

\* selector.py:51: what is loaded is on disk, once, users first, and not nothing when the index
\* lists a memory that is there.
SelectionSound ==
  \A picked \in {s \in [1..2 -> Files] : IsInjective(s)} :
    LET loaded == Selected(picked)
    IN /\ Len(loaded) <= MaxSelected /\ IsInjective(loaded) /\ ToSet(loaded) \subseteq Present
       /\ index # {} /\ Present # {} /\ Len(SelectSeq(Names, LAMBDA n : n \in Present)) <= LlmThreshold
            => loaded # <<>>
       /\ \A i, j \in DOMAIN loaded : loaded[j] \in UserNames /\ i < j => loaded[i] \in UserNames

MemoriesSound == FactsKept /\ IndexAgrees /\ SelectionSound
=============================================================================
