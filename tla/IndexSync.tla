----------------------------- MODULE IndexSync -----------------------------
(***************************************************************************)
(* The summary index of one document and the queue that repairs it: the    *)
(* document's row in the metadata repository, its vectors in the summary    *)
(* index, and its only processing_state row, which insert, delete, rebuild, *)
(* the index-sync queue and the storage-lifecycle queue all write.          *)
(*                                                                         *)
(* A step is one call to a repository.  A read-modify-write of the          *)
(* repository (get, model_copy, save) is two steps: Read copies what the    *)
(* call found, and the step proper writes from that copy.                   *)
(***************************************************************************)
EXTENDS Naturals, FiniteSets

CONSTANTS
  Procs,          \* the processes or threads that share the two stores
  Ops,            \* the calls they make: a subset of AllOps
  MayFail,        \* what may raise: "embed", and the vector store's "upsert" and "delete"
  LeasesOutlast,  \* TRUE: a lease only expires when its holder is gone
  MaxCalls,       \* bound on the calls made, queries not counted
  MaxFaults       \* bound on the faults: a call that raises, or a crash

AllOps == {"insert", "delete", "rebuild", "save_summary"}

\* What an instance must assume of the constants.
IndexConstants ==
  /\ IsFiniteSet(Procs) /\ Procs # {}
  /\ Ops \subseteq AllOps
  /\ MayFail \subseteq {"embed", "upsert", "delete"}
  /\ LeasesOutlast \in BOOLEAN
  /\ MaxCalls \in Nat /\ MaxFaults \in Nat

VARIABLES
  doc,      \* the document's row; summary is the revision of its stored summary, 0 for none
  row,      \* its processing_state row
  vectors,  \* the revision its vectors were made from, 0 when there are none
  job,      \* what each process is doing
  calls, faults

vars == <<doc, row, vectors, job, calls, faults>>

NoDoc == [known |-> FALSE, active |-> FALSE, ready |-> FALSE, tier |-> "hot", summary |-> 0]

\* lease: "none", "live" or "expired"; due: the retry backoff has passed.
Row(stage, status) == [stage |-> stage, status |-> status, op |-> "none", anchor |-> 0,
                       lease |-> "none", due |-> TRUE]
NoRow == Row("none", "none")

\* task: the row as it was claimed; held and seen: copies of the two rows, usable when fresh.
Idle == [at |-> "idle", rev |-> 0, urgent |-> FALSE, left |-> 0, tier |-> "hot",
         task |-> NoRow, held |-> NoDoc, seen |-> NoRow, fresh |-> FALSE]

Init ==
  /\ doc = NoDoc /\ row = NoRow /\ vectors = 0
  /\ job = [p \in Procs |-> Idle]
  /\ calls = 0 /\ faults = 0

-----------------------------------------------------------------------------
(* Faulty variants of the definitions below. *)

\* mark_failed with retryable=False.
FailedForGood(r) == [r EXCEPT !.status = "failed", !.lease = "none", !.due = FALSE]
\* claim_next without the test of an expired lease.
ClaimableWhenPending(r, stage) == r.stage = stage /\ r.status = "pending" /\ r.due

-----------------------------------------------------------------------------
(* What a row or a document means to the queues. *)

Claimable(r, stage) ==
  /\ r.stage = stage
  /\ \/ r.status = "pending" /\ r.due
     \/ r.status = "processing" /\ r.lease = "expired"

Claimed(r) == [r EXCEPT !.status = "processing", !.lease = "live", !.due = TRUE]
Completed(r) == [r EXCEPT !.status = "completed", !.lease = "none", !.due = TRUE]
MarkedFailed(r) == [r EXCEPT !.status = "pending", !.lease = "none", !.due = FALSE]

\* anchor 0: the request brings none, and the one already in the row stays.
Enqueued(r, stage, op, anchor, due) ==
  [r EXCEPT !.stage = stage, !.status = "pending", !.op = op, !.lease = "none", !.due = due,
            !.anchor = IF anchor = 0 THEN @ ELSE anchor]

StaleAnchor(task) == task.anchor # 0 /\ row.anchor # 0 /\ row.anchor # task.anchor

DesiredTier(d) == IF d.active /\ d.ready THEN "hot" ELSE "cold"

\* Another stage's unfinished work keeps the lifecycle queue away from the row.
BlocksLifecycle(r) == r.stage # "storage_lifecycle" /\ r.status \in {"pending", "processing"}

-----------------------------------------------------------------------------
(* The shape of a step. *)

At(p, label) == job[p].at = label
Return(p) == job' = [job EXCEPT ![p] = Idle]
Goto(p, label) ==
  IF label = "idle" THEN Return(p) ELSE job' = [job EXCEPT ![p].at = label, ![p].fresh = FALSE]

\* The labels whose call reads the repository before it writes it.
Rereads == {"del_off", "del_unready", "del_enqueue", "del_error", "del_tier",
            "reb_unready", "sum_unready", "sum_enqueue", "sum_error", "sum_ready", "sum_done",
            "tier_enqueue", "tier_set", "sync_off", "sync_ready", "complete", "fail"}

Read(p) ==
  /\ job[p].at \in Rereads /\ ~job[p].fresh
  /\ job' = [job EXCEPT ![p].held = doc, ![p].seen = row, ![p].fresh = TRUE]
  /\ UNCHANGED <<doc, row, vectors, calls, faults>>

Copied(p) == job[p].fresh /\ UNCHANGED <<vectors, calls, faults>>

SaveDoc(p, label, d, next) ==
  At(p, label) /\ Copied(p) /\ doc' = d /\ UNCHANGED row /\ Goto(p, next)
SaveRow(p, label, r, next) ==
  At(p, label) /\ Copied(p) /\ row' = r /\ UNCHANGED doc /\ Goto(p, next)
WriteRow(p, label, r, next) ==
  /\ At(p, label) /\ row' = r /\ Goto(p, next)
  /\ UNCHANGED <<doc, vectors, calls, faults>>

\* A call to the vector store writes v and goes on, or raises.
Vectors(p, label, call, v, next, raised) ==
  /\ At(p, label) /\ UNCHANGED <<doc, row, calls>>
  /\ \/ vectors' = v /\ Goto(p, next) /\ UNCHANGED faults
     \/ /\ call \in MayFail /\ faults < MaxFaults
        /\ faults' = faults + 1 /\ Goto(p, raised) /\ UNCHANGED vectors

-----------------------------------------------------------------------------
(* The calls. *)

Begin(p, op, label, urgent) ==
  /\ At(p, "idle") /\ op \in Ops /\ calls < MaxCalls
  /\ calls' = calls + 1
  /\ job' = [job EXCEPT ![p] = [Idle EXCEPT !.at = label, !.rev = calls + 1, !.held = doc,
                                            !.urgent = urgent, !.left = 1]]
  /\ UNCHANGED <<doc, row, vectors, faults>>

CallInsert(p) == Begin(p, "insert", "ins_facts", FALSE)
CallDelete(p) == doc.active /\ Begin(p, "delete", "del_mark", FALSE)
CallRebuild(p) == doc.known /\ Begin(p, "rebuild", "reb_mark", FALSE)
CallSaveSummary(p) == doc.active /\ \E urgent \in BOOLEAN : Begin(p, "save_summary", "sum_save", urgent)
CallQuery(p) ==
  /\ At(p, "idle")
  /\ job' = [job EXCEPT ![p] = [Idle EXCEPT !.at = "pump", !.left = 2]]
  /\ UNCHANGED <<doc, row, vectors, calls, faults>>

(* Insert: the facts in one transaction, then the vectors, then the outcome in another. *)
InsertFacts(p) ==
  /\ At(p, "ins_facts")
  /\ doc' = [NoDoc EXCEPT !.known = TRUE, !.active = TRUE]
  /\ row' = Row("index", "processing")
  /\ Goto(p, "ins_vectors") /\ UNCHANGED <<vectors, calls, faults>>
InsertVectors(p) == Vectors(p, "ins_vectors", "upsert", job[p].rev, "ins_ready", "ins_failed")
InsertOutcome(p, label, status, ready, next) ==
  /\ At(p, label)
  /\ doc' = [doc EXCEPT !.ready = ready] /\ row' = Row("index", status)
  /\ UNCHANGED <<vectors, calls, faults>>
  /\ next
InsertReady(p) == InsertOutcome(p, "ins_ready", "ready", TRUE, Goto(p, "pump"))
InsertFailed(p) == InsertOutcome(p, "ins_failed", "failed", FALSE, Return(p))

(* Delete. *)
DeleteMark(p) == WriteRow(p, "del_mark", Row("delete", "deleting"), "del_off")
DeleteOff(p) == SaveDoc(p, "del_off", [job[p].held EXCEPT !.active = FALSE], "del_unready")
DeleteUnready(p) == SaveDoc(p, "del_unready", [job[p].held EXCEPT !.ready = FALSE], "del_vectors")
DeleteVectors(p) == Vectors(p, "del_vectors", "delete", 0, "del_tier", "del_enqueue")
DeleteEnqueue(p) ==
  SaveRow(p, "del_enqueue",
          Enqueued(job[p].seen, "index_sync", "delete_document", job[p].rev, FALSE), "del_error")
DeleteError(p) == SaveDoc(p, "del_error", [job[p].held EXCEPT !.ready = FALSE], "del_tier")
DeleteTier(p) == SaveDoc(p, "del_tier", [job[p].held EXCEPT !.tier = "cold"], "del_done")
DeleteDone(p) == WriteRow(p, "del_done", Row("delete", "deleted"), "idle")

(* Rebuild: insert again from the stored payload, when there is one. *)
RebuildMark(p) == WriteRow(p, "reb_mark", Row("rebuild", "rebuilding"), "reb_request")
RebuildRequest(p) ==
  /\ At(p, "reb_request")
  /\ \/ Goto(p, "ins_facts") /\ UNCHANGED faults
     \/ Goto(p, "reb_unready") /\ faults < MaxFaults /\ faults' = faults + 1
  /\ UNCHANGED <<doc, row, vectors, calls>>
RebuildUnready(p) == SaveDoc(p, "reb_unready", [job[p].held EXCEPT !.ready = FALSE], "reb_failed")
RebuildFailed(p) == WriteRow(p, "reb_failed", Row("rebuild", "failed"), "idle")

(* save_doc_summary writes the caller's own copy of the document.  Urgent: index it now. *)
SummarySave(p) ==
  /\ At(p, "sum_save")
  /\ doc' = [job[p].held EXCEPT !.summary = job[p].rev]
  /\ Goto(p, "sum_unready") /\ UNCHANGED <<row, vectors, calls, faults>>
SummaryUnready(p) ==
  SaveDoc(p, "sum_unready", [job[p].held EXCEPT !.ready = FALSE],
          IF job[p].urgent THEN "sum_vectors" ELSE "sum_enqueue")
SummaryVectors(p) == Vectors(p, "sum_vectors", "upsert", job[p].rev, "sum_ready", "sum_enqueue")
SummaryEnqueue(p) ==
  SaveRow(p, "sum_enqueue",
          Enqueued(job[p].seen, "index_sync", "upsert_summary", job[p].rev, ~job[p].urgent),
          IF job[p].urgent THEN "sum_error" ELSE "idle")
SummaryError(p) == SaveDoc(p, "sum_error", [job[p].held EXCEPT !.ready = FALSE], "idle")
SummaryReady(p) == SaveDoc(p, "sum_ready", [job[p].held EXCEPT !.ready = TRUE], "sum_done")
SummaryDone(p) ==
  SaveRow(p, "sum_done", IF job[p].seen = NoRow THEN NoRow ELSE Completed(job[p].seen), "idle")

-----------------------------------------------------------------------------
(* The two queues, run by insert and by every query. *)

\* claim_next lists the rows, then saves the claimed copy of the one it selects.
Select(p, label, stage, chosen, otherwise) ==
  /\ At(p, label)
  /\ IF Claimable(row, stage) /\ job[p].left > 0
     THEN job' = [job EXCEPT ![p].at = chosen, ![p].task = Claimed(row)]
     ELSE otherwise
  /\ UNCHANGED <<doc, row, vectors, calls, faults>>

SelectIndex(p) == Select(p, "pump", "index_sync", "claim", Goto(p, "tier_list"))
SelectTier(p) ==
  Select(p, "tier_pump", "storage_lifecycle", "claim", Return(p))

Claim(p) ==
  WriteRow(p, "claim", job[p].task,
           IF job[p].task.stage = "index_sync" THEN "anchor" ELSE "tier_look")

\* The next task of run_until_idle: the index queue has a budget of tasks, the other takes one.
NextTask(p, stage, stop) ==
  IF stage = "index_sync"
  THEN job' = [job EXCEPT ![p].at = IF stop THEN "tier_list" ELSE "pump",
                          ![p].left = @ - 1, ![p].fresh = FALSE]
  ELSE Return(p)

CheckAnchor(p) ==
  /\ At(p, "anchor")
  /\ IF StaleAnchor(job[p].task)
     THEN NextTask(p, "index_sync", row.status = "pending")
     ELSE Goto(p, IF job[p].task.op = "delete_document" THEN "sync_drop" ELSE "sync_look")
  /\ UNCHANGED <<doc, row, vectors, calls, faults>>

SyncDrop(p) == Vectors(p, "sync_drop", "delete", 0, "complete", "fail")

\* sync_document_summaries reads the document and embeds its stored summaries, or raises.
SyncLook(p) ==
  /\ At(p, "sync_look")
  /\ job' = [job EXCEPT
       ![p].held = doc,
       ![p].at = IF ~doc.active THEN "sync_clear"
                 ELSE IF doc.summary = 0 THEN "fail" ELSE "sync_embed"]
  /\ UNCHANGED <<doc, row, vectors, calls, faults>>
SyncEmbed(p) == Vectors(p, "sync_embed", "embed", vectors, "sync_delete", "fail")
SyncClear(p) == Vectors(p, "sync_clear", "delete", 0, "sync_off", "fail")
SyncOff(p) == SaveDoc(p, "sync_off", [job[p].held EXCEPT !.ready = FALSE], "complete")
SyncDelete(p) == Vectors(p, "sync_delete", "delete", 0, "sync_upsert", "fail")
SyncUpsert(p) == Vectors(p, "sync_upsert", "upsert", job[p].held.summary, "sync_ready", "fail")
SyncReady(p) == SaveDoc(p, "sync_ready", [job[p].held EXCEPT !.ready = TRUE], "complete")

\* mark_completed and mark_failed write whatever row is there by now; a failure is raised.
MarkCompleted(p) ==
  /\ At(p, "complete") /\ Copied(p) /\ UNCHANGED doc
  /\ row' = Completed(job[p].seen)
  /\ NextTask(p, job[p].task.stage, FALSE)
MarkFailed(p) == SaveRow(p, "fail", MarkedFailed(job[p].seen), "idle")

(* The storage-lifecycle queue: enqueue what is in the wrong tier, then one task. *)
ListDue(p) ==
  /\ At(p, "tier_list")
  /\ job' = [job EXCEPT ![p].left = 1,
       ![p].at = IF doc.known /\ doc.tier # DesiredTier(doc) THEN "tier_check" ELSE "tier_pump"]
  /\ UNCHANGED <<doc, row, vectors, calls, faults>>
CheckBlocked(p) ==
  /\ At(p, "tier_check")
  /\ Goto(p, IF BlocksLifecycle(row) THEN "tier_pump" ELSE "tier_enqueue")
  /\ UNCHANGED <<doc, row, vectors, calls, faults>>
EnqueueMigration(p) ==
  SaveRow(p, "tier_enqueue",
          Enqueued(job[p].seen, "storage_lifecycle", "migrate_storage_tier", 0, TRUE), "tier_pump")
MigrationLook(p) ==
  /\ At(p, "tier_look")
  /\ job' = [job EXCEPT ![p].tier = DesiredTier(doc),
       ![p].at = IF doc.tier # DesiredTier(doc) THEN "tier_set" ELSE "sync_look"]
  /\ UNCHANGED <<doc, row, vectors, calls, faults>>
MigrationSet(p) == SaveDoc(p, "tier_set", [job[p].held EXCEPT !.tier = job[p].tier], "sync_look")

-----------------------------------------------------------------------------
(* The environment. *)

Working(p) == job[p].at \in {"claim", "anchor", "tier_look", "tier_set", "sync_drop", "sync_look",
                             "sync_embed", "sync_clear", "sync_off", "sync_delete", "sync_upsert", "sync_ready",
                             "complete", "fail"}

LeaseExpires ==
  /\ row.lease = "live" /\ (LeasesOutlast => \A p \in Procs : ~Working(p))
  /\ row' = [row EXCEPT !.lease = "expired"]
  /\ UNCHANGED <<doc, vectors, job, calls, faults>>
BackoffPasses ==
  /\ ~row.due /\ row' = [row EXCEPT !.due = TRUE]
  /\ UNCHANGED <<doc, vectors, job, calls, faults>>
Crash(p) ==
  /\ ~At(p, "idle") /\ faults < MaxFaults
  /\ faults' = faults + 1 /\ Return(p)
  /\ UNCHANGED <<doc, row, vectors, calls>>

InsertStep(p) == InsertFacts(p) \/ InsertVectors(p) \/ InsertReady(p) \/ InsertFailed(p)
DeleteStep(p) ==
  \/ DeleteMark(p) \/ DeleteOff(p) \/ DeleteUnready(p) \/ DeleteVectors(p)
  \/ DeleteEnqueue(p) \/ DeleteError(p) \/ DeleteTier(p) \/ DeleteDone(p)
RebuildStep(p) == RebuildMark(p) \/ RebuildRequest(p) \/ RebuildUnready(p) \/ RebuildFailed(p)
SummaryStep(p) ==
  \/ SummarySave(p) \/ SummaryUnready(p) \/ SummaryVectors(p) \/ SummaryEnqueue(p)
  \/ SummaryError(p) \/ SummaryReady(p) \/ SummaryDone(p)
SyncStep(p) ==
  \/ SelectIndex(p) \/ SelectTier(p) \/ Claim(p) \/ CheckAnchor(p) \/ SyncDrop(p) \/ SyncLook(p) \/ SyncEmbed(p)
  \/ SyncClear(p) \/ SyncOff(p) \/ SyncDelete(p) \/ SyncUpsert(p) \/ SyncReady(p)
  \/ MarkCompleted(p) \/ MarkFailed(p)
  \/ ListDue(p) \/ CheckBlocked(p) \/ EnqueueMigration(p) \/ MigrationLook(p) \/ MigrationSet(p)

Step(p) == Read(p) \/ InsertStep(p) \/ DeleteStep(p) \/ RebuildStep(p) \/ SummaryStep(p) \/ SyncStep(p)
Call(p) == CallInsert(p) \/ CallDelete(p) \/ CallRebuild(p) \/ CallSaveSummary(p) \/ CallQuery(p)

Next ==
  \/ \E p \in Procs : Step(p) \/ Call(p) \/ Crash(p)
  \/ LeaseExpires \/ BackoffPasses

\* A call runs to its end unless its process crashes, time passes, and somebody keeps querying.
Fairness ==
  /\ \A p \in Procs : WF_vars(Step(p)) /\ WF_vars(CallQuery(p))
  /\ WF_vars(LeaseExpires) /\ WF_vars(BackoffPasses)

Spec == Init /\ [][Next]_vars
FairSpec == Spec /\ Fairness
-----------------------------------------------------------------------------
(* What should hold. *)

Rows == [stage : {"none", "index", "delete", "rebuild", "index_sync", "storage_lifecycle"},
         status : {"none", "processing", "ready", "failed", "deleting", "deleted", "rebuilding",
                   "pending", "completed"},
         op : {"none", "delete_document", "upsert_summary", "migrate_storage_tier"},
         anchor : 0..MaxCalls, lease : {"none", "live", "expired"}, due : BOOLEAN]
Docs == [known : BOOLEAN, active : BOOLEAN, ready : BOOLEAN, tier : {"hot", "cold"},
         summary : 0..MaxCalls]

\* The two rows and every process's copies of them have their types.
IndexTypeOK ==
  /\ doc \in Docs /\ row \in Rows /\ vectors \in 0..MaxCalls
  /\ \A p \in Procs : /\ job[p].task \in Rows /\ job[p].seen \in Rows /\ job[p].held \in Docs
                       /\ job[p].rev \in 0..MaxCalls /\ job[p].left \in 0..2
  /\ calls \in 0..MaxCalls /\ faults \in 0..MaxFaults

AtRest == \A p \in Procs : At(p, "idle")
Queued == row.stage \in {"index_sync", "storage_lifecycle"} /\ row.status \in {"pending", "processing"}

\* A delete or a rebuild has taken the row, whatever request was in it, and has not gone on.
CutOff == row.status \in {"deleting", "rebuilding"}

\* When no call is running, a document that claims to be searchable has vectors, or a queued
\* request will put them back: a sync deletes the old vectors before it writes the new ones and
\* the document stays ready meanwhile.  Only a delete or a rebuild that takes over the row of such
\* a sync, and crashes at once, leaves neither.
ReadyIsSearchable ==
  AtRest /\ doc.active /\ doc.ready => vectors # 0 \/ Queued \/ CutOff

\* The types, and that a searchable document is found.
IndexSound == IndexTypeOK /\ ReadyIsSearchable

\* A delete that stops half way, before it wrote "deleted", is finished by the queues: the document
\* is inactive in the hot tier, so the lifecycle queue or the queued retry removes its vectors,
\* unless a rebuild takes over the row their request was in.
DeletionCompletes ==
  (doc.known /\ ~doc.active /\ doc.tier = "hot") ~>
    (vectors = 0 \/ doc.active \/ row.status = "deleted" \/ row.stage = "rebuild")

\* A queued summary is indexed, whatever fails or crashes on the way, unless the document is
\* deleted, inserted again, or a rebuild or a delete takes the row the request was in.
SummariesGetIndexed ==
  (Queued /\ row.op = "upsert_summary" /\ row.anchor = doc.summary) ~>
    \/ doc.ready /\ vectors = doc.summary
    \/ ~doc.active
    \/ doc.summary = 0
    \/ row.stage \in {"rebuild", "delete"}

\* What test_delete_rebuild.py asserts of a deleted document: when its row says "deleted", it has
\* no vectors left.
DeletedHasNoVectors == row.stage = "delete" /\ row.status = "deleted" => vectors = 0

=============================================================================
