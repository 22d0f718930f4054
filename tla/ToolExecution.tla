--------------------------- MODULE ToolExecution ---------------------------
(***************************************************************************)
(* The tool executor (rag/agent/tools/executor.py) under the loop step     *)
(* that calls it (AgentLoop._execute_pending_tools), the checkpoint store  *)
(* it records to, and the human who answers its requests: how the calls of *)
(* one turn are prepared, approved, started, run, cancelled, lost in a     *)
(* crash, reconciled and told to the model.                                *)
(*                                                                         *)
(* One worker at a time holds the turn (leases are TurnService.tla), but   *)
(* the calls of a gathered batch run concurrently, and those whose sibling *)
(* raised go on running ("left") beside whatever the turn does next.  They *)
(* write through the checkpoint store object they were started with, that  *)
(* is, from its cached state.                                              *)
(***************************************************************************)
EXTENDS Integers, FiniteSets, FiniteSetsExt

CONSTANTS
    N,              \* bound: calls the model makes in the turn
    Idempotent,     \* calls whose tool may be run again
    Remote,         \* calls whose runner cannot be stopped, only abandoned
    FinishCurrent,  \* calls that a cancellation waits for
    Safe,           \* calls whose tool may run beside others
    Conflicting,    \* pairs {c, d} of calls whose resolved uses conflict
    Asks,           \* calls whose use needs approval
    Networked,      \* calls that need the network approval as well
    MaxParallel,    \* max_parallel_calls
    LeftCallsEnd,   \* assume that a turn is resumed after the calls left behind end
    WritesMayFail,  \* saving a record may raise
    MaxStops        \* bound: cancellations, failed writes and crashes

Calls == 1..N

ASSUME ToolAssumption ==
    /\ N \in Nat
    /\ Idempotent \subseteq Calls /\ Remote \subseteq Calls
    /\ FinishCurrent \subseteq Calls /\ Safe \subseteq Idempotent
    /\ Conflicting \subseteq SUBSET Calls
    /\ Asks \subseteq Calls /\ Networked \subseteq Calls
    /\ MaxParallel \in Nat \ {0}
    /\ LeftCallsEnd \in BOOLEAN /\ WritesMayFail \in BOOLEAN
    /\ MaxStops \in Nat

VARIABLES
    pc,        \* the turn: "loop", "batch", "paused", "asking", "down", "ended"
    mem,       \* the LoopState of the running loop
    disk,      \* the latest checkpoint
    cache,     \* the cached state of a checkpoint store object
    stage,     \* where each call is in a batch
    chunk,     \* the calls handed to asyncio.gather, or the one that is invoked
    hit,       \* the calls that have been sent a cancellation
    runs,      \* history: how often the runner of a call was called
    allowed,   \* history: gates a human has allowed
    refused,   \* history: gates a human has denied
    vouched,   \* history: calls whose outcome a human has settled
    settled,   \* history: calls whose outcome has been durable once
    stops      \* cancellations, failed writes and crashes so far

batchVars == <<stage, chunk, hit>>
humanVars == <<allowed, refused, vouched>>
vars == <<pc, mem, disk, cache, batchVars, runs, humanVars, settled, stops>>

Batches == {"main", "left"}
Records == {"none", "prepared", "started", "completed", "failed", "unknown"}
Stages == {"idle", "new", "answered", "approval", "ready", "started", "running", "ended"}
UnderWay == {"ready", "started", "running"}

\* The approvals a call needs, and the one asked for first; a faulty variant asks
\* about the first call of the batch.
Gates == Asks \X {"tool"} \cup Networked \X {"network"}
GatesOf(c) == {g \in Gates : g[1] = c}
NextGateOfFirst(gs) == LET h == CHOOSE g \in gs : TRUE IN <<1, h[2]>>
NextGate(gs) == CHOOSE g \in gs : g[2] = "tool" \/ \A h \in gs : h[2] # "tool"

NoRequest == [kind |-> "none", on |-> 0]
Approval(g) == [kind |-> "approval", on |-> g]
Reconciliation(c) == [kind |-> "reconciliation", on |-> c]
Requests == {NoRequest} \cup {Approval(g) : g \in Gates}
              \cup {Reconciliation(c) : c \in Calls}

\* LoopState: how many calls the model has scheduled, the pending ones, the
\* execution records, the approvals, the pending request, and how many results of
\* each call the transcript holds.
LoopStates ==
    [status : {"running", "paused", "completed", "failed"}, sched : 0..N,
     pending : SUBSET Calls, rec : [Calls -> Records],
     approved : SUBSET Gates, denied : SUBSET Gates,
     req : Requests, told : [Calls -> Nat]]

NoLoop == [status |-> "none"]
FirstLoop ==
    [status |-> "running", sched |-> 0, pending |-> {}, rec |-> [c \in Calls |-> "none"],
     approved |-> {}, denied |-> {}, req |-> NoRequest, told |-> [c \in Calls |-> 0]]

Resting == [c \in Calls |-> "idle"]

Init ==
    /\ pc = "loop"
    /\ mem = FirstLoop
    /\ disk = FirstLoop
    /\ cache = [main |-> FirstLoop, left |-> NoLoop]
    /\ stage = [b \in Batches |-> Resting]
    /\ chunk = [b \in Batches |-> {}]
    /\ hit = [b \in Batches |-> {}]
    /\ runs = [c \in Calls |-> 0]
    /\ allowed = {} /\ refused = {} /\ vouched = {} /\ settled = {}
    /\ stops = 0

-----------------------------------------------------------------------------
(* Vocabulary of the steps. *)

(* Faulty variants of Unsure. *)
DoubtOnlyUnknown(c, r) == c \notin Idempotent /\ r = "unknown"
DoubtOnlyStarted(c, r) == c \notin Idempotent /\ r = "started"

Settled(r) == r \in {"completed", "failed"}
Unsure(c, r) == c \notin Idempotent /\ r \in {"started", "unknown"}
In(b, stages) == {c \in Calls : stage[b][c] \in stages}
Left == In("left", UnderWay)
Stop == stops < MaxStops /\ stops' = stops + 1
Witnessed(s) == settled' = settled \cup {c \in Calls : Settled(s.rec[c])}

\* save_snapshot of the loop's own state.
Save(s) ==
    /\ mem' = s
    /\ disk' = s
    /\ cache' = [cache EXCEPT !.main = s]
    /\ Witnessed(s)

\* The batch is over, and so is the store object if the loop is.
Clear == /\ stage' = [stage EXCEPT !.main = Resting]
         /\ chunk' = [chunk EXCEPT !.main = {}]
         /\ hit' = [hit EXCEPT !.main = {}]

\* write_execution_record: the new checkpoint is the store's cached state with the
\* record, whatever the checkpoint has become since.
WithRecord(b, c, r) == [cache[b] EXCEPT !.rec[c] = r]

\* Call c of batch b goes on to stage label once record r is durable.
Record(b, c, r, label) ==
    LET s == WithRecord(b, c, r) IN
    /\ disk' = s
    /\ cache' = [cache EXCEPT ![b] = s]
    /\ stage' = [stage EXCEPT ![b][c] = label]
    /\ Witnessed(s)
    /\ UNCHANGED <<pc, mem, chunk, hit, stops>>

\* Call c of batch b raises, the store's cached state being s.  A raise in the loop's
\* batch ends the loop, and the siblings in the same gather are left running (one
\* generation of them at a time: a bound of the model).
Raise(b, c, s) ==
    LET rest == {d \in chunk.main \ {c} : stage.main[d] \in UnderWay} IN
    IF b = "left"
    THEN /\ stage' = [stage EXCEPT !.left[c] = "idle"]
         /\ cache' = [cache EXCEPT !.left = s]
         /\ UNCHANGED <<pc, mem, chunk, hit>>
    ELSE /\ pc' = "down"
         /\ mem' = NoLoop
         /\ IF rest = {}
            THEN /\ cache' = [cache EXCEPT !.main = NoLoop]
                 /\ Clear
            ELSE /\ Left = {}
                 /\ cache' = [main |-> NoLoop, left |-> s]
                 /\ stage' = [main |-> Resting,
                              left |-> [d \in Calls |-> IF d \in rest THEN stage.main[d]
                                                                      ELSE "idle"]]
                 /\ chunk' = [main |-> {}, left |-> rest]
                 /\ hit' = [main |-> {}, left |-> hit.main \cap rest]

\* Saving record r of call c raises: before the checkpoint is written, or after it
\* (the canonical history could not be synchronised).
RecordFails(b, c, r) ==
    /\ WritesMayFail
    /\ Stop
    /\ \/ disk' = disk /\ Raise(b, c, cache[b]) /\ UNCHANGED settled
       \/ /\ disk' = WithRecord(b, c, r)
          /\ Raise(b, c, WithRecord(b, c, r))
          /\ Witnessed(WithRecord(b, c, r))

Persist(b, c, r, label) == Record(b, c, r, label) \/ RecordFails(b, c, r)

\* A call of the loop's batch is answered without a record.
Answer(c, label) ==
    /\ stage' = [stage EXCEPT !.main[c] = label]
    /\ UNCHANGED <<pc, mem, disk, cache, chunk, hit, settled, stops>>

-----------------------------------------------------------------------------
(* A faulty variant of MayPrepare. *)

MayPrepareIfSure(c) == ~(c \notin Idempotent /\ mem.rec[c] \in {"started", "unknown"})

-----------------------------------------------------------------------------
(* The loop around the executor. *)

LoopFrame == UNCHANGED <<runs, humanVars>>
Running == pc = "loop" /\ mem.pending = {}

\* The model schedules calls: a snapshot with them pending.
Schedule(k) ==
    /\ Running
    /\ k \in 1..(N - mem.sched)
    /\ Save([mem EXCEPT !.sched = @ + k, !.pending = (mem.sched + 1)..(mem.sched + k)])
    /\ LoopFrame /\ UNCHANGED <<pc, batchVars, stops>>

\* The model answers, or the loop fails.
EndTurn(verdict) ==
    /\ Running
    /\ Save([mem EXCEPT !.status = verdict])
    /\ pc' = "ended"
    /\ LoopFrame /\ UNCHANGED <<batchVars, stops>>

\* _execute_pending_tools.  Calls without a record may be answered by the delivery
\* and failure guards (held); the others go to execute_batch.
BeginBatch(held) ==
    /\ pc = "loop" /\ mem.pending # {}
    /\ held \subseteq {c \in mem.pending : mem.rec[c] = "none"}
    /\ pc' = "batch"
    /\ stage' = [stage EXCEPT !.main =
                    [c \in Calls |-> IF c \in held THEN "answered"
                                     ELSE IF c \in mem.pending THEN "new" ELSE "idle"]]
    /\ LoopFrame /\ UNCHANGED <<mem, disk, cache, chunk, hit, settled, stops>>

-----------------------------------------------------------------------------
(* ToolExecutor._prepare: the calls in order. *)

Preparing(c) == pc = "batch" /\ c \in In("main", {"new"}) /\ c = Min(In("main", {"new"}))

MayPrepare(c) == ~Unsure(c, mem.rec[c]) /\ ~Settled(mem.rec[c])
Unresolved(c) == GatesOf(c) \ mem.approved

\* A recorded outcome is recorded again and told; an ambiguous one needs a human.
PrepareRecorded(c) ==
    /\ Preparing(c)
    /\ ~MayPrepare(c)
    /\ Persist("main", c, IF Settled(mem.rec[c]) THEN mem.rec[c] ELSE "unknown", "answered")
    /\ LoopFrame

\* Validation, the use resolver, the hard guard, the boundary or the permission
\* decision refuses the call.
PrepareRefused(c) ==
    /\ Preparing(c) /\ MayPrepare(c)
    /\ Answer(c, "answered")
    /\ LoopFrame

\* The first gate that is not approved: denied, or to be asked for.
PrepareGated(c) ==
    /\ Preparing(c) /\ MayPrepare(c)
    /\ LET open == {g \in GatesOf(c) : g \in mem.denied \/ g \notin mem.approved} IN
       /\ open # {}
       /\ Answer(c, IF NextGate(open) \in mem.denied THEN "answered" ELSE "approval")
    /\ LoopFrame

(* Faulty variants of PrepareReady. *)
ReadyIfCommandAllowed(c) ==
    /\ Preparing(c) /\ MayPrepare(c)
    /\ {g \in GatesOf(c) : g[2] = "tool"} \subseteq mem.approved \ mem.denied
    /\ Persist("main", c, "prepared", "ready")
    /\ LoopFrame
ReadyIfDecided(c) ==
    /\ Preparing(c) /\ MayPrepare(c)
    /\ GatesOf(c) \subseteq mem.approved \cup mem.denied
    /\ Persist("main", c, "prepared", "ready")
    /\ LoopFrame

PrepareReady(c) ==
    /\ Preparing(c) /\ MayPrepare(c)
    /\ GatesOf(c) \subseteq mem.approved \ mem.denied
    /\ Persist("main", c, "prepared", "ready")
    /\ LoopFrame

-----------------------------------------------------------------------------
(* ToolExecutor._invoke: one call at a time, or chunks of a safe batch. *)

Prepared == In("main", UnderWay \cup {"ended"})
CanRunInParallel == 
    /\ Cardinality(Prepared) >= 2
    /\ Prepared \subseteq Safe
    /\ \A c, d \in Prepared : c # d => {c, d} \notin Conflicting
Width == IF CanRunInParallel THEN MaxParallel ELSE 1

(* Faulty variants of StartCall, CallRunner, Results and StillPending. *)
StartUnrecorded(b, c) ==
    /\ c \in chunk[b] /\ stage[b][c] = "ready" /\ c \notin hit[b]
    /\ stage' = [stage EXCEPT ![b][c] = "started"]
    /\ LoopFrame /\ UNCHANGED <<pc, mem, disk, cache, chunk, hit, settled, stops>>
CallUnlessCancelled(b, c) ==
    /\ c \in chunk[b] /\ stage[b][c] = "started" /\ c \notin hit[b]
    /\ stage' = [stage EXCEPT ![b][c] = "running"]
    /\ runs' = [runs EXCEPT ![c] = @ + 1]
    /\ UNCHANGED <<pc, mem, disk, cache, chunk, hit, humanVars, settled, stops>>
AllStillPending == IF In("main", {"approval"}) # {} THEN mem.pending ELSE {}

\* asyncio.gather of the next prepared calls, once the last ones have ended.
Launch(k) ==
    /\ pc = "batch" /\ In("main", {"new"}) = {}
    /\ chunk.main \subseteq In("main", {"ended"})
    /\ LET ready == In("main", {"ready"}) IN
       /\ k \subseteq ready /\ k # {}
       /\ Cardinality(k) = Min({Width, Cardinality(ready)})
       /\ \A c \in k, d \in ready \ k : c < d
    /\ chunk' = [chunk EXCEPT !.main = k]
    /\ hit' = [hit EXCEPT !.main = {}]
    /\ LoopFrame /\ UNCHANGED <<pc, mem, disk, cache, stage, settled, stops>>

Invoking(b, c, s) == c \in chunk[b] /\ stage[b][c] = s

\* STARTED is durable before the runner is called.
StartCall(b, c) ==
    /\ Invoking(b, c, "ready") /\ c \notin hit[b]
    /\ Persist(b, c, "started", "started")
    /\ LoopFrame

\* A call cancelled while it saves STARTED raises; the save may still land.
StartCancelled(b, c) ==
    /\ Invoking(b, c, "ready") /\ c \in hit[b]
    /\ disk' \in {disk, WithRecord(b, c, "started")}
    /\ Raise(b, c, cache[b])
    /\ LoopFrame /\ UNCHANGED <<settled, stops>>

\* A cancellation that this call neither survives nor turns into a result.
Yields(b, c) == c \in hit[b] /\ c \notin Remote /\ c \notin FinishCurrent

CallRunner(b, c) ==
    /\ Invoking(b, c, "started") /\ ~Yields(b, c)
    /\ stage' = [stage EXCEPT ![b][c] = "running"]
    /\ runs' = [runs EXCEPT ![c] = @ + 1]
    /\ UNCHANGED <<pc, mem, disk, cache, chunk, hit, humanVars, settled, stops>>

\* The runner returns, fails or times out.  A timeout leaves the outcome unknown if
\* the runner is remote, or if it failed while it was being stopped.  A cancelled
\* remote call that is not waited for is unknown.
RunnerEnds(b, c, r) ==
    /\ Invoking(b, c, "running") /\ ~Yields(b, c)
    /\ r \in (IF c \in hit[b] \ FinishCurrent THEN {"unknown"}
              ELSE {"completed", "failed", "unknown"})
    /\ Persist(b, c, r, IF b = "main" THEN "ended" ELSE "idle")
    /\ LoopFrame

\* A cancelled local call is stopped, recorded as failed, and raises.
RunnerStopped(b, c) ==
    /\ c \in chunk[b] /\ stage[b][c] \in {"started", "running"} /\ Yields(b, c)
    /\ \/ /\ disk' = WithRecord(b, c, "failed")
          /\ Raise(b, c, WithRecord(b, c, "failed"))
          /\ Witnessed(WithRecord(b, c, "failed"))
          /\ UNCHANGED stops
       \/ RecordFails(b, c, "failed")
    /\ LoopFrame

\* The turn is cancelled (the stream is closed, the user interrupts): the calls
\* under way are sent the cancellation.
Cancel ==
    /\ pc = "batch" /\ chunk.main \cap In("main", UnderWay) # {}
    /\ hit.main = {}
    /\ Stop
    /\ hit' = [hit EXCEPT !.main = chunk.main \cap In("main", UnderWay)]
    /\ LoopFrame /\ UNCHANGED <<pc, mem, disk, cache, stage, chunk, settled>>

-----------------------------------------------------------------------------
(* The results: the rest of _execute_pending_tools. *)

Asking == In("main", {"approval"})
Results == In("main", {"answered", "ended"})
Doubtful == {c \in Results : Unsure(c, cache.main.rec[c])}

\* The calls that stay pending: those that wait for an approval, and the first of
\* those that wait for a reconciliation.
StillPending == Asking \cup (IF Doubtful = {} THEN {} ELSE {Min(Doubtful)})

Merge ==
    LET s == [mem EXCEPT !.rec = cache.main.rec, !.pending = StillPending,
                         !.told = [c \in Calls |-> IF c \in Results THEN @[c] + 1 ELSE @[c]]]
        paused(r) == [s EXCEPT !.status = "paused", !.req = r]
    IN
    /\ pc = "batch" /\ In("main", {"new"} \cup UnderWay) = {}
    /\ disk' = IF Asking # {} THEN paused(Approval(NextGate(Unresolved(Min(Asking)))))
               ELSE IF Doubtful # {} THEN paused(Reconciliation(Min(Doubtful)))
               ELSE s
    /\ pc' = IF disk'.status = "paused" THEN "paused" ELSE "loop"
    /\ mem' = IF disk'.status = "paused" THEN NoLoop ELSE s
    /\ cache' = [cache EXCEPT !.main = mem']
    /\ Witnessed(s)
    /\ Clear
    /\ LoopFrame /\ UNCHANGED stops

-----------------------------------------------------------------------------
(* Stops. *)

\* The loop is interrupted between batches, or a snapshot of it cannot be saved.
Interrupt ==
    /\ pc \in {"loop", "asking"}
    /\ Stop
    /\ pc' = "down" /\ mem' = NoLoop /\ cache' = [cache EXCEPT !.main = NoLoop]
    /\ LoopFrame /\ UNCHANGED <<disk, batchVars, settled>>

\* The process dies, with every call under way.
Crash ==
    /\ pc \notin {"ended", "down"} \/ Left # {}
    /\ Stop
    /\ pc' = IF pc \in {"paused", "ended"} THEN pc ELSE "down"
    /\ mem' = IF pc = "ended" THEN mem ELSE NoLoop
    /\ cache' = [b \in Batches |-> NoLoop]
    /\ stage' = [b \in Batches |-> Resting]
    /\ chunk' = [b \in Batches |-> {}]
    /\ hit' = [b \in Batches |-> {}]
    /\ LoopFrame /\ UNCHANGED <<disk, settled>>

-----------------------------------------------------------------------------
(* Resuming: load_for_resume, then the human's action. *)

\* Ambiguous records become unknown, whatever request the turn was paused for, and
\* one of them is asked about.
Load ==
    /\ pc \in {"paused", "down"}
    /\ LeftCallsEnd => Left = {}
    /\ LET unsure == {c \in Calls : Unsure(c, disk.rec[c])} IN
       \/ /\ unsure = {}
          /\ mem' = disk
          /\ cache' = [cache EXCEPT !.main = disk]
          /\ UNCHANGED <<disk, settled>>
       \/ \E c \in unsure :
             Save([disk EXCEPT !.rec = [d \in Calls |-> IF d \in unsure THEN "unknown" ELSE @[d]],
                               !.status = "paused", !.req = Reconciliation(c)])
    /\ pc' = "asking"
    /\ LoopFrame /\ UNCHANGED <<batchVars, stops>>

Resume(s) ==
    /\ Save([s EXCEPT !.status = "running", !.req = NoRequest])
    /\ pc' = "loop"
    /\ UNCHANGED <<batchVars, runs, stops>>

\* apply_human_response reads the checkpoint again, and wants the same request.
Asked(r) == pc = "asking" /\ mem.req = r /\ disk.req = r

Continue ==
    /\ pc = "asking" /\ mem.req = NoRequest
    /\ Resume(mem)
    /\ UNCHANGED humanVars

Allow(g) ==
    /\ Asked(Approval(g))
    /\ Resume([disk EXCEPT !.approved = @ \cup {g}])
    /\ allowed' = allowed \cup {g}
    /\ UNCHANGED <<refused, vouched>>

Deny(g) ==
    /\ Asked(Approval(g))
    /\ Resume([disk EXCEPT !.denied = @ \cup {g}])
    /\ refused' = refused \cup {g}
    /\ UNCHANGED <<allowed, vouched>>

Mark(c, r) ==
    /\ Asked(Reconciliation(c))
    /\ Resume([disk EXCEPT !.rec[c] = r])
    /\ vouched' = vouched \cup {c}
    /\ UNCHANGED <<allowed, refused>>

\* The checkpoint has changed under the answer.
AnswerRejected ==
    /\ pc = "asking" /\ mem.req # NoRequest /\ disk.req # mem.req
    /\ pc' = "down" /\ mem' = NoLoop /\ cache' = [cache EXCEPT !.main = NoLoop]
    /\ LoopFrame /\ UNCHANGED <<disk, batchVars, settled, stops>>

Abort ==
    /\ pc = "asking"
    /\ Save([mem EXCEPT !.status = "failed", !.req = NoRequest])
    /\ pc' = "ended"
    /\ LoopFrame /\ UNCHANGED <<batchVars, stops>>

-----------------------------------------------------------------------------

Prepare(c) == PrepareRecorded(c) \/ PrepareRefused(c) \/ PrepareGated(c) \/ PrepareReady(c)
Invoke(b, c) ==
    \/ StartCall(b, c) \/ StartCancelled(b, c) \/ CallRunner(b, c) \/ RunnerStopped(b, c)
    \/ \E r \in Records : RunnerEnds(b, c, r)
BatchStep ==
    \/ \E c \in Calls : Prepare(c) \/ Invoke("main", c)
    \/ \E k \in SUBSET Calls : Launch(k)
    \/ Merge
Human ==
    \/ Continue \/ Abort \/ AnswerRejected
    \/ \E g \in Gates : Allow(g) \/ Deny(g)
    \/ \E c \in Calls, r \in {"completed", "failed"} : Mark(c, r)

Next ==
    \/ \E k \in 1..N : Schedule(k)
    \/ \E v \in {"completed", "failed"} : EndTurn(v)
    \/ \E held \in SUBSET Calls : BeginBatch(held)
    \/ BatchStep
    \/ \E c \in Calls : Invoke("left", c)
    \/ Cancel \/ Interrupt \/ Crash
    \/ Load \/ Human

Spec == Init /\ [][Next]_vars

\* Every runner is bounded by its tool's timeout_seconds, and asyncio runs a task that
\* can run.
FairSpec == Spec /\ WF_vars(BatchStep)

-----------------------------------------------------------------------------
(* Properties. *)

\* Every variable has its type.
ToolTypeOK ==
    /\ pc \in {"loop", "batch", "paused", "asking", "down", "ended"}
    /\ mem \in LoopStates \cup {NoLoop}
    /\ disk \in LoopStates
    /\ cache \in [Batches -> LoopStates \cup {NoLoop}]
    /\ stage \in [Batches -> [Calls -> Stages]]
    /\ chunk \in [Batches -> SUBSET Calls]
    /\ hit \in [Batches -> SUBSET Calls]
    /\ runs \in [Calls -> Nat]
    /\ allowed \subseteq Gates /\ refused \subseteq Gates
    /\ vouched \subseteq Calls /\ settled \subseteq Calls
    /\ stops \in 0..MaxStops

\* The runner of a tool that is not idempotent is called at most once for a call,
\* through crashes, cancellations, pauses and resumptions.
ActsOnce == \A c \in Calls \ Idempotent : runs[c] <= 1

\* A call whose outcome has been durable once is not run again, idempotent or not.
SettledNeverRerun == [][\A c \in settled : runs'[c] = runs[c]]_vars

\* A runner is called only when a human has allowed every gate of the call: the
\* approval of the command never stands for that of the network.
RunsOnlyIfAllowed == \A c \in Calls : runs[c] > 0 => GatesOf(c) \subseteq allowed

\* A call of which a gate has been denied does not run.
RefusedNeverRuns == \A c \in Calls : runs[c] > 0 => GatesOf(c) \cap refused = {}

\* A turn that completes has answered every call the model made: an assistant
\* message whose tool calls lack a result is refused by the model providers.
EveryCallAnswered ==
    pc = "ended" /\ mem.status = "completed" => \A c \in 1..mem.sched : mem.told[c] >= 1

\* The transcript holds one result of a call, and a second one only of a call that
\* was reconciled.
OneResultPerCall ==
    mem # NoLoop => \A c \in Calls : mem.told[c] <= (IF c \in vouched THEN 2 ELSE 1)

CallsAnswered == EveryCallAnswered /\ OneResultPerCall

\* A turn does not complete while the outcome of a call that must not be replayed is
\* unknown: a human has reconciled it first.
ReconciledBeforeEnd ==
    pc = "ended" /\ mem.status = "completed" =>
        \A c \in Calls \ Idempotent : mem.rec[c] \notin {"started", "unknown"}

\* The durable records keep the promise of CallLedger.
Ledger == INSTANCE CallLedger WITH
            Guarded <- Calls \ Idempotent,
            ledger <- [c \in Calls \ Idempotent |-> disk.rec[c]],
            acted <- [c \in Calls \ Idempotent |-> runs[c]]
KeepsLedger == Ledger!LedgerSpec

\* A batch comes to an end, whatever is cancelled.
BatchEnds == pc = "batch" ~> pc # "batch"
=============================================================================
