----------------------------- MODULE AgentLoop -----------------------------
(***************************************************************************)
(* AgentLoop.run (rag/agent/loop/runtime.py): the loop of one turn over its*)
(* model calls, batches of tool calls, retries, compactions and stop hooks,*)
(* with the two guards that keep a model from going round in circles: the  *)
(* exploration guard, which closes inspection tools when nothing is being  *)
(* delivered, and the failure circuit, which refuses to repeat a call that *)
(* has failed.  The process may die at any await and the turn be resumed   *)
(* from its latest checkpoint.                                             *)
(*                                                                         *)
(* The executor is reduced to the results of a batch (ToolExecution.tla is *)
(* its model), the service to resuming the turn (TurnService.tla).  A call *)
(* whose outcome is in doubt is told to the model as an error at once, and *)
(* its result moves to the end of tool_results when it is told again.      *)
(***************************************************************************)
EXTENDS Integers, Sequences, FiniteSetsExt

CONSTANTS
    Looks,          \* invocations (tool and arguments) of inspection tools
    Plans,          \* invocations of update_plan
    Acts,           \* invocations of any other tool
    Asking,         \* those that ask for approval
    Failing,        \* those that can fail for good
    Flaky,          \* those that can fail in a way that is worth a retry
    Doubtful,       \* those whose outcome can stay unknown
    Limit,          \* _EXPLORATION_LIMIT
    Extension,      \* _FOCUSED_EXPLORATION_EXTENSION
    MaxTurns,       \* the smaller of max_iterations and max_turns
    MaxRetries,     \* max_model_retries
    MaxBlocks,      \* max_stop_hook_blocks
    Batches,        \* bound: the batches of calls a model turn may hold
    MaxBatch,       \* bound: the calls of a batch
    MaxCrashes      \* bound: ends of the process

Invocations == Looks \cup Plans \cup Acts

ASSUME LoopAssumption ==
    /\ Looks \cap Plans = {} /\ Looks \cap Acts = {} /\ Plans \cap Acts = {}
    /\ Asking \cup Failing \cup Flaky \cup Doubtful \subseteq Invocations
    /\ \A batch \in Batches : batch \in Seq(Invocations) /\ Len(batch) \in 1..MaxBatch
    /\ MaxBatch \in Nat \ {0}
    /\ Limit \in Nat \ {0} /\ Extension \in Nat
    /\ MaxTurns \in Nat \ {0} /\ MaxRetries \in Nat /\ MaxBlocks \in Nat \ {0}
    /\ MaxCrashes \in Nat

VARIABLES
    pc,        \* the next step of the loop, or where it has stopped
    mem,       \* LoopState
    disk,      \* the latest checkpoint
    retries,   \* model retries in a row
    running,   \* positions of the batch that have been given to the executor
    verdict,   \* what the loop will return with once its last snapshot is saved
    asked,     \* history: model calls made, counted up to AskedLimit + 1
    crashes,   \* history: ends of the process
    looked,    \* history: inspections run since an act was let through or taken up again
    let,       \* history: positions of the batch already counted in looked
    pain       \* history: per invocation, failures run since the last success (2: no more)

history == <<asked, crashes, looked, let, pain>>
vars == <<pc, mem, disk, retries, running, verdict, history>>

AskedLimit == MaxTurns + 1 + 2 * MaxCrashes
NoRequest == [kind |-> "none", at |-> 0]

\* What the loop reads of tool_results.  Of the delivery cycle (the results since
\* the last one of an act): its inspections, those in doubt (positions of the batch), which
\* will be told again, apart from the others, and whether it holds a blocked inspection and
\* an update_plan.  Of the trailing errors: for each invocation
\* whether it may be tried ("none", "once" failed), is refused ("shut") or has
\* been refused already ("open").  And whether there is an error at all.
NoFailures == [i \in Invocations |-> "none"]
NoResults == [looks |-> 0, control |-> FALSE, planned |-> FALSE, again |-> {},
              fails |-> NoFailures, erred |-> FALSE]

\* LoopState: the pending calls are positions of the scheduled batch.
FreshState ==
    [status |-> "running", iteration |-> 0, overflowed |-> FALSE,
     blocks |-> 0, batch |-> <<>>, pending |-> {}, rec |-> {}, approved |-> {},
     denied |-> {}, unsure |-> {}, sure |-> {}, req |-> NoRequest, told |-> NoResults]

Live == {"head", "model", "hook", "tools", "end"}

Init ==
    /\ pc = "head"
    /\ mem = FreshState
    /\ disk = FreshState
    /\ retries = 0
    /\ running = {}
    /\ verdict = "none"
    /\ asked = 0
    /\ crashes = 0
    /\ looked = 0
    /\ let = {}
    /\ pain = [i \in Invocations |-> 0]

-----------------------------------------------------------------------------
(* Snapshots and the ways out of the loop. *)

Save(state, label) == mem' = state /\ disk' = state /\ pc' = label

Failed(state) == [state EXCEPT !.status = "failed"]
Completed(state) == [state EXCEPT !.status = "completed"]
Paused(state, req) == [state EXCEPT !.status = "paused", !.req = req]

\* _fail or _pause after a step that has saved already.
End ==
    /\ pc = "end"
    /\ Save(IF verdict = "failed" THEN Failed(mem)
            ELSE Paused(mem, [kind |-> "input", at |-> 0]), "exit")
    /\ verdict' = "none"
    /\ UNCHANGED <<retries, running, history>>

-----------------------------------------------------------------------------
(* The top of the loop. *)

\* A pending batch goes first; then max_turns and compaction are looked at.  The
\* iteration is counted in memory only: the snapshot comes after the model's
\* answer.
TurnsUsedUp ==
    /\ pc = "head" /\ mem.pending = {} /\ mem.iteration >= MaxTurns
    /\ Save(Failed(mem), "exit")
    /\ UNCHANGED <<retries, running, verdict, history>>

CompactionFails ==
    /\ pc = "head" /\ mem.pending = {} /\ mem.iteration < MaxTurns
    /\ Save(Failed(mem), "exit")
    /\ UNCHANGED <<retries, running, verdict, history>>

CallModel ==
    /\ pc = "head" /\ mem.pending = {} /\ mem.iteration < MaxTurns
    /\ pc' = "model"
    /\ mem' = [mem EXCEPT !.iteration = @ + 1]
    /\ asked' = IF asked > AskedLimit THEN asked ELSE asked + 1
    /\ UNCHANGED <<disk, retries, running, verdict, crashes, looked, let, pain>>

-----------------------------------------------------------------------------
(* What comes of a model call. *)

ModelFrame == UNCHANGED <<running, verdict, history>>

\* _handle_overflow: the prompt did not fit.  The state is compacted once in a turn,
\* and the iteration given back; nothing is saved.  A faulty variant forgets that.
OverflowAgain ==
    /\ pc = "model"
    /\ pc' = "head"
    /\ mem' = [mem EXCEPT !.iteration = @ - 1]
    /\ UNCHANGED <<disk, retries>> /\ ModelFrame
OverflowRecovered ==
    /\ pc = "model" /\ ~mem.overflowed
    /\ pc' = "head"
    /\ mem' = [mem EXCEPT !.overflowed = TRUE, !.iteration = @ - 1]
    /\ UNCHANGED <<disk, retries>> /\ ModelFrame
OverflowFails ==
    /\ pc = "model"
    /\ \/ mem.overflowed /\ Save(Failed(mem), "exit")
       \/ ~mem.overflowed /\ Save(Failed([mem EXCEPT !.overflowed = TRUE]), "exit")
    /\ UNCHANGED retries /\ ModelFrame

\* _handle_invalid_turn and _handle_provider_error: the call raised, or its answer is
\* not a model turn.
ToolErrorEnds ==
    /\ pc = "model" /\ mem.told.erred
    /\ Save(Failed(mem), "exit")
    /\ UNCHANGED retries /\ ModelFrame
ModelRetry ==
    /\ pc = "model" /\ retries < MaxRetries
    /\ retries' = retries + 1
    /\ Save(mem, "head")
    /\ ModelFrame
RetriesUsedUp ==
    /\ pc = "model" /\ retries >= MaxRetries
    /\ Save(Failed(mem), "exit")
    /\ UNCHANGED retries /\ ModelFrame

\* The dispatch of an accepted turn; a faulty variant keeps what it knew of the calls of
\* the batch before.
ScheduleKeepingRecords(batch) ==
    /\ pc = "model"
    /\ Save([mem EXCEPT !.batch = batch, !.pending = DOMAIN batch], "head")
    /\ retries' = 0 /\ let' = {}
    /\ UNCHANGED <<running, verdict, asked, crashes, looked, pain>>
Schedule(batch) ==
    /\ pc = "model"
    /\ Save([mem EXCEPT !.batch = batch, !.pending = DOMAIN batch, !.rec = {},
                        !.approved = {}, !.denied = {}, !.unsure = {}, !.sure = {}], "head")
    /\ retries' = 0 /\ let' = {}
    /\ UNCHANGED <<running, verdict, asked, crashes, looked, pain>>
ModelPauses ==
    /\ pc = "model"
    /\ Save(mem, "end")
    /\ verdict' = "paused" /\ retries' = 0
    /\ UNCHANGED <<running, history>>
ModelFinishes ==
    /\ pc = "model"
    /\ Save(mem, "hook")
    /\ retries' = 0
    /\ ModelFrame

-----------------------------------------------------------------------------
(* _evaluate_finish and StopHookRunner.evaluate. *)

HooksAccept ==
    /\ pc = "hook"
    /\ Save(Completed(mem), "exit")
    /\ UNCHANGED <<retries, running, verdict, history>>
HooksHalt ==
    /\ pc = "hook"
    /\ Save(Failed(mem), "exit")
    /\ UNCHANGED <<retries, running, verdict, history>>

\* A blocked finish is counted and the loop goes on; a faulty variant asks the model again at
\* once and counts neither the block nor the iteration.
HookBlocksUncounted ==
    /\ pc = "hook"
    /\ Save(mem, "model")
    /\ UNCHANGED <<retries, running, verdict, history>>
HookBlocks ==
    /\ pc = "hook"
    /\ LET blocked == [mem EXCEPT !.blocks = @ + 1] IN
       IF blocked.blocks >= MaxBlocks
       THEN Save(Failed(blocked), "exit")
       ELSE Save(blocked, "head")
    /\ UNCHANGED <<retries, running, verdict, history>>

-----------------------------------------------------------------------------
(* The guards of _execute_pending_tools.  Both leave a call that has an     *)
(* execution record to the executor, which replays or reconciles it.        *)

Fresh == mem.pending \ mem.rec
Last(positions) == IF positions = {} THEN 0 ELSE Max(positions)
LastBefore(positions, i) == Last({j \in positions : j < i})

\* _guard_exploration_stall: the inspections the delivery cycle has room for.  An
\* update_plan extends it once, when the cycle holds a blocked inspection already;
\* an act begins a cycle.  A faulty variant counts the inspections of one batch only.
FreshActs == {i \in Fresh : mem.batch[i] \in Acts}
FreshLooks == {i \in Fresh : mem.batch[i] \in Looks}
CycleLimit == Limit + (IF mem.told.control /\ mem.told.planned THEN Extension ELSE 0)
RoomPerBatch(i) == IF LastBefore(FreshActs, i) # 0 THEN Limit ELSE CycleLimit
Seen == mem.told.looks + Cardinality(mem.told.again)
Room(i) == IF LastBefore(FreshActs, i) # 0 THEN Limit
           ELSE IF CycleLimit > Seen THEN CycleLimit - Seen ELSE 0
LetThrough(i) ==
    i \in FreshLooks =>
        Cardinality({j \in FreshLooks : LastBefore(FreshActs, i) < j /\ j < i}) < Room(i)
Stalled == {i \in Fresh : ~LetThrough(i)}
StillStalled(i) == mem.told.control /\ LastBefore(FreshActs, i) = 0

\* _guard_repeated_tool_failures, and a faulty variant that refuses only what has
\* been refused before.
RefusedOnceOpen(i) == i \in Fresh \ Stalled /\ mem.told.fails[mem.batch[i]] = "open"
Refused(i) == i \in Fresh \ Stalled /\ mem.told.fails[mem.batch[i]] \in {"shut", "open"}
Broken == {i \in Fresh : Refused(i)}
StillBroken(i) == mem.told.fails[mem.batch[i]] = "open"

Executable == mem.pending \ (Stalled \cup Broken)

\* A call that asks is held by the executor until a human has answered, and one that was
\* denied is not run.
Asks(i) == mem.batch[i] \in Asking /\ i \notin mem.rec \cup mem.approved \cup mem.denied

\* execute_batch is called; each inspection that will run is counted once.
ExecutePendingTools ==
    /\ pc = "head" /\ mem.pending # {}
    /\ pc' = "tools"
    /\ running' = Executable
    /\ LET looks == {i \in FreshLooks \cap Executable : ~Asks(i) /\ i \notin mem.denied}
           acts == {i \in mem.pending : mem.batch[i] \in Acts}
       IN
       /\ looked' = IF acts # {} THEN Cardinality({i \in looks : i > Last(acts)})
                    ELSE looked + Cardinality(looks \ let)
       /\ let' = let \cup looks
    /\ UNCHANGED <<mem, disk, retries, verdict, asked, crashes, pain>>

-----------------------------------------------------------------------------
(* The results of a batch. *)

\* The ways a pending call can end.  A call whose outcome is in doubt is held until a
\* human reconciles it, if it is the first such call of the batch, or else told as an
\* error; one that asks is held too.
Outcomes(i) ==
    IF i \in mem.sure THEN {"ok", "failed"}
    ELSE {"ok"} \cup (IF mem.batch[i] \in Failing THEN {"failed"} ELSE {})
                \cup (IF mem.batch[i] \in Flaky THEN {"flaky"} ELSE {})
                \cup (IF mem.batch[i] \in Doubtful THEN {"doubt"} ELSE {})
FirstDoubt(res, i) == \A j \in DOMAIN res : j < i => res[j] # "doubt"
Ends(res, i) ==
    IF i \in Stalled THEN res[i] = "control"
    ELSE IF i \in Broken THEN res[i] = "circuit"
    ELSE IF i \in mem.denied THEN res[i] = "failed"
    ELSE IF Asks(i) THEN res[i] = "approval"
    ELSE IF i \in mem.unsure \ mem.sure
    THEN res[i] = IF FirstDoubt(res, i) THEN "doubt" ELSE "failed"
    ELSE res[i] \in Outcomes(i) /\ (res[i] = "doubt" => FirstDoubt(res, i))
Endings == {"ok", "failed", "flaky", "approval", "doubt", "control", "circuit"}

\* What is read of tool_results once they are appended, in the order of the batch.
\* A call that asks has no result yet; one in doubt has an error, which gives its place to
\* what is told of the call next.
Told(res) == {i \in DOMAIN res : res[i] # "approval"}
CycleAfter(res) ==
    LET lastAct == Last({i \in Told(res) : mem.batch[i] \in Acts})
        later == {i \in Told(res) : i > lastAct}
        old == mem.told
        looks == {i \in later : mem.batch[i] \in Looks /\ res[i] # "control"}
        again == {i \in looks : res[i] = "doubt"}
    IN [looks |-> (IF lastAct = 0 THEN old.looks ELSE 0) + Cardinality(looks \ again),
        again |-> again,
        control |-> (lastAct = 0 /\ old.control) \/ \E i \in later : res[i] = "control",
        planned |-> (lastAct = 0 /\ old.planned) \/ \E i \in later : mem.batch[i] \in Plans]

LastSuccess(res) == Last({i \in Told(res) : res[i] = "ok"})
NewFailures(res, v) == {i \in Told(res) : i > LastSuccess(res) /\ mem.batch[i] = v}
FailsAfter(res) ==
    [v \in Invocations |->
        LET old == IF LastSuccess(res) = 0 THEN mem.told.fails[v] ELSE "none"
            new == NewFailures(res, v)
        IN IF new = {} THEN old
           ELSE IF old = "open" \/ \E i \in new : res[i] = "circuit" THEN "open"
           ELSE IF old = "none" /\ Cardinality(new) = 1 /\ \A i \in new : res[i] = "flaky"
           THEN "once" ELSE "shut"]

ToldAfter(res) ==
    LET cycle == CycleAfter(res) IN
    [looks |-> cycle.looks, control |-> cycle.control, planned |-> cycle.planned,
     again |-> cycle.again, fails |-> FailsAfter(res),
     erred |-> mem.told.erred \/ \E i \in Told(res) : res[i] \notin {"ok", "doubt"}]

\* The failures a user of the tools would count: of calls that ran.
PainAfter(res) ==
    [v \in Invocations |->
        LET ran == {i \in NewFailures(res, v) : res[i] \in {"failed", "flaky"}}
            old == IF LastSuccess(res) = 0 THEN pain[v] ELSE 0
        IN IF old + Cardinality(ran) > 1 \/ \E i \in ran : res[i] = "failed"
           THEN 2 ELSE old + Cardinality(ran)]

\* After execute_batch: the turn pauses when a call is held, approvals first; else the
\* results are saved, and a batch of which nothing ran while a guard had refused
\* before ends the turn, stalled deliveries first.
RecordResults(res) ==
    LET asking == {i \in DOMAIN res : res[i] = "approval"}
        doubtful == {i \in DOMAIN res : res[i] = "doubt"}
        held(set, kind) == [kind |-> kind, at |-> Min(set)]
        after == [mem EXCEPT !.pending = asking \cup doubtful, !.told = ToldAfter(res),
                             !.rec = @ \cup doubtful, !.unsure = @ \cup doubtful]
    IN IF asking # {}
       THEN Save(Paused(after, held(asking, "approval")), "exit") /\ UNCHANGED verdict
       ELSE IF doubtful # {}
       THEN Save(Paused(after, held(doubtful, "reconciliation")), "exit") /\ UNCHANGED verdict
       ELSE IF running = {} /\ \/ \E i \in Stalled : StillStalled(i)
                               \/ \E i \in Broken : StillBroken(i)
       THEN Save(after, "end") /\ verdict' = "failed"
       ELSE Save(after, "head") /\ UNCHANGED verdict

BatchEnds ==
    /\ pc = "tools"
    /\ \E res \in [mem.pending -> Endings] :
          /\ \A i \in mem.pending : Ends(res, i)
          /\ RecordResults(res)
          /\ pain' = PainAfter(res)
    /\ running' = {}
    /\ UNCHANGED <<retries, asked, crashes, looked, let>>

-----------------------------------------------------------------------------
(* The end of the process, or an exception out of the loop; the turn resumed.*)

\* What ran may have left its execution record, nothing else of memory survives.
Crash ==
    /\ pc \in Live /\ crashes < MaxCrashes
    /\ \E started \in SUBSET {i \in running : ~Asks(i) /\ i \notin mem.denied} :
          disk' = [disk EXCEPT !.rec = @ \cup started]
    /\ pc' = "down"
    /\ mem' = disk'
    /\ running' = {} /\ verdict' = "none"
    /\ crashes' = crashes + 1
    /\ UNCHANGED <<retries, asked, looked, let, pain>>

Resume(answered) ==
    /\ pc \in {"exit", "down"} /\ disk.status \in {"running", "paused"}
    /\ Save([answered EXCEPT !.status = "running", !.req = NoRequest], "head")
    /\ retries' = 0
    /\ UNCHANGED <<running, verdict, history>>

Continue == disk.req.kind \in {"none", "input"} /\ Resume(disk)
Allow == disk.req.kind = "approval" /\ Resume([disk EXCEPT !.approved = @ \cup {disk.req.at}])
Deny == disk.req.kind = "approval" /\ Resume([disk EXCEPT !.denied = @ \cup {disk.req.at}])
Reconcile ==
    disk.req.kind = "reconciliation" /\ Resume([disk EXCEPT !.sure = @ \cup {disk.req.at}])

-----------------------------------------------------------------------------
ModelAnswers ==
    \/ OverflowRecovered \/ OverflowFails
    \/ ToolErrorEnds \/ ModelRetry \/ RetriesUsedUp
    \/ \E batch \in Batches : Schedule(batch)
    \/ ModelPauses \/ ModelFinishes

LoopStep ==
    \/ TurnsUsedUp \/ CompactionFails \/ CallModel
    \/ ModelAnswers
    \/ HooksAccept \/ HooksHalt \/ HookBlocks
    \/ ExecutePendingTools \/ BatchEnds
    \/ End

Next == LoopStep \/ Crash \/ Continue \/ Allow \/ Deny \/ Reconcile

Spec == Init /\ [][Next]_vars

\* A model call, a hook and a batch of tools return: each has its timeout.
FairSpec == Spec /\ WF_vars(LoopStep)

-----------------------------------------------------------------------------
(* Properties. *)

Positions == 1..MaxBatch
LoopStates ==
    [status : {"running", "paused", "completed", "failed"},
     iteration : 0..MaxTurns, overflowed : BOOLEAN, blocks : 0..MaxBlocks,
     batch : Batches \cup {<<>>},
     pending : SUBSET Positions, rec : SUBSET Positions, approved : SUBSET Positions,
     denied : SUBSET Positions, unsure : SUBSET Positions, sure : SUBSET Positions,
     req : [kind : {"none", "input", "approval", "reconciliation"}, at : 0..MaxBatch],
     told : [looks : Nat, control : BOOLEAN, planned : BOOLEAN, again : SUBSET Positions,
             fails : [Invocations -> {"none", "once", "shut", "open"}], erred : BOOLEAN]]

\* The type of a turn; what is known of single calls is about calls of its batch.
LoopTypeOK ==
    /\ pc \in Live \cup {"exit", "down"}
    /\ mem \in LoopStates /\ disk \in LoopStates
    /\ mem.pending \cup mem.rec \cup mem.approved \cup mem.denied \subseteq DOMAIN mem.batch
    /\ mem.sure \subseteq mem.unsure /\ mem.unsure \subseteq mem.rec
    /\ running \subseteq mem.pending
    /\ retries \in 0..MaxRetries
    /\ verdict \in {"none", "paused", "failed"}
    /\ asked \in 0..AskedLimit + 1 /\ crashes \in 0..MaxCrashes
    /\ looked \in Nat /\ let \subseteq Positions /\ pain \in [Invocations -> 0..2]

\* A turn calls its model at most MaxTurns times, and once more after an overflow; a
\* crash may forget two calls.  Retries, resumptions and blocked finishes are counted.
ModelCallsBounded ==
    asked <= mem.iteration + (IF mem.overflowed THEN 1 ELSE 0) + 2 * crashes

\* Between two acts the model gets at most Limit inspections and, once, Extension more,
\* however it spreads them over batches, plans, approvals, reconciliations and resumptions.
\* Each crash may add the rest of one batch: the calls it had recorded are not counted again.
InspectionsBounded == looked <= Limit + Extension + crashes * (MaxBatch - 1)

\* No call is started that is identical to one that has failed for good, or twice, in
\* an earlier batch with no success since; not after a resumption either.
NoBlindRepeat ==
    pc = "tools" => \A i \in running \ mem.rec : pain[mem.batch[i]] < 2

\* The loop always comes to an end or a pause.
LoopEnds == pc \in Live ~> pc \in {"exit", "down"}
=============================================================================
