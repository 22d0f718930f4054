---------------------------- MODULE TurnService ----------------------------
(***************************************************************************)
(* AgentService (rag/agent/service.py) over the turn table and the         *)
(* checkpoint store: how a turn is opened, run, paused, finalised,         *)
(* interrupted, inspected and resumed when several service objects (in     *)
(* different processes) share the two databases.                           *)
(*                                                                         *)
(* A worker is one AgentService object serving one call at a time.  Each   *)
(* of its awaits, and each transaction on either database, is a step of    *)
(* its own; what lies between two of them is local and belongs to the next *)
(* step.  The agent loop is reduced to one turn with at most one tool call,*)
(* of a tool that is not idempotent: the loop itself is AgentLoop.tla, the *)
(* executor ToolExecution.tla.                                             *)
(***************************************************************************)
EXTENDS TurnStore

CONSTANTS
    UserMessage,        \* the message a turn is begun with
    NoState,            \* no checkpoint
    RemoteTool,         \* TRUE: cancelling the tool leaves its outcome unknown
    TimelyHeartbeats,   \* assume a live worker renews its lease in time
    Overlap,            \* kinds of call that may begin while another is under way
    Modes,              \* how a new turn is run: "run" and/or "stream"
    Drifts,             \* possible results of the manifest reconciliation
    MaxCalls,           \* bound: calls of the service
    MaxFaults           \* bound: crashes, exceptions and user cancellations

ASSUME ServiceAssumption ==
    /\ UserMessage \in Messages
    /\ \A k \in {"call", "result", "reply", "input"}, w \in Workers : <<k, w>> \in Messages
    /\ RemoteTool \in BOOLEAN /\ TimelyHeartbeats \in BOOLEAN 
    /\ Overlap \subseteq {"resume", "inspect"}
    /\ Modes \subseteq {"run", "stream"}
    /\ "match" \in Drifts /\ Drifts \subseteq {"match", "revision", "changed", "removed"}
    /\ MaxCalls \in Nat /\ MaxFaults \in Nat

VARIABLES
    cp,        \* the latest checkpoint of each turn: a LoopState or NoState
    wk,        \* the workers
    effects,   \* how often the turn's tool call has acted on the world
    granted,   \* history variable: the caller has allowed the tool call
    requests,  \* human input requests issued (their uuids)
    calls,     \* service calls made
    faults     \* crashes, exceptions and cancellations so far

worldVars == <<effects, granted>>
budgetVars == <<calls, faults>>
serviceVars == <<storeVars, cp, wk, worldVars, requests, budgetVars>>

NoRequest == [kind |-> "none", id |-> 0]
Request(k) == [kind |-> k, id |-> requests + 1]

\* LoopState: status; how far the turn is ("model": nothing scheduled, "tool": the
\* call is pending, "answer": its result is in the transcript); the execution
\* record of the call; the pending human request; the approval of the call; the
\* transcript.
InitialState(g) ==
    [status |-> "running", stage |-> "model", rec |-> "none", req |-> NoRequest,
     grant |-> g, log |-> <<UserMessage>>]

\* A worker: the label of its next step; the turn it was called for and how; its
\* LoopState; the cached state of its checkpoint store; the label after the
\* snapshot sink; whether its heartbeat runs and a cancellation is pending; the
\* action of a resume; whether a stream is in its finally block, and the exception
\* that block will raise again.
IdleWorker ==
    [pc |-> "idle", turn |-> NoTurn, mode |-> "none", st |-> NoState, cache |-> NoState,
     next |-> "idle", beating |-> FALSE, cancelled |-> FALSE, action |-> "none",
     closing |-> FALSE, exc |-> "none"]

\* Steps of a resume or an inspection before claim_for_resume.
Unclaimed == {"load", "manifest", "claim", "leave"}
InCall(w) == wk[w].pc \notin {"idle", "dead"}
Claimed(w) == InCall(w) /\ wk[w].mode # "observe"
                 /\ wk[w].pc \notin Unclaimed
                 /\ ~(wk[w].pc = "sync" /\ wk[w].next \in Unclaimed)

ServiceInit ==
    /\ StoreInit
    /\ cp = [t \in Turns |-> NoState]
    /\ wk = [w \in Workers |-> IdleWorker]
    /\ effects = [t \in Turns |-> 0]
    /\ granted = [t \in Turns |-> FALSE]
    /\ requests = 0
    /\ calls = 0
    /\ faults = 0

-----------------------------------------------------------------------------
(* Vocabulary of the steps. *)

Become(w, label) == wk' = [wk EXCEPT ![w].pc = label]
Leave(w) == wk' = [wk EXCEPT ![w] = IdleWorker]
Fault == faults < MaxFaults /\ faults' = faults + 1

\* Exceptions reach _open_turn or resume_turn's handler once the turn is held;
\* before that they reach the caller, and the turn is left as it is.
Raised(w, u, label) == IF Claimed(w) THEN [u EXCEPT !.pc = label] ELSE IdleWorker
Raise(w) == wk' = [wk EXCEPT ![w] = Raised(w, wk[w], "error")]

\* _save_snapshot_unlocked up to aput, by a worker whose memory is now u: the
\* checkpoint is replaced by snap, whatever it was, and the store's cached state
\* with it; the snapshot sink runs next.  Or the await raises, and what has been
\* changed in memory stays changed.
Persist(w, u, snap, label) ==
    \/ /\ cp' = [cp EXCEPT ![wk[w].turn] = snap]
       /\ wk' = [wk EXCEPT ![w] = [u EXCEPT !.cache = snap, !.pc = "sync", !.next = label]]
       /\ UNCHANGED faults
    \/ /\ Fault
       /\ wk' = [wk EXCEPT ![w] = Raised(w, u, "error")]
       /\ UNCHANGED cp
    \/ /\ u.cancelled
       /\ wk' = [wk EXCEPT ![w] = Raised(w, u, "cancelled")]
       /\ UNCHANGED <<cp, faults>>

With(w, s) == [wk[w] EXCEPT !.st = s]
Save(w, s, label) == Persist(w, With(w, s), s, label)

\* write_execution_record: the store's cached state, with the new record.
PersistRecord(w, u, r, label) == Persist(w, u, [wk[w].cache EXCEPT !.rec = r], label)

Say(s, w, kind) == [s EXCEPT !.log = Append(s.log, <<kind, w>>)]

(* Faulty variants of definitions below. *)
AmbiguousIfReported(s) == s.rec = "unknown"

\* Records that load_for_resume and the executor refuse to run again.
Ambiguous(s) == s.rec \in {"started", "unknown"}
Settled(s) == s.rec \in {"completed", "failed"}

PausedFor(s, kind) == [s EXCEPT !.status = "paused", !.req = Request(kind)]

-----------------------------------------------------------------------------
(* Persisting. *)

\* The snapshot sink, _sync_checkpoint_turn: the canonical history follows the
\* checkpoint, or the save raises although the checkpoint has been written.
SyncSink(w) ==
    LET t == wk[w].turn IN
    /\ wk[w].pc = "sync"
    /\ IF ExtendsHistory(t, wk[w].cache.log)
       THEN /\ SyncTurnMessages(t, wk[w].cache.log)
            /\ Become(w, wk[w].next)
       ELSE Raise(w) /\ UNCHANGED storeVars
    /\ UNCHANGED <<cp, worldVars, requests, budgetVars>>

\* A call that ends without touching the turn: an inspection, or a resume that
\* stops at a changed tool definition.
Return(w) ==
    /\ wk[w].pc = "leave"
    /\ Leave(w)
    /\ UNCHANGED <<storeVars, cp, worldVars, requests, budgetVars>>

-----------------------------------------------------------------------------
(* A new turn: _open_turn, _prepare_execution and the start of the heartbeat. *)

OpenTurn(w, t, r, g, m) ==
    /\ wk[w].pc = "idle"
    /\ calls < MaxCalls
    /\ BeginTurn(t, UserMessage, r, NoTurn, w)
    /\ wk' = [wk EXCEPT ![w] = [IdleWorker EXCEPT !.pc = "loop_start", !.turn = t,
                                    !.mode = m, !.st = InitialState(g), !.beating = TRUE]]
    /\ granted' = [granted EXCEPT ![t] = (g = "yes")]
    /\ calls' = calls + 1
    /\ UNCHANGED <<cp, effects, requests, faults>>

-----------------------------------------------------------------------------
(* The loop.  Every step ends with a snapshot. *)

Looping(w, stages) == wk[w].pc = "step" /\ wk[w].st.stage \in stages
LoopFrame == UNCHANGED <<storeVars, worldVars, calls>>

(* Faulty variants of the steps below. *)
ModelPauseUnsaved(w) ==
    /\ Looping(w, {"model", "answer"})
    /\ wk' = [wk EXCEPT ![w].st.status = "paused", ![w].pc = "final_sync"]
    /\ LoopFrame /\ UNCHANGED <<cp, requests, faults>>
PrepareUnlessDenied(w) ==
    /\ Looping(w, {"tool"}) /\ ~Ambiguous(wk[w].st) /\ ~Settled(wk[w].st)
    /\ wk[w].st.grant # "no"
    /\ PersistRecord(w, wk[w], "prepared", "start")
    /\ LoopFrame /\ UNCHANGED requests

LoopStart(w) ==
    /\ wk[w].pc = "loop_start"
    /\ Save(w, wk[w].st, "step")
    /\ LoopFrame /\ UNCHANGED requests

\* The model schedules the tool call.
ScheduleCall(w) ==
    /\ Looping(w, {"model"})
    /\ Save(w, Say([wk[w].st EXCEPT !.stage = "tool"], w, "call"), "step")
    /\ LoopFrame /\ UNCHANGED requests

\* The model answers, or the loop fails (budget, retries, iteration limit).
EndLoop(w, verdict) ==
    /\ Looping(w, {"model", "answer"})
    /\ Save(w, IF verdict = "completed"
               THEN Say([wk[w].st EXCEPT !.status = verdict], w, "reply")
               ELSE [wk[w].st EXCEPT !.status = verdict], "final_sync")
    /\ LoopFrame /\ UNCHANGED requests

\* The model pauses the turn; there is no typed request in that pause.
ModelPause(w) ==
    /\ Looping(w, {"model", "answer"})
    /\ Save(w, [wk[w].st EXCEPT !.status = "paused"], "pause_final")
    /\ LoopFrame /\ UNCHANGED requests

MayPrepare(s) == ~Ambiguous(s) /\ ~Settled(s)

PauseForApproval(w) ==
    /\ Looping(w, {"tool"}) /\ MayPrepare(wk[w].st) /\ wk[w].st.grant = "ask"
    /\ Save(w, PausedFor(wk[w].st, "approval"), "pause_final")
    /\ requests' = requests + 1
    /\ LoopFrame

\* A denied call, and one whose record is already settled, get their result
\* without running.
RecordResult(w) ==
    /\ \/ Looping(w, {"tool"}) /\ MayPrepare(wk[w].st) /\ wk[w].st.grant = "no"
       \/ Looping(w, {"tool"}) /\ Settled(wk[w].st)
       \/ wk[w].pc = "merge" /\ Settled(wk[w].st)
    /\ Save(w, Say([wk[w].st EXCEPT !.stage = "answer"], w, "result"), "step")
    /\ LoopFrame /\ UNCHANGED requests

\* An unknown outcome pauses the turn; its error result is in the transcript too.
PauseForReconciliation(w) ==
    /\ wk[w].pc = "merge" /\ Ambiguous(wk[w].st)
    /\ Save(w, PausedFor(Say(wk[w].st, w, "result"), "reconciliation"), "pause_final")
    /\ requests' = requests + 1
    /\ LoopFrame

PrepareCall(w) ==
    /\ Looping(w, {"tool"}) /\ MayPrepare(wk[w].st) /\ wk[w].st.grant = "yes"
    /\ PersistRecord(w, wk[w], "prepared", "start")
    /\ LoopFrame /\ UNCHANGED requests

\* STARTED is durable before the runner is called.
StartCall(w) ==
    /\ wk[w].pc = "start"
    /\ PersistRecord(w, wk[w], "started", "invoke")
    /\ LoopFrame /\ UNCHANGED requests

InvokeTool(w) ==
    /\ wk[w].pc = "invoke"
    /\ Become(w, "outcome")
    /\ effects' = [effects EXCEPT ![wk[w].turn] = @ + 1]
    /\ UNCHANGED <<storeVars, cp, granted, requests, budgetVars>>

Outcomes == {"completed", "failed"} \cup (IF RemoteTool THEN {"unknown"} ELSE {})

ToolReturns(w, o) ==
    /\ wk[w].pc = "outcome"
    /\ PersistRecord(w, With(w, [wk[w].st EXCEPT !.rec = o]), o, "merge")
    /\ LoopFrame /\ UNCHANGED requests

\* Cancelled while the tool runs: a remote tool leaves OUTCOME_UNKNOWN and the loop
\* goes on (the consumer of a stream still gets its exception afterwards); a local
\* one is FAILED and the cancellation goes on.
ToolCancelled(w) ==
    /\ wk[w].pc = "outcome" /\ wk[w].cancelled
    /\ IF RemoteTool
       THEN PersistRecord(w, [wk[w] EXCEPT !.st.rec = "unknown", !.cancelled = FALSE,
                                  !.exc = IF wk[w].mode = "stream" THEN "cancelled" ELSE @],
                          "unknown", "merge")
       ELSE PersistRecord(w, [wk[w] EXCEPT !.st.rec = "failed", !.cancelled = FALSE],
                          "failed", "cancelled")
    /\ LoopFrame /\ UNCHANGED requests

-----------------------------------------------------------------------------
(* The end of a call that holds the turn. *)

\* "service_pause_finalized"
PauseFinal(w) ==
    /\ wk[w].pc = "pause_final"
    /\ Persist(w, [wk[w] EXCEPT !.closing = TRUE], wk[w].st, "final_sync")
    /\ LoopFrame /\ UNCHANGED requests

\* _sync_turn is two transactions: the transcript, then the status.
FinalSync(w) ==
    LET t == wk[w].turn IN
    /\ wk[w].pc = "final_sync"
    /\ IF ExtendsHistory(t, wk[w].st.log)
       THEN /\ SyncTurnMessages(t, wk[w].st.log)
            /\ Become(w, "final_mark")
       ELSE /\ wk' = [wk EXCEPT ![w].pc = "error", ![w].closing = TRUE]
            /\ UNCHANGED storeVars
    /\ UNCHANGED <<cp, worldVars, requests, budgetVars>>

FinalMark(w) ==
    LET t == wk[w].turn
        Mark == IF wk[w].st.status = "paused" THEN MarkPaused(t)
                                              ELSE MarkTerminal(t, wk[w].st.status)
        Accepted == IF wk[w].st.status = "paused" THEN status[t] = "running"
                                                  ELSE status[t] \notin Terminal
    IN
    /\ wk[w].pc = "final_mark"
    /\ IF Accepted
       THEN /\ Mark
            /\ IF wk[w].exc = "none" THEN Leave(w) ELSE Become(w, wk[w].exc)
       ELSE /\ wk' = [wk EXCEPT ![w].pc = "error", ![w].closing = TRUE]
            /\ UNCHANGED storeVars
    /\ UNCHANGED <<cp, worldVars, requests, budgetVars>>

Unwinding(w) == wk[w].pc \in {"error", "cancelled"}

\* The finally block of a stream synchronises a state that is not running any more,
\* whatever the exception was and however far its checkpoint got.
StreamCloses(w) == wk[w].mode = "stream" /\ wk[w].st.status # "running" /\ ~wk[w].closing

StreamFinally(w) ==
    /\ Unwinding(w) /\ StreamCloses(w)
    /\ wk' = [wk EXCEPT ![w].closing = TRUE,
                        ![w].exc = IF @ = "none" THEN wk[w].pc ELSE @,
                        ![w].pc = IF wk[w].st.status = "paused" THEN "pause_final"
                                                                ELSE "final_sync"]
    /\ UNCHANGED <<storeVars, cp, worldVars, requests, budgetVars>>

\* _fail_turn and _interrupt_turn look at the status, never at the lease owner.
\* A new turn fails on an exception; a resumed one is interrupted on everything.
Unwind(w) ==
    LET t == wk[w].turn
        cause == IF wk[w].exc # "none" /\ ~wk[w].closing THEN wk[w].exc ELSE wk[w].pc IN
    /\ Unwinding(w) /\ ~StreamCloses(w)
    /\ IF status[t] # "running" THEN UNCHANGED storeVars
       ELSE IF cause = "error" /\ wk[w].mode # "resume" THEN MarkTerminal(t, "failed")
       ELSE MarkInterrupted(t)
    /\ Leave(w)
    /\ UNCHANGED <<cp, worldVars, requests, budgetVars>>

-----------------------------------------------------------------------------
(* Resuming a turn: resume_turn, and inspecting it: apending_input. *)

\* A call that holds the turn keeps others away by its lease; what happens when
\* calls overlap before that is a parameter.
MayBegin(t, kind) ==
    kind \in Overlap \/
    \A v \in Workers : InCall(v) /\ wk[v].turn = t => kind = "resume" /\ Claimed(v)

StartCallOf(w, t, m) ==
    /\ wk[w].pc = "idle"
    /\ calls < MaxCalls
    /\ wk' = [wk EXCEPT ![w] = [IdleWorker EXCEPT !.pc = "load", !.turn = t, !.mode = m]]
    /\ calls' = calls + 1
    /\ UNCHANGED <<cp, worldVars, requests, faults>>

Resume(w, t) ==
    /\ MayBegin(t, "resume")
    /\ StartCallOf(w, t, "resume") /\ PrepareTurnForResume(t)

\* apending_input looks at the status once and takes no lease.
Inspect(w, t) ==
    /\ MayBegin(t, "inspect")
    /\ Exists(t) /\ status[t] \notin Terminal
    /\ StartCallOf(w, t, "observe")
    /\ UNCHANGED storeVars

\* load_for_resume: an ambiguous record becomes OUTCOME_UNKNOWN, durably, with a
\* request for a human decision.  Neither the lease nor the status is looked at.
LoadForResume(w) ==
    LET s == cp[wk[w].turn]
        Asked == [PausedFor(s, "reconciliation") EXCEPT !.rec = "unknown"] IN
    /\ wk[w].pc = "load"
    /\ IF s = NoState
       THEN Leave(w) /\ UNCHANGED <<cp, requests, faults>>
       ELSE IF Ambiguous(s)
       THEN Save(w, Asked, "manifest") /\ requests' = requests + 1
       ELSE /\ wk' = [wk EXCEPT ![w].st = s, ![w].cache = s, ![w].pc = "manifest"]
            /\ UNCHANGED <<cp, requests, faults>>
    /\ LoopFrame

\* What _response_for_resume_action accepts for the request of a state.
ActionsFor(kind) ==
    {"abort"} \cup CASE kind = "none" -> {"continue"}
                     [] kind = "approval" -> {"allow_once", "deny"}
                     [] kind = "reconciliation" -> {"mark_completed", "mark_failed"}
                     [] kind = "drift" -> {"mark_failed"}
Actions == {"refused", "continue", "abort", "allow_once", "deny", "mark_completed",
            "mark_failed"}
Reconciling(s) == s.req.kind \in {"reconciliation", "drift"}

\* The pending call depends on a tool definition that has changed or is gone: the
\* turn is paused in the checkpoint only, and the caller is told.  A changed tool
\* gets an execution record, which the answer will settle.
Drifted(s, d) ==
    [PausedFor(s, "drift") EXCEPT
        !.rec = IF s.rec = "none" /\ d = "changed" THEN "prepared" ELSE @]

\* The manifest reconciliation is not run for an abort nor, before the claim, for a
\* pending reconciliation, and it has nothing to ask unless a call can still run.
DriftPossible(w, s, a, d) ==
    \/ d = "match"
    \/ /\ wk[w].mode = "observe" \/ (a # "abort" /\ ~Reconciling(s))
       /\ d # "revision" =>
            ~Reconciling(s) /\ s.stage = "tool" /\ ~Settled(s) /\ s.grant # "no"

\* _reconcile_manifest on the state that was loaded, then the check of the action:
\* one that does not fit the pending request is refused.
ReconcileManifest(w, a, d) ==
    LET s == wk[w].st
        done == IF wk[w].mode = "observe" \/ a = "refused" THEN "leave" ELSE "claim"
        u == [wk[w] EXCEPT !.action = a] IN
    /\ wk[w].pc = "manifest"
    /\ a \in {"refused"} \cup IF wk[w].mode = "observe" THEN {} ELSE ActionsFor(s.req.kind)
    /\ DriftPossible(w, s, a, d)
    /\ CASE d = "match" ->
              /\ wk' = [wk EXCEPT ![w] = [u EXCEPT !.pc = done]]
              /\ UNCHANGED <<cp, requests, faults>>
         [] d = "revision" ->
              /\ Persist(w, u, s, done)
              /\ UNCHANGED requests
         [] OTHER ->
              /\ Persist(w, [u EXCEPT !.st = Drifted(s, d)], Drifted(s, d), "leave")
              /\ requests' = requests + 1
    /\ LoopFrame

Claim(w) ==
    LET t == wk[w].turn IN
    /\ wk[w].pc = "claim"
    /\ IF Claimable(t)
       THEN /\ ClaimForResume(t, w)
            /\ wk' = [wk EXCEPT ![w].pc = "apply", ![w].beating = TRUE]
       ELSE Leave(w) /\ UNCHANGED storeVars
    /\ UNCHANGED <<cp, worldVars, requests, budgetVars>>

Answered(s, a) ==
    [s EXCEPT !.status = "running", !.req = NoRequest,
              !.grant = CASE a = "allow_once" -> "yes"
                          [] a = "deny" \/ (a = "mark_failed" /\ s.rec = "none") -> "no"
                          [] OTHER -> @,
              !.rec = CASE a = "mark_completed" -> "completed"
                        [] a = "mark_failed" /\ s.rec # "none" -> "failed"
                        [] OTHER -> @]

\* apply_human_response reloads the checkpoint and compares request ids; without a
\* response the state read before the claim is used as it is.
ApplyResponse(w) ==
    LET a == wk[w].action
        s == cp[wk[w].turn] IN
    /\ wk[w].pc = "apply"
    /\ IF a \in {"continue", "abort"}
       THEN /\ wk' = [wk EXCEPT ![w].st = Answered(wk[w].st, a), ![w].pc = "hydrate"]
            /\ UNCHANGED <<cp, granted, faults>>
       ELSE IF s.req = NoRequest \/ s.req # wk[w].st.req
       THEN Become(w, "error") /\ UNCHANGED <<cp, granted, faults>>
       ELSE /\ Save(w, Answered(s, a), "hydrate")
            /\ granted' = [granted EXCEPT ![wk[w].turn] = @ \/ a = "allow_once"]
    /\ UNCHANGED <<storeVars, effects, requests, calls>>

\* _hydrate_turn_state takes the longer of the two transcripts if one extends the
\* other; then the user's message, if any, and the snapshot that ends the resume.
\* (The manifest reconciliation that follows a settled reconciliation finds no call
\* left to protect: a new revision writes what the next snapshot writes.)
Hydrate(w, said) ==
    LET s == wk[w].st
        old == history[wk[w].turn]
        log == IF IsPrefix(old, s.log) THEN s.log ELSE old
        hydrated == [s EXCEPT !.log = log] IN
    /\ wk[w].pc = "hydrate"
    /\ IF ~IsPrefix(old, s.log) /\ ~IsPrefix(s.log, old)
       THEN Become(w, "error") /\ UNCHANGED <<cp, faults>>
       ELSE IF wk[w].action = "abort"
       THEN Save(w, [hydrated EXCEPT !.status = "failed"], "final_sync")
       ELSE Save(w, IF said THEN Say(hydrated, w, "input") ELSE hydrated, "loop_start")
    /\ LoopFrame /\ UNCHANGED requests

-----------------------------------------------------------------------------
(* The heartbeat and the environment. *)

\* _renew_turn_lease: it stops quietly when the turn is not running any more and
\* cancels the worker's task when somebody else owns the running turn.
Heartbeat(w) ==
    LET t == wk[w].turn IN
    /\ InCall(w) /\ wk[w].beating
    /\ IF status[t] = "running" /\ owner[t] = w
       THEN RenewLease(t, w) /\ UNCHANGED wk
       ELSE /\ wk' = [wk EXCEPT ![w].beating = FALSE,
                                ![w].cancelled = @ \/ status[t] = "running"]
            /\ UNCHANGED storeVars
    /\ UNCHANGED <<cp, worldVars, requests, budgetVars>>

FaultFrame == UNCHANGED <<storeVars, cp, worldVars, requests, calls>>

UserCancels(w) ==
    /\ Claimed(w) /\ ~wk[w].cancelled
    /\ Fault /\ wk' = [wk EXCEPT ![w].cancelled = TRUE]
    /\ FaultFrame

\* Labels whose step awaits something other than the running tool.
Awaiting == {"loop_start", "step", "start", "invoke", "merge", "sync", "pause_final", "apply"}

CancelDelivered(w) ==
    /\ Claimed(w) /\ wk[w].cancelled /\ wk[w].pc \in Awaiting
    /\ Become(w, "cancelled")
    /\ UNCHANGED <<storeVars, cp, worldVars, requests, budgetVars>>

\* An await raises: a database error, a provider error that is not retried.
StepRaises(w) ==
    /\ Claimed(w) /\ wk[w].pc \in Awaiting
    /\ Fault /\ Become(w, "error")
    /\ FaultFrame

Crash(w) ==
    /\ InCall(w)
    /\ Fault /\ wk' = [wk EXCEPT ![w] = [IdleWorker EXCEPT !.pc = "dead"]]
    /\ FaultFrame

\* With TimelyHeartbeats the clock never reaches the expiry of a lease whose owner
\* is alive and still renewing it.
TimePasses ==
    /\ TimelyHeartbeats =>
         \A w \in Workers : InCall(w) /\ wk[w].beating /\ owner[wk[w].turn] = w
                              => expires[wk[w].turn] > now + 1
    /\ Tick
    /\ UNCHANGED <<cp, wk, worldVars, requests, budgetVars>>

WorkerStep(w) ==
    \/ SyncSink(w) \/ Return(w)
    \/ LoopStart(w) \/ ScheduleCall(w) \/ ModelPause(w)
    \/ \E v \in Terminal : EndLoop(w, v)
    \/ PauseForApproval(w) \/ RecordResult(w) \/ PauseForReconciliation(w)
    \/ PrepareCall(w) \/ StartCall(w) \/ InvokeTool(w)
    \/ \E o \in Outcomes : ToolReturns(w, o)
    \/ ToolCancelled(w)
    \/ PauseFinal(w) \/ FinalSync(w) \/ FinalMark(w) \/ StreamFinally(w) \/ Unwind(w)
    \/ LoadForResume(w)
    \/ \E a \in Actions, d \in Drifts : ReconcileManifest(w, a, d)
    \/ Claim(w) \/ ApplyResponse(w)
    \/ \E said \in BOOLEAN : Hydrate(w, said)
    \/ CancelDelivered(w)

ServiceNext ==
    \/ \E w \in Workers, t \in Turns :
          \/ \E r \in Runtimes, g \in {"ask", "yes"}, m \in Modes : OpenTurn(w, t, r, g, m)
          \/ Resume(w, t)
          \/ Inspect(w, t)
    \/ \E w \in Workers :
          WorkerStep(w) \/ Heartbeat(w) \/ UserCancels(w) \/ StepRaises(w) \/ Crash(w)
    \/ TimePasses

ServiceSpec == ServiceInit /\ [][ServiceNext]_serviceVars

-----------------------------------------------------------------------------
(* Properties. *)

LoopStates ==
    [status : {"running", "paused"} \cup Terminal, stage : {"model", "tool", "answer"},
     rec : {"none", "prepared", "started", "unknown", "completed", "failed"},
     req : [kind : {"none", "approval", "reconciliation", "drift"}, id : Nat],
     grant : {"ask", "yes", "no"}, log : Seq(Messages)]
\* None is not a LoopState.
ASSUME StateAssumption == NoState \notin LoopStates

Labels == Unclaimed \cup Awaiting \cup
          {"idle", "dead", "outcome", "final_sync", "final_mark", "error", "cancelled", "hydrate"}

ServiceTypeOK ==
    /\ StoreTypeOK
    /\ cp \in [Turns -> LoopStates \cup {NoState}]
    /\ wk \in [Workers ->
         [pc : Labels, turn : Turns \cup {NoTurn}, mode : {"none", "run", "stream", "resume", "observe"},
          st : LoopStates \cup {NoState}, cache : LoopStates \cup {NoState}, next : Labels,
          beating : BOOLEAN, cancelled : BOOLEAN,
          action : Actions \cup {"none"}, closing : BOOLEAN,
          exc : {"none", "error", "cancelled"}]]
    /\ effects \in [Turns -> Nat] /\ granted \in [Turns -> BOOLEAN]
    /\ requests \in Nat /\ calls \in 0..MaxCalls /\ faults \in 0..MaxFaults

\* No two workers work on a turn at the same time: leases, with heartbeats that
\* arrive in time, are enough to serialise the calls that claim a turn.
Executes(w, t) == Claimed(w) /\ ~Unwinding(w) /\ wk[w].turn = t
ExclusiveExecution ==
    \A t \in Turns, v, w \in Workers : Executes(v, t) /\ Executes(w, t) => v = w

\* "Non-idempotent tool calls are never replayed automatically": the side effect
\* of the call happens at most once, across crashes, cancellations and resumes.
NeverReplayed == \A t \in Turns : effects[t] <= 1

\* The tool acts only if the caller allowed the call, in this process or in
\* another one; a denial or a stale approval never lets it run.
RunsOnlyIfGranted == \A t \in Turns : effects[t] > 0 => granted[t]

\* A turn is reported completed only when its final checkpoint has been written.
DurableCompletion ==
    \A t \in Turns : status[t] = "completed" => cp[t] # NoState /\ cp[t].status = "completed"

\* What the two databases say of a completed turn is the same turn: a follow-up
\* reads its history, a result its checkpoint.
CompletedTurnsAgree ==
    /\ DurableCompletion
    /\ \A t \in Turns : status[t] = "completed" => cp[t].log = history[t]

\* A paused turn can be taken up again: its checkpoint is paused as well and a
\* resume finds one transcript extending the other.
PausedTurnsResumable ==
    \A t \in Turns : status[t] = "paused" =>
        /\ cp[t] # NoState /\ cp[t].status = "paused"
        /\ IsPrefix(history[t], cp[t].log) \/ IsPrefix(cp[t].log, history[t])

\* A turn that has to be resumed in place, because no other turn may follow it, has
\* a checkpoint to resume from: resume_turn raises KeyError otherwise.
RecoverableTurnsHaveCheckpoint ==
    \A t \in Turns : status[t] \in Recoverable => cp[t] # NoState
=============================================================================
