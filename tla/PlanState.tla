----------------------------- MODULE PlanState -----------------------------
(***************************************************************************)
(* The plan a turn shows its user (agent_runtime/planning.py, PlanTracker,  *)
(* and the places of loop/runtime.py that call it).  The model replaces the *)
(* plan with the tool update_plan; the loop binds the calls of a decision to *)
(* the step under way, closes a step when one of its calls succeeds, and     *)
(* closes the plan when the turn ends.  The results of a batch may come in   *)
(* several parts, with pauses for a human between them.                     *)
(*                                                                         *)
(* A step is its id, status and calls; titles, tool names, notes and the     *)
(* patches that no caller of the product sends are left out.                *)
(***************************************************************************)
EXTENDS Naturals, FiniteSets, SequencesExt

CONSTANTS
    Submissions,   \* what update_plan is called with: sequences of statuses
    MaxSteps,      \* MAX_PLAN_STEPS
    StepRefs,      \* MAX_STEP_REFS
    MaxLog,        \* MAX_PLAN_EVENTS
    MaxBatch,      \* bound: calls of one decision
    MaxCalls,      \* bound: calls of the turn
    MaxRevision    \* bound: the model decides nothing after this revision of the plan

\* What an instance must assume of the constants.
PlanConstants ==
    /\ Submissions \subseteq Seq({"pending", "in_progress", "completed"}) \ {<<>>}
    /\ {MaxSteps, StepRefs, MaxLog} \subseteq Nat \ {0}
    /\ {MaxBatch, MaxCalls, MaxRevision} \subseteq Nat

VARIABLES
    book,      \* state["plan_state"]: the plan and its events
    waiting,   \* pending_tool_calls: the calls left and what update_plan was called with
    sent,      \* calls made so far; they are numbered
    earned,    \* history: the calls that succeeded
    outcome    \* the turn: "running", "completed" or "failed"

planVars == <<book, waiting, sent, earned, outcome>>

Open == {"pending", "in_progress"}

StepIds(steps) == {steps[i].id : i \in DOMAIN steps}

WithStatus(steps, status) == {i \in DOMAIN steps : steps[i].status = status}
\* The first step under way, or the first that waits, or the first of all.
NextStep(steps) ==
    LET under == WithStatus(steps, "in_progress")
        ahead == WithStatus(steps, "pending")
    IN  steps[Min(IF under # {} THEN under ELSE IF ahead # {} THEN ahead ELSE {1})].id
ActiveStep(active, steps) == IF active \in StepIds(steps) THEN active ELSE NextStep(steps)

\* An event goes with every new revision; the newest are kept.
Entered(b, type, plan) ==
    LET revised == [plan EXCEPT !.revision = @ + 1]
        log == Append(b.log, [type |-> type, revision |-> revised.revision])
    IN  [plan |-> revised, log |-> SubSeq(log, Len(log) - Min({Len(log), MaxLog}) + 1, Len(log))]

InitialBook ==
    [plan |-> [status |-> "active", revision |-> 0, active |-> 0,
               steps |-> <<[id |-> 0, status |-> "pending", calls |-> <<>>]>>],
     log |-> <<[type |-> "initialized", revision |-> 0]>>]

OpenSteps(plan) == {i \in DOMAIN plan.steps : plan.steps[i].status \in Open}
StepUnderWay(plan) ==
    LET active == {i \in OpenSteps(plan) : plan.steps[i].id = plan.active}
    IN  Min(IF active # {} THEN active ELSE OpenSteps(plan))

\* The calls of a decision go to the step under way, as many as it has room for.
Decided(b, calls) ==
    LET at == StepUnderWay(b.plan)
        bound == b.plan.steps[at].calls \o calls
        steps == [b.plan.steps EXCEPT ![at].status = "in_progress",
                    ![at].calls = SubSeq(bound, 1, Min({Len(bound), StepRefs}))]
    IN  IF calls = <<>> \/ OpenSteps(b.plan) = {} THEN b
        ELSE Entered(b, "decision_progress",
                [b.plan EXCEPT !.steps = steps, !.active = steps[at].id])

\* An open step one of whose calls succeeded is done; success of another call asks for a new plan.
Observed(b, successes) ==
    LET reached == {i \in OpenSteps(b.plan) : ToSet(b.plan.steps[i].calls) \cap successes # {}}
        steps == [i \in DOMAIN b.plan.steps |->
                    IF i \in reached THEN [b.plan.steps[i] EXCEPT !.status = "completed"]
                    ELSE b.plan.steps[i]]
    IN  CASE successes = {} -> b
          [] successes # {} /\ reached = {} ->
                Entered(b, "needs_replan", [b.plan EXCEPT !.status = "needs_replan"])
          [] OTHER ->
                Entered(b, "observation_progress",
                    [b.plan EXCEPT !.status = "active", !.steps = steps,
                                   !.active = ActiveStep(@, steps)])

Replaced(b, statuses) ==
    LET steps == [i \in 1..Min({Len(statuses), MaxSteps}) |->
                    [id |-> i, status |-> statuses[i], calls |-> <<>>]]
        done == \A i \in DOMAIN steps : steps[i].status = "completed"
    IN  Entered(b, "llm_update",
            [b.plan EXCEPT !.status = IF done THEN "complete" ELSE "active",
                           !.active = NextStep(steps), !.steps = steps])

\* A mutant: when a turn fails, what the model called completed stays completed.
ClosedByTrust(step, status) == step.status \in Open

\* When the turn fails, a completed step for which no call was made is not believed.
ClosedBy(step, status) ==
    \/ step.status \in Open
    \/ status = "blocked" /\ step.status = "completed" /\ step.calls = <<>>

Closed(b, status) ==
    LET mark == IF status = "blocked" THEN "blocked" ELSE "completed"
        steps == [i \in DOMAIN b.plan.steps |->
                    IF ClosedBy(b.plan.steps[i], status) THEN [b.plan.steps[i] EXCEPT !.status = mark]
                    ELSE b.plan.steps[i]]
    IN  IF b.plan.status = status THEN b
        ELSE Entered(b, "closed", [b.plan EXCEPT !.status = status, !.steps = steps])

-----------------------------------------------------------------------------
Nothing == [calls |-> {}, update |-> <<>>]

PlanInit ==
    /\ book = InitialBook /\ waiting = Nothing
    /\ sent = 0 /\ earned = {} /\ outcome = "running"

\* The model decides on n calls and perhaps update_plan.
Decide(n, update) ==
    /\ outcome = "running" /\ waiting = Nothing
    /\ n > 0 \/ update # <<>>
    /\ book.plan.revision < MaxRevision
    /\ book' = Decided(book, [i \in 1..n |-> sent + i])
    /\ waiting' = [calls |-> (sent + 1)..(sent + n), update |-> update]
    /\ sent' = sent + n
    /\ UNCHANGED <<earned, outcome>>

\* Results of a batch: these calls succeed, those wait for a human, the rest fail; update_plan is
\* applied, or refused as invalid, after the results have been observed.
Record(successes, left, accepted) ==
    /\ outcome = "running" /\ waiting # Nothing
    /\ book' = LET seen == Observed(book, successes)
               IN  IF accepted THEN Replaced(seen, waiting.update) ELSE seen
    /\ waiting' = [calls |-> left, update |-> <<>>]
    /\ earned' = earned \cup successes
    /\ UNCHANGED <<sent, outcome>>

\* The turn completes when the model has no more calls; it fails at any time.
Complete ==
    /\ outcome = "running" /\ waiting = Nothing
    /\ outcome' = "completed" /\ book' = Closed(book, "complete")
    /\ UNCHANGED <<waiting, sent, earned>>
Fail ==
    /\ outcome = "running"
    /\ outcome' = "failed" /\ book' = Closed(book, "blocked")
    /\ UNCHANGED <<waiting, sent, earned>>

PlanNext ==
    \/ \E n \in 0..Min({MaxBatch, MaxCalls - sent}), update \in Submissions \cup {<<>>} : Decide(n, update)
    \/ \E successes \in SUBSET waiting.calls :
        \E left \in SUBSET (waiting.calls \ successes), accepted \in BOOLEAN :
            /\ accepted => waiting.update # <<>>
            /\ Record(successes, left, accepted)
    \/ Complete \/ Fail

PlanSpec == PlanInit /\ [][PlanNext]_planVars

-----------------------------------------------------------------------------
\* A plan that is shown after a failed turn claims no step that no call has earned.
FailureShown ==
    outcome = "failed" =>
        /\ book.plan.status = "blocked"
        /\ \A i \in DOMAIN book.plan.steps :
            LET step == book.plan.steps[i]
            IN  step.status = "completed" => ToSet(step.calls) \cap earned # {}

\* After a completed turn nothing is left to do, whatever the model last said of its plan.
CompletionShown ==
    outcome = "completed" =>
        book.plan.status = "complete" /\ \A i \in DOMAIN book.plan.steps : book.plan.steps[i].status = "completed"

\* The events tell the newest revisions without a gap, and the active step is one of the plan.
HistoryShown ==
    /\ Last(book.log).revision = book.plan.revision
    /\ \A i \in 1..(Len(book.log) - 1) : book.log[i + 1].revision = book.log[i].revision + 1
    /\ book.plan.active \in StepIds(book.plan.steps)

\* planning.py:370: what a user is shown of a plan follows from what was done.
PlansHonest == FailureShown /\ CompletionShown /\ HistoryShown
=============================================================================
