---------------------------- MODULE FinishCheck ----------------------------
(***************************************************************************)
(* When a turn may end: the hooks that judge an answer of the model before   *)
(* the loop accepts it (loop/stop_hooks.py) - an explicit contract, met by    *)
(* what the tools have returned (core/goal_contract.py), and an output of a   *)
(* given type, which a model is asked for a few times                        *)
(* (core/output_finalizer.py).  In AgentLoop their verdict is a choice.      *)
(*                                                                         *)
(* A result of a tool is what the contract reads of it.  An answer is never   *)
(* empty when it is judged, so that deliverable is always there.            *)
(***************************************************************************)
EXTENDS Naturals, FiniteSets, SequencesExt

CONSTANTS
    Contracts,   \* the contracts a caller may ask for: [deliverables, constraints]
    Outputs,     \* what tools return: [error, wellformed, refs, computed, binds]
    MaxBlocks,   \* max_stop_hook_blocks
    MaxRetries,  \* output_validation_max_retries
    MaxFeedback, \* MAX_STOP_HOOK_FEEDBACK
    MaxResults,  \* how many results the state keeps
    MaxSteps     \* bound: results, answers and crashes of the turn

\* What an instance must assume of the constants.
FinishConstants ==
    /\ \A c \in Contracts : c.deliverables \subseteq {"evidence", "computation"}
    /\ \A o \in Outputs : o.error \in BOOLEAN /\ o.wellformed \in BOOLEAN
    /\ {MaxBlocks, MaxFeedback, MaxResults} \subseteq Nat \ {0} /\ {MaxRetries, MaxSteps} \subseteq Nat

VARIABLES
    asked,     \* the contract and whether a typed output is asked for
    kept,      \* the turn: results, feedback on answers, verdict, typed output
    durable,   \* its checkpoint
    returned,  \* history: everything tools have returned
    refusals,  \* history: how often an answer was refused, by what was missing
    steps

finishVars == <<asked, kept, durable, returned, refusals, steps>>

-----------------------------------------------------------------------------
(* GoalContractEvaluator.                                                   *)

\* _is_traceable: a citation, a place, or an asset that has a number.
Traceable(ref) == ref.citation \/ ref.anchor \/ (ref.source = "asset" /\ ref.numbered)

\* What a hook reads of the results: nothing of those that failed.
Readable(results) == {results[i] : i \in {j \in DOMAIN results : ~results[j].error}}

Delivered(deliverable, outputs) ==
    IF deliverable = "evidence"
    THEN \E o \in outputs : \E r \in o.refs : Traceable(r)
    ELSE \E o \in outputs : \E c \in o.computed : c.expression /\ (\E r \in c.refs : Traceable(r))

\* The issues of a contract.
Unmet(contract, outputs) ==
    {d \in contract.deliverables : ~Delivered(d, outputs)}
        \cup {c \in contract.constraints : \A o \in outputs : c \notin o.binds}

-----------------------------------------------------------------------------
(* The hooks, in order: the contract first.                                  *)

\* Feedback that says the same again counts again and becomes the newest.
Noted(feedback, issues) ==
    LET same == SelectSeq(feedback, LAMBDA f : f.issues = issues)
        times == IF same = <<>> THEN 1 ELSE Head(same).times + 1
        log == Append(SelectSeq(feedback, LAMBDA f : f.issues # issues), [issues |-> issues, times |-> times])
    IN  SubSeq(log, Len(log) - Min({Len(log), MaxFeedback}) + 1, Len(log))

\* The finaliser asks until an output is valid or the retries are used up; anything else raises.
Finalizations == UNION {[1..n -> {"valid", "invalid", "raises"}] : n \in 1..(MaxRetries + 1)}
Complete(tries) ==
    /\ \A i \in 1..(Len(tries) - 1) : tries[i] = "invalid"
    /\ Last(tries) # "invalid" \/ Len(tries) = MaxRetries + 1

Ended(state, code, output) == [state EXCEPT !.verdict = code, !.output = output]

\* What becomes of an answer, if the finaliser goes through these tries.
Judged(state, tries) ==
    LET outputs == Readable(state.results)
        issues == Unmet(asked.contract, outputs)
        noted == Noted(state.feedback, issues)
        blocked == [state EXCEPT !.feedback = noted]
    IN  CASE asked.goal /\ (\E o \in outputs : ~o.wellformed) -> Ended(state, "goal_contract_failed", "none")
          [] asked.goal /\ (\A o \in outputs : o.wellformed) /\ issues # {} ->
                IF Last(noted).times >= MaxBlocks
                THEN Ended(blocked, "stop_hook_block_limit", "none") ELSE blocked
          [] (asked.goal => issues = {} /\ \A o \in outputs : o.wellformed) /\ ~asked.typed ->
                Ended(state, "completed", "none")
          [] OTHER ->
                CASE Last(tries) = "valid" -> Ended(state, "completed", "valid")
                  [] Last(tries) = "invalid" -> Ended(state, "structured_output_invalid", "none")
                  [] Last(tries) = "raises" -> Ended(state, "structured_output_failed", "none")

-----------------------------------------------------------------------------
Fresh == [results |-> <<>>, feedback |-> <<>>, verdict |-> "running", output |-> "none"]

FinishInit ==
    /\ \E c \in Contracts, goal, typed \in BOOLEAN :
        asked = [contract |-> c, goal |-> goal, typed |-> typed]
    /\ kept = Fresh /\ durable = Fresh
    /\ returned = {} /\ refusals = <<>> /\ steps = 0

Steps == steps < MaxSteps /\ steps' = steps + 1

\* A tool returns; the oldest result goes when there are too many.
Return(output) ==
    /\ kept.verdict = "running" /\ Steps
    /\ LET results == Append(kept.results, output)
       IN  kept' = [kept EXCEPT !.results = SubSeq(results, Len(results) - Min({Len(results), MaxResults}) + 1, Len(results))]
    /\ durable' = kept' /\ returned' = returned \cup {output}
    /\ UNCHANGED <<asked, refusals>>

\* The model answers and the hooks judge; the transition is saved, or saving it raises.
Answer(tries, saved) ==
    /\ kept.verdict = "running" /\ Steps
    /\ kept' = Judged(kept, tries)
    /\ durable' = IF saved THEN kept' ELSE durable
    /\ refusals' = IF kept'.feedback # kept.feedback THEN Append(refusals, Last(kept'.feedback).issues)
                   ELSE refusals
    /\ UNCHANGED <<asked, returned>>

\* The process stops and the turn is resumed from its checkpoint.
Resume ==
    /\ kept # durable /\ Steps
    /\ kept' = durable
    /\ UNCHANGED <<asked, durable, returned, refusals>>

FinishNext ==
    \/ \E o \in Outputs : Return(o)
    \/ \E tries \in Finalizations, saved \in BOOLEAN : Complete(tries) /\ Answer(tries, saved)
    \/ Resume

-----------------------------------------------------------------------------
\* A turn that has completed keeps its contract: tools have returned what it asks for.
ContractKept ==
    kept.verdict = "completed" =>
        /\ asked.goal =>
            /\ \A d \in asked.contract.deliverables : Delivered(d, {o \in returned : ~o.error})
            /\ \A c \in asked.contract.constraints : \E o \in returned : ~o.error /\ c \in o.binds
        /\ asked.typed => kept.output = "valid"

\* The same issues are held against an answer so many times and no more, unless a refusal was not
\* saved; and a turn is given up for this reason only when they were.
Times(issues) == Cardinality({i \in DOMAIN refusals : refusals[i] = issues})
RefusalsBounded ==
    /\ kept.verdict = "stop_hook_block_limit" => Times(Last(kept.feedback).issues) >= MaxBlocks
    /\ kept.verdict = "running" =>
        \A i \in DOMAIN kept.feedback : kept.feedback[i].times < MaxBlocks

\* stop_hooks.py:88, goal_contract.py:128: a turn completes only with what was asked of it, and is
\* not refused for ever.
FinishSound == ContractKept /\ RefusalsBounded
=============================================================================
