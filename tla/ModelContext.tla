---------------------------- MODULE ModelContext ----------------------------
(***************************************************************************)
(* What the model is asked, over the turns of a session: the transcript that *)
(* the loop appends to (loop/runtime.py), its two copies, the checkpoint and  *)
(* the rows of the turn store, the state rebuilt from them after a stop        *)
(* (service.py), and the request made of it (llm_providers.py,                *)
(* model_request.py), which keeps the newest messages and a summary of the     *)
(* rest when the whole does not fit.                                         *)
(*                                                                         *)
(* A message is its number, role and calls, or the call it answers; its size  *)
(* depends on its role.  A summary is the messages it covers.  A turn follows *)
(* the one before it and one process is at work; what several processes do    *)
(* is in TurnService.                                                       *)
(***************************************************************************)
EXTENDS Naturals, FiniteSets, SequencesExt

CONSTANTS
    SizeOf,       \* the size of a message, by its role
    StableSize,   \* the size of the stable messages of a request
    Limit,        \* max_input_tokens
    MaxBatch,     \* bound: calls of one answer
    MaxTurns,     \* bound: turns of the session
    MaxNumber,    \* bound: messages and calls
    MaxSkills,    \* bound: skills activated
    MaxStops      \* bound: times that the process stops

\* What an instance must assume of the constants.
ContextConstants ==
    /\ SizeOf \in [{"user", "assistant", "tool", "context"} -> Nat \ {0}]
    /\ {StableSize, Limit, MaxBatch, MaxTurns, MaxNumber, MaxSkills, MaxStops} \subseteq Nat

VARIABLES
    talk,     \* the state in memory: history, transcript, pending calls, skills
    status,   \* its status: "running", "paused" or "ended"
    at,       \* where the loop is; "gone" when nobody runs the turn, "idle" when it is terminal
    point,    \* the checkpoint of the turn, none at first
    stored,   \* the rows of agent_turn_messages, by turn
    asked,    \* history: the requests made
    made,     \* messages and calls so far; they are numbered
    stops

contextVars == <<talk, status, at, point, stored, asked, made, stops>>

Message(n, role, calls, of) == [number |-> n, role |-> role, calls |-> calls, of |-> of]
Says(n, role) == Message(n, role, {}, 0)

Size(messages) == FoldSeq(LAMBDA m, sum : SizeOf[m.role] + sum, 0, messages)

-----------------------------------------------------------------------------
(* The request.                                                             *)

\* As many of the newest messages as fit, and at least the last.
TailStart(t) ==
    LET budget == Limit \div 2
    IN  Min({s \in DOMAIN t : Size(SubSeq(t, s, Len(t))) <= budget} \cup {Len(t)})

CallOf(t, s) == {j \in 1..(s - 1) : t[s].of \in t[j].calls}

\* A tail that would begin with a result begins with its call.
Extended(t, s) ==
    IF t[s].role = "tool" /\ CallOf(t, s) # {} THEN Max(CallOf(t, s)) ELSE s

\* The first message is in the stable part; a plain revision names the instructions only.
Request(state) ==
    LET t == Tail(state.before \o state.now)
        start == Extended(t, TailStart(t))
        covered == SubSeq(t, 1, start - 1)
    IN  IF t = <<>> \/ StableSize + Size(t) <= Limit
        THEN [skills |-> state.skills, covered |-> <<>>, compacted |-> FALSE, shown |-> t]
        ELSE [skills |-> state.skills, covered |-> covered, compacted |-> TRUE,
              shown |-> SubSeq(t, start, Len(t))]

-----------------------------------------------------------------------------
Nobody == [before |-> <<>>, now |-> <<>>, pending |-> <<>>, skills |-> 0]
NoPoint == [now |-> <<>>, pending |-> <<>>, skills |-> 0]

ContextInit ==
    /\ talk = Nobody /\ status = "ended" /\ at = "idle" /\ point = NoPoint
    /\ stored = <<>> /\ asked = {} /\ made = 0 /\ stops = 0

\* The next turn: its row, its first message and a state with the history of the turns before.
Begin ==
    /\ at = "idle" /\ Len(stored) < MaxTurns /\ made < MaxNumber
    /\ LET first == <<Says(made + 1, "user")>>
       IN  /\ talk' = [Nobody EXCEPT !.before = FlattenSeq(stored), !.now = first]
           /\ stored' = Append(stored, first)
    /\ status' = "running" /\ at' = "save" /\ point' = NoPoint /\ made' = made + 1
    /\ UNCHANGED <<asked, stops>>

\* save_snapshot: the checkpoint, then the rows that are new; a row that differs is a conflict.
Save ==
    /\ at = "save" /\ at' = "sync"
    /\ point' = [now |-> talk.now, pending |-> talk.pending, skills |-> talk.skills]
    /\ UNCHANGED <<talk, status, stored, asked, made, stops>>
Sync ==
    /\ at = "sync"
    /\ IF IsPrefix(Last(stored), talk.now)
       THEN /\ stored' = [stored EXCEPT ![Len(stored)] = talk.now]
            /\ at' = CASE status = "running" -> "ready" [] status = "paused" -> "gone"
                       [] status = "ended" -> "idle"
       ELSE at' = "conflict" /\ UNCHANGED stored
    /\ UNCHANGED <<talk, status, point, asked, made, stops>>

\* The model is asked when no call is pending; a faulty variant asks it over calls that wait.
AskOverCalls ==
    /\ at = "ready" /\ at' = "asking"
    /\ asked' = asked \cup {Request(talk)}
    /\ UNCHANGED <<talk, status, point, stored, made, stops>>
Ask ==
    /\ at = "ready" /\ talk.pending = <<>> /\ at' = "asking"
    /\ asked' = asked \cup {Request(talk)}
    /\ UNCHANGED <<talk, status, point, stored, made, stops>>

\* The loop appends messages, goes on with these calls and saves what has become of the turn.
Appends(messages, numbers, pending, outcome) ==
    /\ made + numbers <= MaxNumber /\ made' = made + numbers
    /\ talk' = [talk EXCEPT !.now = @ \o messages, !.pending = pending]
    /\ status' = outcome /\ at' = "save"
    /\ UNCHANGED <<point, stored, asked, stops>>

AnswerCalls(n) ==
    /\ at = "asking"
    /\ LET calls == [i \in 1..n |-> made + 1 + i]
       IN  Appends(<<Message(made + 1, "assistant", ToSet(calls), 0)>>, n + 1, calls, "running")
\* Text ends the turn; or a stop hook, or an answer that cannot be used, lets it go on; or the
\* output limit pauses it.
AnswerText(outcome) ==
    at = "asking" /\ Appends(<<Says(made + 1, "assistant")>>, 1, <<>>, outcome)
\* An empty text: what is said instead becomes a message of its own.
AnswerEmpty ==
    /\ at = "asking"
    /\ Appends(<<Says(made + 1, "assistant"), Says(made + 2, "assistant")>>, 2, <<>>, "ended")
\* The provider refuses the calls of the answer and the model is told; or the provider fails.
AnswerRefused == at = "asking" /\ Appends(<<Says(made + 1, "context")>>, 1, <<>>, "running")
AnswerNone(outcome) == at = "asking" /\ Appends(<<>>, 0, <<>>, outcome)

\* The calls of `waits' need an approval; the one in `unsure' has a result and stays to be
\* reconciled.  A word on delivery may follow, and a skill may become active.
Results(waits, unsure, told, learns) ==
    LET answered == SelectSeq(talk.pending, LAMBDA c : c \notin waits)
        results == [i \in DOMAIN answered |-> Message(made + i, "tool", {}, answered[i])]
        n == Len(answered)
        left == SelectSeq(talk.pending, LAMBDA c : c \in waits \cup unsure)
        grown == [talk EXCEPT !.skills = @ + learns, !.pending = left,
                    !.now = @ \o results \o (IF told THEN <<Says(made + n + 1, "context")>> ELSE <<>>)]
        numbers == n + (IF told THEN 1 ELSE 0)
    IN  /\ at = "ready" /\ talk.pending # <<>>
        /\ made + numbers <= MaxNumber /\ made' = made + numbers
        /\ talk' = grown
        /\ status' = (IF left = <<>> THEN "running" ELSE "paused") /\ at' = "save"
        /\ UNCHANGED <<point, stored, asked, stops>>

\* A limit is reached: the calls that are left stay without a result.
Fail ==
    /\ at = "ready" /\ status' = "ended" /\ at' = "save"
    /\ UNCHANGED <<talk, point, stored, asked, made, stops>>

\* The process stops, or the loop raises: then the turn is marked as failed where it is.
Stop(outcome) ==
    /\ at \in {"save", "sync", "ready", "asking"} /\ stops < MaxStops /\ stops' = stops + 1
    /\ at' = outcome /\ talk' = Nobody
    /\ UNCHANGED <<status, point, stored, asked, made>>

\* _hydrate_turn_state: the longer of the two copies, which must agree.
Hydrated(saved, rows) == IF IsPrefix(rows, saved) THEN saved ELSE rows
Agree(saved, rows) == IsPrefix(rows, saved) \/ IsPrefix(saved, rows)

\* A turn that was left is taken up again, with a word of the user or not, or aborted.
Resume(input, outcome) ==
    /\ at = "gone" /\ point # NoPoint
    /\ made + input <= MaxNumber /\ made' = made + input
    /\ IF Agree(point.now, Last(stored))
       THEN /\ talk' = [before |-> FlattenSeq(Front(stored)),
                        now |-> Hydrated(point.now, Last(stored)) \o
                                    [i \in 1..input |-> Says(made + 1, "user")],
                        pending |-> point.pending, skills |-> point.skills]
            /\ status' = outcome /\ at' = "save"
       ELSE at' = "conflict" /\ UNCHANGED <<talk, status>>
    /\ UNCHANGED <<point, stored, asked, stops>>

ContextNext ==
    \/ Begin \/ Save \/ Sync \/ Ask \/ Fail
    \/ \E n \in 1..MaxBatch : AnswerCalls(n)
    \/ \E outcome \in {"running", "paused", "ended"} : AnswerText(outcome)
    \/ AnswerEmpty \/ AnswerRefused
    \/ \E outcome \in {"running", "ended"} : AnswerNone(outcome)
    \/ \E waits \in SUBSET ToSet(talk.pending), told \in BOOLEAN,
          learns \in 0..Min({1, MaxSkills - talk.skills}) :
        \E unsure \in {{}} \cup {{c} : c \in ToSet(talk.pending) \ waits} : Results(waits, unsure, told, learns)
    \/ \E outcome \in {"gone", "idle"} : Stop(outcome)
    \/ Resume(0, "ended") \/ \E input \in {0, 1} : Resume(input, "running")

-----------------------------------------------------------------------------
\* model_request.py: under one revision of the context a request only grows, whatever stops, resumes
\* and turns come between: its beginning is what the provider has cached.
RequestsGrow ==
    \A p, q \in {r \in asked : ~r.compacted} :
        p.skills = q.skills => IsPrefix(p.shown, q.shown) \/ IsPrefix(q.shown, p.shown)

\* A result is shown with its call, unless the tail begins with a word said between the two.
ResultsFollowCalls ==
    \A r \in asked : \A i \in DOMAIN r.shown :
        r.shown[i].role = "tool" =>
            \/ CallOf(r.shown, i) # {}
            \/ r.compacted /\ \E j \in 1..(i - 1) : r.shown[j].role # "tool"

\* Until the turn ends, the model is asked again only when each of its calls has a result.
AskedWhenAnswered ==
    at = "asking" =>
        UNION {talk.now[i].calls : i \in DOMAIN talk.now} \subseteq {talk.now[i].of : i \in DOMAIN talk.now}

\* Checkpoint and rows never tell two stories.
ContextSound ==
    RequestsGrow /\ ResultsFollowCalls /\ AskedWhenAnswered /\ at # "conflict"
=============================================================================
