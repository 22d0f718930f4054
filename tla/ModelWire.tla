----------------------------- MODULE ModelWire -----------------------------
(***************************************************************************)
(* The calls of a turn, from the answer of a provider to their results: the   *)
(* request and its two forms on the wire (model_request.py, openai_wire.py,   *)
(* local_agent_wire.py), what an answer is read as, streamed or not           *)
(* (llm_gateway.py), the plans the loop keeps of it (loop/runtime.py), what    *)
(* the executor does with a call whose id it has seen (executor.py), and the   *)
(* form in which a checkpoint keeps the turn (checkpointing.py).             *)
(*                                                                         *)
(* An id is a number: the n-th call of an answer that gives none is call_n,   *)
(* which is n.  The arguments of a call are a value, "cut" when they are not   *)
(* an object: then the tool refuses them.  Approvals, effects that are in      *)
(* doubt and the loop's own guards are in ToolExecution and AgentLoop.       *)
(***************************************************************************)
EXTENDS Naturals, FiniteSets, SequencesExt

CONSTANTS
    Resident,     \* the tools of every request
    Found,        \* the tools that Find makes available
    Find,
    Lead,         \* context blocks in front of the task
    Answers,      \* what the provider may answer
    Usages,       \* what it may report
    MaxAnswers    \* bound: answers of a turn

\* What an instance must assume of the constants.
WireConstants ==
    /\ Find \in Resident /\ Resident \cap Found = {} /\ {Lead, MaxAnswers} \subseteq Nat
    /\ \A a \in Answers : \A i \in DOMAIN a.calls : a.calls[i].id \in Nat
    /\ \A u \in Usages : \A f \in {"input", "read", "write", "output"} :
            u[f] \subseteq Nat /\ Cardinality(u[f]) <= 1

VARIABLES
    wire,      \* "chat", "stream" or "flat"
    at,        \* "ask", "answer", "run", "ended" or "failed"
    turn,      \* the state that is saved
    request,   \* the last request
    made,      \* history: the calls of the model, in order
    runs       \* history: the calls that a tool was run for

wireVars == <<wire, at, turn, request, made, runs>>

NoId == 0
Message(role, calls, of) == [role |-> role, calls |-> calls, of |-> of]
Says(role) == Message(role, <<>>, NoId)
ResultMessage(call) == Message("tool", <<>>, call.id)

-----------------------------------------------------------------------------
(* Requests.                                                                *)

\* snapshot_model_message: what may be said at all.
Sayable(m) ==
    /\ m.role \in {"system", "user", "assistant", "tool", "context"}
    /\ m.calls # <<>> => m.role = "assistant"
    /\ m.role = "tool" <=> m.of # NoId
    /\ \A i \in DOMAIN m.calls : m.calls[i].id # NoId /\ m.calls[i].name # "none"

\* The instructions, what is known of the run, and the task.
StableMessages == <<Says("system")>> \o [i \in 1..Lead |-> Says("context")] \o <<Says("user")>>

\* build_model_request: the tools are those of the surface, and the model may choose.
BuiltRequest(state, number) ==
    LET exposed == Resident \cup state.active
    IN  [id |-> number, messages |-> StableMessages \o state.talk, exposed |-> exposed,
         choice |-> IF exposed = {} THEN "none" ELSE "auto"]

\* The messages in front of the conversation.
Leading(messages) ==
    {i \in DOMAIN messages : \A j \in 1..i : messages[j].role \in {"system", "context"}}

\* They become one system message; later, context is said by the user, and the rules cannot change.
ChatPayload(messages) ==
    LET first == Cardinality(Leading(messages)) + 1
        rest == SubSeq(messages, first, Len(messages))
    IN  IF \E i \in DOMAIN rest : rest[i].role = "system" THEN {}
        ELSE {(IF first > 1 THEN <<Says("system")>> ELSE <<>>) \o
                 [i \in DOMAIN rest |-> IF rest[i].role = "context" THEN Says("user") ELSE rest[i]]}

\* render_local_agent_request: one text, which shows the messages as they are.
FlatPayload(messages) == {messages}

Payload(form, messages) == IF form = "flat" THEN FlatPayload(messages) ELSE ChatPayload(messages)

-----------------------------------------------------------------------------
(* Answers: what one is read as, nothing when it cannot be used.            *)

\* openai_wire.py:162: a call that has no id gets one from its place.
CallId(index) == index

\* parse_openai_response, _parse_arguments: what is no object is passed on as it is.
ParsedChat(answer) ==
    IF ~answer.whole \/ \E i \in DOMAIN answer.calls : answer.calls[i].name = "none" THEN {}
    ELSE {[calls |-> [i \in DOMAIN answer.calls |->
                        [answer.calls[i] EXCEPT !.id = IF @ = NoId THEN CallId(i) ELSE @]],
           text |-> answer.text,
           stop |-> CASE answer.stop = "tool_calls" -> "tool_use"
                      [] answer.stop = "length" -> "max_tokens"
                      [] OTHER -> "end_turn"]}

\* The answer comes whole, is told in chunks and put together again.
ParsedStream(answer) ==
    {[t EXCEPT !.stop = IF t.calls # <<>> THEN "tool_use" ELSE @] : t \in ParsedChat(answer)}

\* parse_local_agent_response: an object that says everything, ids as well.
ParsedFlat(answer) ==
    IF \/ ~answer.whole
       \/ \E i \in DOMAIN answer.calls :
            answer.calls[i].id = NoId \/ answer.calls[i].name = "none" \/ answer.calls[i].args = "cut"
    THEN {}
    ELSE {[calls |-> answer.calls, text |-> answer.text,
           stop |-> IF answer.calls # <<>> THEN "tool_use" ELSE "end_turn"]}

Parsed(form, answer) ==
    CASE form = "chat" -> ParsedChat(answer)
      [] form = "stream" -> ParsedStream(answer)
      [] form = "flat" -> ParsedFlat(answer)

\* _draft_from_turn: calls come first, whatever the answer stopped for.
Draft(t) ==
    IF t.calls # <<>> THEN "execute" ELSE IF t.stop = "max_tokens" THEN "pause" ELSE "finish"

-----------------------------------------------------------------------------
(* Usage: a count is a set, empty when it is not known.                     *)

Amount(count) == IF count = {} THEN 0 ELSE CHOOSE n \in count : TRUE

\* normalize_llm_usage, of counts in which the input includes what was cached.
NormalUsage(u) ==
    LET cached == Amount(u.read) + Amount(u.write)
        known == u.input # {} /\ u.read # {}
    IN  IF known /\ cached > Amount(u.input) THEN {}
        ELSE {[logical |-> u.input, uncached |-> IF known THEN {Amount(u.input) - cached} ELSE {},
               read |-> u.read, write |-> u.write, output |-> Amount(u.output)]}

\* What the provider reports, or else an estimate, in which nothing is known of a cache.
ReportedUsage(u) ==
    NormalUsage(IF u.given THEN u ELSE [u EXCEPT !.input = {1}, !.output = {1}, !.read = {}, !.write = {}])

\* _decode_model_call_record: what a checkpoint may hold.
UsageLoads(u) ==
    u.logical # {} /\ u.uncached # {} /\ u.read # {} =>
        Amount(u.logical) = Amount(u.uncached) + Amount(u.read) + Amount(u.write)

-----------------------------------------------------------------------------
(* Checkpoints.                                                             *)

Ids(calls) == {calls[i].id : i \in DOMAIN calls}
IsUnique(calls) == Cardinality(Ids(calls)) = Len(calls)

\* CanonicalToolCheckpoint: the calls that wait are among the calls, each once.
Saveable(state) ==
    /\ \A i \in DOMAIN state.talk : Sayable(state.talk[i])
    /\ IsUnique(state.pending)

\* decode_tool_checkpoint: what it demands of the calls and of the records.
CallLoads(call) == call.id # NoId /\ call.name # "none" /\ call.origin # 0
Loads(state) ==
    /\ Saveable(state)
    /\ \A id \in DOMAIN state.calls : state.calls[id].id = id /\ CallLoads(state.calls[id])
    /\ \A i \in DOMAIN state.pending : state.pending[i].id \in DOMAIN state.calls
    /\ \A i \in DOMAIN state.usage : UsageLoads(state.usage[i].usage)

-----------------------------------------------------------------------------
NewTurn ==
    [talk |-> <<>>, active |-> {}, calls |-> <<>>, ledger |-> <<>>, pending |-> <<>>,
     records |-> <<>>, usage |-> <<>>, iteration |-> 0]
NoRequest == [id |-> 0, messages |-> <<>>, exposed |-> {}, choice |-> "none"]

WireInit ==
    /\ wire \in {"chat", "stream", "flat"} /\ at = "ask"
    /\ turn = NewTurn /\ request = NoRequest /\ made = <<>> /\ runs = <<>>

\* Every transition of the loop is saved; when that fails the turn does.
Becomes(state, next) ==
    turn' = state /\ at' = (IF Saveable(state) THEN next ELSE "failed")

Ask ==
    /\ at = "ask" /\ turn.iteration < MaxAnswers /\ at' = "answer"
    /\ turn' = [turn EXCEPT !.iteration = @ + 1]
    /\ request' = BuiltRequest(turn, turn.iteration + 1)
    /\ UNCHANGED <<wire, made, runs>>

\* The values of f, and these.
Updated(f, more) == [id \in DOMAIN f \cup DOMAIN more |-> IF id \in DOMAIN more THEN more[id] ELSE f[id]]

\* The last of the calls with an id is the one that counts.
ById(calls) == [id \in Ids(calls) |-> SelectSeq(calls, LAMBDA c : c.id = id)[
                                          Len(SelectSeq(calls, LAMBDA c : c.id = id))]]

\* append_plans: the first is the one that stays.
Planned(ledger, calls) ==
    FoldLeft(LAMBDA l, c : IF c.id \in Ids(l) THEN l ELSE Append(l, c), ledger, calls)

CallRecord(asked, used) == [request |-> asked.id, usage |-> used]

\* _apply_model_envelope and the dispatch of the loop.
Answer(answer, reported) ==
    /\ at = "answer"
    /\ \E t \in Parsed(wire, answer), u \in ReportedUsage(reported) :
        LET calls == [i \in DOMAIN t.calls |->
                        [id |-> t.calls[i].id, name |-> t.calls[i].name, args |-> t.calls[i].args,
                         origin |-> request.id, exposed |-> request.exposed]]
            said == [turn EXCEPT
                !.talk = Append(@, Message("assistant", t.calls, NoId)),
                !.usage = Append(@, CallRecord(request, u)),
                !.calls = Updated(@, ById(calls))]
        IN  IF Draft(t) = "execute"
            THEN /\ Becomes([said EXCEPT !.pending = calls, !.ledger = Planned(@, calls)], "run")
                 /\ made' = made \o [i \in DOMAIN calls |->
                        [call |-> calls[i], seen |-> calls[i].id \in DOMAIN turn.records]]
            ELSE Becomes(said, "ended") /\ UNCHANGED made
    /\ UNCHANGED <<wire, request, runs>>

\* An answer or a count that cannot be read: the loop asks again, or has asked often enough.
Unusable(answer, reported, next) ==
    /\ at = "answer" /\ (Parsed(wire, answer) = {} \/ ReportedUsage(reported) = {})
    /\ at' = next /\ UNCHANGED <<wire, turn, request, made, runs>>

\* _handle_provider_error: the provider refused the calls of its model, which is told so.
Rejected ==
    /\ at = "answer" /\ at' = "ask"
    /\ turn' = [turn EXCEPT !.talk = Append(@, Says("context"))]
    /\ UNCHANGED <<wire, request, made, runs>>

\* _prepare, _record_error: a call that has a record is not run again.
Outcomes(call, records) ==
    IF call.name \notin call.exposed THEN {"hidden"}
    ELSE IF call.id \in DOMAIN records
    THEN {IF records[call.id] = [name |-> call.name, args |-> call.args] THEN "told" ELSE "mismatch"}
    ELSE IF call.args = "cut" THEN {"invalid"} ELSE {"completed", "failed"}

\* _execute_pending_tools: the call is the one kept under its id.
Run ==
    /\ at = "run"
    /\ LET calls == [i \in DOMAIN turn.pending |-> turn.calls[turn.pending[i].id]]
       IN  \E outcome \in [DOMAIN calls -> {"hidden", "mismatch", "told", "invalid", "completed", "failed"}] :
            LET ran == {i \in DOMAIN calls : outcome[i] \in {"completed", "failed"}}
                new == [id \in {calls[i].id : i \in ran} |->
                          LET c == turn.calls[id] IN [name |-> c.name, args |-> c.args]]
            IN  /\ \A i \in DOMAIN calls : outcome[i] \in Outcomes(calls[i], turn.records)
                /\ runs' = runs \o SelectSeq(calls, LAMBDA c : c.id \in DOMAIN new)
                /\ Becomes([turn EXCEPT
                        !.records = Updated(@, new), !.pending = <<>>,
                        !.active = IF \E i \in ran : calls[i].name = Find /\ outcome[i] = "completed"
                                   THEN @ \cup Found ELSE @,
                        !.talk = @ \o [i \in DOMAIN calls |-> ResultMessage(calls[i])]],
                        "ask")
    /\ UNCHANGED <<wire, request, made>>

WireNext ==
    \/ Ask \/ Rejected \/ Run
    \/ \E answer \in Answers, reported \in Usages :
        \/ Answer(answer, reported)
        \/ \E next \in {"ask", "failed"} : Unusable(answer, reported, next)

-----------------------------------------------------------------------------
\* tools/executor.py, llm_providers.py: a tool runs only for a call of the model, with the arguments
\* of that call and when the request that was answered showed it, and for one id only once.
RunsAreCalls ==
    /\ \A i \in DOMAIN runs :
        /\ \E n \in DOMAIN made : made[n].call = runs[i]
        /\ runs[i].name \in runs[i].exposed
    /\ IsUnique(runs)

\* A call with an id of its own is run, when the model could see the tool and gave it an object.
NewCallsRun ==
    at = "ask" => \A n \in DOMAIN made :
        LET call == made[n].call
        IN  ~made[n].seen /\ call.name \in call.exposed /\ call.args # "cut" => Contains(runs, call)

\* openai_wire.py: a request can be told to the provider, begins with one system message and shows the
\* results of an answer's calls right behind it, in their order.
CallsShownAnswered ==
    at = "answer" => \E shown \in Payload(wire, request.messages) :
        /\ wire # "flat" =>
            /\ {i \in DOMAIN shown : shown[i].role = "system"} = {1} /\ shown[2] = Says("user")
            /\ \A i \in DOMAIN shown : shown[i].role # "context"
        /\ \A i \in DOMAIN shown : \A k \in DOMAIN shown[i].calls :
            shown[i + k] = ResultMessage(shown[i].calls[k])

\* checkpointing.py, state.py: what is saved can be loaded, with one record for each answer that was
\* used and every call listed once.
SavedLoads ==
    at # "failed" =>
        /\ Loads(turn) /\ IsUnique(turn.ledger) /\ Ids(turn.ledger) = DOMAIN turn.calls
        /\ \A i, j \in DOMAIN turn.usage : i < j => turn.usage[i].request < turn.usage[j].request

\* llm_gateway.py: an answer means the same whether it is streamed or not, and what the flat form
\* accepts means the same in the other.
WiresAgree ==
    \A a \in Answers :
        LET Meaning(ts) == {[does |-> Draft(t), calls |-> t.calls] : t \in ts}
        IN  /\ Meaning(ParsedStream(a)) = Meaning(ParsedChat(a))
            /\ a.stop # "length" => Meaning(ParsedFlat(a)) \subseteq Meaning(ParsedChat(a))

\* A turn that failed without an error of the provider had two calls of one answer with one id.
WireSound ==
    /\ RunsAreCalls /\ NewCallsRun /\ CallsShownAnswered /\ SavedLoads /\ WiresAgree
    /\ at = "failed" /\ turn.pending # <<>> => ~IsUnique(turn.pending)

\* What the loop takes for granted and the wire does not give: a call that the model makes is a new
\* one ("``id`` is model-provided or fallback-generated (``tc_<hex>``)", messages.py).
CallsAreNew == \A n \in DOMAIN made : ~made[n].seen
=============================================================================
