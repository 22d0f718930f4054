----------------------------- MODULE MCSession -----------------------------
(***************************************************************************)
(* One instance of what outlives a question and of what is checked at its   *)
(* edges: the turns of a session in the turn store, the transcript and the    *)
(* requests built from it, the plan a turn shows, working memory, the files   *)
(* it was handed, the arguments of calls and the leave they need, the hooks  *)
(* that let it end, the calls of the SDK around it, and the model it is bound *)
(* to.  They share no state, so a behaviour is a behaviour of one of them.   *)
(***************************************************************************)
EXTENDS TurnStore, Permissions, TLC

VARIABLES
    part,                                                    \* the module at work
    book, waiting, sent, earned, outcome,                    \* PlanState
    talk, doing, at, point, stored, requests, made, stops,   \* ModelContext
    given, memory, results, open, counted, records,          \* WorkingMemory
    outside, workspace, manifests, origins, changes,         \* InputFiles
    shape, arguments, installed, received,                   \* ToolInput
    wanted, kept, durable, returned, refusals, steps,        \* FinishCheck
    entries, sdk, saver, connected, dialled, spent,          \* AgentCalls
    declared, session, cli, turn, port, chosen, done         \* ModelChoice

planVars == <<book, waiting, sent, earned, outcome>>
contextVars == <<talk, doing, at, point, stored, requests, made, stops>>
memoryVars == <<given, memory, results, open, counted, records>>
fileVars == <<outside, workspace, manifests, origins, changes>>
inputVars == <<shape, arguments, installed, received>>
finishVars == <<wanted, kept, durable, returned, refusals, steps>>
callVars == <<entries, sdk, saver, connected, dialled, spent>>
choiceVars == <<declared, session, cli, turn, port, chosen, done>>
keptVars == <<storeVars, planVars, contextVars, memoryVars>>
edgeVars == <<fileVars, inputVars, permissionVars, finishVars, callVars, choiceVars>>
allVars == <<part, keptVars, edgeVars>>

\* No definition tells the members of these sets apart.
MCSymmetry == Permutations(Turns) \cup Permutations(Workers)
                \cup Permutations(Runtimes) \cup Permutations(Messages)

-----------------------------------------------------------------------------
\* A plan that is longer than what is kept, and one that claims steps nobody has worked on.
MCSubmissions ==
    {<<"in_progress">>, <<"completed", "pending">>, <<"completed", "completed", "pending">>,
     <<"completed">>}

Plan == INSTANCE PlanState WITH
    Submissions <- MCSubmissions, MaxSteps <- 2, StepRefs <- 2, MaxLog <- 3,
    MaxBatch <- 2, MaxCalls <- 4, MaxRevision <- 5
ASSUME Plan!PlanConstants

-----------------------------------------------------------------------------
\* Requests of four messages fit, longer ones keep a tail; two turns with one stop.
Context == INSTANCE ModelContext WITH
    status <- doing, asked <- requests,
    SizeOf <- [user |-> 1, assistant |-> 1, tool |-> 2, context |-> 1],
    StableSize <- 2, Limit <- 6, MaxBatch <- 2, MaxTurns <- 2, MaxNumber <- 6,
    MaxSkills <- 1, MaxStops <- 1
ASSUME Context!ContextConstants

-----------------------------------------------------------------------------
(* Conversations with results behind their calls, next to them and further   *)
(* away, so that a cut falls between the two, and two calls that are open at  *)
(* the same time.                                                           *)

Said(id) == [id |-> id, calls |-> {}, of |-> 0, size |-> 1]
Called(id, calls) == [id |-> id, calls |-> calls, of |-> 0, size |-> 1]
Answered(id, call) == [id |-> id, calls |-> {}, of |-> call, size |-> 2]
MCConversations ==
    {<<Said(1), Said(2)>>,
     <<Said(1), Called(2, {1}), Answered(3, 1), Said(4)>>,
     <<Said(1), Called(2, {1, 2}), Answered(3, 1), Answered(4, 2), Said(5), Called(6, {3}),
       Answered(7, 3)>>,
     <<Said(1), Said(2), Called(3, {1}), Said(4), Said(5), Answered(6, 1)>>,
     <<Said(1), Called(2, {1, 2}), Answered(3, 1), Said(4), Said(5), Said(6), Answered(7, 2)>>,
     <<Called(1, {1}), Called(2, {2}), Answered(3, 1), Said(4), Answered(5, 2)>>}

Memory == INSTANCE WorkingMemory WITH
    mem <- memory, Conversations <- MCConversations,
    Policy <- [snip |-> 4, head |-> 1, tail |-> 2, batch |-> 3, keep |-> 2, reactive |-> 1,
               chars |-> 4, results |-> 2, records |-> 2],
    MaxResults <- 4, MaxRecords <- 4
ASSUME Memory!MemoryConstants

-----------------------------------------------------------------------------
\* Two names one of which the other becomes when it is taken; tables with and without lines above
\* their header, whose first number is in the third row below it, further down, and beyond the rows
\* that are looked at; turns that share the directory for inputs.
A == <<"a">>
Texts(n) == [i \in 1..n |-> <<"label", "other">>]
Numbered == << <<"label", "number">> >>
MCTables ==
    {<<>>, Texts(1) \o Numbered,
     << <<"label", "empty">> >> \o Texts(3) \o Numbered,
     Texts(4) \o Numbered \o Texts(1), Texts(10) \o Numbered}
Elsewhere(name) == [inside |-> FALSE, name |-> name]
Project(name) == [inside |-> TRUE, name |-> name]

InputFiles == INSTANCE InputFiles WITH
    Names <- {A, Append(A, 1)}, Tables <- MCTables,
    Requested <- {<<Elsewhere(A), Elsewhere(Append(A, 1)), Elsewhere(A)>>,
                  <<Project(A), Elsewhere(Append(A, 1))>>},
    Namespaced <- FALSE, SampleRows <- 10, MaxTurns <- 2, MaxChanges <- 1

-----------------------------------------------------------------------------
(* A model with an aliased field and one of a list, and the ways a key can   *)
(* be that of a field, of another, or of none.                              *)

Scalar == [kind |-> "scalar"]
Field(name, alias, required, type) ==
    [name |-> name, alias |-> alias, dumped |-> IF alias = "none" THEN name ELSE alias,
     complex |-> FALSE, required |-> required, type |-> type]
Shape(fields, extra, byAlias, byName, hook) ==
    [fields |-> fields, extra |-> extra, byAlias |-> byAlias, byName |-> byName, hook |-> hook]
Leaf(extra) ==
    [kind |-> "model", shape |-> Shape(<<Field("a", "A", FALSE, Scalar)>>, extra, TRUE, TRUE, "none")]
MCLists == {[kind |-> "list", of |-> Scalar], [kind |-> "list", of |-> Leaf("ignore")]}
MCRefused == Shape(<<Field("a", "none", TRUE, Scalar)>>, "ignore", TRUE, FALSE, "serializer")
MCPlain ==
    {Shape(<<Field("a", alias, TRUE, Scalar), Field("b", "none", FALSE, type)>>, extra, TRUE, byName, hook) :
        alias \in {"none", "A", "b"}, extra \in {"ignore", "allow", "forbid"}, byName \in BOOLEAN,
        hook \in {"none", "validator"}, type \in MCLists}
MCShapes ==
    MCPlain \cup {[s EXCEPT !.fields[1].dumped = "Z"] : s \in MCPlain}
        \cup {MCRefused,
               Shape(<<Field("a", "b", TRUE, Scalar), Field("b", "none", FALSE, Scalar)>>,
                     "allow", TRUE, TRUE, "none")}

Value(id) == [kind |-> "scalar", good |-> TRUE, json |-> TRUE, id |-> id]
Object(f) == [kind |-> "object", at |-> f]
Listed(items) == [kind |-> "list", items |-> items]
MCItems == {Object([k \in {"A"} |-> Value(k)]), Object([k \in {"a", "c"} |-> Value(k)])}
MCValues == {Value("b"), Listed(<<>>), Listed(<<Value("x")>>)} \cup {Listed(<<o>>) : o \in MCItems} \cup MCItems
MCUnfit == Object([k \in {"a"} |-> [Value("a") EXCEPT !.good = FALSE]])
MCArguments ==
    {Object([k \in K |-> IF k = "b" THEN b ELSE Value(k)]) :
        K \in {{"a"}, {"A", "b"}, {"a", "A"}, {"a", "b"}, {"a", "b", "c"}}, b \in MCValues}
    \cup {MCUnfit, Object([k \in {"a"} |-> [Value("a") EXCEPT !.json = FALSE]])}

Inputs == INSTANCE ToolInput WITH
    sent <- arguments, tool <- installed, outcome <- received,
    Shapes <- MCShapes, Arguments <- MCArguments

-----------------------------------------------------------------------------
(* The command that may be allowed beforehand, one that must be confirmed, a *)
(* patch, two tools of servers; callers that allow much or little.           *)

Policy(static, revision, confirmed, refused) ==
    [static |-> static, revision |-> revision, managed |-> revision = "run_command",
     confirmed |-> confirmed, denied |-> refused]
Remote == Policy({}, "mcp", FALSE, FALSE)
MCTools ==
    {Policy({"execute"}, "run_command", FALSE, FALSE), Policy({"execute"}, "run_command", TRUE, FALSE),
     Policy({"write"}, "patch", FALSE, FALSE), Remote, Policy({"network"}, "mcp", FALSE, TRUE)}
MCEffects == {{}, {"write"}, {"execute", "network"}, {"write", "destructive"}, {"network"},
              {"execute", "destructive"}, {"read", "execute"}}
MCTargets == {{}, {"workspace", "cwd", "restricted"}, {"outside"}, {"workspace", "idle_skill"},
              {"outside_cwd", "restricted"}}
Caller(root, cwd, inside, write, execute, sandboxed, refused) ==
    [root |-> root, cwd |-> cwd, inside |-> inside, write |-> write, execute |-> execute,
     sandboxed |-> sandboxed, deniedEffects |-> refused]
Homeless == Caller(FALSE, FALSE, TRUE, TRUE, TRUE, TRUE, {})
MCCallers ==
    {Caller(TRUE, TRUE, TRUE, write, execute, sandboxed, refused) :
        write, execute, sandboxed \in BOOLEAN, refused \in {{}, {"network"}}}
    \cup {Homeless, Caller(TRUE, TRUE, FALSE, TRUE, TRUE, TRUE, {})}

MCUses == [effects : MCEffects, targets : MCTargets]

-----------------------------------------------------------------------------
(* A contract on what is cited and computed, one that binds a constraint;    *)
(* results that meet a part of them, and some that failed or are malformed.  *)

Source(citation, source, numbered) ==
    [citation |-> citation, anchor |-> FALSE, source |-> source, numbered |-> numbered]
Cited == Source(TRUE, "evidence", FALSE)
Loose == Source(FALSE, "asset", FALSE)
Asset == Source(FALSE, "asset", TRUE)
Output(refs, computed, binds) ==
    [error |-> FALSE, wellformed |-> TRUE, refs |-> refs, computed |-> computed, binds |-> binds]
Computed(ref) == [expression |-> TRUE, refs |-> {ref}]
Contract(deliverables, constraints) == [deliverables |-> deliverables, constraints |-> constraints]

Finish == INSTANCE FinishCheck WITH
    asked <- wanted,
    Contracts <- {Contract({"evidence", "computation"}, {}), Contract({"evidence"}, {"c"})},
    Outputs <- {Output({Cited}, {}, {}), Output({Loose}, {Computed(Asset)}, {}),
                Output({}, {Computed(Loose)}, {"c"}),
                [Output({Cited}, {Computed(Cited)}, {"c"}) EXCEPT !.error = TRUE],
                [Output({}, {}, {}) EXCEPT !.wellformed = FALSE]},
    MaxBlocks <- 2, MaxRetries <- 1, MaxFeedback <- 2, MaxResults <- 2, MaxSteps <- 3
ASSUME Finish!FinishConstants

-----------------------------------------------------------------------------
(* One call with servers that work, list too little, or whose tools get the   *)
(* same name; two calls that share nothing but the saver.                    *)

Server(name, allowed, all, tools) ==
    [enabled |-> TRUE, name |-> name, transport |-> "stdio", allowed |-> allowed, all |-> all,
     tools |-> tools]
MCConfigs ==
    {<<Server("a", {"b"}, FALSE, <<"a", "b">>), [Server("b", {"b"}, FALSE, <<>>) EXCEPT !.enabled = FALSE]>>,
     <<Server("a", {"A"}, FALSE, <<"b", "a">>), Server("b", {}, TRUE, <<"b", "a">>)>>,
     <<Server("a", {}, TRUE, <<"a", "A">>)>>, <<Server("a", {"dots"}, FALSE, <<"dots">>)>>,
     <<Server("a", {}, FALSE, <<>>)>>, <<Server("a", {}, TRUE, <<>>), Server("a", {}, TRUE, <<>>)>>}

Agents(calls, configs, knowledge, uses) == INSTANCE AgentCalls WITH
    Calls <- calls, Configs <- configs, Knowledge <- knowledge, Workspace <- FALSE,
    Normal <- [a |-> "a", A |-> "a", b |-> "b", dots |-> ""], MaxUses <- uses, MaxCancelled <- 1, MaxLate <- 1
ASSUME Agents({"c1", "c2"}, MCConfigs, TRUE, 3)!AgentConstants

-----------------------------------------------------------------------------
\* Two processes, a chat and a switch in the other, with a server that can be launched and one that
\* cannot; one process whose cloud model has no key.
Model(local, usable, accepts) == [local |-> local, usable |-> usable, accepts |-> accepts]
MCLocal == [a |-> Model(TRUE, TRUE, {"a"}), b |-> Model(TRUE, FALSE, {"b"})]
MCMixed == [a |-> MCLocal.a, c |-> Model(FALSE, FALSE, {}), d |-> Model(FALSE, TRUE, {})]

Choice(procs, catalog, first, starts, turns, faults) == INSTANCE ModelChoice WITH
    Procs <- procs, Catalog <- catalog, Default <- first, Allowed <- {"a", "b", "d"},
    MaxStarts <- starts, MaxTurns <- turns, MaxModelFaults <- faults
ASSUME Choice({"p1"}, MCMixed, "d", 3, 1, 1)!ModelConstants

-----------------------------------------------------------------------------
\* A part that has nothing to do.
NoPlan == book = 0 /\ waiting = 0 /\ sent = 0 /\ earned = 0 /\ outcome = 0
NoContext ==
    /\ talk = 0 /\ doing = 0 /\ at = 0 /\ point = 0
    /\ stored = 0 /\ requests = 0 /\ made = 0 /\ stops = 0
NoMemory == given = 0 /\ memory = 0 /\ results = 0 /\ open = 0 /\ counted = 0 /\ records = 0
NoFiles == outside = 0 /\ workspace = 0 /\ manifests = 0 /\ origins = 0 /\ changes = 0
NoInput == shape = 0 /\ arguments = 0 /\ installed = 0 /\ received = 0
NoCall ==
    tool \in {t \in MCTools : t.denied} /\ use = [effects |-> {}, targets |-> {}] /\ context = Homeless
NoAgent == entries = 0 /\ sdk = 0 /\ saver = 0 /\ connected = 0 /\ dialled = 0 /\ spent = 0
NoChoice ==
    /\ declared = 0 /\ session = 0 /\ cli = 0 /\ turn = 0 /\ port = 0 /\ chosen = 0 /\ done = 0
NoFinish == wanted = 0 /\ kept = 0 /\ durable = 0 /\ returned = 0 /\ refusals = 0 /\ steps = 0

MCInit ==
    /\ part \in {"store", "plan", "context", "memory", "files", "inputs", "permissions", "finish",
                "servers", "saver", "bindings", "catalog"}
    /\ StoreInit
    /\ IF part = "plan" THEN Plan!PlanInit ELSE NoPlan
    /\ IF part = "context" THEN Context!ContextInit ELSE NoContext
    /\ IF part = "memory" THEN Memory!MemoryInit ELSE NoMemory
    /\ IF part = "files" THEN InputFiles!InputFilesInit ELSE NoFiles
    /\ IF part = "inputs" THEN Inputs!InputInit ELSE NoInput
    /\ (part = "permissions" \/ NoCall) /\ PermissionInit
    /\ IF part = "finish" THEN Finish!FinishInit ELSE NoFinish
    /\ CASE part = "servers" -> Agents({"c1"}, MCConfigs, TRUE, 1)!AgentInit
         [] part = "saver" -> Agents({"c1", "c2"}, {<<>>}, FALSE, 3)!AgentInit
         [] OTHER -> NoAgent
    /\ CASE part = "bindings" -> Choice(Workers, MCLocal, "a", 2, 2, 0)!ModelInit
         [] part = "catalog" -> Choice({"p1"}, MCMixed, "d", 3, 1, 1)!ModelInit
         [] OTHER -> NoChoice

StorePart(Step) ==
    /\ part = "store" /\ Step /\ UNCHANGED <<part, planVars, contextVars, memoryVars, edgeVars>>
PlanPart(Step) ==
    /\ part = "plan" /\ Step /\ UNCHANGED <<part, storeVars, contextVars, memoryVars, edgeVars>>
ContextPart(Step) ==
    /\ part = "context" /\ Step /\ UNCHANGED <<part, storeVars, planVars, memoryVars, edgeVars>>
MemoryPart(Step) ==
    /\ part = "memory" /\ Step /\ UNCHANGED <<part, storeVars, planVars, contextVars, edgeVars>>
FilesPart(Step) ==
    /\ part = "files" /\ Step
    /\ UNCHANGED <<part, keptVars, inputVars, permissionVars, finishVars, callVars, choiceVars>>
InputsPart(Step) ==
    /\ part = "inputs" /\ Step
    /\ UNCHANGED <<part, keptVars, fileVars, permissionVars, finishVars, callVars, choiceVars>>
PermissionsPart(Step) ==
    /\ part = "permissions" /\ Step
    /\ UNCHANGED <<part, keptVars, fileVars, inputVars, finishVars, callVars, choiceVars>>
FinishPart(Step) ==
    /\ part = "finish" /\ Step
    /\ UNCHANGED <<part, keptVars, fileVars, inputVars, permissionVars, callVars, choiceVars>>

CallsPart(where, Step) ==
    /\ part = where /\ Step
    /\ UNCHANGED <<part, keptVars, fileVars, inputVars, permissionVars, finishVars, choiceVars>>
ChoicePart(where, Step) ==
    /\ part = where /\ Step
    /\ UNCHANGED <<part, keptVars, fileVars, inputVars, permissionVars, finishVars, callVars>>

MCNext ==
    \/ StorePart(StoreNext)
    \/ PlanPart(Plan!PlanNext)
    \/ ContextPart(Context!ContextNext)
    \/ MemoryPart(Memory!MemoryNext)
    \/ FilesPart(InputFiles!InputFilesNext)
    \/ InputsPart(Inputs!InputNext)
    \/ PermissionsPart(PermissionNext)
    \/ FinishPart(Finish!FinishNext)
    \/ CallsPart("servers", Agents({"c1"}, MCConfigs, TRUE, 1)!AgentNext)
    \/ CallsPart("saver", Agents({"c1", "c2"}, {<<>>}, FALSE, 3)!AgentNext)
    \/ ChoicePart("bindings", Choice(Workers, MCLocal, "a", 2, 2, 0)!ModelNext)
    \/ ChoicePart("catalog", Choice({"p1"}, MCMixed, "d", 3, 1, 1)!ModelNext)

MCSpec == MCInit /\ [][MCNext]_allVars

-----------------------------------------------------------------------------
(* The properties of the parts, as the modules state and explain them.      *)

\* planning.py:370, stop_hooks.py:88, tool.py:579, mcp.py:149: after a failed turn no step is shown as
\* done that no call has earned, after a completed one nothing is left to do and what was asked of it
\* is there; nothing the model sends is dropped on the way to a tool, and the tools of servers are
\* there while they run.
OutcomesHonest ==
    /\ part = "plan" => Plan!PlansHonest
    /\ part = "finish" => Finish!FinishSound
    /\ part = "inputs" => Inputs!InputsSound
    /\ part = "servers" => Agents({"c1"}, MCConfigs, TRUE, 1)!AgentSound
    /\ part = "saver" => Agents({"c1", "c2"}, {<<>>}, FALSE, 3)!AgentSound

\* llm_providers.py:292, service.py:1042, compactor.py:380, workspace.py:114: requests grow under
\* one revision of the context, results are shown with their calls, the two copies of a transcript
\* agree; what working memory drops is on file or warned of, and no result that is waited for is
\* dropped; the files a turn was handed stay as they were, and so does the model of a context
\* (agent.py:219).
HistoryKept ==
    /\ part = "context" => Context!ContextSound
    /\ part = "memory" => Memory!WorkingMemorySound
    /\ part = "files" => InputFiles!InputsKept
    /\ part = "bindings" => Choice(Workers, MCLocal, "a", 2, 2, 0)!ModelsSound
    /\ part = "catalog" => Choice({"p1"}, MCMixed, "d", 3, 1, 1)!ModelsSound
=============================================================================
