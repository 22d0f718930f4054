---------------------------- MODULE MCAgentLoop ----------------------------
(***************************************************************************)
(* One instance of the modules behind a turn of the agent: the loop, the    *)
(* gateway its finaliser calls, the tools and the skills it shows its model, *)
(* the built-in tools on files and commands, the events it streams, the      *)
(* checkpoints it saves, the memories it leaves behind and the way of its     *)
(* calls over the wire.  They share no state of the models, so a behaviour    *)
(* is a behaviour of one of them.                                           *)
(***************************************************************************)
EXTENDS AgentLoop, ModelGateway, ShellCommand, StreamQueue, TLC

CONSTANTS
    read, plan, patch,          \* invocations
    c1, c2,                     \* calls of the gateway
    know, ma, mb, mc, find,     \* tools
    Absent                      \* a field that was not written

MCBatches == {<<read, read>>, <<plan>>, <<patch>>, <<patch, read>>}

VARIABLES
    part,                                                   \* the module at work
    registry, surface,                                      \* ToolSurface
    files, catalog, active, event, prompt, called, edits, turns,  \* Skills
    snapshot, live, kept, steps, converted,                 \* CheckpointMigration
    memories, index, work, stored, dropped, stale, runs, faults,  \* MemoryFiles
    document, reading, patching, temporary, saves, patches, deaths,  \* FileTools
    wire, place, dialogue, request, made, ran               \* ModelWire

surfaceVars == <<registry, surface>>
skillVars == <<files, catalog, active, event, prompt, called, edits, turns>>
checkpointVars == <<snapshot, live, kept, steps, converted>>
memoryVars == <<memories, index, work, stored, dropped, stale, runs, faults>>
fileVars == <<document, reading, patching, temporary, saves, patches, deaths>>
dialogueVars == <<wire, place, dialogue, request, made, ran>>
toolVars == <<fileVars, shellVars, streamVars, dialogueVars>>
allVars ==
    <<part, vars, gatewayVars, surfaceVars, skillVars, checkpointVars, memoryVars, toolVars>>

-----------------------------------------------------------------------------
(* A window of 9 tokens, and 11 for two calls of 4 + 3 at a time; a prompt of *)
(* 6 is too long, and an answer of 4 longer than what was reserved.  A stream *)
(* has text between its two tool calls, on which it can be left.            *)

Chunk(type, tool) == [type |-> type, tool |-> tool]
MCScript == <<Chunk("tool_use_start", ma), Chunk("tool_input_delta", "none"),
              Chunk("content_block_stop", "none"), Chunk("text_delta", "none"),
              Chunk("tool_use_start", mb), Chunk("content_block_stop", "none")>>

MCScripts == {MCScript}
MCStageBudget == [input |-> 6, output |-> 3, margin |-> 1]
ASSUME GatewayConstants

-----------------------------------------------------------------------------
(* Six tools, three of them to be discovered, of which two may be active.   *)

MCOrder == <<read, know, ma, mb, mc, find>>
Asked(tools, disabled, discovery) ==
    [tools |-> tools, disabled |-> disabled, discovery |-> discovery]
MCOptions ==
    {Asked(<<>>, <<>>, TRUE), Asked(<<>>, <<mb>>, TRUE), Asked(<<>>, <<>>, FALSE),
     Asked(<<find, ma, ma>>, <<>>, TRUE), Asked(<<find, ma>>, <<>>, FALSE)}

Tools == INSTANCE ToolSurface WITH
    Order <- MCOrder, Find <- find, Defaults <- <<read>>, Configured <- <<know>>,
    Discoverable <- {ma, mb, mc}, Options <- MCOptions, Contracts <- {1, 2},
    MaxActive <- 2, MaxMatches <- 2, MaxFinds <- 1, MaxResumes <- 1
ASSUME Tools!SurfaceConstants

-----------------------------------------------------------------------------
(* Three roots: a bundled skill the user has a copy of, one name in two      *)
(* namespaces and two sources, a skill that is switched off, a link ("b").   *)

Entry(f, source, ns, base, off, name, desc) ==
    [file |-> f, source |-> source, ns |-> ns, base |-> base, off |-> off, valid |-> TRUE,
     name |-> name, desc |-> desc]
MCRoots ==
    << <<Entry("b", "bundled", "none", "pdf", FALSE, 3, 20)>>,
       <<Entry("p", "project", "none", "pdf", FALSE, 3, 30),
         Entry("q", "project", "x", "csv", TRUE, 4, 5)>>,
       <<Entry("r", "project", "none", "pdf", FALSE, 3, 5),
         Entry("u", "user", "x", "csv", FALSE, 4, 60),
         Entry("b", "user", "none", "pdf", FALSE, 3, 20)>> >>

SkillFiles == INSTANCE Skills WITH
    disk <- files, Roots <- MCRoots, Sources <- {"bundled", "project", "user"},
    ListingChars <- 60, MinDesc <- 20, OmittedChars <- 12, MaxEdits <- 1, MaxTurns <- 2

-----------------------------------------------------------------------------
(* Old checkpoints with and without a task, a transcript and pending calls,  *)
(* of the two shapes pending calls have had; two calls to save and load.    *)

User(text) == [role |-> "user", text |-> text]
Model(text) == [role |-> "assistant", text |-> text]
OldTurn(asks, canonical, turn, loop, pending, ledger) ==
    [task |-> asks, canonical |-> canonical, history |-> Absent, turn |-> turn, loop |-> loop,
     pending |-> pending, ledger |-> ledger, calls |-> Absent, paused |-> FALSE,
     manifest |-> Absent, pack |-> Absent]
OldCall(id, form, status) == [id |-> id, form |-> form, origin |-> 0, status |-> status]
OldContexts ==
    {<<asks, canonical>> : asks \in {Absent, User("1")},
        canonical \in {Absent, <<Model("2")>>, <<User("1"), Model("2")>>, <<Model("2"), User("3")>>,
                       <<User("1"), Model("2"), User("3"), Model("4")>>}}
OldPlans == <<OldCall(c1, "plan", "pending"), OldCall(c2, "unknown", "pending")>>
OldLoops == {<<OldCall(c1, "call", "pending"), OldCall("none", "call", "pending")>>,
             <<OldCall(c1, "call", "paused")>>}
OldLedgers == {Absent, <<>>, <<[id |-> c2, origin |-> 0], [id |-> c1, origin |-> 0]>>}
MCOldTurns ==
    {OldTurn(c[1], c[2], <<>>, Absent, p, Absent) :
        c \in OldContexts \ {<<Absent, Absent>>}, p \in {Absent, OldPlans}}
    \cup {OldTurn(c[1], c[2], Absent, l, Absent, g) : c \in OldContexts, l \in OldLoops, g \in OldLedgers}
    \cup {OldTurn(User("1"), <<Model("2"), User("3"), Model("4")>>, <<User("3"), Model("4")>>,
                  Absent, Absent, Absent)}

OldEntry(id, turn, sequence) == [id |-> id, turn |-> turn, sequence |-> sequence]
Marked(id, status) == [id |-> id, status |-> status]
MCOldTools ==
    [ledger : {<<OldEntry(c1, 2, 0), OldEntry(c2, 1, 1)>>, <<OldEntry(c1, 1, 1), OldEntry(c2, 1, 0)>>,
               <<OldEntry(c1, 0, 0), OldEntry(c1, 0, 0)>>},
     results : {<<>>, <<c1>>, <<c1, c1>>, <<c2, c1>>, <<"none">>},
     pending : {<<>>, <<Marked(c1, "paused")>>, <<Marked(c1, "paused"), Marked(c1, "pending")>>,
                <<Marked(c2, "pending")>>}]

Checkpoints == INSTANCE CheckpointMigration WITH
    disk <- snapshot, Ids <- {c1, c2}, OldTurns <- MCOldTurns, OldTools <- MCOldTools, MaxSteps <- 4

-----------------------------------------------------------------------------
(* Two runs that teach something; consolidation from two memories on.       *)

Memory(name, fact) == [name |-> name, facts |-> {fact}]

MemoryStore == INSTANCE MemoryFiles WITH
    files <- memories, Names <- <<"a", "unnamed", "user">>, UserNames <- {"user"},
    Findings <- {<<Memory("a", 1), Memory("user", 2)>>, <<Memory("user", 1)>>},
    Threshold <- 2, LlmThreshold <- 2, MaxSelected <- 2, MaxLoaded <- 2, MaxRuns <- 2, MaxFaults <- 1

-----------------------------------------------------------------------------
(* Files with and without a last line feed, and with none; with a carriage   *)
(* return before a line feed or alone, and a form feed; a text that is there  *)
(* once, one that is there often, one that overlaps itself.                 *)

MCContents ==
    {<<"a", "b", "n", "a", "n", "b">>, <<"r", "n", "a">>, <<>>, <<"a", "a", "a">>,
     <<"b", "a", "b", "n", "n">>, <<"b", "f", "a", "r", "b">>}
Exact(old, new, all) == [old |-> old, new |-> new, all |-> all]
MCPatches ==
    {Exact(<<"a">>, <<"b", "n">>, FALSE), Exact(<<"a", "a">>, <<"b">>, TRUE),
     Exact(<<"b">>, <<>>, TRUE), Exact(<<"n", "a">>, <<"a">>, FALSE)}

Files == INSTANCE FileTools WITH
    file <- document, edits <- saves, Contents <- MCContents, Patches <- MCPatches,
    ByteLimits <- {1, 2, 4}, LineLimits <- {1, 2}, Pattern <- "a", MaxMatches <- 1,
    MaxEdits <- 1, MaxPatches <- 1, MaxDeaths <- 1

-----------------------------------------------------------------------------
(* Answers without ids, with the id of an earlier one and with one id twice,  *)
(* of tools shown at once and found later; cut off, unnamed and not whole;    *)
(* counts that add up, that do not, and none.                               *)

Said(calls, stop, whole) == [calls |-> calls, text |-> TRUE, stop |-> stop, whole |-> whole]
Called(id, name, args) == [id |-> id, name |-> name, args |-> args]
MCSaid ==
    {Said(<<>>, "stop", TRUE), Said(<<>>, "length", FALSE),
     Said(<<Called(0, read, "x"), Called(0, find, "x")>>, "stop", TRUE),
     Said(<<Called(0, read, "y"), Called(6, know, "x")>>, "length", TRUE),
     Said(<<Called(6, know, "x"), Called(5, find, "x")>>, "tool_calls", TRUE),
     Said(<<Called(7, read, "cut")>>, "tool_calls", TRUE),
     Said(<<Called(7, read, "x"), Called(7, read, "y")>>, "tool_calls", TRUE),
     Said(<<Called(8, "none", "x")>>, "tool_calls", TRUE)}
Counted(given, input, cacheRead, cacheWrite, output) ==
    [given |-> given, input |-> input, read |-> cacheRead, write |-> cacheWrite, output |-> output]
MCCounts ==
    {Counted(TRUE, {3}, {1}, {}, {2}), Counted(TRUE, {3}, {2}, {2}, {}),
     Counted(FALSE, {}, {}, {}, {})}

Dialogue == INSTANCE ModelWire WITH
    at <- place, turn <- dialogue, runs <- ran, Resident <- {read, find}, Found <- {know}, Find <- find,
    Lead <- 1, Answers <- MCSaid, Usages <- MCCounts, MaxAnswers <- 3
ASSUME Dialogue!WireConstants

-----------------------------------------------------------------------------
Parts ==
    {"loop", "gateway", "tools", "skills", "checkpoints", "memory", "files", "shell", "stream",
     "wire"}

\* A loop that has nothing to do.
LoopAtRest ==
    /\ pc = "exit" /\ mem = FreshState /\ disk = FreshState
    /\ retries = 0 /\ running = {} /\ verdict = "none"
    /\ asked = 0 /\ crashes = 0 /\ looked = 0 /\ let = {}
    /\ pain = [i \in Invocations |-> 0]

NoCheckpoint ==
    /\ snapshot = "none" /\ live = "none" /\ kept = "none"
    /\ steps = 0 /\ converted = "none"

MCInit ==
    /\ part \in Parts
    /\ IF part = "loop" THEN Init ELSE LoopAtRest
    /\ GatewayInit
    /\ Tools!SurfaceInit /\ registry[read] = 1    \* the two contracts are alike
    /\ SkillFiles!SkillsInit
    /\ IF part = "checkpoints" THEN Checkpoints!CheckpointInit ELSE NoCheckpoint
    /\ MemoryStore!MemoryInit
    /\ Files!FilesInit /\ (part = "files" \/ document = <<>>)
    /\ ShellInit /\ StreamInit
    /\ Dialogue!WireInit /\ (part = "wire" \/ wire = "chat")

LoopPart(Step) ==
    /\ part = "loop" /\ Step
    /\ UNCHANGED <<part, gatewayVars, surfaceVars, skillVars, checkpointVars, memoryVars, toolVars>>
GatewayPart(Step) ==
    /\ part = "gateway" /\ Step
    /\ UNCHANGED <<part, vars, surfaceVars, skillVars, checkpointVars, memoryVars, toolVars>>
ToolsPart(Step) ==
    /\ part = "tools" /\ Step
    /\ UNCHANGED <<part, vars, gatewayVars, skillVars, checkpointVars, memoryVars, toolVars>>
SkillsPart(Step) ==
    /\ part = "skills" /\ Step
    /\ UNCHANGED <<part, vars, gatewayVars, surfaceVars, checkpointVars, memoryVars, toolVars>>
CheckpointsPart(Step) ==
    /\ part = "checkpoints" /\ Step
    /\ UNCHANGED <<part, vars, gatewayVars, surfaceVars, skillVars, memoryVars, toolVars>>
MemoryPart(Step) ==
    /\ part = "memory" /\ Step
    /\ UNCHANGED <<part, vars, gatewayVars, surfaceVars, skillVars, checkpointVars, toolVars>>

agentVars == <<part, vars, gatewayVars, surfaceVars, skillVars, checkpointVars, memoryVars>>
FilesPart(Step) ==
    /\ part = "files" /\ Step /\ UNCHANGED <<agentVars, shellVars, streamVars, dialogueVars>>
ShellPart(Step) ==
    /\ part = "shell" /\ Step /\ UNCHANGED <<agentVars, fileVars, streamVars, dialogueVars>>
StreamPart(Step) ==
    /\ part = "stream" /\ Step /\ UNCHANGED <<agentVars, fileVars, shellVars, dialogueVars>>
WirePart(Step) ==
    /\ part = "wire" /\ Step /\ UNCHANGED <<agentVars, fileVars, shellVars, streamVars>>

MCNext ==
    \/ LoopPart(Next)
    \/ GatewayPart(GatewayNext)
    \/ ToolsPart(Tools!SurfaceNext)
    \/ SkillsPart(SkillFiles!SkillsNext)
    \/ CheckpointsPart(Checkpoints!CheckpointNext)
    \/ MemoryPart(MemoryStore!MemoryNext)
    \/ FilesPart(Files!FilesNext)
    \/ ShellPart(ShellNext)
    \/ StreamPart(StreamNext)
    \/ WirePart(Dialogue!WireNext)

MCSpec ==
    /\ MCInit /\ [][MCNext]_allVars
    /\ WF_allVars(LoopPart(LoopStep))
    /\ \A c \in {c1, c2} : WF_allVars(GatewayPart(CallStep(c)))
    /\ WF_allVars(ShellPart(CallProceeds))
    /\ \A p \in Processes : WF_allVars(ShellPart(Dies(p)))
    /\ WF_allVars(StreamPart(StreamStep)) /\ WF_allVars(StreamPart(LoopWorks))
    /\ WF_allVars(StreamPart(Closes))

-----------------------------------------------------------------------------
(* The properties of the parts, as the modules state and explain them.      *)

\* runtime.py:215, shell.py:143: a stream and a command end, whoever leaves them, but for a caller
\* that leaves a full queue.  (One formula, for TLC's sake: a behaviour has one part.)
Settled ==
    IF part = "stream" THEN stream.at = "ended" \/ Stuck ELSE command.at = "ended"
StreamsSettle == part = "stream" \/ command.at = "wait" ~> Settled

\* selection.py:367: while a turn runs, nothing its model was shown is taken away.
ShownGrows == Tools!ShownGrows

\* selection.py:277, skills/context.py:155: the tools of a turn are installed, allowed, there once
\* and in order; what its model is shown of a skill is true, and the listing fits.
\* openai_wire.py, executor.py:269: every call of an answer is kept as it was made, whatever form
\* the answer had, runs once at most, and is shown to the model with its result right behind it.
ShownSound ==
    /\ part = "tools" => Tools!SurfaceWellFormed
    /\ part = "skills" => SkillFiles!SkillsSound
    /\ part = "wire" => Dialogue!WireSound

\* checkpointing.py:971, 1031, 1984, persistent/store.py:144, filesystem.py:98, 312: loading gives
\* what was saved, and of an old checkpoint nothing of the conversation and no call that waits is
\* lost; of what memories hold only what the model left out is, the index lists the files, and those
\* a run starts with are on disk; a file is read without gap and patched exactly as its line endings
\* are read, and matches are found at their line where lines end in line feeds.
StoredSound ==
    /\ part = "checkpoints" => Checkpoints!CheckpointsSound
    /\ part = "memory" => MemoryStore!MemoriesSound
    /\ part = "files" => Files!FilesSound
=============================================================================
