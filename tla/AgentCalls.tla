----------------------------- MODULE AgentCalls -----------------------------
(***************************************************************************)
(* The calls of one Agent (agent_runtime/agent.py): each opens the MCP       *)
(* servers of its workspace one after the other, builds a service with their *)
(* tools, works, and releases what it opened in reverse order.  The calls    *)
(* share one saver of checkpoints that connects when it is first used; any    *)
(* of them closes it.                                                      *)
(***************************************************************************)
EXTENDS Integers, FiniteSets, Sequences, SequencesExt

CONSTANTS
    Calls,        \* SDK calls on the agent: arun, astream, aresume, apending_input
    Configs,      \* what configs/mcp_servers.yaml may hold: sequences of entries
    Normal,       \* normalize_mcp_name on the names that occur
    Knowledge,    \* whether a knowledge base is configured
    Workspace,    \* whether the agent has a workspace
    MaxUses,      \* bound: connections made to the checkpoint database
    MaxCancelled,   \* bound: calls the caller cancels
    MaxLate       \* bound: closes that outlast their grace of five seconds

VARIABLES
    entries,      \* the configuration file
    sdk,          \* per call, where it is and what it holds
    saver,        \* _async_conn and _async_saver, set and reset together: 0 for None
    connected,    \* connections to the database that are open
    dialled,      \* connections made so far
    spent         \* cancels and late closes so far, and whether calls overlapped

callVars == <<entries, sdk, saver, connected, dialled, spent>>

-----------------------------------------------------------------------------
(* The servers and their tools.                                             *)

EnabledIn(file) == SelectSeq(file, LAMBDA e : e.enabled)
Enabled == EnabledIn(entries)
Distinct(s) == Cardinality({s[k] : k \in DOMAIN s}) = Len(s)

\* A file is refused as a whole: names taken twice, another transport, no word on what is allowed.
LoadEnabledServers ==
    /\ Distinct([k \in DOMAIN Enabled |-> Enabled[k].name])
    /\ \A k \in DOMAIN Enabled :
        Enabled[k].transport = "stdio" /\ (Enabled[k].allowed # {} \/ Enabled[k].all)

CanonicalName(server, tool) == <<Normal[server], Normal[tool]>>

\* What is offered of a server that lists these tools, in the order it lists them.
Descriptors(e) ==
    LET named == SelectSeq(e.tools, LAMBDA t : e.all \/ t \in e.allowed)
    IN  [k \in DOMAIN named |-> CanonicalName(e.name, named[k])]

\* Whether the body of the try block gets through with a server that answers.
Acceptable(e) ==
    /\ e.allowed \subseteq {e.tools[k] : k \in DOMAIN e.tools}
    /\ \A k \in DOMAIN Descriptors(e) : "" \notin {Descriptors(e)[k][1], Descriptors(e)[k][2]}

-----------------------------------------------------------------------------
NoService == [shown |-> {}, hidden |-> {}]

Idle ==
    [at |-> "idle", server |-> 1, started |-> {}, stack |-> {}, warned |-> {}, tools |-> <<>>,
     service |-> NoService, use |-> "none", connection |-> 0, search |-> "none",
     runtime |-> "none", outcome |-> "none", alone |-> TRUE, cut |-> FALSE, slow |-> FALSE]

AgentInit ==
    /\ entries \in Configs
    /\ sdk = [c \in Calls |-> Idle]
    /\ saver = 0 /\ connected = {} /\ dialled = 0
    /\ spent = [cancels |-> 0, late |-> 0, shared |-> FALSE]

Active(c) == sdk[c].at \notin {"idle", "done"}
Moves(c, r) == sdk' = [sdk EXCEPT ![c] = r]
SaverStays == UNCHANGED <<saver, connected, dialled>>
Late == spent.late < MaxLate /\ spent' = [spent EXCEPT !.late = @ + 1]

\* _open_product_runtime: the file is read before anything is opened.
Begin(c) ==
    LET others == {d \in Calls \ {c} : Active(d)}
    IN  /\ sdk[c].at = "idle"
        /\ sdk' = [d \in Calls |->
             IF d = c
             THEN [Idle EXCEPT !.alone = others = {},
                               !.at = IF LoadEnabledServers THEN "opening" ELSE "done",
                               !.outcome = IF LoadEnabledServers THEN "none" ELSE "failed"]
             ELSE [sdk[d] EXCEPT !.alone = @ /\ d \notin others]]
        /\ spent' = [spent EXCEPT !.shared = @ \/ others # {}]
        /\ SaverStays /\ UNCHANGED entries

\* The process runs, initialize and list_tools are awaited.
ServerStarts(c) ==
    LET s == sdk[c]
    IN  /\ s.at = "opening" /\ s.server \in DOMAIN Enabled /\ s.server \notin s.started
        /\ Moves(c, [s EXCEPT !.started = @ \cup {s.server}])
        /\ SaverStays /\ UNCHANGED <<entries, spent>>

ServerReady(c) ==
    LET s == sdk[c]
        e == Enabled[s.server]
    IN  /\ s.at = "opening" /\ s.server \in DOMAIN Enabled
        /\ s.server \in s.started /\ Acceptable(e)
        /\ Moves(c, [s EXCEPT !.stack = @ \cup {s.server}, !.tools = @ \o Descriptors(e),
                            !.server = @ + 1])
        /\ SaverStays /\ UNCHANGED <<entries, spent>>

LeftRunning(s) == [s EXCEPT !.warned = @ \cup {s.server}, !.server = @ + 1]

\* It does not start, does not answer in time, or lists too little: it is closed and passed over.
Stopped(s) == [s EXCEPT !.started = @ \ {s.server}, !.warned = @ \cup {s.server}, !.server = @ + 1]
ServerFails(c) ==
    LET s == sdk[c]
    IN  /\ s.at = "opening" /\ s.server \in DOMAIN Enabled
        /\ \/ Moves(c, Stopped(s)) /\ UNCHANGED spent
           \/ s.server \in s.started /\ Moves(c, [LeftRunning(s) EXCEPT !.slow = TRUE]) /\ Late
        /\ SaverStays /\ UNCHANGED entries

\* Names that are the same once normalised are refused.
CreateTools(names) == Distinct(names)

\* What the model is shown from the start, and what it has to look for: then it gets find_tools. A
\* sub-agent has the same tools but for the one that makes sub-agents.
SubAgent == <<"agent", "sub">>
ServiceTools(names) ==
    LET hidden == {names[k] : k \in DOMAIN names} \cup (IF Workspace THEN {SubAgent} ELSE {})
    IN  [shown |-> {"coding"} \cup (IF Knowledge THEN {"search_knowledge"} ELSE {})
                     \cup (IF hidden # {} THEN {"find_tools"} ELSE {}),
         hidden |-> hidden]

Build(c) ==
    /\ sdk[c].at = "opening" /\ sdk[c].server \notin DOMAIN Enabled /\ CreateTools(sdk[c].tools)
    /\ Moves(c, [sdk[c] EXCEPT !.at = "working", !.service = ServiceTools(sdk[c].tools)])
    /\ SaverStays /\ UNCHANGED <<entries, spent>>

\* Tools that are refused, a model that is not configured, a workspace that cannot be made.
BuildFails(c) ==
    /\ sdk[c].at = "opening" /\ sdk[c].server \notin DOMAIN Enabled
    /\ Moves(c, [sdk[c] EXCEPT !.at = "servers", !.outcome = "failed"])
    /\ SaverStays /\ UNCHANGED <<entries, spent>>

-----------------------------------------------------------------------------
(* The work: loads and saves of checkpoints, searches of the knowledge base. *)

Working(c) == sdk[c].at = "working" /\ sdk[c].use = "none"

\* _aget_saver looks at the saver, and waits for a connection when there is none.
UseStarts(c) ==
    /\ Working(c) /\ sdk[c].search # "running"
    /\ IF saver = 0
       THEN /\ dialled + Cardinality({d \in Calls : sdk[d].use = "connecting"}) < MaxUses
            /\ Moves(c, [sdk[c] EXCEPT !.use = "connecting"])
       ELSE Moves(c, [sdk[c] EXCEPT !.use = "using", !.connection = saver])
    /\ SaverStays /\ UNCHANGED <<entries, spent>>

Connects(c) ==
    /\ sdk[c].use = "connecting"
    /\ dialled' = dialled + 1 /\ saver' = dialled' /\ connected' = connected \cup {dialled'}
    /\ Moves(c, [sdk[c] EXCEPT !.use = "using", !.connection = dialled'])
    /\ UNCHANGED <<entries, spent>>

\* On a closed connection the load or save fails with CheckpointPersistenceError, and the call with it.
UseEnds(c) ==
    LET s == [sdk[c] EXCEPT !.use = "none", !.connection = 0]
    IN  /\ sdk[c].use = "using"
        /\ Moves(c, IF sdk[c].connection \in connected THEN s
                  ELSE [s EXCEPT !.at = "closing", !.outcome = "unsaved"])
        /\ SaverStays /\ UNCHANGED <<entries, spent>>

\* search_knowledge opens the runtime on first use and queries it in a thread.
SearchStarts(c) ==
    /\ Knowledge /\ Working(c) /\ sdk[c].search = "none"
    /\ Moves(c, [sdk[c] EXCEPT !.search = "running", !.runtime = "open"])
    /\ SaverStays /\ UNCHANGED <<entries, spent>>

\* The tool's own time limit leaves the thread behind.
SearchLeaves(c) ==
    LET s == sdk[c]
    IN  /\ \/ s.search = "running" /\ s.at = "working" /\ Moves(c, [s EXCEPT !.search = "none"])
           \/ s.search = "running" /\ s.at = "working" /\ Moves(c, [s EXCEPT !.search = "abandoned"])
           \/ s.search = "abandoned" /\ Moves(c, [s EXCEPT !.search = "none"])
        /\ SaverStays /\ UNCHANGED <<entries, spent>>

WorkEnds(c) ==
    /\ Working(c) /\ sdk[c].search # "running"
    /\ \E outcome \in {"answered", "failed"} :
        Moves(c, [sdk[c] EXCEPT !.at = "closing", !.outcome = outcome])
    /\ SaverStays /\ UNCHANGED <<entries, spent>>

-----------------------------------------------------------------------------
(* The way out, innermost first.                                            *)

\* After the service the provider, if a query has opened its runtime: in a thread of its own.
Unwound(s) ==
    IF s.runtime = "open"
    THEN [s EXCEPT !.at = "provider", !.runtime = "closing", !.connection = 0]
    ELSE [s EXCEPT !.at = "servers", !.connection = 0]

\* LazyAsyncSqliteSaver.aclose: the connection is closed, then whatever is there is forgotten.
CloseSaver(c) ==
    LET s == sdk[c]
    IN  /\ s.at = "closing" /\ s.connection = 0
        /\ IF saver = 0 THEN Moves(c, Unwound(s)) ELSE Moves(c, [s EXCEPT !.connection = saver])
        /\ SaverStays /\ UNCHANGED <<entries, spent>>

SaverClosed(c) ==
    LET s == sdk[c]
    IN  /\ s.at = "closing" /\ s.connection > 0
        /\ connected' = connected \ {s.connection}
        /\ \/ saver' = 0 /\ Moves(c, Unwound(s)) /\ UNCHANGED spent
           \/ saver' = saver /\ Moves(c, [Unwound(s) EXCEPT !.slow = TRUE]) /\ Late
        /\ UNCHANGED <<entries, dialled>>

\* The thread that closes the runtime, whether or not it is still waited for.
RuntimeClosed(c) ==
    LET s == sdk[c]
    IN  /\ s.runtime = "closing"
        /\ Moves(c, [s EXCEPT !.runtime = "closed", !.at = IF @ = "provider" THEN "servers" ELSE @])
        /\ SaverStays /\ UNCHANGED <<entries, spent>>

RuntimeLate(c) ==
    /\ sdk[c].at = "provider"
    /\ Moves(c, [sdk[c] EXCEPT !.at = "servers", !.slow = TRUE]) /\ Late
    /\ SaverStays /\ UNCHANGED entries

CloseServers(c) ==
    LET s == sdk[c]
    IN  /\ s.at = "servers"
        /\ \/ Moves(c, [s EXCEPT !.at = "done", !.started = @ \ s.stack]) /\ UNCHANGED spent
           \/ s.stack # {} /\ Moves(c, [s EXCEPT !.at = "done", !.slow = TRUE]) /\ Late
        /\ SaverStays /\ UNCHANGED entries

\* The caller cancels: a server that is being opened is in no stack yet, a query goes on in its
\* thread, a close that is waited for is given up.
Cancelled(s) ==
    CASE s.at = "opening" ->
            [s EXCEPT !.at = "servers", !.cut = s.server \in s.started]
      [] s.at = "working" ->
            [s EXCEPT !.at = "closing", !.use = "none", !.connection = 0,
                      !.search = IF @ = "running" THEN "abandoned" ELSE @]
      [] s.at = "closing" -> [Unwound(s) EXCEPT !.slow = TRUE]
      [] s.at = "provider" -> [s EXCEPT !.at = "servers", !.slow = TRUE]

CancelCall(c) ==
    LET s == sdk[c]
        closing == s.at = "closing" /\ s.connection > 0
    IN  /\ s.at \in {"opening", "working", "provider"} \/ closing
        /\ spent.cancels < MaxCancelled
        /\ spent' = [spent EXCEPT !.cancels = @ + 1, !.late = @ + (IF closing THEN 1 ELSE 0)]
        /\ Moves(c, [Cancelled(s) EXCEPT !.outcome = "cancelled"])
        /\ connected' = connected \ (IF closing THEN {s.connection} ELSE {})
        /\ UNCHANGED <<entries, saver, dialled>>

AgentNext ==
    \E c \in Calls :
        \/ Begin(c) \/ ServerStarts(c) \/ ServerReady(c) \/ ServerFails(c)
        \/ Build(c) \/ BuildFails(c) \/ UseStarts(c) \/ Connects(c) \/ UseEnds(c) \/ SearchStarts(c) \/ SearchLeaves(c)
        \/ WorkEnds(c) \/ CloseSaver(c) \/ SaverClosed(c) \/ RuntimeClosed(c) \/ RuntimeLate(c)
        \/ CloseServers(c) \/ CancelCall(c)

AgentSpec == AgentInit /\ [][AgentNext]_callVars

-----------------------------------------------------------------------------
AgentConstants ==
    /\ Knowledge \in BOOLEAN /\ Workspace \in BOOLEAN /\ MaxUses \in Nat
    /\ MaxCancelled \in Nat /\ MaxLate \in Nat /\ IsFiniteSet(Calls)

\* mcp.py:158: a call that has ended has stopped every server it started and let go of the knowledge
\* base; only a call cancelled while a server starts, or a close that was given up, leaves one.
CallsRelease ==
    \A c \in Calls :
        LET s == sdk[c]
        IN  s.at = "done" /\ ~s.slow => (s.started # {} => s.cut) /\ s.runtime \in {"none", "closed"}

\* mcp.py:149: while a call works, every server that is not reported as unavailable is running, and
\* what it may offer, no more and no less, can be found by the model, each under a name of its own.
ToolsOfServers ==
    \A c \in Calls :
        LET s == sdk[c]
            up == DOMAIN Enabled \ s.warned
            Listed(k) == {Enabled[k].tools[n] : n \in DOMAIN Enabled[k].tools}
            Offered(k) == IF Enabled[k].all THEN Listed(k) ELSE Enabled[k].allowed
            Name(k, t) == <<Normal[Enabled[k].name], Normal[t]>>
        IN  s.at = "working" =>
              /\ up \subseteq s.started
              /\ \A k \in up : Enabled[k].allowed \subseteq Listed(k)
              /\ s.service.hidden \ {SubAgent} = UNION {{Name(k, t) : t \in Offered(k)} : k \in up}
              /\ s.service.hidden # {} => "find_tools" \in s.service.shown
              /\ Distinct(s.tools) /\ Distinct([k \in DOMAIN Enabled |-> Enabled[k].name])

\* checkpointing.py:495: a call that is alone on the agent does not lose its connection, and when the
\* last has gone none is left open; calls that overlap may close it for each other.
SaverShared ==
    /\ \A c \in Calls : sdk[c].outcome = "unsaved" => ~sdk[c].alone \/ spent.late > 0
    /\ (\A c \in Calls : ~Active(c)) /\ ~spent.shared /\ spent.late = 0 => connected = {} /\ saver = 0

\* rag.py:79: the runtime is closed under a query only if that query was given up before.
SearchesFinish ==
    \A c \in Calls : sdk[c].runtime \in {"closing", "closed"} => sdk[c].search # "running"

AgentSound == CallsRelease /\ ToolsOfServers /\ SaverShared /\ SearchesFinish
=============================================================================
