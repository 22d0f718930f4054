---------------------------- MODULE ModelChoice ----------------------------
(***************************************************************************)
(* Which model answers: the catalog, the session file every process of the   *)
(* workspace shares, the control plane a process loads from them             *)
(* (agent_runtime/models.py), the model a turn is bound to, the server of a   *)
(* local model that is started when it does not answer                      *)
(* (agent_runtime/local_runtime.py), and the commands that get there          *)
(* (rag/agent/cli.py: chat, run, resume, model switch).                       *)
(***************************************************************************)
EXTENDS Integers, Sequences, FiniteSets

CONSTANTS
    Procs,       \* processes of the command line
    Catalog,     \* per model: local, whether its key is set or its server can be launched,
                 \* and the models whose server its expected_model_contains accepts
    Default,     \* defaults.primary_model
    Allowed,     \* ModelPolicy: models a user may switch to
    MaxStarts, MaxTurns, MaxModelFaults   \* bounds: commands, turns; edits, crashes, stopped servers

VARIABLES
    declared,    \* models of the configuration file
    session,     \* the session file: a model, "absent", or "torn"
    cli,         \* per process, the command it runs
    turn,        \* the turns, with the model each is bound to
    port,        \* the server local models share: what it serves, and what is being launched
    chosen,      \* the model of the last switch that has been saved, "none" before
    done         \* commands started, and faults so far

modelVars == <<declared, session, cli, turn, port, chosen, done>>

Models == DOMAIN Catalog
Off ==
    [at |-> "off", kind |-> "none", known |-> {}, model |-> "none", turn |-> 0,
     now |-> 0, resumed |-> FALSE, expect |-> "any", left |-> FALSE, stuck |-> FALSE]

ModelInit ==
    /\ declared = Models /\ session = "absent" /\ chosen = "none"
    /\ cli = [p \in Procs |-> Off] /\ turn = <<>>
    /\ port = [serving |-> "none", starting |-> {}] /\ done = [starts |-> 0, faults |-> 0]

Put(p, r) == cli' = [cli EXCEPT ![p] = r]
Become(t, status) == turn' = [turn EXCEPT ![t].status = status]

-----------------------------------------------------------------------------
(* The control plane.                                                       *)

\* A file that does not name its default model is refused as a whole.
LoadConfig == Default \in declared

\* _load_session_state: a session file that cannot be read counts for nothing.
CurrentModel(option) ==
    IF option # "none" THEN option
    ELSE IF session \in {"absent", "torn"} THEN Default ELSE session

ReviewSwitch(known, m) == m \in known /\ m \in Allowed

\* A process ends, or one may be started; --last takes a turn that has ended, and a turn that is
\* continued brings its own model.
Expected(option) == IF option # "none" THEN option ELSE IF chosen = "none" THEN Default ELSE chosen
Terminal(t) == turn[t].status \in {"completed", "failed"}

Start(p, kind, option, after) ==
    LET r == [Off EXCEPT !.kind = kind, !.turn = after, !.known = declared, !.at = "prompt",
                         !.left = after > 0 /\ ~Terminal(after)]
        loaded == [r EXCEPT !.model = CurrentModel(option),
                            !.expect = IF session = "torn" \/ after > 0 THEN "any"
                                       ELSE Expected(option)]
    IN  /\ cli[p].at = "off" /\ done.starts < MaxStarts
        /\ after > 0 => option = "none"
        /\ Put(p, IF kind = "run" /\ after > 0 THEN r
                  ELSE IF LoadConfig /\ CurrentModel(option) \in declared THEN loaded
                  ELSE Off)
        /\ done' = [done EXCEPT !.starts = @ + 1]
        /\ UNCHANGED <<declared, session, turn, port, chosen>>

\* A switch in the chat is refused while a context is bound; the choice is changed, then saved.
Slash(p, m) ==
    /\ cli[p].at = "prompt" /\ cli[p].kind = "chat" /\ cli[p].turn = 0
    /\ ReviewSwitch(cli[p].known, m)
    /\ Put(p, [cli[p] EXCEPT !.model = m, !.expect = m, !.at = "saving"])
    /\ UNCHANGED <<declared, session, turn, port, chosen, done>>

\* The command of its own process.
SwitchModel(p, m) ==
    /\ cli[p].at = "off" /\ done.starts < MaxStarts
    /\ LoadConfig /\ CurrentModel("none") \in declared /\ ReviewSwitch(declared, m)
    /\ Put(p, [Off EXCEPT !.kind = "switch", !.model = m, !.at = "saving"])
    /\ done' = [done EXCEPT !.starts = @ + 1]
    /\ UNCHANGED <<declared, session, turn, port, chosen>>

\* write_text empties the file before it writes.
SaveOpens(p) ==
    /\ cli[p].at = "saving" /\ session' = "torn"
    /\ Put(p, [cli[p] EXCEPT !.at = "writing"])
    /\ UNCHANGED <<declared, turn, port, chosen, done>>

Save(p) ==
    /\ cli[p].at = "writing"
    /\ session' = cli[p].model /\ chosen' = cli[p].model
    /\ Put(p, IF cli[p].kind = "chat" THEN [cli[p] EXCEPT !.at = "prompt"] ELSE Off)
    /\ UNCHANGED <<declared, turn, port, done>>

Faulty == done.faults < MaxModelFaults /\ done' = [done EXCEPT !.faults = @ + 1]
SaveCrashes(p) ==
    /\ cli[p].at = "writing" /\ Put(p, Off) /\ Faulty
    /\ UNCHANGED <<declared, session, turn, port, chosen>>

EditConfig(m) ==
    /\ m \in declared /\ declared' = declared \ {m} /\ Faulty
    /\ UNCHANGED <<session, cli, turn, port, chosen>>

-----------------------------------------------------------------------------
(* Turns.                                                                   *)

Bound(model, after, expect) ==
    [model |-> model, after |-> after, status |-> "running", served |-> {}, expect |-> expect]
Begins(p, model, after) ==
    /\ turn' = Append(turn, Bound(model, after, cli[p].expect))
    /\ Put(p, [cli[p] EXCEPT !.at = "preparing", !.now = Len(turn) + 1, !.resumed = FALSE])

\* _agent_for_binding: another control plane, which starts with the model of the turn.
BindingModel(p, t) == turn[t].model

\* The first message of a context is answered by the model of the process, the next ones by that of
\* the turn before, which has to have ended.
Send(p) ==
    LET r == cli[p]
    IN  /\ r.at = "prompt" /\ Len(turn) < MaxTurns
        /\ IF r.turn = 0 THEN Begins(p, r.model, 0)
           ELSE LET model == BindingModel(p, r.turn)
                IN  IF ~(LoadConfig /\ model \in declared)
                    THEN Put(p, Off) /\ UNCHANGED turn
                    ELSE IF Terminal(r.turn) THEN Begins(p, model, r.turn)
                    ELSE Put(p, [Off EXCEPT !.stuck = ~r.left]) /\ UNCHANGED turn
        /\ UNCHANGED <<declared, session, port, chosen, done>>

\* What the answer to a pause, or `agent resume`, needs before the turn is claimed.
Resumes(p, t, r) ==
    IF LoadConfig /\ turn[t].model \in declared
    THEN /\ Put(p, [r EXCEPT !.at = "preparing", !.now = t, !.resumed = TRUE])
         /\ Become(t, "running")
    ELSE Put(p, Off) /\ UNCHANGED turn

ResumeCommand(p, t) ==
    /\ cli[p].at = "off" /\ done.starts < MaxStarts
    /\ turn[t].status \in {"paused", "interrupted"}
    /\ Resumes(p, t, [Off EXCEPT !.kind = "resume"])
    /\ done' = [done EXCEPT !.starts = @ + 1]
    /\ UNCHANGED <<declared, session, port, chosen>>

\* A turn that another process has taken up meanwhile is not claimed twice.
Answer(p) ==
    LET r == cli[p]
    IN  /\ r.at = "asked"
        /\ IF turn[r.now].status \in {"paused", "interrupted"} THEN Resumes(p, r.now, r)
           ELSE Put(p, Off) /\ UNCHANGED turn
        /\ UNCHANGED <<declared, session, port, chosen, done>>

\* q at the question: the chat goes on with a turn that has not ended.
Quit(p) ==
    /\ cli[p].at = "asked"
    /\ Put(p, IF cli[p].kind = "chat" THEN [cli[p] EXCEPT !.at = "prompt", !.now = 0, !.resumed = FALSE,
                                                     !.left = TRUE, !.expect = "any"]
              ELSE Off)
    /\ UNCHANGED <<declared, session, turn, port, chosen, done>>

New(p) ==
    /\ cli[p].at = "prompt" /\ cli[p].kind = "chat" /\ cli[p].turn > 0
    /\ Put(p, [cli[p] EXCEPT !.turn = 0, !.left = FALSE, !.expect = cli[p].model])
    /\ UNCHANGED <<declared, session, turn, port, chosen, done>>

Exit(p) ==
    /\ cli[p].at = "prompt" /\ Put(p, Off)
    /\ UNCHANGED <<declared, session, turn, port, chosen, done>>

-----------------------------------------------------------------------------
(* The model is made ready, and works.                                      *)

Needed(p) == Catalog[turn[cli[p].now].model]

\* A first run that cannot get its model fails, one that was resumed can be resumed again; the error
\* ends the command.
Unavailable(p) ==
    /\ Become(cli[p].now, IF cli[p].resumed THEN "interrupted" ELSE "failed")
    /\ Put(p, Off) /\ UNCHANGED port
Ready(p) == Put(p, [cli[p] EXCEPT !.at = "running"]) /\ UNCHANGED <<turn, port>>

\* ensure_ready asks the server; another model there is a conflict, and never replaced.
Fits(p) == port.serving \in Needed(p).accepts
Launched(p) == port' = [port EXCEPT !.starting = @ \cup {turn[cli[p].now].model}]
Resolve(p) ==
    /\ cli[p].at = "preparing"
    /\ IF ~Needed(p).local THEN IF Needed(p).usable THEN Ready(p) ELSE Unavailable(p)
       ELSE IF port.serving # "none" THEN IF Fits(p) THEN Ready(p) ELSE Unavailable(p)
       ELSE IF ~Needed(p).usable THEN Unavailable(p)
       ELSE /\ Launched(p) /\ Put(p, [cli[p] EXCEPT !.at = "waiting"])
            /\ UNCHANGED turn
    /\ UNCHANGED <<declared, session, chosen, done>>

Poll(p) ==
    /\ cli[p].at = "waiting"
    /\ IF Fits(p) THEN Ready(p) ELSE Unavailable(p)
    /\ UNCHANGED <<declared, session, chosen, done>>

\* A process that finds the port taken goes away.
Boots(m) ==
    /\ m \in port.starting
    /\ port' = [serving |-> IF port.serving = "none" THEN m ELSE port.serving,
                starting |-> port.starting \ {m}]
    /\ UNCHANGED <<declared, session, cli, turn, chosen, done>>

ServerStops ==
    /\ port.serving # "none" /\ port' = [port EXCEPT !.serving = "none"] /\ Faulty
    /\ UNCHANGED <<declared, session, cli, turn, chosen>>

\* The requests of a turn go to whatever the port serves.
Server(p) == IF Needed(p).local THEN port.serving ELSE turn[cli[p].now].model
Works(p, status) ==
    LET r == cli[p]
    IN  /\ r.at = "running"
        /\ Server(p) = "none" => status = "failed"
        /\ turn' = [turn EXCEPT ![r.now].status = status,
                                ![r.now].served = @ \cup ({Server(p)} \ {"none"})]
        /\ Put(p, IF status = "paused" /\ r.kind # "resume" THEN [r EXCEPT !.at = "asked", !.turn = r.now]
                  ELSE IF r.kind = "chat" THEN [r EXCEPT !.at = "prompt", !.turn = r.now, !.now = 0, !.resumed = FALSE,
                                            !.expect = "any"]
                  ELSE Off)
        /\ UNCHANGED <<declared, session, port, chosen, done>>

ModelNext ==
    \/ \E p \in Procs :
        \/ \E option \in Models \cup {"none"}, after \in 0..Len(turn), kind \in {"chat", "run"} :
             Start(p, kind, option, after)
        \/ \E m \in Models : Slash(p, m) \/ SwitchModel(p, m)
        \/ \E t \in DOMAIN turn : ResumeCommand(p, t)
        \/ \E status \in {"completed", "failed", "paused"} : Works(p, status)
        \/ SaveOpens(p) \/ Save(p) \/ SaveCrashes(p) \/ Send(p) \/ Answer(p) \/ Quit(p) \/ New(p)
        \/ Exit(p) \/ Resolve(p) \/ Poll(p)
    \/ \E m \in Models : EditConfig(m) \/ Boots(m)
    \/ ServerStops

ModelSpec == ModelInit /\ [][ModelNext]_modelVars

-----------------------------------------------------------------------------
ModelConstants ==
    /\ Default \in Models /\ {"none", "absent", "torn"} \cap Models = {}
    /\ \A m \in Models : Catalog[m].accepts \subseteq Models
    /\ MaxStarts \in Nat /\ MaxTurns \in Nat /\ MaxModelFaults \in Nat

\* agent.py:219, README: the turns of a context are bound to the model of its first, and nothing but
\* that model answers in them, whatever is switched meanwhile; a server that was stopped and replaced
\* under a turn is the exception.
BoundModels ==
    \A t \in DOMAIN turn :
        /\ turn[t].after > 0 => turn[t].model = turn[turn[t].after].model
        /\ turn[t].served \subseteq Catalog[turn[t].model].accepts \cup {turn[t].model} \/ done.faults > 0

\* models.py:117, cli.py:693: a message is answered by the model of its --model or its switch in the
\* chat, or by the last that was saved when the command began; only a session file that was being
\* written is passed over, and no switch is accepted that a bound context would ignore.
ChosenModels == \A t \in DOMAIN turn : turn[t].expect \in {"any", turn[t].model}

\* cli.py:718: a chat is not ended by a turn it cannot continue, unless a pause was left open.
ChatsGoOn == \A p \in Procs : ~cli[p].stuck

ModelsSound == BoundModels /\ ChosenModels /\ ChatsGoOn
=============================================================================
