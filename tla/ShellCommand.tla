---------------------------- MODULE ShellCommand ----------------------------
(***************************************************************************)
(* The built-in tool run_command (rag/agent/tools/builtins/shell.py): a      *)
(* shell and a process it leaves in the background, in one process group     *)
(* behind two pipes; the command's timeout; the caller, who may cancel while *)
(* the group is being terminated.                                           *)
(***************************************************************************)
EXTENDS Naturals

CONSTANTS MaxForks, MaxCancels   \* bounds

VARIABLES
  command,   \* the call: where it is, whether it has timed out or been cancelled, its outcome
  group,     \* its processes
  piped,     \* the background process has the pipes
  forks, cancels

shellVars == <<command, group, piped, forks, cancels>>

\* A process that was sent a signal it does not survive is doomed, and dies later.
Processes == {"shell", "job"}
Lives == {"none", "alive", "doomed", "dead"}

ShellInit ==
  /\ command = [at |-> "idle", timed_out |-> FALSE, cancelled |-> FALSE, outcome |-> "none"]
  /\ group = [p \in Processes |-> "none"] /\ piped = FALSE /\ forks = 0 /\ cancels = 0

Running(p) == group[p] \in {"alive", "doomed"}
LeaderGone == ~Running("shell")
GroupGone == \A p \in Processes : ~Running(p)
Communicated == ~Running("shell") /\ ~(Running("job") /\ piped)

-----------------------------------------------------------------------------
(* The processes. *)

StartCommand ==
  /\ command.at = "idle"
  /\ command' = [command EXCEPT !.at = "wait"] /\ group' = [group EXCEPT !["shell"] = "alive"]
  /\ UNCHANGED <<piped, forks, cancels>>

Fork ==
  /\ group["shell"] = "alive" /\ ~Running("job") /\ forks < MaxForks /\ forks' = forks + 1
  /\ group' = [group EXCEPT !["job"] = "alive"] /\ piped' \in BOOLEAN
  /\ UNCHANGED <<command, cancels>>

Exits(p) ==
  /\ group[p] = "alive" /\ group' = [group EXCEPT ![p] = "dead"]
  /\ UNCHANGED <<command, piped, forks, cancels>>

Dies(p) ==
  /\ group[p] = "doomed" /\ group' = [group EXCEPT ![p] = "dead"]
  /\ UNCHANGED <<command, piped, forks, cancels>>

\* killpg: SIGTERM may be ignored, SIGKILL not.
Terminated ==
  {g \in [Processes -> Lives] :
     \A p \in Processes : g[p] = group[p] \/ <<group[p], g[p]>> = <<"alive", "doomed">>}
Killed == [p \in Processes |-> IF group[p] = "alive" THEN "doomed" ELSE group[p]]

-----------------------------------------------------------------------------
(* The call. *)

Goes(to) == command' = [command EXCEPT !.at = to]
EndsAs(outcome) == command' = [command EXCEPT !.at = "ended", !.outcome = outcome]

Finishes ==
  /\ command.at = "wait" /\ Communicated /\ EndsAs("finished")
  /\ UNCHANGED <<group, piped, forks, cancels>>

TimesOut ==
  /\ command.at = "wait" /\ ~Communicated
  /\ command' = [command EXCEPT !.at = "term", !.timed_out = TRUE] /\ group' \in Terminated
  /\ UNCHANGED <<piped, forks, cancels>>

\* _terminate_process_group: wait for the group; when the grace period ends first, kill it; wait
\* for the shell; then the same again, and once more before giving up.
GroupEnds ==
  /\ \/ command.at = "term" /\ GroupGone /\ Goes("reap")
     \/ command.at = "reap" /\ LeaderGone /\ Goes("check")
     \/ command.at \in {"check", "last"} /\ GroupGone /\ Goes("drain")
  /\ UNCHANGED <<group, piped, forks, cancels>>

GraceEnds ==
  /\ ~GroupGone
  /\ \/ command.at = "term" /\ Goes("reap") /\ group' = Killed
     \/ command.at = "check" /\ Goes("last") /\ group' = Killed
     \/ command.at = "last" /\ EndsAs("failed") /\ group' = group
  /\ UNCHANGED <<piped, forks, cancels>>

Drains ==
  /\ command.at = "drain" /\ Communicated
  /\ EndsAs(IF command.cancelled THEN "cancelled" ELSE "timeout")
  /\ UNCHANGED <<group, piped, forks, cancels>>

Terminating == {"term", "reap", "check", "last", "drain"}

\* Terminated from the beginning, also when a timeout has begun to; the second time the clean-up
\* itself is cancelled.
Cancel ==
  /\ command.at \in {"wait"} \cup Terminating /\ cancels < MaxCancels /\ cancels' = cancels + 1
  /\ IF command.cancelled THEN EndsAs("abandoned") /\ group' = group
     ELSE /\ command' = [command EXCEPT !.at = "term", !.cancelled = TRUE]
          /\ group' \in Terminated
  /\ UNCHANGED <<piped, forks>>

CallProceeds == Finishes \/ TimesOut \/ GroupEnds \/ GraceEnds \/ Drains

ShellNext ==
  \/ StartCommand \/ Fork \/ Cancel
  \/ Finishes \/ TimesOut \/ GroupEnds \/ GraceEnds \/ Drains
  \/ \E p \in Processes : Exits(p) \/ Dies(p)

\* Timers fire, and a doomed process dies; one that is only running need never end.
ShellSpec ==
  /\ ShellInit /\ [][ShellNext]_shellVars
  /\ WF_shellVars(CallProceeds) /\ \A p \in Processes : WF_shellVars(Dies(p))

-----------------------------------------------------------------------------
(* Properties. *)

\* shell.py:112: "Timeout or cancellation terminates and reaps the complete process group", the
\* background process and one forked meanwhile included; a call that gives up has killed them.
GroupReaped ==
  /\ command.outcome \in {"timeout", "cancelled"} => \A p \in Processes : ~Running(p)
  /\ command.outcome = "failed" => \A p \in Processes : group[p] # "alive"

\* A call ends, whatever its processes do.
CommandEnds == command.at = "wait" ~> command.at = "ended"
=============================================================================
