---------------------------- MODULE Permissions ----------------------------
(***************************************************************************)
(* Which calls of tools run, and which leave they need first                *)
(* (tools/permissions.py, and the gates of ToolExecutor._prepare).  In       *)
(* ToolExecution a call has the gates it has; here they follow from what a    *)
(* call does: its effects, its targets, and what the caller of the turn has  *)
(* allowed.  A target is where it leads to after links are resolved.         *)
(***************************************************************************)
EXTENDS Naturals, FiniteSets

CONSTANTS
    Tools,     \* [static, revision, managed, confirmed, denied]: tools, and policy on their names
    Uses,      \* [effects, targets]: what a call of a tool resolves to
    Contexts   \* [root, cwd, inside, write, execute, sandboxed, deniedEffects]

Effects == {"read", "write", "execute", "network", "destructive"}
Targets == {"workspace", "outside", "cwd", "outside_cwd", "skill", "idle_skill", "restricted"}

\* What the code gives: the flags of a caller are flags, and the command that may be allowed
\* beforehand runs a process (builtins/shell.py:120).
ASSUME PermissionConstants ==
    /\ \A t \in Tools :
        /\ t.static \subseteq Effects /\ {t.managed, t.confirmed, t.denied} \subseteq BOOLEAN
        /\ t.revision = "run_command" => "execute" \in t.static
    /\ Uses \subseteq [effects : SUBSET Effects, targets : SUBSET Targets]
    /\ Contexts \subseteq
        [root : BOOLEAN, cwd : BOOLEAN, inside : BOOLEAN, write : BOOLEAN, execute : BOOLEAN,
         sandboxed : BOOLEAN, deniedEffects : SUBSET Effects]

VARIABLES
    tool, use, context,
    approved, denied,   \* the ids a human has allowed and denied: "tool", "network"
    asking,             \* what is asked for now, or "none"
    asked,              \* history: what was asked for
    verdict             \* "none", "runs", "refused"

permissionVars == <<tool, use, context, approved, denied, asking, asked, verdict>>

-----------------------------------------------------------------------------
\* What the executor resolves: the static effects of a tool are always among them.
Resolved == [use EXCEPT !.effects = @ \cup tool.static]

\* enforce_hard_guards: what no approval can allow.
Guarded(t, u, c) ==
    /\ t.static \subseteq u.effects
    /\ "write" \in u.effects => u.targets \cap {"workspace", "outside"} # {}
    /\ u.targets \cap {"workspace", "outside"} # {} => c.root /\ "outside" \notin u.targets
    /\ "execute" \in u.effects \/ u.targets \cap {"cwd", "outside_cwd"} # {} => c.cwd
    /\ "outside_cwd" \notin u.targets /\ "idle_skill" \notin u.targets
    /\ c.root /\ c.cwd => c.inside

\* A mutant: an operation that destroys needs no leave of its own.
LeavesWithoutDestruction(u, c) ==
    {e \in {"write"} \cap u.effects : ~c.write} \cup {e \in {"execute"} \cap u.effects : ~c.execute}
        \cup {e \in {"network"} \cap u.effects : "execute" \notin u.effects}

\* The effects a first question is about; the network of a process is a question of its own.
Separate(u) == {"network", "execute"} \subseteq u.effects
Leaves(u, c) ==
    {e \in {"write"} \cap u.effects : ~c.write} \cup {e \in {"execute"} \cap u.effects : ~c.execute}
        \cup ({"destructive"} \cap u.effects)
        \cup {e \in {"network"} \cap u.effects : ~Separate(u)}

\* The one command that may be allowed beforehand: in the sandbox, stoppable, destroying nothing.
Preapproved(t, u, c) ==
    /\ c.sandboxed /\ t.revision = "run_command" /\ t.managed
    /\ "execute" \in u.effects /\ "destructive" \notin u.effects
    /\ "restricted" \in u.targets

\* can_use_tool.
Decision(t, u, c) ==
    CASE t.denied \/ u.effects \cap c.deniedEffects # {} -> "deny"
      [] ~t.denied /\ u.effects \cap c.deniedEffects = {} /\ t.confirmed -> "ask_tool"
      [] OTHER ->
            CASE Preapproved(t, u, c) -> "allow"
              [] ~Preapproved(t, u, c) /\ Leaves(u, c) # {} -> "ask_tool"
              [] ~Preapproved(t, u, c) /\ Leaves(u, c) = {} ->
                    IF Separate(u) THEN "ask_network" ELSE "allow"

\* The gates of _prepare, in order.
GatesOfUse(t, u, c) ==
    LET first == Decision(t, u, c)
    IN  CASE first = "ask_tool" -> IF Separate(u) THEN <<"tool", "network">> ELSE <<"tool">>
          [] first = "ask_network" -> <<"network">>
          [] first = "allow" -> IF Separate(u) THEN <<"network">> ELSE <<>>

-----------------------------------------------------------------------------
PermissionInit ==
    /\ tool \in Tools /\ use \in Uses /\ context \in Contexts
    /\ approved = {} /\ denied = {} /\ asking = "none" /\ asked = {} /\ verdict = "none"

\* _prepare: guards, policy, then the first gate that is not open.
PrepareCall ==
    /\ verdict = "none" /\ asking = "none"
    /\ LET gates == GatesOfUse(tool, Resolved, context)
           shut == {i \in DOMAIN gates : gates[i] \notin approved}
           first == gates[CHOOSE i \in shut : \A j \in shut : i <= j]
       IN  IF ~Guarded(tool, Resolved, context) \/ Decision(tool, Resolved, context) = "deny"
           THEN verdict' = "refused" /\ UNCHANGED <<asking, asked>>
           ELSE \/ shut = {} /\ verdict' = "runs" /\ UNCHANGED <<asking, asked>>
                \/ shut # {} /\ first \in denied /\ verdict' = "refused" /\ UNCHANGED <<asking, asked>>
                \/ shut # {} /\ first \notin denied /\ asking' = first
                    /\ asked' = asked \cup {first} /\ UNCHANGED verdict
    /\ UNCHANGED <<tool, use, context, approved, denied>>

\* The human answers, the turn is resumed and the call prepared again.
Respond(allow) ==
    /\ asking # "none"
    /\ approved' = IF allow THEN approved \cup {asking} ELSE approved
    /\ denied' = IF allow THEN denied ELSE denied \cup {asking}
    /\ asking' = "none"
    /\ UNCHANGED <<tool, use, context, asked, verdict>>

PermissionNext == PrepareCall \/ \E allow \in BOOLEAN : Respond(allow)

PermissionSpec == PermissionInit /\ [][PermissionNext]_permissionVars

-----------------------------------------------------------------------------
\* A call runs only with leave for each of its effects: of the caller of the turn or of a human who
\* was asked, for what destroys of a human, and for the network of a process by itself.
LeaveOf(effect) ==
    \/ effect = "read"
    \/ effect # "network" /\ "tool" \in approved
    \/ effect = "network" /\ (IF Separate(Resolved) THEN "network" ELSE "tool") \in approved
    \/ effect = "write" /\ (context.write \/ Preapproved(tool, Resolved, context))
    \/ effect = "execute" /\ (context.execute \/ Preapproved(tool, Resolved, context))
RunsWithLeave ==
    verdict = "runs" =>
        /\ \A e \in Resolved.effects : LeaveOf(e)
        /\ tool.confirmed => "tool" \in approved
        /\ ~tool.denied /\ Resolved.effects \cap context.deniedEffects = {} /\ denied = {}
        /\ Resolved.targets \cap {"outside", "outside_cwd", "idle_skill"} = {}

\* Nobody is asked about what the answer cannot change, nor twice about the same.
AsksWhatMatters ==
    /\ asking \notin approved \cup denied
    /\ asking # "none" => Guarded(tool, Resolved, context) /\ ~tool.denied
    /\ asking = "network" => Separate(Resolved)

\* A call of the same tool that does more, or for which less has been allowed, needs no less.
Severity(decision) == CASE decision = "allow" -> 0 [] decision = "deny" -> 2 [] OTHER -> 1
Stricter(c) ==
    {[c EXCEPT !.write = FALSE], [c EXCEPT !.execute = FALSE], [c EXCEPT !.sandboxed = FALSE]}
        \cup {[c EXCEPT !.deniedEffects = @ \cup {e}] : e \in Effects}
NeedsNoLess ==
    /\ \A e \in Effects :
        LET more == [Resolved EXCEPT !.effects = @ \cup {e}]
        IN  Severity(Decision(tool, Resolved, context)) <= Severity(Decision(tool, more, context))
    /\ \A c \in Stricter(context) :
        Severity(Decision(tool, Resolved, context)) <= Severity(Decision(tool, Resolved, c))

\* permissions.py:109, 195, executor.py:469: what runs was allowed, and only what matters is asked.
PermissionsSound == RunsWithLeave /\ AsksWhatMatters /\ NeedsNoLess
=============================================================================
