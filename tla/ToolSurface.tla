---------------------------- MODULE ToolSurface ----------------------------
(***************************************************************************)
(* Which tools a turn shows the model: the options the turn was started     *)
(* with, the selection made for every request, the discovery call and the   *)
(* activation it leads to, the manifest that is saved with the turn, and    *)
(* what a resume makes of a manifest whose tools have changed meanwhile.    *)
(*                                                                         *)
(* Names are ordered as they were installed.  A tool's contract (schemas,   *)
(* effects, revision) is a number: two contracts are equal or they differ.  *)
(***************************************************************************)
EXTENDS Naturals, Sequences, FiniteSets, SequencesExt

CONSTANTS
  Order,         \* every tool's name, in the order of installation
  Find,          \* find_tools
  Defaults,      \* the resident tools of the product
  Configured,    \* its resident extensions: knowledge and skills
  Discoverable,  \* the tools only find_tools leads to: a set
  Options,       \* what callers ask for: records [tools, disabled, discovery]
  Contracts,     \* the contracts a tool may have: numbers
  MaxActive,     \* max_active_deferred_tools
  MaxMatches,    \* MAX_FIND_TOOL_MATCHES
  MaxFinds,      \* bound on the find_tools calls of one answer
  MaxResumes     \* bound on the resumes of the turn

Names == ToSet(Order)

\* What an instance must assume of the constants.
SurfaceConstants ==
  /\ IsInjective(Order) /\ Find \in Names
  /\ ToSet(Defaults) \subseteq Names /\ ToSet(Configured) \subseteq Names
  /\ Discoverable \subseteq Names \ {Find}
  /\ Contracts \subseteq Nat /\ {MaxActive, MaxMatches, MaxFinds, MaxResumes} \subseteq Nat

VARIABLES
  registry,  \* the installed tools: name -> contract
  surface    \* the turn: its names, the manifest of its last request, its calls

surfaceVars == <<registry, surface>>

NoManifest == [resident |-> <<>>, explicit |-> <<>>, active |-> <<>>, contract |-> <<>>]
NoTurn == [at |-> "idle", resident |-> <<>>, explicit |-> <<>>, active |-> <<>>,
           disabled |-> <<>>, discovery |-> FALSE, manifest |-> NoManifest,
           found |-> <<>>, pending |-> "none", resumes |-> 0]

-----------------------------------------------------------------------------
(* Sequences of names. *)

Unique(names) ==
  FoldLeft(LAMBDA kept, n : IF Contains(kept, n) THEN kept ELSE Append(kept, n), <<>>, names)
In(names, S) == SelectSeq(names, LAMBDA n : n \in S)
NotIn(names, S) == SelectSeq(names, LAMBDA n : n \notin S)
Installed == In(Order, DOMAIN registry)
AllInstalled(names) == ToSet(names) \subseteq DOMAIN registry
Shown(s) == s.resident \o s.explicit

-----------------------------------------------------------------------------
(* resolve_tool_options: the names a turn starts with. *)

ExplicitNames(o) == NotIn(Unique(o.tools), ToSet(o.disabled))

DefaultBase == In(Installed, ToSet(Defaults))
               \o In(Installed, ToSet(Configured) \ ToSet(Defaults))

HiddenNames(o) ==
  (Discoverable \cap DOMAIN registry) \ (ToSet(DefaultBase) \cup ToSet(o.disabled) \cup {Find})

DefaultNames(o) ==
  LET base == NotIn(DefaultBase, ToSet(o.disabled) \cup {Find})
  IN IF o.discovery /\ HiddenNames(o) # {} /\ Find \notin ToSet(o.disabled)
     THEN Append(base, Find) ELSE base

BadOptions(o) ==
  \/ ~AllInstalled(o.disabled) \/ ~AllInstalled(o.tools)
  \/ o.tools # <<>> /\ Contains(ExplicitNames(o), Find) /\ ~o.discovery
  \/ /\ o.tools = <<>>
     /\ \/ ~AllInstalled(Defaults) \/ ~AllInstalled(Configured)
        \/ o.discovery /\ HiddenNames(o) # {} /\ Find \notin DOMAIN registry

-----------------------------------------------------------------------------
(* select_tools, find_tools, reduce_tool_activation, build_tool_manifest.   *)

\* An activation that takes a tool the model sees already.
ReducedTwice(s, proposed) ==
  LET new == NotIn(proposed, ToSet(s.active))
  IN [error |-> Len(s.active \o new) > MaxActive, active |-> s.active \o new]
\* An activation that makes room by dropping the oldest.
ReducedEvicting(s, proposed) ==
  LET all == s.active \o NotIn(Unique(proposed), ToSet(s.active) \cup ToSet(Shown(s)))
  IN [error |-> FALSE,
      active |-> IF Len(all) > MaxActive THEN SubSeq(all, 1 + Len(all) - MaxActive, Len(all))
                 ELSE all]

Selected(s) == NotIn(Unique(Shown(s) \o s.active), ToSet(s.disabled))
SelectionFails(s) == ~AllInstalled(Shown(s) \o s.active) \/ ~AllInstalled(s.disabled)

\* The runtime's search closure knows neither what is active nor what is disabled: it ranks
\* every discoverable tool, and its own check of the limit counts the matches alone.
FoundNames ==
  {names \in UNION {[1..n -> Discoverable \cap DOMAIN registry] : n \in 0..MaxMatches} :
     IsInjective(names) /\ Len(names) <= MaxActive}

\* Unknown, disabled and undiscoverable names raise, and so does one tool too many.
Reduced(s, proposed) ==
  LET fresh == NotIn(Unique(proposed), ToSet(s.active) \cup ToSet(Shown(s)))
      next == s.active \o fresh
  IN [error |-> \/ ~AllInstalled(proposed)
                \/ ToSet(proposed) \cap ToSet(s.disabled) # {}
                \/ ~(ToSet(fresh) \subseteq Discoverable)
                \/ Len(next) > MaxActive,
      active |-> next]

\* build_tool_manifest raises when a name is there twice or the orders do not match.
ManifestFails(resident, explicit, active, tools) ==
  LET names == resident \o explicit \o active IN ~IsInjective(names) \/ names # tools

Manifest(resident, explicit, active) ==
  [resident |-> resident, explicit |-> explicit, active |-> active,
   contract |-> [n \in ToSet(resident \o explicit \o active) |-> registry[n]]]

\* The manifest recorded with an answer: the names the request exposed, by origin.
RequestManifest(s, exposed) ==
  LET resident == In(s.resident, ToSet(exposed))
      explicit == NotIn(In(s.explicit, ToSet(exposed)), ToSet(resident))
      active == NotIn(In(s.active, ToSet(exposed)), ToSet(resident \o explicit))
  IN [fails |-> ManifestFails(resident, explicit, active, exposed),
      manifest |-> Manifest(resident, explicit, active)]

-----------------------------------------------------------------------------
(* The turn. *)

SurfaceInit ==
  /\ registry \in {[n \in Names |-> c] : c \in Contracts}
  /\ surface = NoTurn

StartTurn(o) ==
  /\ surface.at = "idle" /\ UNCHANGED registry
  /\ LET names == IF o.tools = <<>> THEN DefaultNames(o) ELSE ExplicitNames(o)
         started == [NoTurn EXCEPT !.at = "ready", !.disabled = Unique(o.disabled),
                       !.discovery = o.discovery,
                       !.resident = IF o.tools = <<>> THEN names ELSE <<>>,
                       !.explicit = IF o.tools = <<>> THEN <<>> ELSE names]
     IN surface' = IF BadOptions(o) THEN [NoTurn EXCEPT !.at = "rejected"]
                   ELSE [started EXCEPT !.manifest = Manifest(started.resident,
                                                              started.explicit, <<>>)]

\* A request is built and answered: with find_tools calls if the model was shown the tool,
\* and perhaps with a call that will wait for an approval.
AskModel(finds, pending) ==
  /\ surface.at = "ready" /\ UNCHANGED registry
  /\ LET exposed == Selected(surface)
         recorded == RequestManifest(surface, exposed)
     IN /\ finds # <<>> => Contains(exposed, Find)
        /\ pending \in ToSet(exposed) \cup {"none"}
        /\ surface' =
             IF SelectionFails(surface) \/ recorded.fails
             THEN [surface EXCEPT !.at = "broken"]
             ELSE [surface EXCEPT !.at = "results", !.manifest = recorded.manifest,
                                  !.found = finds, !.pending = pending]

\* The results of the batch are applied one after the other; one that cannot be applied
\* raises out of the loop.
ApplyActivationResults ==
  /\ surface.at = "results" /\ UNCHANGED registry
  /\ LET Apply(s, proposed) ==
           IF s.at = "raised" THEN s
           ELSE LET r == Reduced(s, proposed)
                IN IF r.error THEN [s EXCEPT !.at = "raised"] ELSE [s EXCEPT !.active = r.active]
         applied == FoldLeft(Apply, surface, surface.found)
     IN surface' = [applied EXCEPT !.found = <<>>,
                      !.at = IF @ = "raised" THEN @
                             ELSE IF surface.pending = "none" THEN "ready" ELSE "paused"]

\* The tools of the process that resumes: some are gone, some have another contract.  What
\* was saved is the manifest; the names of the turn are read back from it.
Restore(tools) ==
  /\ surface.at \in {"ready", "paused"} /\ surface.resumes < MaxResumes
  /\ registry' = tools
  /\ surface' = [surface EXCEPT !.at = "resuming", !.resumes = @ + 1,
                   !.resident = surface.manifest.resident,
                   !.explicit = surface.manifest.explicit,
                   !.active = surface.manifest.active]

\* reconcile_tool_manifest, and what the service makes of its decision.
ReconcileManifest ==
  /\ surface.at = "resuming" /\ UNCHANGED registry
  /\ LET keep(names) == In(names, DOMAIN registry)
         resident == keep(surface.resident)
         explicit == keep(surface.explicit)
         active == keep(surface.active)
         old == surface.manifest
         rebuilt == Manifest(resident, explicit, active)
         affected == {n \in DOMAIN old.contract :
                        n \notin DOMAIN rebuilt.contract \/ rebuilt.contract[n] # old.contract[n]}
     IN surface' =
          IF ManifestFails(resident, explicit, active, resident \o explicit \o active)
            THEN [surface EXCEPT !.at = "broken"]
          ELSE IF rebuilt = old THEN [surface EXCEPT !.at = "ready", !.pending = "none"]
          ELSE IF surface.pending \in affected THEN [surface EXCEPT !.at = "drifted"]
          ELSE [surface EXCEPT !.at = "ready", !.pending = "none",
                  !.resident = resident, !.explicit = explicit,
                  !.active = keep(old.active), !.manifest = rebuilt]

SurfaceNext ==
  \/ \E o \in Options : StartTurn(o)
  \/ \E n \in 0..MaxFinds : \E finds \in [1..n -> FoundNames], p \in Names \cup {"none"} :
       AskModel(finds, p)
  \/ ApplyActivationResults
  \/ \E S \in SUBSET Names, c \in Contracts : Restore([n \in S |-> c])
  \/ ReconcileManifest

SurfaceSpec == SurfaceInit /\ [][SurfaceNext]_surfaceVars

-----------------------------------------------------------------------------
(* Properties. *)

\* selection.py:277, model_request.py:527: the names of a running turn are installed, there
\* once, and in the order resident, explicit, active, so that neither the selection nor the
\* manifest can raise (but the selection does when a disabled tool has gone: a resume keeps
\* the name); no disabled tool is among them; the active ones are discoverable, no
\* more than the limit, and none when discovery is off.
SurfaceWellFormed ==
  /\ surface.at = "broken" => ~AllInstalled(surface.disabled)
  /\ surface.at \in {"ready", "results", "paused"} =>
       /\ IsInjective(Shown(surface) \o surface.active)
       /\ AllInstalled(Shown(surface) \o surface.active)
       /\ ToSet(Shown(surface) \o surface.active) \cap ToSet(surface.disabled) = {}
       /\ ToSet(surface.active) \subseteq Discoverable /\ Len(surface.active) <= MaxActive
       /\ ~surface.discovery => surface.active = <<>> /\ ~Contains(Shown(surface), Find)

\* selection.py:367: while a turn runs nothing the model was shown is taken away, and what is
\* added comes after it.
ShownGrows ==
  [][surface.at \in {"ready", "results"} /\ surface'.at \in {"ready", "results", "paused"}
     => IsPrefix(Shown(surface) \o surface.active, Shown(surface') \o surface'.active)]_surfaceVars

\* docs/superpowers/specs/2026-07-11-single-tool-runtime-and-context-design.md:741: a resume
\* restores the active names whose tools are still installed.
ActivationsSurvive ==
  [][surface.at \in {"ready", "paused"} /\ surface'.at = "resuming" =>
       ToSet(surface.active) \cap DOMAIN registry' \subseteq ToSet(surface'.active)]_surfaceVars
=============================================================================
