------------------------------- MODULE Skills -------------------------------
(***************************************************************************)
(* Skills: the catalog a process builds from SKILL.md files, the listing    *)
(* the model sees, the activation of a skill, and the prompt that shows an   *)
(* active skill's instructions as they are on disk at that moment.          *)
(*                                                                         *)
(* A file's content is a revision, 0 when the file is gone.  A name is a    *)
(* namespace ("none" for a skill directly under its root) and a base name;  *)
(* an id is the source and the name.                                        *)
(***************************************************************************)
EXTENDS Naturals, Sequences, FiniteSets, SequencesExt

CONSTANTS
  Roots,         \* the directories scanned, in order: sequences of entries
                 \* [file, source, ns, base, off, valid, name, desc]
  Sources,       \* the sources the policy enables
  ListingChars,  \* max_listing_chars
  MinDesc,       \* MIN_DESC_LENGTH
  OmittedChars,  \* the length of the line that counts what was left out
  MaxEdits,      \* bound on the edits of SKILL.md files
  MaxTurns       \* bound on the model's requests

VARIABLES
  disk,     \* the revision of each SKILL.md
  catalog,  \* the manifests of this process, each with the revision it was read from
  active,   \* skill_state.active, by id: the reference kept in the checkpoint
  event,    \* the activation a tool result reports and the loop has not applied
  prompt,   \* what the last prompt showed: blocks by id, and the ids listed
  called,   \* the ids invoke_skill returned instructions for
  edits, turns

skillVars == <<disk, catalog, active, event, prompt, called, edits, turns>>

Entries == UNION {ToSet(Roots[i]) : i \in DOMAIN Roots}
Files == {e.file : e \in Entries}

Priority(source) ==
  CASE source = "bundled" -> 0 [] source = "project" -> 1
    [] source \in {"user", "external", "managed"} -> 2 [] OTHER -> 3

NoEvent == <<>>
NoPrompt == [loaded |-> <<>>, listed |-> {}, failed |-> FALSE]

-----------------------------------------------------------------------------
(* The catalog. *)

SkillId(m) == <<m.source, m.ns, m.base>>

\* add: one manifest for a file, one for an id.
Added(manifests, m) ==
  IF \E i \in DOMAIN manifests : manifests[i].file = m.file \/ SkillId(manifests[i]) = SkillId(m)
  THEN manifests ELSE Append(manifests, m)

\* A file that cannot be read or parsed is left out; the scan goes on.
Loadable(e) == disk[e.file] # 0 /\ e.valid
LoadedFrom(e) == [read |-> disk[e.file]] @@ e

\* scan_and_load_skills: each resolved file once, in the order of the roots, then by
\* priority; the catalog keeps what the policy enables.
Scanned ==
  LET Once(seen, e) ==
        IF \E i \in DOMAIN seen : seen[i].file = e.file THEN seen ELSE Append(seen, e)
      all == FoldLeft(Once, <<>>, FlattenSeq(Roots))
  IN SortSeq(SelectSeq(all, Loadable), LAMBDA a, b : Priority(a.source) < Priority(b.source))

NewCatalog ==
  FoldLeft(Added, <<>>, [i \in DOMAIN Scanned |-> LoadedFrom(Scanned[i])])
EnabledCatalog == SelectSeq(NewCatalog, LAMBDA m : m.source \in Sources)

Manifests == ToSet(catalog)

\* A query is an id, a name <<ns, base>>, or a bare name <<base>>.
Candidates(query) ==
  LET byId == {m \in Manifests : SkillId(m) = query}
  IN IF byId # {} THEN byId
     ELSE {m \in Manifests : \/ <<m.ns, m.base>> = query
                             \/ <<m.base>> = query}

Found(query) == IF Cardinality(Candidates(query)) = 1 THEN Candidates(query) ELSE {}

-----------------------------------------------------------------------------
(* The listing: full, cut, or names only, the least important left out.     *)

\* Line lengths: "- name: desc" and its newline, the fixed characters included in name.
Full(m) == m.name + m.desc + 1
NameOnly(m) == m.name + 1
Total(s, Size(_)) == FoldLeft(LAMBDA n, m : n + Size(m), 0, s)

Listable(excluded) ==
  SelectSeq(catalog, LAMBDA m : ~m.off /\ SkillId(m) \notin excluded)

\* The longest run of names that fits behind the bundled ones, with the line that counts
\* the others.
NamesThatFit(kept, rest) ==
  LET Size(k) == Total(kept, Full) + Total(SubSeq(rest, 1, k), NameOnly)
                 + (IF k \in 1..Len(rest) - 1 THEN OmittedChars + 1 ELSE 0)
      fits == {k \in 0..Len(rest) : k = 0 \/ Size(k) <= ListingChars + 1}
      k == CHOOSE k \in fits : \A j \in fits : j <= k
  IN [lines |-> kept \o SubSeq(rest, 1, k), size |-> Size(k)]

Listing(excluded) ==
  LET ms == Listable(excluded)
      bundled == SelectSeq(ms, LAMBDA m : m.source = "bundled")
      rest == SelectSeq(ms, LAMBDA m : m.source # "bundled")
      left == ListingChars - Total(bundled, Full)
      names == Total(rest, LAMBDA m : m.name + 1)
      cut == IF rest = <<>> \/ left < names THEN 0 ELSE (left - names) \div Len(rest)
      Cut(m) == m.name + 1 + (IF m.desc > cut THEN cut ELSE m.desc)
  IN IF Total(ms, Full) <= ListingChars THEN [lines |-> ms, size |-> Total(ms, Full)]
     ELSE IF Total(bundled, Full) >= ListingChars
       THEN [lines |-> bundled, size |-> Total(bundled, Full)]
     ELSE IF cut < MinDesc THEN NamesThatFit(bundled, rest)
     ELSE [lines |-> bundled \o rest, size |-> Total(bundled, Full) + Total(rest, Cut)]

-----------------------------------------------------------------------------
(* The actions. *)

SkillsInit ==
  /\ disk = [f \in Files |-> 1] /\ catalog = EnabledCatalog
  /\ active = <<>> /\ event = NoEvent /\ prompt = NoPrompt /\ called = {} /\ edits = 0 /\ turns = 0

\* Someone edits, moves or restores a SKILL.md.
EditSkill(f) ==
  /\ edits < MaxEdits /\ edits' = edits + 1
  /\ disk' = [disk EXCEPT ![f] = IF @ = 0 THEN 1 ELSE edits' + 1]
  /\ UNCHANGED <<catalog, active, event, prompt, called, turns>>

RemoveSkill(f) ==
  /\ edits < MaxEdits /\ edits' = edits + 1
  /\ disk[f] # 0 /\ disk' = [disk EXCEPT ![f] = 0]
  /\ UNCHANGED <<catalog, active, event, prompt, called, turns>>

\* invoke_skill: the instructions on disk, under the fingerprint the catalog was built with.
InvokeSkill(query) ==
  /\ event = NoEvent
  /\ \E m \in Found(query) :
       /\ ~m.off /\ disk[m.file] # 0
       /\ event' = [id |-> SkillId(m), fingerprint |-> m.read]
       /\ called' = called \cup {SkillId(m)}
  /\ UNCHANGED <<disk, catalog, active, prompt, edits, turns>>

\* apply_activation_event, with the result: the body is read again, and what is kept is the
\* reference with this body's fingerprint; a file that has gone raises.
Applied ==
  {m \in Found(event.id) : ~m.off /\ m.read = event.fingerprint /\ disk[m.file] # 0}
ApplyActivation ==
  /\ event # NoEvent /\ event' = NoEvent
  /\ active' = [id \in {SkillId(m) : m \in Applied} |->
                  LET m == CHOOSE m \in Applied : TRUE
                  IN [id |-> id, file |-> m.file, body |-> disk[m.file]]] @@ active
  /\ UNCHANGED <<disk, catalog, prompt, called, edits, turns>>

\* The checkpointed references that still name a skill of this catalog.
ValidatedActive ==
  {id \in DOMAIN active :
     \E m \in Manifests : /\ SkillId(m) = id /\ ~m.off
                          /\ active[id].id = id /\ active[id].file = m.file}

\* Faulty: a block that trusts the fingerprint it was activated with.
BlockWithoutCheck(ref) == [body |-> disk[ref.file], read |-> ref.body, warned |-> FALSE]
\* render_loaded_skill_ref: the body on disk, and a warning when it is not the one invoked.
LoadedBlock(ref) ==
  [body |-> disk[ref.file], read |-> ref.body, warned |-> disk[ref.file] # ref.body]

\* render_prompt_context, for every request; a file that has gone raises.
RenderPrompt ==
  /\ turns < MaxTurns /\ turns' = turns + 1
  /\ LET shown == ValidatedActive
     IN prompt' = IF \E id \in shown : disk[active[id].file] = 0
                  THEN [NoPrompt EXCEPT !.failed = TRUE]
                  ELSE [loaded |-> [id \in shown |-> LoadedBlock(active[id])], failed |-> FALSE,
                        listed |-> {SkillId(m) : m \in ToSet(Listing(shown).lines)}]
  /\ event = NoEvent
  /\ UNCHANGED <<disk, catalog, active, event, called, edits>>

\* A new process scans again and resumes the turn from its checkpoint.
RestartSkills ==
  /\ catalog' = EnabledCatalog /\ prompt' = NoPrompt /\ event' = NoEvent
  /\ UNCHANGED <<disk, active, called, edits, turns>>

Queries == {SkillId(e) : e \in Entries} \cup {<<e.ns, e.base>> : e \in Entries}
           \cup {<<e.base>> : e \in Entries}

SkillsNext ==
  \/ \E f \in Files : EditSkill(f) \/ RemoveSkill(f)
  \/ \E q \in Queries : InvokeSkill(q)
  \/ ApplyActivation
  \/ RenderPrompt
  \/ RestartSkills

SkillsSpec == SkillsInit /\ [][SkillsNext]_skillVars

-----------------------------------------------------------------------------
(* Properties. *)

\* context.py:155, runtime.py:149: whatever was edited, and whichever process resumes, a
\* skill the model is shown as loaded was invoked, is in the catalog under the same file, and
\* shows a warning unless its instructions are those it was invoked with; it is not listed
\* as well.
LoadedSkillsTrue ==
  \A id \in DOMAIN prompt.loaded :
    /\ id \in called
    /\ prompt.loaded[id].warned \/ prompt.loaded[id].body = prompt.loaded[id].read
    /\ id \notin prompt.listed

\* context.py:39, catalog.py:200: whatever is on disk and whatever is active, the catalog has
\* one skill for a file and one for an id; the listing, its last newline apart, fits its
\* budget unless it is the bundled skills alone, and it leaves a skill out only after all
\* that come behind it.
ListingSound ==
  LET listing == Listing(ValidatedActive)
      bundled == SelectSeq(listing.lines, LAMBDA m : m.source = "bundled")
  IN /\ \A i, j \in DOMAIN catalog :
          i < j => catalog[i].file # catalog[j].file /\ SkillId(catalog[i]) # SkillId(catalog[j])
     /\ listing.size - 1 <= ListingChars \/ listing.lines = bundled
     /\ IsPrefix(listing.lines, Listable(ValidatedActive))

SkillsSound == LoadedSkillsTrue /\ ListingSound
=============================================================================
