------------------------ MODULE CheckpointMigration ------------------------
(***************************************************************************)
(* What a checkpoint holds of a turn, and what loading makes of it: the      *)
(* canonical part is packed into one value when a snapshot is saved and      *)
(* unpacked when it is loaded, and a checkpoint of an older version is       *)
(* brought to the current shape on the way.  A process may die between any   *)
(* two snapshots; the next one goes on from the last.                        *)
(*                                                                         *)
(* A message is [role, text], a call an id with the origin of the request    *)
(* that made it, 0 when it is not known.  A field that a version did not     *)
(* write is Absent.                                                         *)
(***************************************************************************)
EXTENDS Naturals, Sequences, FiniteSets, SequencesExt, Functions

CONSTANTS
  Ids,        \* ids of tool calls
  OldTurns,   \* the checkpoints of older versions
  OldTools,   \* the tool states of version 1: [ledger, results, pending]
  Absent,     \* the value of a field that was not written
  MaxSteps    \* bound on what a turn does

VARIABLES
  disk,      \* the last snapshot
  live,      \* the turn as the running process has it
  kept,      \* history: the turn when it was last saved, or what the old one must become
  steps,
  converted  \* a tool state of version 1 and what became of it

checkpointVars == <<disk, live, kept, steps, converted>>

Is(value) == value # Absent
Default(value, other) == IF Is(value) THEN value ELSE other

Message(role, text) == [role |-> role, text |-> text]
Unavailable == Message("user", "unavailable")
NoTurn == [at |-> "down"]

IdsOf(items) == {items[i].id : i \in DOMAIN items}
WithOrigin(items, Origin(_)) == [i \in DOMAIN items |-> [items[i] EXCEPT !.origin = Origin(items[i])]]

-----------------------------------------------------------------------------
(* _normalize_loaded_state: task and transcript become history and turn.    *)

FullContext(raw) ==
  LET old == Default(raw.canonical, <<>>)
  IN IF Is(raw.task) /\ (old = <<>> \/ Head(old) # raw.task) THEN <<raw.task>> \o old ELSE old

\* The turn starts at the last message of the user.
TurnStart(context) ==
  LET users == {i \in DOMAIN context : context[i].role = "user"}
  IN IF users = {} THEN 0 ELSE CHOOSE i \in users : \A j \in users : j <= i

SplitContext(raw) ==
  LET full == FullContext(raw)
      turn == Default(raw.turn, <<>>)
      start == TurnStart(full)
      before == Len(full) - Len(turn)
      fallback == Default(raw.task, Unavailable)
  IN IF turn # <<>>
       THEN [turn |-> turn,
             history |-> IF IsSuffix(turn, full) THEN SubSeq(full, 1, before) ELSE <<>>]
     ELSE IF full = <<>> THEN [history |-> <<>>, turn |-> <<fallback>>]
     ELSE IF start = 0 THEN [history |-> <<>>, turn |-> <<fallback>> \o full]
     ELSE [history |-> SubSeq(full, 1, start - 1), turn |-> SubSeq(full, start, Len(full))]

MigratedContext(raw) ==
  LET old == Is(raw.task) \/ Is(raw.canonical)
      split == SplitContext(raw)
  IN [history |-> IF ~Is(raw.history) \/ (old /\ raw.history = <<>>) THEN split.history ELSE raw.history,
      turn |-> IF ~Is(raw.turn) \/ (old /\ raw.turn = <<>> /\ ~Is(raw.pack)) THEN split.turn ELSE raw.turn]

-----------------------------------------------------------------------------
(* _migrate_legacy_state: the pending calls and the ledger.                 *)

\* The two fields are concatenated; a bare plan is wrapped, what has no known form is left out.
MigratedPending(raw) ==
  LET known == SelectSeq(Default(raw.pending, <<>>), LAMBDA p : p.form # "unknown")
      loop == SelectSeq(Default(raw.loop, <<>>), LAMBDA p : p.id # "none")
  IN [i \in DOMAIN (known \o loop) |-> [id |-> (known \o loop)[i].id, form |-> "call",
                                         origin |-> (known \o loop)[i].origin]]

\* Calls of the loop field are validated, and "paused" is no status of a pending call.
PendingInvalid(raw) ==
  \E call \in ToSet(Default(raw.loop, <<>>)) : call.id # "none" /\ call.status = "paused"

\* append_plans: a call once.
PlannedCalls(entries, pending) ==
  FoldLeft(LAMBDA es, p : IF p.id \in IdsOf(es) THEN es
                          ELSE Append(es, [id |-> p.id, origin |-> p.origin]), entries, pending)

MigratedLedger(raw) ==
  LET ledger == Default(raw.ledger, <<>>)
  IN IF ledger = <<>> THEN PlannedCalls(<<>>, MigratedPending(raw)) ELSE ledger

Normalized(raw) ==
  [at |-> IF PendingInvalid(raw) THEN "failed" ELSE "up",
   history |-> MigratedContext(raw).history, turn |-> MigratedContext(raw).turn,
   pending |-> MigratedPending(raw), ledger |-> MigratedLedger(raw),
   calls |-> Default(raw.calls, <<>>), paused |-> raw.paused,
   manifest |-> Default(raw.manifest, FALSE), pack |-> raw.pack]

-----------------------------------------------------------------------------
(* Packing and unpacking. *)

\* Unpacking that looks for origins among the pending calls only.
UnpackedUnlessPaused(state) ==
  IF ~Is(state.pack) THEN state
  ELSE LET pack == state.pack
           origin == [id \in IdsOf(pack.pending) |->
                        (CHOOSE c \in ToSet(pack.pending) : c.id = id).origin]
       IN [state EXCEPT !.turn = pack.turn, !.manifest = TRUE, !.calls = pack.calls,
             !.pending = WithOrigin(@, LAMBDA p : IF p.id \in DOMAIN origin THEN origin[p.id] ELSE p.origin),
             !.ledger = WithOrigin(@, LAMBDA e : IF e.id \in DOMAIN pack.calls THEN pack.calls[e.id] ELSE 0)]

\* _encode_canonical_state, CanonicalToolCheckpoint: only calls the turn has on record are
\* packed, as paused when the turn is; the same call twice raises.
Dependent(state) == SelectSeq(state.pending, LAMBDA p : p.id \in DOMAIN state.calls)
Unpackable(state) == state.manifest /\ Cardinality(IdsOf(Dependent(state))) # Len(Dependent(state))
Packed(state) ==
  LET dependent == [i \in DOMAIN Dependent(state) |->
                      [id |-> Dependent(state)[i].id, origin |-> state.calls[Dependent(state)[i].id]]]
  IN IF ~state.manifest THEN state
     ELSE [state EXCEPT
             !.pack = [turn |-> state.turn, calls |-> state.calls,
                       pending |-> IF state.paused THEN <<>> ELSE dependent,
                       paused |-> IF state.paused THEN dependent ELSE <<>>],
             !.turn = <<>>, !.calls = <<>>, !.manifest = FALSE,
             !.pending = WithOrigin(@, LAMBDA p : 0), !.ledger = WithOrigin(@, LAMBDA e : 0)]

\* _decode_canonical_state.
Unpacked(state) ==
  IF ~Is(state.pack) THEN state
  ELSE LET pack == state.pack
           packed == ToSet(pack.pending) \cup ToSet(pack.paused)
           origin == [id \in {c.id : c \in packed} |-> (CHOOSE c \in packed : c.id = id).origin]
       IN [state EXCEPT !.turn = pack.turn, !.manifest = TRUE, !.calls = pack.calls,
             !.pending = WithOrigin(@, LAMBDA p : IF p.id \in DOMAIN origin THEN origin[p.id] ELSE p.origin),
             !.ledger = WithOrigin(@, LAMBDA e : IF e.id \in DOMAIN pack.calls THEN pack.calls[e.id] ELSE 0)]

Loaded(raw) == Unpacked(Normalized(raw))

\* A snapshot is a checkpoint of the current version.
Snapshot(state) ==
  [task |-> Absent, canonical |-> Absent, loop |-> Absent, history |-> state.history,
   turn |-> state.turn, pending |-> state.pending, ledger |-> state.ledger, calls |-> state.calls,
   paused |-> state.paused, manifest |-> state.manifest, pack |-> state.pack]

-----------------------------------------------------------------------------
(* decode_legacy_tool_state_v1: a tool state of version 1, by itself.       *)

NotConverted == [at |-> "no"]

Conversion(old) ==
  LET entries == SortSeq(old.ledger, LAMBDA a, b :
                           a.turn < b.turn \/ (a.turn = b.turn /\ a.sequence < b.sequence))
      ids == [i \in DOMAIN entries |-> entries[i].id]
      answered == ToSet(old.results)
      mark == FoldLeft(LAMBDA f, p : (p.id :> p.status) @@ f, <<>>, old.pending)
      Paused(id) == id \in DOMAIN mark /\ mark[id] = "paused"
      Waits(id) == ~Paused(id) /\ (id \in DOMAIN mark \/ id \notin answered)
      Said(id) == <<Message("assistant", id)>>
                  \o (IF id \in answered THEN <<Message("tool", id)>> ELSE <<>>)
  IN IF \/ ~IsInjective(ids) \/ ~IsInjective(old.results)
        \/ ~(answered \cup DOMAIN mark \subseteq ToSet(ids))
     THEN [at |-> "refused"]
     ELSE [at |-> "yes", calls |-> ids,
           turn |-> <<Unavailable>> \o FlattenSeq([i \in DOMAIN ids |-> Said(ids[i])]),
           pending |-> SelectSeq(ids, Waits), paused |-> SelectSeq(ids, Paused)]

-----------------------------------------------------------------------------
(* A turn that is loaded, worked on, saved and loaded again. *)

CheckpointInit ==
  /\ \/ disk \in OldTurns /\ converted = NotConverted
     \/ /\ disk = CHOOSE raw \in OldTurns : TRUE
        /\ \E old \in OldTools : converted = [at |-> "no", old |-> old]
  /\ live = NoTurn /\ kept = NoTurn /\ steps = 0

Bounded == steps < MaxSteps /\ steps' = steps + 1
Running == live.at = "up" /\ converted = NotConverted
TurnOf(state) == [state EXCEPT !.pack = Absent]

LoadTurn ==
  /\ live.at = "down" /\ converted = NotConverted
  /\ live' = Loaded(disk)
  /\ UNCHANGED <<disk, kept, steps, converted>>

\* The model asks for calls: each gets its place in the transcript, on record, in the ledger.
ScheduleCalls(ids, origin) ==
  /\ Running /\ Bounded
  /\ ~live.paused /\ live.pending = <<>> /\ ToSet(ids) \cap IdsOf(live.ledger) = {}
  /\ LET pending == [i \in DOMAIN ids |-> [id |-> ids[i], form |-> "call", origin |-> origin]]
     IN live' = [live EXCEPT !.pending = pending, !.ledger = PlannedCalls(@, pending), !.manifest = TRUE,
                   !.calls = [id \in ToSet(ids) |-> origin] @@ @,
                   !.turn = Append(@, Message("assistant", ids[1]))]
  /\ UNCHANGED <<disk, kept, converted>>

AnswerCall ==
  /\ Running /\ Bounded /\ live.pending # <<>>
  /\ live' = [live EXCEPT !.pending = Tail(@), !.paused = FALSE,
                !.turn = Append(@, Message("tool", Head(live.pending).id))]
  /\ UNCHANGED <<disk, kept, converted>>

PauseTurn ==
  /\ Running /\ Bounded /\ live.pending # <<>> /\ ~live.paused
  /\ live' = [live EXCEPT !.paused = TRUE]
  /\ UNCHANGED <<disk, kept, converted>>

SaveTurn ==
  /\ Running /\ ~Unpackable(live)
  /\ disk' = Snapshot(Packed(live)) /\ kept' = TurnOf(live)
  /\ UNCHANGED <<live, steps, converted>>

Die == Running /\ live' = NoTurn /\ UNCHANGED <<disk, kept, steps, converted>>

Convert ==
  /\ converted.at = "no" /\ converted # NotConverted
  /\ converted' = Conversion(converted.old) @@ converted
  /\ UNCHANGED <<disk, live, kept, steps>>

CheckpointNext ==
  \/ LoadTurn \/ AnswerCall \/ PauseTurn \/ SaveTurn \/ Die \/ Convert
  \/ \E n \in 1..2 : \E ids \in {s \in [1..n -> Ids] : IsInjective(s)}, origin \in 1..2 :
       ScheduleCalls(ids, origin)

CheckpointSpec == CheckpointInit /\ [][CheckpointNext]_checkpointVars

-----------------------------------------------------------------------------
(* Properties. *)

\* checkpointing.py:971, 1031: whatever version a turn started from and wherever the process
\* dies, loading the last snapshot gives the turn that was saved: transcript, calls on record,
\* what waits and where each call came from.
SnapshotsFaithful == kept # NoTurn => TurnOf(Loaded(disk)) = kept

\* checkpointing.py:1984, "without losing conversation history": of an old checkpoint every
\* message is in the history or the turn, once and in order; the turn begins with the user; and
\* the calls that waited wait, and are in the ledger.
OldTurnsKept ==
  kept = NoTurn /\ live.at = "up" /\ steps = 0 =>
    /\ IsSuffix(FullContext(disk), live.history \o live.turn)
    /\ Len(live.history \o live.turn) <= Len(FullContext(disk)) + 1
    /\ Head(live.turn).role = "user"
    /\ \A p \in ToSet(Default(disk.loop, <<>>)) \cup ToSet(Default(disk.pending, <<>>)) :
         p.id # "none" /\ p.form # "unknown" => p.id \in IdsOf(live.pending)
    /\ ~Is(disk.ledger) => IdsOf(live.pending) = IdsOf(live.ledger)

\* checkpointing.py:1349: of a tool state of version 1 no call that has its result runs again
\* unless it was marked; every other call waits; and every result follows its call.
ConversionSound ==
  converted.at = "yes" =>
    LET answered == ToSet(converted.old.results)
        marked == IdsOf(converted.old.pending)
        waiting == ToSet(converted.pending) \cup ToSet(converted.paused)
    IN /\ waiting = (ToSet(converted.calls) \ answered) \cup marked
       /\ ToSet(converted.pending) \cap ToSet(converted.paused) = {}
       /\ \A i \in DOMAIN converted.turn : converted.turn[i].role = "tool" =>
            converted.turn[i - 1] = Message("assistant", converted.turn[i].text)

CheckpointsSound == SnapshotsFaithful /\ OldTurnsKept /\ ConversionSound
=============================================================================
