------------------------- MODULE TurnServiceProofs -------------------------
(* Proofs about TurnService, for every set of turns, workers and messages   *)
(* and any number of calls and faults.                                      *)
EXTENDS TurnService, TurnStoreProofs

-----------------------------------------------------------------------------
(* The inductive invariant.  A worker in a call has a turn and, once the     *)
(* checkpoint has been read, a state; one that is about to write an          *)
(* execution record has a cached state to write it into.                     *)

WorkerRecords ==
    [pc : Labels, turn : Turns \cup {NoTurn},
     mode : {"none", "run", "stream", "resume", "observe"},
     st : LoopStates \cup {NoState}, cache : LoopStates \cup {NoState}, next : Labels,
     beating : BOOLEAN, cancelled : BOOLEAN,
     action : Actions \cup {"none"}, closing : BOOLEAN,
     exc : {"none", "error", "cancelled"}]

WithCache == {"sync", "step", "start", "invoke", "outcome"}
Following == Labels \ {"idle", "dead", "load", "sync"}

Free(u) == u.pc \in {"idle", "dead"}
Reads(u) == u.mode \in {"resume", "observe"}

\* A turn is put down only in a state that is paused or has ended.
Closing(u) ==
    \/ u.pc \in {"pause_final", "final_sync", "final_mark"}
    \/ u.pc = "sync" /\ u.next \in {"pause_final", "final_sync", "final_mark"}

\* Only a call that has read the checkpoint answers it.
Resuming(u) ==
    \/ u.pc \in {"load", "manifest", "claim", "leave", "apply", "hydrate"}
    \/ u.pc = "sync" /\ u.next \in {"manifest", "claim", "leave", "apply", "hydrate"}

Equipped(u) ==
    /\ u.turn = NoTurn <=> Free(u)
    /\ ~Free(u) => u.mode # "none"
    /\ ~Free(u) /\ u.pc # "load" => u.st \in LoopStates
    /\ u.pc \in WithCache => u.cache \in LoopStates
    /\ u.pc = "sync" => u.next \in Following
    /\ ~Free(u) /\ u.pc # "load" /\ Reads(u) => cp[u.turn] \in LoopStates
    /\ Closing(u) => u.st.status # "running"
    /\ Resuming(u) => Reads(u)

TypeInv ==
    /\ ServiceTypeOK
    /\ \A w \in Workers : Equipped(wk[w])

\* What is worked on, checkpointed or has acted on the world is in the table.
Rooted ==
    /\ \A w \in Workers : InCall(w) => Exists(wk[w].turn)
    /\ \A t \in Turns : cp[t] # NoState \/ effects[t] > 0 => Exists(t)

\* A call is taken for allowed only where the caller allowed it: in the memory of a
\* worker, in its cached state, in the checkpoint.
CallRuns(u) ==
    \/ u.pc \in {"start", "invoke", "outcome"}
    \/ u.pc = "sync" /\ u.next \in {"start", "invoke", "outcome"}

Permitted(u) ==
    /\ ~Free(u) /\ u.pc # "load" /\ u.st.grant = "yes" => granted[u.turn]
    /\ u.pc \in WithCache /\ u.cache.grant = "yes" => granted[u.turn]
    /\ CallRuns(u) => u.st.grant = "yes"

GrantsKnown ==
    /\ \A w \in Workers : Permitted(wk[w])
    /\ \A t \in Turns : cp[t] # NoState /\ cp[t].grant = "yes" => granted[t]
    /\ RunsOnlyIfGranted

GrantInv == TypeInv /\ Rooted /\ GrantsKnown

-----------------------------------------------------------------------------
(* The workers that a step does not speak of.                                *)

LEMMA TypeParts ==
  ASSUME TypeInv
  PROVE  /\ StoreTypeOK /\ cp \in [Turns -> LoopStates \cup {NoState}]
         /\ wk \in [Workers -> WorkerRecords]
         /\ effects \in [Turns -> Nat] /\ granted \in [Turns -> BOOLEAN]
         /\ requests \in Nat /\ calls \in 0..MaxCalls /\ faults \in 0..MaxFaults
         /\ \A w \in Workers : InCall(w) => wk[w].turn \in Turns
BY DEF TypeInv, ServiceTypeOK, WorkerRecords, Equipped, Free, InCall

\* One worker becomes u, and the checkpoint of its turn a state, if anything.
LEMMA OneWorker ==
  ASSUME GrantInv, NEW w \in Workers, NEW u \in WorkerRecords,
         wk' = [wk EXCEPT ![w] = u],
         StoreTypeOK', \A t \in Turns : Exists(t) => Exists(t)',
         \/ cp' = cp
         \/ \E snap \in LoopStates :
               /\ InCall(w) /\ cp' = [cp EXCEPT ![wk[w].turn] = snap]
               /\ snap.grant = "yes" => granted'[wk[w].turn],
         effects' \in [Turns -> Nat], granted' \in [Turns -> BOOLEAN],
         \A t \in Turns : granted[t] => granted'[t] \/ ~Exists(t),
         \A t \in Turns : effects'[t] > 0 => granted'[t] /\ Exists(t)',
         requests' \in Nat, calls' \in 0..MaxCalls, faults' \in 0..MaxFaults,
         Equipped(u)', ~Free(u) => Exists(u.turn)', Permitted(u)'
  PROVE  GrantInv'
<1>1. cp \in [Turns -> LoopStates \cup {NoState}] /\ wk \in [Workers -> WorkerRecords]
  BY TypeParts DEF GrantInv
<1>2. wk' \in [Workers -> WorkerRecords] /\ wk'[w] = u /\ \A v \in Workers \ {w} : wk'[v] = wk[v]
  BY <1>1
<1>3. /\ cp' \in [Turns -> LoopStates \cup {NoState}]
      /\ \A t \in Turns : cp[t] \in LoopStates => cp'[t] \in LoopStates
      /\ \A t \in Turns : cp'[t] # cp[t] => Exists(t)
      /\ \A t \in Turns : cp'[t] # NoState /\ cp'[t].grant = "yes" /\ cp'[t] # cp[t] => granted'[t]
  <2>1. CASE cp' = cp
    BY <1>1, <2>1
  <2>2. ASSUME NEW snap \in LoopStates, InCall(w), cp' = [cp EXCEPT ![wk[w].turn] = snap],
               snap.grant = "yes" => granted'[wk[w].turn]
        PROVE  <1>3
    BY <1>1, <2>2, TypeParts, StateAssumption DEF GrantInv, Rooted
  <2>3. QED
    BY <2>1, <2>2
<1>4. ServiceTypeOK'
  BY <1>2, <1>3 DEF ServiceTypeOK, WorkerRecords
<1>5. \A v \in Workers : Equipped(wk[v])'
  BY <1>2, <1>3, TypeParts DEF GrantInv, TypeInv, Equipped, Free, Reads, InCall
<1>6. Rooted'
  BY <1>2, <1>3, TypeParts DEF GrantInv, Rooted, InCall, Free
<1>7. \A v \in Workers : Permitted(wk[v])'
  <2> SUFFICES ASSUME NEW v \in Workers PROVE Permitted(wk[v])'
    OBVIOUS
  <2>1. CASE v = w
    BY <1>2, <2>1
  <2>2. CASE v # w /\ Free(wk[v])
    BY <1>2, <2>2 DEF GrantInv, GrantsKnown, Permitted, Free, CallRuns, WithCache
  <2>3. CASE v # w /\ ~Free(wk[v])
    <3>1. Exists(wk[v].turn) /\ wk[v].turn \in Turns
      BY <2>3, TypeParts DEF GrantInv, Rooted, InCall, Free
    <3>2. granted[wk[v].turn] => granted'[wk[v].turn]
      BY <3>1
    <3>3. QED BY <1>2, <2>3, <3>2 DEF GrantInv, GrantsKnown, Permitted, CallRuns
  <2>4. QED BY <2>1, <2>2, <2>3
<1>8. \A t \in Turns : cp'[t] # NoState /\ cp'[t].grant = "yes" => granted'[t]
  <2> SUFFICES ASSUME NEW t \in Turns, cp'[t] = cp[t], cp[t] # NoState, cp[t].grant = "yes"
               PROVE  granted'[t]
    BY <1>3
  <2>1. granted[t] /\ Exists(t)
    BY DEF GrantInv, GrantsKnown, Rooted
  <2>2. QED BY <2>1
<1>9. RunsOnlyIfGranted'
  BY DEF RunsOnlyIfGranted
<1>10. QED
  BY <1>4, <1>5, <1>6, <1>7, <1>8, <1>9 DEF GrantInv, TypeInv, GrantsKnown

\* A worker that is idle or dead needs nothing.
LEMMA FreeWorker ==
  /\ IdleWorker \in WorkerRecords /\ [IdleWorker EXCEPT !.pc = "dead"] \in WorkerRecords
  /\ \A u \in {IdleWorker, [IdleWorker EXCEPT !.pc = "dead"]} :
        u.pc \in {"idle", "dead"} /\ u.turn = NoTurn
<1>1. IdleWorker \in WorkerRecords /\ IdleWorker.pc = "idle" /\ IdleWorker.turn = NoTurn
  BY DEF IdleWorker, WorkerRecords, Labels
<1>2. PICK v : v = [IdleWorker EXCEPT !.pc = "dead"]
  OBVIOUS
<1>3. v \in WorkerRecords /\ v.pc = "dead" /\ v.turn = NoTurn
  BY <1>1, <1>2 DEF WorkerRecords, Labels
<1>4. QED
  BY <1>1, <1>2, <1>3

\* A store that does not lose a turn.
LEMMA StoreUnchanged ==
  ASSUME GrantInv, UNCHANGED storeVars
  PROVE  StoreTypeOK' /\ \A t \in Turns : Exists(t) <=> Exists(t)'
BY TypeParts DEF GrantInv, storeVars, StoreTypeOK, Exists, lineageVars

\* A worker that ends its call, or dies.
LEMMA WorkerFreed ==
  ASSUME GrantInv, NEW w \in Workers, NEW u \in {IdleWorker, [IdleWorker EXCEPT !.pc = "dead"]},
         wk' = [wk EXCEPT ![w] = u],
         StoreTypeOK', \A t \in Turns : Exists(t) => Exists(t)', UNCHANGED <<cp, worldVars>>,
         requests' \in Nat, calls' \in 0..MaxCalls, faults' \in 0..MaxFaults
  PROVE  GrantInv'
<1>1. u \in WorkerRecords /\ Free(u) /\ u.turn = NoTurn
  BY FreeWorker DEF Free
<1>2. Equipped(u)' /\ Permitted(u)'
  BY <1>1 DEF Equipped, Permitted, Free, CallRuns, WithCache, Closing, Resuming
<1>3. \A t \in Turns : granted[t] => granted'[t]
  BY DEF worldVars
<1>4. \A t \in Turns : effects'[t] > 0 => granted'[t] /\ Exists(t)'
  BY DEF GrantInv, GrantsKnown, RunsOnlyIfGranted, Rooted, worldVars
<1>5. effects' \in [Turns -> Nat] /\ granted' \in [Turns -> BOOLEAN] /\ cp' = cp
  BY TypeParts DEF GrantInv, worldVars
<1>6. QED
  BY <1>1, <1>2, <1>3, <1>4, <1>5, OneWorker

\* A worker whose memory and place change, while the store, the checkpoints and
\* the world stay as they are or lose nothing.
LEMMA WorkerMoves ==
  ASSUME GrantInv, NEW w \in Workers, InCall(w), NEW u \in WorkerRecords,
         wk' = [wk EXCEPT ![w] = u], ~Free(u),
         u.turn = wk[w].turn, u.mode = wk[w].mode,
         u.pc # "load" => /\ u.st \in LoopStates
                          /\ u.st.grant = "yes" => granted[u.turn]
                          /\ Reads(u) => cp[u.turn] \in LoopStates,
         u.pc \in WithCache => u.cache \in LoopStates /\ (u.cache.grant = "yes" => granted[u.turn]),
         u.pc = "sync" => u.next \in Following,
         CallRuns(u) => u.st.grant = "yes", Closing(u) => u.st.status # "running",
         Resuming(u) => Reads(u), StoreTypeOK', \A t \in Turns : Exists(t) => Exists(t)', cp' = cp, granted' = granted,
         effects' \in [Turns -> Nat], \A t \in Turns : effects'[t] > 0 => granted[t] /\ Exists(t),
         requests' \in Nat, calls' \in 0..MaxCalls, faults' \in 0..MaxFaults
  PROVE  GrantInv'
<1>1. u.turn \in Turns /\ Exists(u.turn) /\ u.mode # "none"
  BY TypeParts DEF GrantInv, Rooted, TypeInv, Equipped, InCall, Free
<1>2. Equipped(u)'
  BY <1>1, StoreAssumption DEF Equipped
<1>3. Permitted(u)'
  BY <1>1 DEF Permitted, WithCache
<1>4. granted' \in [Turns -> BOOLEAN]
  BY TypeParts DEF GrantInv
<1>5. QED
  BY <1>1, <1>2, <1>3, <1>4, OneWorker

\* A save of a state in which no more is allowed than the caller allowed: the worker
\* goes on to the snapshot sink, or its handler, or gives up a turn it does not hold.
LEMMA PersistKeeps ==
  ASSUME GrantInv, NEW w \in Workers, InCall(w), NEW u \in WorkerRecords,
         u.turn = wk[w].turn, u.mode = wk[w].mode,
         u.st \in LoopStates, u.st.grant = "yes" => granted'[u.turn],
         NEW snap \in LoopStates, snap.grant = "yes" => granted'[u.turn],
         Reads(u) => cp[u.turn] \in LoopStates,
         NEW label \in Following, label \in {"start", "invoke", "outcome"} => u.st.grant = "yes",
         label \in {"pause_final", "final_sync", "final_mark"} => u.st.status # "running",
         label \in {"manifest", "claim", "leave", "apply", "hydrate"} => Reads(u),
         Persist(w, u, snap, label),
         UNCHANGED <<storeVars, effects, calls>>, requests' \in Nat,
         granted' \in [Turns -> BOOLEAN], \A t \in Turns : granted[t] => granted'[t]
  PROVE  GrantInv'
<1>1. u.turn \in Turns /\ Exists(u.turn) /\ u.mode # "none" /\ u.turn # NoTurn
  BY TypeParts, StoreAssumption DEF GrantInv, Rooted, TypeInv, Equipped, InCall, Free
<1>2. StoreTypeOK' /\ \A t \in Turns : Exists(t) <=> Exists(t)'
  BY StoreUnchanged DEF storeVars
<1>3. /\ effects' \in [Turns -> Nat] /\ calls' \in 0..MaxCalls
      /\ \A t \in Turns : effects'[t] > 0 => granted'[t] /\ Exists(t)'
  BY <1>2, TypeParts DEF GrantInv, GrantsKnown, RunsOnlyIfGranted, Rooted
<1>4. faults' \in 0..MaxFaults
  BY TypeParts, ServiceAssumption DEF GrantInv, Persist, Fault
<1>5. CASE /\ cp' = [cp EXCEPT ![wk[w].turn] = snap]
           /\ wk' = [wk EXCEPT ![w] = [u EXCEPT !.cache = snap, !.pc = "sync", !.next = label]]
  <2>1. PICK v : v = [u EXCEPT !.cache = snap, !.pc = "sync", !.next = label]
    OBVIOUS
  <2>2. /\ v \in WorkerRecords /\ v.pc = "sync" /\ v.next = label /\ v.cache = snap
        /\ v.turn = u.turn /\ v.mode = u.mode /\ v.st = u.st
    BY <2>1 DEF WorkerRecords, Following, Labels, Awaiting
  <2>3. cp'[v.turn] = snap
    BY <1>1, <1>5, <2>2, TypeParts DEF GrantInv
  <2>4. Equipped(v)' /\ ~Free(v)
    BY <1>1, <2>2, <2>3 DEF Equipped, Free, Closing, Resuming, Reads
  <2>5. Permitted(v)'
    BY <2>2 DEF Permitted, CallRuns
  <2>6. QED
    BY <1>1, <1>2, <1>3, <1>4, <1>5, <2>1, <2>2, <2>4, <2>5, OneWorker
<1>6. ASSUME NEW x \in {"error", "cancelled"}, wk' = [wk EXCEPT ![w] = Raised(w, u, x)], cp' = cp
      PROVE  GrantInv'
  <2>1. CASE Claimed(w)
    <3>1. PICK v : v = [u EXCEPT !.pc = x]
      OBVIOUS
    <3>2. /\ v \in WorkerRecords /\ v.pc = x
          /\ v.turn = u.turn /\ v.mode = u.mode /\ v.st = u.st
      BY <3>1 DEF WorkerRecords, Labels
    <3>3. Equipped(v)' /\ Permitted(v)' /\ ~Free(v)
      BY <1>1, <1>6, <3>2 DEF Equipped, Free, WithCache, Permitted, CallRuns, Reads, Closing, Resuming
    <3>4. wk' = [wk EXCEPT ![w] = v]
      BY <1>6, <2>1, <3>1 DEF Raised
    <3>5. QED
      BY <1>1, <1>2, <1>3, <1>4, <1>6, <3>2, <3>3, <3>4, OneWorker
  <2>2. CASE ~Claimed(w)
    <3>1. wk' = [wk EXCEPT ![w] = IdleWorker]
      BY <1>6, <2>2 DEF Raised
    <3>2. IdleWorker \in WorkerRecords /\ Free(IdleWorker) /\ IdleWorker.turn = NoTurn
      BY FreeWorker DEF Free
    <3>3. Equipped(IdleWorker)' /\ Permitted(IdleWorker)'
      BY <3>2 DEF Equipped, Permitted, Free, CallRuns, WithCache, Closing, Resuming
    <3>4. QED
      BY <1>2, <1>3, <1>4, <1>6, <3>1, <3>2, <3>3, OneWorker
  <2>3. QED BY <2>1, <2>2
<1>7. QED
  BY <1>5, <1>6 DEF Persist

-----------------------------------------------------------------------------
(* States of the loop.                                                       *)

\* What the steps of a turn do to its state keeps it a state.
LEMMA SayFacts ==
  ASSUME NEW s \in LoopStates, NEW w \in Workers, NEW k \in {"call", "result", "reply", "input"}
  PROVE  /\ Say(s, w, k) \in LoopStates
         /\ Say(s, w, k).grant = s.grant /\ Say(s, w, k).rec = s.rec
         /\ Say(s, w, k).status = s.status /\ Say(s, w, k).stage = s.stage
         /\ Say(s, w, k).req = s.req /\ Say(s, w, k).log = Append(s.log, <<k, w>>)
<1>1. <<k, w>> \in Messages
  BY ServiceAssumption
<1>2. s.log \in Seq(Messages)
  BY DEF LoopStates
<1>3. PICK l : l = Append(s.log, <<k, w>>)
  OBVIOUS
<1>4. l \in Seq(Messages)
  BY <1>1, <1>2, <1>3
<1>5. Say(s, w, k) = [s EXCEPT !.log = l]
  BY <1>3 DEF Say
<1>6. QED
  BY <1>3, <1>4, <1>5 DEF LoopStates

LEMMA StatusFacts ==
  ASSUME NEW s \in LoopStates, NEW x \in {"running", "paused"} \cup Terminal
  PROVE  /\ [s EXCEPT !.status = x] \in LoopStates /\ [s EXCEPT !.status = x].status = x
         /\ [s EXCEPT !.status = x].grant = s.grant /\ [s EXCEPT !.status = x].rec = s.rec
         /\ [s EXCEPT !.status = x].log = s.log
BY DEF LoopStates

LEMMA StageFacts ==
  ASSUME NEW s \in LoopStates, NEW x \in {"model", "tool", "answer"}
  PROVE  /\ [s EXCEPT !.stage = x] \in LoopStates
         /\ [s EXCEPT !.stage = x].grant = s.grant /\ [s EXCEPT !.stage = x].rec = s.rec
         /\ [s EXCEPT !.stage = x].log = s.log /\ [s EXCEPT !.stage = x].status = s.status
BY DEF LoopStates

\* Waiting for a human answers nothing.
LEMMA RequestFacts ==
  ASSUME requests \in Nat, NEW s \in LoopStates,
         NEW k \in {"approval", "reconciliation", "drift"}
  PROVE  /\ PausedFor(s, k) \in LoopStates
         /\ PausedFor(s, k).grant = s.grant /\ PausedFor(s, k).rec = s.rec
         /\ PausedFor(s, k).stage = s.stage /\ PausedFor(s, k).status = "paused"
<1>1. Request(k) \in [kind : {"none", "approval", "reconciliation", "drift"}, id : Nat]
  BY DEF Request
<1>2. PICK r : r = Request(k)
  OBVIOUS
<1>3. PausedFor(s, k) = [s EXCEPT !.status = "paused", !.req = r]
  BY <1>2 DEF PausedFor
<1>4. QED
  BY <1>1, <1>2, <1>3 DEF LoopStates

-----------------------------------------------------------------------------
(* What is allowed stays what the caller allowed, action by action.          *)

\* A step of a loop that saves the state of the turn.
LEMMA SaveKeeps ==
  ASSUME GrantInv, NEW w \in Workers, InCall(w), wk[w].pc # "load",
         NEW s \in LoopStates, s.grant = wk[w].st.grant,
         NEW label \in Following \ {"start", "invoke", "outcome"},
         label \in {"pause_final", "final_sync", "final_mark"} => s.status # "running",
         label \in {"manifest", "claim", "leave", "apply", "hydrate"} => Reads(wk[w]),
         Save(w, s, label), LoopFrame, requests' \in Nat
  PROVE  GrantInv'
<1>1. wk[w] \in WorkerRecords /\ Equipped(wk[w]) /\ Permitted(wk[w])
  BY TypeParts DEF GrantInv, TypeInv, GrantsKnown
<1>2. PICK u : u = With(w, s)
  OBVIOUS
<1>3. /\ u \in WorkerRecords /\ u.turn = wk[w].turn /\ u.mode = wk[w].mode
      /\ u.st = s /\ u.pc = wk[w].pc
  BY <1>1, <1>2 DEF WorkerRecords, With
<1>4. /\ s.grant = "yes" => granted[u.turn]
      /\ Reads(u) => cp[u.turn] \in LoopStates
      /\ Reads(u) <=> Reads(wk[w])
  BY <1>1, <1>3 DEF Equipped, Permitted, Free, InCall, Reads
<1>5. Persist(w, u, s, label)
  BY <1>2 DEF Save
<1>6. granted' = granted /\ granted \in [Turns -> BOOLEAN] /\ UNCHANGED <<storeVars, effects, calls>>
  BY TypeParts DEF LoopFrame, worldVars, GrantInv
<1>7. QED
  BY <1>3, <1>4, <1>5, <1>6, PersistKeeps

LEMMA LoopKeeps ==
  ASSUME GrantInv, NEW w \in Workers,
         \/ LoopStart(w) \/ ScheduleCall(w) \/ ModelPause(w)
         \/ \E v \in Terminal : EndLoop(w, v)
         \/ PauseForApproval(w) \/ RecordResult(w) \/ PauseForReconciliation(w)
  PROVE  GrantInv'
<1>1. wk[w].pc \in {"loop_start", "step", "merge"}
  BY DEF LoopStart, ScheduleCall, ModelPause, EndLoop, PauseForApproval, RecordResult,
         PauseForReconciliation, Looping
<1>2. InCall(w) /\ wk[w].pc # "load" /\ wk[w].st \in LoopStates /\ requests \in Nat
  BY <1>1, TypeParts DEF InCall, GrantInv, TypeInv, Equipped, Free
<1>3. {"step", "final_sync", "pause_final"} \subseteq Following \ {"start", "invoke", "outcome"}
  BY DEF Following, Labels, Awaiting
<1> DEFINE Saves(s, label) == Save(w, s, label) /\ LoopFrame /\ requests' \in Nat
<1>a. ASSUME NEW s \in LoopStates, s.grant = wk[w].st.grant,
             NEW label \in {"step", "final_sync", "pause_final"}, Saves(s, label),
             label = "step" \/ s.status # "running"
      PROVE  GrantInv'
  BY <1>2, <1>3, <1>a, SaveKeeps
<1>4. CASE LoopStart(w)
  <2>1. Saves(wk[w].st, "step")
    BY <1>2, <1>4 DEF LoopStart
  <2>2. QED
    BY <1>2, <2>1, <1>a
<1>5. CASE ScheduleCall(w)
  <2>1. PICK s : s = [wk[w].st EXCEPT !.stage = "tool"]
    OBVIOUS
  <2>2. s \in LoopStates /\ s.grant = wk[w].st.grant
    BY <1>2, <2>1, StageFacts
  <2>3. Say(s, w, "call") \in LoopStates /\ Say(s, w, "call").grant = wk[w].st.grant
    BY <2>2, SayFacts
  <2>4. Saves(Say(s, w, "call"), "step")
    BY <1>2, <1>5, <2>1 DEF ScheduleCall
  <2> HIDE DEF Saves
  <2>5. QED
    BY <2>3, <2>4, <1>a
<1>6. CASE ModelPause(w)
  <2>1. PICK s : s = [wk[w].st EXCEPT !.status = "paused"]
    OBVIOUS
  <2>2. s \in LoopStates /\ s.grant = wk[w].st.grant /\ s.status = "paused"
    BY <1>2, <2>1, StatusFacts
  <2>3. Saves(s, "pause_final")
    BY <1>2, <1>6, <2>1 DEF ModelPause
  <2> HIDE DEF Saves
  <2>4. QED
    BY <2>2, <2>3, <1>a
<1>7. ASSUME NEW v \in Terminal, EndLoop(w, v)
      PROVE  GrantInv'
  <2>1. PICK s : s = [wk[w].st EXCEPT !.status = v]
    OBVIOUS
  <2>2. s \in LoopStates /\ s.grant = wk[w].st.grant /\ s.status = v
    BY <1>2, <2>1, StatusFacts DEF Terminal
  <2>3. /\ Say(s, w, "reply") \in LoopStates /\ Say(s, w, "reply").grant = wk[w].st.grant
        /\ Say(s, w, "reply").status = v /\ v # "running"
    BY <2>2, SayFacts DEF Terminal
  <2>4. PICK r \in {s, Say(s, w, "reply")} : Saves(r, "final_sync")
    BY <1>2, <1>7, <2>1 DEF EndLoop
  <2> HIDE DEF Saves
  <2>5. QED
    BY <2>2, <2>3, <2>4, <1>a
<1>8. CASE PauseForApproval(w)
  <2>1. /\ PausedFor(wk[w].st, "approval") \in LoopStates
        /\ PausedFor(wk[w].st, "approval").grant = wk[w].st.grant
        /\ PausedFor(wk[w].st, "approval").status = "paused"
    BY <1>2, RequestFacts
  <2>2. Saves(PausedFor(wk[w].st, "approval"), "pause_final")
    BY <1>2, <1>8 DEF PauseForApproval
  <2> HIDE DEF Saves
  <2>3. QED
    BY <2>1, <2>2, <1>a
<1>9. CASE RecordResult(w)
  <2>1. PICK s : s = [wk[w].st EXCEPT !.stage = "answer"]
    OBVIOUS
  <2>2. s \in LoopStates /\ s.grant = wk[w].st.grant
    BY <1>2, <2>1, StageFacts
  <2>3. Say(s, w, "result") \in LoopStates /\ Say(s, w, "result").grant = wk[w].st.grant
    BY <2>2, SayFacts
  <2>4. Saves(Say(s, w, "result"), "step")
    BY <1>2, <1>9, <2>1 DEF RecordResult
  <2> HIDE DEF Saves
  <2>5. QED
    BY <2>3, <2>4, <1>a
<1>10. CASE PauseForReconciliation(w)
  <2>1. PICK s : s = Say(wk[w].st, w, "result")
    OBVIOUS
  <2>2. s \in LoopStates /\ s.grant = wk[w].st.grant
    BY <1>2, <2>1, SayFacts
  <2>3. /\ PausedFor(s, "reconciliation") \in LoopStates /\ PausedFor(s, "reconciliation").grant = s.grant
        /\ PausedFor(s, "reconciliation").status = "paused"
    BY <1>2, <2>2, RequestFacts
  <2>4. Saves(PausedFor(s, "reconciliation"), "pause_final")
    BY <1>2, <1>10, <2>1 DEF PauseForReconciliation
  <2> HIDE DEF Saves
  <2>5. QED
    BY <2>2, <2>3, <2>4, <1>a
<1>11. QED
  BY <1>4, <1>5, <1>6, <1>7, <1>8, <1>9, <1>10

\* The steps of a call: each writes one more value of its execution record into the
\* cached state, and only a call that is allowed gets as far as the first.
LEMMA RecordKeeps ==
  ASSUME GrantInv, NEW w \in Workers, InCall(w), wk[w].pc \in {"step", "start", "outcome"},
         NEW u \in WorkerRecords, u.turn = wk[w].turn, u.mode = wk[w].mode,
         u.st \in LoopStates, u.st.grant = wk[w].st.grant,
         NEW r \in {"prepared", "started", "unknown", "completed", "failed"},
         NEW label \in {"start", "invoke", "merge", "cancelled"},
         label \in {"start", "invoke", "outcome"} => u.st.grant = "yes",
         PersistRecord(w, u, r, label), LoopFrame, requests' \in Nat
  PROVE  GrantInv'
<1>1. wk[w] \in WorkerRecords /\ Equipped(wk[w]) /\ Permitted(wk[w])
  BY TypeParts DEF GrantInv, TypeInv, GrantsKnown
<1>2. wk[w].cache \in LoopStates
  BY <1>1 DEF Equipped, WithCache
<1>3. PICK snap : snap = [wk[w].cache EXCEPT !.rec = r]
  OBVIOUS
<1>4. snap \in LoopStates /\ snap.grant = wk[w].cache.grant
  BY <1>2, <1>3 DEF LoopStates
<1>5. /\ u.st.grant = "yes" => granted[u.turn]
      /\ snap.grant = "yes" => granted[u.turn]
      /\ Reads(u) => cp[u.turn] \in LoopStates
  BY <1>1, <1>4 DEF Equipped, Permitted, Free, InCall, Reads, WithCache
<1>6. Persist(w, u, snap, label)
  BY <1>3 DEF PersistRecord
<1>7. granted' = granted /\ granted \in [Turns -> BOOLEAN] /\ UNCHANGED <<storeVars, effects, calls>>
  BY TypeParts DEF LoopFrame, worldVars, GrantInv
<1>8. /\ label \in Following /\ label \notin {"pause_final", "final_sync", "final_mark"}
      /\ label \notin {"manifest", "claim", "leave", "apply", "hydrate"}
  BY DEF Following, Labels, Awaiting
<1>9. QED
  BY <1>4, <1>5, <1>6, <1>7, <1>8, PersistKeeps

LEMMA CallKeeps ==
  ASSUME GrantInv, NEW w \in Workers,
         \/ PrepareCall(w) \/ StartCall(w) \/ InvokeTool(w)
         \/ \E o \in Outcomes : ToolReturns(w, o)
         \/ ToolCancelled(w)
  PROVE  GrantInv'
<1>1. wk[w].pc \in {"step", "start", "invoke", "outcome"}
  BY DEF PrepareCall, StartCall, InvokeTool, ToolReturns, ToolCancelled, Looping
<1>2. /\ InCall(w) /\ wk[w].st \in LoopStates /\ requests \in Nat /\ wk[w] \in WorkerRecords
      /\ wk[w].cache \in LoopStates /\ Permitted(wk[w]) /\ Equipped(wk[w])
  BY <1>1, TypeParts DEF InCall, GrantInv, GrantsKnown, TypeInv, Equipped, Free, WithCache
<1>4. CASE PrepareCall(w)
  <2>1. wk[w].pc = "step" /\ wk[w].st.grant = "yes" /\ PersistRecord(w, wk[w], "prepared", "start")
        /\ LoopFrame /\ requests' \in Nat
    BY <1>2, <1>4 DEF PrepareCall, Looping
  <2>2. QED
    BY <1>2, <2>1, RecordKeeps
<1>5. CASE StartCall(w)
  <2>1. wk[w].pc = "start" /\ wk[w].st.grant = "yes" /\ PersistRecord(w, wk[w], "started", "invoke")
        /\ LoopFrame /\ requests' \in Nat
    BY <1>2, <1>5 DEF StartCall, Permitted, CallRuns
  <2>2. QED
    BY <1>2, <2>1, RecordKeeps
<1>6. CASE InvokeTool(w)
  <2>1. PICK u : u = [wk[w] EXCEPT !.pc = "outcome"]
    OBVIOUS
  <2>2. /\ u \in WorkerRecords /\ u.turn = wk[w].turn /\ u.mode = wk[w].mode /\ u.pc = "outcome"
        /\ u.st = wk[w].st /\ u.cache = wk[w].cache
    BY <1>2, <2>1 DEF WorkerRecords, Labels
  <2>3. wk[w].pc = "invoke" /\ wk[w].st.grant = "yes"
    BY <1>2, <1>6 DEF InvokeTool, Permitted, CallRuns
  <2>4. granted[u.turn] /\ u.turn \in Turns /\ Exists(u.turn)
    BY <1>2, <2>2, <2>3, TypeParts DEF Permitted, GrantInv, Rooted, InCall, Free
  <2>5. /\ effects' \in [Turns -> Nat]
        /\ \A t \in Turns : effects'[t] > 0 => granted[t] /\ Exists(t)
    BY <1>6, <2>2, <2>4, TypeParts DEF InvokeTool, GrantInv, GrantsKnown, RunsOnlyIfGranted, Rooted
  <2>6. /\ wk' = [wk EXCEPT ![w] = u] /\ cp' = cp /\ granted' = granted
        /\ requests' \in Nat /\ calls' \in 0..MaxCalls /\ faults' \in 0..MaxFaults
        /\ UNCHANGED storeVars
    BY <1>6, <2>1, TypeParts DEF InvokeTool, Become, budgetVars, GrantInv
  <2>7. StoreTypeOK' /\ \A t \in Turns : Exists(t) => Exists(t)'
    BY <2>6, StoreUnchanged
  <2>8. Reads(u) => cp[u.turn] \in LoopStates
    BY <1>2, <2>2, <2>3 DEF Equipped, Reads, Free
  <2>9. u.cache.grant = "yes" => granted[u.turn]
    BY <2>4
  <2>10. ~Free(u) /\ u.pc # "sync" /\ u.st.grant = "yes" /\ ~Closing(u)
        /\ ~Resuming(u)
    BY <2>2, <2>3 DEF Free, Closing, Resuming
  <2>11. QED
    BY <1>2, <2>2, <2>4, <2>5, <2>6, <2>7, <2>8, <2>9, <2>10, WorkerMoves
<1>7. ASSUME NEW o \in Outcomes, ToolReturns(w, o)
      PROVE  GrantInv'
  <2>1. o \in {"completed", "failed", "unknown"}
    BY DEF Outcomes
  <2>2. PICK s : s = [wk[w].st EXCEPT !.rec = o]
    OBVIOUS
  <2>3. s \in LoopStates /\ s.grant = wk[w].st.grant
    BY <1>2, <2>1, <2>2 DEF LoopStates
  <2>4. PICK u : u = With(w, s)
    OBVIOUS
  <2>5. u \in WorkerRecords /\ u.turn = wk[w].turn /\ u.mode = wk[w].mode /\ u.st = s
    BY <1>2, <2>3, <2>4 DEF WorkerRecords, With
  <2>6. wk[w].pc = "outcome" /\ PersistRecord(w, u, o, "merge") /\ LoopFrame /\ requests' \in Nat
    BY <1>2, <1>7, <2>2, <2>4 DEF ToolReturns
  <2>7. QED
    BY <1>2, <2>1, <2>3, <2>5, <2>6, RecordKeeps
<1>8. CASE ToolCancelled(w)
  <2>1. ASSUME NEW r \in {"unknown", "failed"}, NEW x \in {"none", "error", "cancelled"},
               NEW label \in {"merge", "cancelled"}, NEW u,
               u = [wk[w] EXCEPT !.st.rec = r, !.cancelled = FALSE, !.exc = x],
               PersistRecord(w, u, r, label), wk[w].pc = "outcome", LoopFrame, requests' \in Nat
        PROVE  GrantInv'
    <3>1. PICK s : s = [wk[w].st EXCEPT !.rec = r]
      OBVIOUS
    <3>2. s \in LoopStates /\ s.grant = wk[w].st.grant
      BY <1>2, <2>1, <3>1 DEF LoopStates
    <3>3. u = [wk[w] EXCEPT !.st = s, !.cancelled = FALSE, !.exc = x]
      BY <1>2, <2>1, <3>1 DEF WorkerRecords
    <3>4. u \in WorkerRecords /\ u.turn = wk[w].turn /\ u.mode = wk[w].mode /\ u.st = s
      BY <1>2, <3>2, <3>3 DEF WorkerRecords
    <3>5. QED
      BY <1>2, <2>1, <3>2, <3>4, RecordKeeps
  <2>2. wk[w].pc = "outcome" /\ LoopFrame /\ requests' \in Nat
    BY <1>2, <1>8 DEF ToolCancelled
  <2>3. CASE RemoteTool
    <3>1. PICK x : x = IF wk[w].mode = "stream" THEN "cancelled" ELSE wk[w].exc
      OBVIOUS
    <3>2. PICK u : u = [wk[w] EXCEPT !.st.rec = "unknown", !.cancelled = FALSE, !.exc = x]
      OBVIOUS
    <3>3. x \in {"none", "error", "cancelled"}
      BY <1>2, <3>1 DEF WorkerRecords
    <3>4. PersistRecord(w, u, "unknown", "merge")
      BY <1>8, <2>3, <3>1, <3>2 DEF ToolCancelled
    <3>5. QED
      BY <2>1, <2>2, <3>2, <3>3, <3>4
  <2>4. CASE ~RemoteTool
    <3>1. PICK u : u = [wk[w] EXCEPT !.st.rec = "failed", !.cancelled = FALSE, !.exc = wk[w].exc]
      OBVIOUS
    <3>2. wk[w].exc \in {"none", "error", "cancelled"}
      BY <1>2 DEF WorkerRecords
    <3>3. u = [wk[w] EXCEPT !.st.rec = "failed", !.cancelled = FALSE]
      BY <1>2, <3>1 DEF WorkerRecords
    <3>4. PersistRecord(w, u, "failed", "cancelled")
      BY <1>8, <2>4, <3>3 DEF ToolCancelled
    <3>5. QED
      BY <2>1, <2>2, <3>1, <3>2, <3>4
  <2>5. QED BY <2>3, <2>4
<1>9. QED
  BY <1>4, <1>5, <1>6, <1>7, <1>8

\* A transaction on the store keeps its types and its rows.
LEMMA StoreKeeps ==
  ASSUME GrantInv, [StoreStep]_storeVars
  PROVE  StoreTypeOK' /\ \A t \in Turns : Exists(t) => Exists(t)'
BY TypeParts, TypingStep, RowsAreFixed DEF GrantInv

\* A worker that only changes its place, to one where it needs nothing it has not.
LEMMA PlaceKeeps ==
  ASSUME GrantInv, NEW w \in Workers, InCall(w), wk[w].pc # "load",
         NEW u \in WorkerRecords, wk' = [wk EXCEPT ![w] = u],
         u.turn = wk[w].turn, u.mode = wk[w].mode, u.st = wk[w].st, u.cache = wk[w].cache,
         \/ u.pc \in {"final_sync", "final_mark", "error", "cancelled", "pause_final"}
         \/ u.pc = wk[w].pc /\ u.next = wk[w].next
         \/ wk[w].pc = "sync" /\ u.pc = wk[w].next,
         u.pc \in {"pause_final", "final_sync", "final_mark"} => Closing(wk[w]) \/ u.st.status # "running",
         [StoreStep]_storeVars, UNCHANGED <<cp, worldVars>>, requests' = requests,
         calls' \in 0..MaxCalls, faults' \in 0..MaxFaults
  PROVE  GrantInv'
<1>1. wk[w] \in WorkerRecords /\ Equipped(wk[w]) /\ Permitted(wk[w])
  BY TypeParts DEF GrantInv, TypeInv, GrantsKnown
<1>2. StoreTypeOK' /\ \A t \in Turns : Exists(t) => Exists(t)'
  BY StoreKeeps
<1>3. wk[w].pc = "sync" => wk[w].next \notin {"idle", "dead", "load", "sync"}
  BY <1>1 DEF Equipped, Following
<1>4. ~Free(u) /\ u.pc # "load"
  BY <1>3 DEF Free, InCall
<1>5. /\ u.st \in LoopStates /\ (u.st.grant = "yes" => granted[u.turn])
      /\ Reads(u) => cp[u.turn] \in LoopStates
  BY <1>1 DEF Equipped, Permitted, Free, InCall, Reads
<1>6. u.pc \in WithCache => u.cache \in LoopStates /\ (u.cache.grant = "yes" => granted[u.turn])
  BY <1>1 DEF Equipped, Permitted, WithCache
<1>7. u.pc = "sync" => u.next \in Following
  BY <1>1, <1>3 DEF Equipped
<1>8. CallRuns(u) => u.st.grant = "yes"
  BY <1>1, <1>3 DEF Permitted, CallRuns
<1>9. /\ cp' = cp /\ granted' = granted /\ effects' \in [Turns -> Nat] /\ requests' \in Nat
      /\ \A t \in Turns : effects'[t] > 0 => granted[t] /\ Exists(t)
  BY TypeParts DEF worldVars, GrantInv, GrantsKnown, RunsOnlyIfGranted, Rooted
<1>10. Closing(u) => u.st.status # "running"
  BY <1>1, <1>3 DEF Equipped, Closing
<1>11. Resuming(u) => Reads(u)
  BY <1>1, <1>3 DEF Equipped, Resuming, Reads
<1>12. QED
  BY <1>2, <1>4, <1>5, <1>6, <1>7, <1>8, <1>9, <1>10, <1>11, WorkerMoves

\* The transactions of a worker on the row of its turn.
LEMMA TranscriptStep ==
  ASSUME TypeInv, NEW w \in Workers, InCall(w), NEW s \in LoopStates,
         SyncTurnMessages(wk[w].turn, s.log)
  PROVE  StoreStep
<1>1. s.log \in Seq(Messages)
  BY DEF LoopStates
<1>2. QED
  BY <1>1, TypeParts DEF StoreStep

LEMMA MarkStep ==
  ASSUME NEW t \in Turns,
         MarkPaused(t) \/ MarkInterrupted(t) \/ \E s \in Terminal : MarkTerminal(t, s)
  PROVE  StoreStep
BY DEF StoreStep, StoreNext

\* The ways on for a worker that has raised.
LEMMA RaiseKeeps ==
  ASSUME GrantInv, NEW w \in Workers, InCall(w), wk[w].pc # "load",
         NEW x \in {"error", "cancelled"}, wk' = [wk EXCEPT ![w] = Raised(w, wk[w], x)],
         [StoreStep]_storeVars, UNCHANGED <<cp, worldVars>>, requests' = requests,
         calls' \in 0..MaxCalls, faults' \in 0..MaxFaults
  PROVE  GrantInv'
<1>1. CASE Claimed(w)
  <2>1. PICK u : u = [wk[w] EXCEPT !.pc = x]
    OBVIOUS
  <2>2. /\ u \in WorkerRecords /\ u.pc = x /\ u.turn = wk[w].turn /\ u.mode = wk[w].mode
        /\ u.st = wk[w].st /\ u.cache = wk[w].cache
    BY <2>1, TypeParts DEF GrantInv, WorkerRecords, Labels
  <2>3. wk' = [wk EXCEPT ![w] = u]
    BY <1>1, <2>1 DEF Raised
  <2>4. QED
    BY <2>2, <2>3, PlaceKeeps
<1>2. CASE ~Claimed(w)
  <2>1. wk' = [wk EXCEPT ![w] = IdleWorker]
    BY <1>2 DEF Raised
  <2>2. requests' \in Nat
    BY TypeParts DEF GrantInv
  <2>3. QED
    BY <2>1, <2>2, StoreKeeps, WorkerFreed
<1>3. QED BY <1>1, <1>2

\* The snapshot sink.
LEMMA SinkKeeps ==
  ASSUME GrantInv, NEW w \in Workers, SyncSink(w)
  PROVE  GrantInv'
<1>1. /\ wk[w].pc = "sync" /\ InCall(w) /\ wk[w] \in WorkerRecords /\ wk[w].cache \in LoopStates
      /\ UNCHANGED <<cp, worldVars>> /\ requests' = requests
      /\ calls' \in 0..MaxCalls /\ faults' \in 0..MaxFaults
  BY TypeParts DEF SyncSink, InCall, GrantInv, TypeInv, Equipped, WithCache, budgetVars
<1>2. CASE ExtendsHistory(wk[w].turn, wk[w].cache.log)
  <2>1. PICK u : u = [wk[w] EXCEPT !.pc = wk[w].next]
    OBVIOUS
  <2>2. /\ u \in WorkerRecords /\ u.pc = wk[w].next /\ u.turn = wk[w].turn /\ u.mode = wk[w].mode
        /\ u.st = wk[w].st /\ u.cache = wk[w].cache
    BY <1>1, <2>1 DEF WorkerRecords
  <2>3. wk' = [wk EXCEPT ![w] = u] /\ SyncTurnMessages(wk[w].turn, wk[w].cache.log)
    BY <1>2, <2>1 DEF SyncSink, Become
  <2>a. u.pc \in {"pause_final", "final_sync", "final_mark"} => Closing(wk[w])
    BY <1>1, <2>2 DEF Closing
  <2>4. StoreStep
    BY <1>1, <2>3, TranscriptStep DEF GrantInv
  <2>5. QED
    BY <1>1, <2>2, <2>3, <2>a, <2>4, PlaceKeeps
<1>3. CASE ~ExtendsHistory(wk[w].turn, wk[w].cache.log)
  <2>1. wk' = [wk EXCEPT ![w] = Raised(w, wk[w], "error")] /\ UNCHANGED storeVars
    BY <1>3 DEF SyncSink, Raise
  <2>2. QED
    BY <1>1, <2>1, RaiseKeeps
<1>4. QED BY <1>2, <1>3

\* The end of a call that holds the turn.
LEMMA FinalKeeps ==
  ASSUME GrantInv, NEW w \in Workers,
         PauseFinal(w) \/ FinalSync(w) \/ FinalMark(w) \/ StreamFinally(w) \/ Unwind(w)
  PROVE  GrantInv'
<1>1. wk[w].pc \in {"pause_final", "final_sync", "final_mark", "error", "cancelled"}
  BY DEF PauseFinal, FinalSync, FinalMark, StreamFinally, Unwind, Unwinding
<1>2. /\ InCall(w) /\ wk[w].pc # "load" /\ wk[w].st \in LoopStates /\ wk[w] \in WorkerRecords
      /\ Equipped(wk[w]) /\ Permitted(wk[w]) /\ wk[w].turn \in Turns
      /\ requests \in Nat /\ calls \in 0..MaxCalls /\ faults \in 0..MaxFaults
  BY <1>1, TypeParts DEF InCall, GrantInv, GrantsKnown, TypeInv, Equipped, Free
<1>3. CASE PauseFinal(w)
  <2>1. PICK u : u = [wk[w] EXCEPT !.closing = TRUE]
    OBVIOUS
  <2>2. /\ u \in WorkerRecords /\ u.turn = wk[w].turn /\ u.mode = wk[w].mode /\ u.st = wk[w].st
    BY <1>2, <2>1 DEF WorkerRecords
  <2>3. Persist(w, u, wk[w].st, "final_sync") /\ LoopFrame /\ requests' \in Nat
    BY <1>2, <1>3, <2>1 DEF PauseFinal
  <2>4. "final_sync" \in Following /\ u.st.status # "running"
    BY <1>2, <1>3, <2>2 DEF Following, Labels, PauseFinal, Equipped, Closing
  <2>5. /\ u.st.grant = "yes" => granted'[u.turn]
        /\ Reads(u) => cp[u.turn] \in LoopStates
        /\ granted' = granted /\ granted \in [Turns -> BOOLEAN] /\ UNCHANGED <<storeVars, effects, calls>>
    BY <1>2, <2>2, <2>3, TypeParts
       DEF Equipped, Permitted, Free, InCall, Reads, LoopFrame, worldVars, GrantInv
  <2>6. QED
    BY <1>2, <2>2, <2>3, <2>4, <2>5, PersistKeeps
<1>4. ASSUME NEW x \in {"pause_final", "final_sync", "final_mark", "error", "cancelled"},
             NEW c \in BOOLEAN, NEW y \in {"none", "error", "cancelled"}, NEW u,
             u = [wk[w] EXCEPT !.pc = x, !.closing = c, !.exc = y], wk' = [wk EXCEPT ![w] = u],
             x \in {"error", "cancelled"} \/ wk[w].st.status # "running",
             [StoreStep]_storeVars, UNCHANGED <<cp, worldVars, requests, budgetVars>>
      PROVE  GrantInv'
  <2>0. x \in Labels
    BY DEF Labels, Awaiting
  <2>1. /\ u \in WorkerRecords /\ u.turn = wk[w].turn /\ u.mode = wk[w].mode /\ u.st = wk[w].st
        /\ u.cache = wk[w].cache /\ u.pc = x
    BY <1>2, <1>4, <2>0 DEF WorkerRecords
  <2>2. UNCHANGED <<cp, worldVars>> /\ requests' = requests /\ calls' = calls /\ faults' = faults
    BY <1>4 DEF budgetVars
  <2>3. QED
    BY <1>2, <1>4, <2>1, <2>2, PlaceKeeps
<1>5. /\ wk[w].closing \in BOOLEAN /\ wk[w].exc \in {"none", "error", "cancelled"}
      /\ wk \in [Workers -> WorkerRecords]
  BY <1>2, TypeParts DEF WorkerRecords, GrantInv
<1>6. ASSUME NEW x \in {"final_mark", "error", "cancelled"}, wk' = [wk EXCEPT ![w].pc = x],
             x \in {"error", "cancelled"} \/ wk[w].st.status # "running",
             [StoreStep]_storeVars, UNCHANGED <<cp, worldVars, requests, budgetVars>>
      PROVE  GrantInv'
  <2>1. PICK u : u = [wk[w] EXCEPT !.pc = x, !.closing = wk[w].closing, !.exc = wk[w].exc]
    OBVIOUS
  <2>2. u = [wk[w] EXCEPT !.pc = x]
    BY <1>2, <2>1 DEF WorkerRecords
  <2>3. wk' = [wk EXCEPT ![w] = u]
    BY <1>6, <2>2
  <2>4. QED
    BY <1>4, <1>5, <1>6, <2>1, <2>3
<1>7. ASSUME wk' = [wk EXCEPT ![w].pc = "error", ![w].closing = TRUE], UNCHANGED storeVars,
             UNCHANGED <<cp, worldVars, requests, budgetVars>>
      PROVE  GrantInv'
  <2>1. PICK u : u = [wk[w] EXCEPT !.pc = "error", !.closing = TRUE, !.exc = wk[w].exc]
    OBVIOUS
  <2>2. u = [wk[w] EXCEPT !.pc = "error", !.closing = TRUE]
    BY <1>2, <2>1 DEF WorkerRecords
  <2>3. wk' = [wk EXCEPT ![w] = u]
    BY <1>5, <1>7, <2>2
  <2>4. QED
    BY <1>4, <1>5, <1>7, <2>1, <2>3
<1>8. CASE FinalSync(w)
  <2>1. UNCHANGED <<cp, worldVars, requests, budgetVars>>
    BY <1>8 DEF FinalSync
  <2>2. CASE ExtendsHistory(wk[w].turn, wk[w].st.log)
    <3>1. SyncTurnMessages(wk[w].turn, wk[w].st.log) /\ wk' = [wk EXCEPT ![w].pc = "final_mark"]
      BY <1>8, <2>2 DEF FinalSync, Become
    <3>2. StoreStep
      BY <1>2, <3>1, TranscriptStep DEF GrantInv
    <3>3. wk[w].st.status # "running"
      BY <1>2, <1>8 DEF FinalSync, Equipped, Closing
    <3>4. QED
      BY <1>6, <2>1, <3>1, <3>2, <3>3
  <2>3. CASE ~ExtendsHistory(wk[w].turn, wk[w].st.log)
    BY <1>7, <1>8, <2>1, <2>3 DEF FinalSync
  <2>4. QED BY <2>2, <2>3
<1>9. CASE FinalMark(w)
  <2> DEFINE Accepted == IF wk[w].st.status = "paused" THEN status[wk[w].turn] = "running"
                                                  ELSE status[wk[w].turn] \notin Terminal
             Mark == IF wk[w].st.status = "paused" THEN MarkPaused(wk[w].turn)
                     ELSE MarkTerminal(wk[w].turn, wk[w].st.status)
  <2>1. UNCHANGED <<cp, worldVars, requests, budgetVars>>
    BY <1>9 DEF FinalMark
  <2>2. CASE Accepted
    <3>1. Mark /\ IF wk[w].exc = "none" THEN Leave(w) ELSE Become(w, wk[w].exc)
      BY <1>9, <2>2 DEF FinalMark
    <3>2. StoreStep
      <4>1. wk[w].st.status \in {"paused"} \cup Terminal
        BY <1>2, <1>9 DEF LoopStates, FinalMark, Equipped, Closing
      <4>2. MarkPaused(wk[w].turn) \/ \E s \in Terminal : MarkTerminal(wk[w].turn, s)
        BY <3>1, <4>1 DEF MarkTerminal
      <4>3. QED BY <1>2, <4>2, MarkStep
    <3>3. CASE wk[w].exc = "none"
      <4>1. wk' = [wk EXCEPT ![w] = IdleWorker]
        BY <3>1, <3>3 DEF Leave
      <4>2. UNCHANGED <<cp, worldVars>> /\ requests' = requests /\ calls' = calls /\ faults' = faults
        BY <2>1 DEF budgetVars
      <4>3. QED
        BY <1>2, <3>2, <4>1, <4>2, StoreKeeps, WorkerFreed
    <3>4. CASE wk[w].exc # "none"
      <4>1. wk' = [wk EXCEPT ![w].pc = wk[w].exc] /\ wk[w].exc \in {"error", "cancelled"}
        BY <1>5, <3>1, <3>4 DEF Become
      <4>2. QED
        BY <1>6, <2>1, <3>2, <4>1
    <3>5. QED BY <3>3, <3>4
  <2>3. CASE ~Accepted
    BY <1>7, <1>9, <2>1, <2>3 DEF FinalMark
  <2>4. QED BY <2>2, <2>3
<1>10. CASE StreamFinally(w)
  <2>1. UNCHANGED <<storeVars, cp, worldVars, requests, budgetVars>>
        /\ wk[w].pc \in {"error", "cancelled"}
    BY <1>10 DEF StreamFinally, Unwinding
  <2>2. PICK x : x = IF wk[w].st.status = "paused" THEN "pause_final" ELSE "final_sync"
    OBVIOUS
  <2>3. PICK y : y = IF wk[w].exc = "none" THEN wk[w].pc ELSE wk[w].exc
    OBVIOUS
  <2>4. PICK u : u = [wk[w] EXCEPT !.pc = x, !.closing = TRUE, !.exc = y]
    OBVIOUS
  <2>5. wk' = [wk EXCEPT ![w].closing = TRUE, ![w].exc = y, ![w].pc = x]
    BY <1>2, <1>5, <1>10, <2>2, <2>3 DEF StreamFinally, WorkerRecords
  <2>6. wk' = [wk EXCEPT ![w] = u]
    <3>1. PICK v : v = [wk[w] EXCEPT !.closing = TRUE, !.exc = y, !.pc = x]
      OBVIOUS
    <3>2. wk' = [wk EXCEPT ![w] = v]
      BY <1>5, <2>5, <3>1
    <3>3. v = u
      BY <1>2, <2>4, <3>1 DEF WorkerRecords
    <3>4. QED BY <3>2, <3>3
  <2>7. x \in {"pause_final", "final_sync"} /\ y \in {"none", "error", "cancelled"}
    BY <1>5, <2>1, <2>2, <2>3
  <2>8. UNCHANGED storeVars /\ UNCHANGED <<cp, worldVars, requests, budgetVars>>
        /\ wk[w].st.status # "running"
    BY <1>10, <2>1 DEF StreamFinally, StreamCloses
  <2>9. QED
    BY <1>4, <2>4, <2>6, <2>7, <2>8
<1>11. CASE Unwind(w)
  <2>1. UNCHANGED <<cp, worldVars, requests, budgetVars>> /\ wk' = [wk EXCEPT ![w] = IdleWorker]
    BY <1>11 DEF Unwind, Leave
  <2>2. UNCHANGED storeVars \/ MarkInterrupted(wk[w].turn) \/ MarkTerminal(wk[w].turn, "failed")
    BY <1>11 DEF Unwind
  <2>3. UNCHANGED storeVars \/ StoreStep
    BY <1>2, <2>2, MarkStep DEF Terminal
  <2>4. UNCHANGED <<cp, worldVars>> /\ requests' = requests /\ calls' = calls /\ faults' = faults
    BY <2>1 DEF budgetVars
  <2>5. QED
    BY <1>2, <2>1, <2>3, <2>4, StoreKeeps, WorkerFreed
<1>12. QED
  BY <1>3, <1>8, <1>9, <1>10, <1>11

-----------------------------------------------------------------------------
(* Opening a turn, and taking one up again.                                  *)

LEMMA OpenKeeps ==
  ASSUME GrantInv, NEW w \in Workers, NEW t \in Turns, NEW r \in Runtimes,
         NEW g \in {"ask", "yes"}, NEW m \in Modes, OpenTurn(w, t, r, g, m)
  PROVE  GrantInv'
<1>1. /\ wk \in [Workers -> WorkerRecords] /\ requests \in Nat /\ faults \in 0..MaxFaults
      /\ calls \in 0..MaxCalls /\ effects \in [Turns -> Nat] /\ granted \in [Turns -> BOOLEAN]
  BY TypeParts DEF GrantInv
<1>2. BeginTurn(t, UserMessage, r, NoTurn, w) /\ ~Exists(t)
  BY DEF OpenTurn, BeginTurn, RowFree
<1>3. StoreStep
  BY <1>2, ServiceAssumption DEF StoreStep, StoreNext
<1>4. StoreTypeOK' /\ (\A x \in Turns : Exists(x) => Exists(x)') /\ Exists(t)'
  BY <1>2, <1>3, StoreKeeps, TypeParts DEF BeginTurn, Exists, GrantInv, StoreTypeOK
<1>5. PICK s : s = InitialState(g)
  OBVIOUS
<1>6. s \in LoopStates /\ s.grant = g
  <2>1. <<UserMessage>> \in Seq(Messages)
    BY ServiceAssumption
  <2>2. PICK l : l = <<UserMessage>>
    OBVIOUS
  <2>3. NoRequest \in [kind : {"none", "approval", "reconciliation", "drift"}, id : Nat]
    BY DEF NoRequest
  <2>4. PICK q : q = NoRequest
    OBVIOUS
  <2>5. s = [status |-> "running", stage |-> "model", rec |-> "none", req |-> q, grant |-> g, log |-> l]
    BY <1>5, <2>2, <2>4 DEF InitialState
  <2>6. QED
    BY <2>1, <2>2, <2>3, <2>4, <2>5 DEF LoopStates
<1>7. PICK u : u = [IdleWorker EXCEPT !.pc = "loop_start", !.turn = t, !.mode = m, !.st = s,
                                      !.beating = TRUE]
  OBVIOUS
<1>8. /\ u \in WorkerRecords /\ u.pc = "loop_start" /\ u.turn = t /\ u.mode = m /\ u.st = s
      /\ m \in {"run", "stream"} /\ u.cache = NoState
  <2>1. IdleWorker \in WorkerRecords /\ IdleWorker.cache = NoState
    BY FreeWorker DEF IdleWorker
  <2>2. m \in {"run", "stream"}
    BY ServiceAssumption
  <2>3. "loop_start" \in Labels
    BY DEF Labels, Awaiting
  <2>4. QED
    BY <1>6, <1>7, <2>1, <2>2, <2>3 DEF WorkerRecords
<1>9. /\ wk' = [wk EXCEPT ![w] = u] /\ granted' = [granted EXCEPT ![t] = (g = "yes")]
      /\ calls' \in 0..MaxCalls /\ cp' = cp /\ effects' = effects /\ requests' = requests
      /\ faults' = faults
  BY <1>1, <1>5, <1>7, ServiceAssumption DEF OpenTurn
<1>10. Equipped(u)' /\ ~Free(u)
  BY <1>6, <1>8, StoreAssumption DEF Equipped, Free, WithCache, Reads, Closing, Resuming
<1>11. granted'[t] = (g = "yes") /\ \A x \in Turns \ {t} : granted'[x] = granted[x]
  BY <1>1, <1>9
<1>12. Permitted(u)'
  BY <1>6, <1>8, <1>11 DEF Permitted, WithCache, CallRuns
<1>13. \A x \in Turns : effects'[x] > 0 => granted'[x] /\ Exists(x)'
  BY <1>2, <1>4, <1>9, <1>11 DEF GrantInv, GrantsKnown, RunsOnlyIfGranted, Rooted
<1>14. (\A x \in Turns : granted[x] => granted'[x] \/ ~Exists(x)) /\ granted' \in [Turns -> BOOLEAN]
  BY <1>1, <1>2, <1>9, <1>11
<1>15. Exists(u.turn)'
  BY <1>4, <1>8
<1>16. effects' \in [Turns -> Nat] /\ requests' \in Nat /\ faults' \in 0..MaxFaults
  BY <1>1, <1>9
<1>17. QED
  BY <1>4, <1>8, <1>9, <1>10, <1>12, <1>13, <1>14, <1>15, <1>16, OneWorker

LEMMA ReadKeeps ==
  ASSUME GrantInv, NEW w \in Workers, NEW t \in Turns, Resume(w, t) \/ Inspect(w, t)
  PROVE  GrantInv'
<1>1. PICK m \in {"resume", "observe"} : StartCallOf(w, t, m)
  BY DEF Resume, Inspect
<1>2. /\ wk \in [Workers -> WorkerRecords] /\ requests \in Nat /\ faults \in 0..MaxFaults
      /\ calls \in 0..MaxCalls /\ effects \in [Turns -> Nat] /\ granted \in [Turns -> BOOLEAN]
  BY TypeParts DEF GrantInv
<1>3. PrepareTurnForResume(t) \/ UNCHANGED storeVars
  BY DEF Resume, Inspect
<1>4. [StoreStep]_storeVars /\ Exists(t)
  BY <1>3 DEF StoreStep, StoreNext, Resume, Inspect, PrepareTurnForResume, Exists, Recoverable
<1>5. StoreTypeOK' /\ (\A x \in Turns : Exists(x) => Exists(x)') /\ Exists(t)'
  BY <1>4, StoreKeeps
<1>6. PICK u : u = [IdleWorker EXCEPT !.pc = "load", !.turn = t, !.mode = m]
  OBVIOUS
<1>7. u \in WorkerRecords /\ u.pc = "load" /\ u.turn = t /\ u.mode = m
  <2>1. IdleWorker \in WorkerRecords /\ "load" \in Labels
    BY FreeWorker DEF Labels, Unclaimed
  <2>2. QED
    BY <1>6, <2>1 DEF WorkerRecords
<1>8. /\ wk' = [wk EXCEPT ![w] = u] /\ calls' \in 0..MaxCalls /\ cp' = cp /\ effects' = effects
      /\ granted' = granted /\ requests' = requests /\ faults' = faults
  BY <1>1, <1>2, <1>6, ServiceAssumption DEF StartCallOf, worldVars
<1>9. Equipped(u)' /\ ~Free(u) /\ Permitted(u)'
  BY <1>7, StoreAssumption
     DEF Equipped, Free, WithCache, Reads, Closing, Resuming, Permitted, CallRuns
<1>10. \A x \in Turns : effects'[x] > 0 => granted'[x] /\ Exists(x)'
  BY <1>5, <1>8 DEF GrantInv, GrantsKnown, RunsOnlyIfGranted, Rooted
<1>11. Exists(u.turn)' /\ \A x \in Turns : granted[x] => granted'[x] \/ ~Exists(x)
  BY <1>5, <1>7, <1>8
<1>12. effects' \in [Turns -> Nat] /\ requests' \in Nat /\ faults' \in 0..MaxFaults
       /\ granted' \in [Turns -> BOOLEAN]
  BY <1>2, <1>8
<1>13. QED
  BY <1>5, <1>7, <1>8, <1>9, <1>10, <1>11, <1>12, OneWorker

\* A worker that leaves.
LEMMA LeaveKeeps ==
  ASSUME GrantInv, NEW w \in Workers, Leave(w), UNCHANGED <<cp, worldVars>>,
         [StoreStep]_storeVars, requests' = requests,
         calls' \in 0..MaxCalls, faults' \in 0..MaxFaults
  PROVE  GrantInv'
<1>1. wk' = [wk EXCEPT ![w] = IdleWorker] /\ requests' \in Nat
  BY TypeParts DEF Leave, GrantInv
<1>2. QED
  BY <1>1, StoreKeeps, WorkerFreed

LEMMA LoadKeeps ==
  ASSUME GrantInv, NEW w \in Workers, LoadForResume(w)
  PROVE  GrantInv'
<1>1. /\ wk[w].pc = "load" /\ InCall(w) /\ wk[w] \in WorkerRecords /\ wk[w].turn \in Turns
      /\ wk \in [Workers -> WorkerRecords]
      /\ Equipped(wk[w]) /\ Permitted(wk[w]) /\ Reads(wk[w]) /\ LoopFrame
      /\ requests \in Nat /\ calls' \in 0..MaxCalls /\ faults \in 0..MaxFaults
      /\ granted' = granted /\ granted \in [Turns -> BOOLEAN]
  BY TypeParts DEF LoadForResume, InCall, GrantInv, GrantsKnown, TypeInv, Equipped, Resuming,
                   LoopFrame, worldVars
<1>2. PICK s : s = cp[wk[w].turn]
  OBVIOUS
<1>3. CASE s = NoState
  <2>1. Leave(w) /\ UNCHANGED <<cp, worldVars, storeVars>> /\ requests' = requests /\ faults' = faults
    BY <1>2, <1>3 DEF LoadForResume, LoopFrame
  <2>2. QED
    BY <1>1, <2>1, LeaveKeeps
<1>4. CASE s # NoState
  <2>1. s \in LoopStates /\ (s.grant = "yes" => granted[wk[w].turn])
    BY <1>1, <1>2, <1>4, TypeParts DEF GrantInv, GrantsKnown
  <2>2. CASE Ambiguous(s)
    <3>1. PICK q : q = PausedFor(s, "reconciliation")
      OBVIOUS
    <3>2. q \in LoopStates /\ q.grant = s.grant
      BY <1>1, <2>1, <3>1, RequestFacts
    <3>3. PICK r : r = [q EXCEPT !.rec = "unknown"]
      OBVIOUS
    <3>4. r \in LoopStates /\ r.grant = s.grant
      BY <3>2, <3>3 DEF LoopStates
    <3>5. Save(w, r, "manifest") /\ requests' = requests + 1
      BY <1>2, <1>4, <2>2, <3>1, <3>3 DEF LoadForResume
    <3>6. PICK u : u = With(w, r)
      OBVIOUS
    <3>7. u \in WorkerRecords /\ u.turn = wk[w].turn /\ u.mode = wk[w].mode /\ u.st = r
      BY <1>1, <3>4, <3>6 DEF With, WorkerRecords
    <3>8. Persist(w, u, r, "manifest") /\ "manifest" \in Following /\ requests' \in Nat
      BY <1>1, <3>5, <3>6 DEF Save, Following, Labels, Unclaimed
    <3>9. /\ u.st.grant = "yes" => granted'[u.turn]
          /\ r.grant = "yes" => granted'[u.turn]
          /\ Reads(u) /\ cp[u.turn] \in LoopStates
          /\ UNCHANGED <<storeVars, effects, calls>>
      BY <1>1, <1>2, <2>1, <3>4, <3>7 DEF Reads, LoopFrame, worldVars
    <3>10. QED
      BY <1>1, <3>4, <3>7, <3>8, <3>9, PersistKeeps
  <2>3. CASE ~Ambiguous(s)
    <3>1. PICK u : u = [wk[w] EXCEPT !.st = s, !.cache = s, !.pc = "manifest"]
      OBVIOUS
    <3>2. /\ u \in WorkerRecords /\ u.turn = wk[w].turn /\ u.mode = wk[w].mode
          /\ u.st = s /\ u.cache = s /\ u.pc = "manifest"
      BY <1>1, <2>1, <3>1 DEF WorkerRecords, Labels, Unclaimed
    <3>3. /\ wk' = [wk EXCEPT ![w].st = s, ![w].cache = s, ![w].pc = "manifest"]
          /\ UNCHANGED <<cp, requests, faults>>
      BY <1>2, <1>4, <2>3 DEF LoadForResume
    <3>4. wk' = [wk EXCEPT ![w] = u]
      BY <1>1, <3>1, <3>3
    <3>5. /\ ~Free(u) /\ ~CallRuns(u) /\ ~Closing(u) /\ Reads(u) /\ u.pc \notin WithCache
          /\ u.pc # "sync" /\ cp[u.turn] \in LoopStates /\ (u.st.grant = "yes" => granted[u.turn])
      BY <1>1, <1>2, <2>1, <3>2 DEF Free, CallRuns, Closing, Reads, WithCache
    <3>6. /\ StoreTypeOK' /\ \A t \in Turns : Exists(t) => Exists(t)'
          /\ effects' \in [Turns -> Nat] /\ \A t \in Turns : effects'[t] > 0 => granted[t] /\ Exists(t)
      BY <1>1, StoreUnchanged, TypeParts
         DEF LoopFrame, worldVars, GrantInv, GrantsKnown, RunsOnlyIfGranted, Rooted
    <3>7. requests' \in Nat /\ faults' \in 0..MaxFaults /\ cp' = cp /\ u.st \in LoopStates
      BY <1>1, <2>1, <3>2, <3>3
    <3>8. QED
      BY <1>1, <3>2, <3>4, <3>5, <3>6, <3>7, WorkerMoves
  <2>4. QED BY <2>2, <2>3
<1>5. QED BY <1>3, <1>4

LEMMA ManifestKeeps ==
  ASSUME GrantInv, NEW w \in Workers, NEW a \in Actions, NEW d \in Drifts,
         ReconcileManifest(w, a, d)
  PROVE  GrantInv'
<1>1. /\ wk[w].pc = "manifest" /\ InCall(w) /\ wk[w] \in WorkerRecords /\ wk[w].turn \in Turns
      /\ wk \in [Workers -> WorkerRecords]
      /\ Equipped(wk[w]) /\ Permitted(wk[w]) /\ Reads(wk[w]) /\ LoopFrame
      /\ requests \in Nat /\ calls' \in 0..MaxCalls /\ faults \in 0..MaxFaults
      /\ granted' = granted /\ granted \in [Turns -> BOOLEAN]
  BY TypeParts DEF ReconcileManifest, InCall, GrantInv, GrantsKnown, TypeInv, Equipped, Resuming,
                   LoopFrame, worldVars
<1>2. PICK s : s = wk[w].st
  OBVIOUS
<1>3. s \in LoopStates /\ (s.grant = "yes" => granted[wk[w].turn]) /\ cp[wk[w].turn] \in LoopStates
  BY <1>1, <1>2 DEF Equipped, Permitted, Free
<1>4. PICK done : done = IF wk[w].mode = "observe" \/ a = "refused" THEN "leave" ELSE "claim"
  OBVIOUS
<1>5. done \in {"leave", "claim"} /\ {"leave", "claim"} \subseteq Following
  BY <1>4 DEF Following, Labels, Unclaimed
<1>6. PICK u : u = [wk[w] EXCEPT !.action = a]
  OBVIOUS
<1>7. /\ u \in WorkerRecords /\ u.turn = wk[w].turn /\ u.mode = wk[w].mode /\ u.st = s
  BY <1>1, <1>2, <1>6 DEF WorkerRecords
<1>8. ASSUME NEW v \in WorkerRecords, v.turn = wk[w].turn, v.mode = wk[w].mode,
             v.st \in LoopStates, v.st.grant = s.grant, NEW label \in {"leave", "claim"},
             Persist(w, v, v.st, label), requests' \in Nat
      PROVE  GrantInv'
  <2>1. /\ v.st.grant = "yes" => granted'[v.turn]
        /\ Reads(v) /\ cp[v.turn] \in LoopStates
        /\ UNCHANGED <<storeVars, effects, calls>>
    BY <1>1, <1>3, <1>8 DEF Reads, LoopFrame, worldVars
  <2>2. QED
    BY <1>1, <1>5, <1>8, <2>1, PersistKeeps
<1>9. CASE d = "match"
  <2>1. PICK v : v = [u EXCEPT !.pc = done]
    OBVIOUS
  <2>2. /\ v \in WorkerRecords /\ v.turn = wk[w].turn /\ v.mode = wk[w].mode
        /\ v.st = s /\ v.pc = done
    BY <1>5, <1>7, <2>1 DEF WorkerRecords, Following
  <2>3. wk' = [wk EXCEPT ![w] = v] /\ UNCHANGED <<cp, requests, faults>>
    BY <1>4, <1>6, <1>9, <2>1 DEF ReconcileManifest
  <2>4. /\ ~Free(v) /\ ~CallRuns(v) /\ ~Closing(v) /\ Reads(v) /\ v.pc \notin WithCache
        /\ v.pc # "sync" /\ cp[v.turn] \in LoopStates /\ (v.st.grant = "yes" => granted[v.turn])
    BY <1>1, <1>3, <1>5, <2>2 DEF Free, CallRuns, Closing, Reads, WithCache
  <2>5. /\ StoreTypeOK' /\ \A t \in Turns : Exists(t) => Exists(t)'
        /\ effects' \in [Turns -> Nat] /\ \A t \in Turns : effects'[t] > 0 => granted[t] /\ Exists(t)
    BY <1>1, StoreUnchanged, TypeParts
       DEF LoopFrame, worldVars, GrantInv, GrantsKnown, RunsOnlyIfGranted, Rooted
  <2>6. QED
    BY <1>1, <1>3, <2>2, <2>3, <2>4, <2>5, WorkerMoves
<1>10. CASE d = "revision"
  <2>1. Persist(w, u, s, done) /\ requests' \in Nat
    BY <1>1, <1>2, <1>4, <1>6, <1>10 DEF ReconcileManifest
  <2>2. QED
    BY <1>3, <1>5, <1>7, <1>8, <2>1
<1>11. CASE d \notin {"match", "revision"}
  <2>1. PICK q : q = PausedFor(s, "drift")
    OBVIOUS
  <2>2. q \in LoopStates /\ q.grant = s.grant
    BY <1>1, <1>3, <2>1, RequestFacts
  <2>3. PICK x : x = Drifted(s, d)
    OBVIOUS
  <2>4. PICK y : y = IF s.rec = "none" /\ d = "changed" THEN "prepared" ELSE q.rec
    OBVIOUS
  <2>5. y \in {"none", "prepared", "started", "unknown", "completed", "failed"}
    BY <2>2, <2>4 DEF LoopStates
  <2>6. x = [q EXCEPT !.rec = y]
    BY <2>1, <2>3, <2>4 DEF Drifted
  <2>7. x \in LoopStates /\ x.grant = s.grant
    BY <2>2, <2>5, <2>6 DEF LoopStates
  <2>8. PICK v : v = [u EXCEPT !.st = x]
    OBVIOUS
  <2>9. v \in WorkerRecords /\ v.turn = wk[w].turn /\ v.mode = wk[w].mode /\ v.st = x
    BY <1>7, <2>7, <2>8 DEF WorkerRecords
  <2>10. Persist(w, v, x, "leave") /\ requests' \in Nat
    <3>1. Persist(w, [u EXCEPT !.st = Drifted(s, d)], Drifted(s, d), "leave")
          /\ requests' = requests + 1
      BY <1>2, <1>6, <1>11 DEF ReconcileManifest
    <3>2. QED
      BY <1>1, <2>3, <2>8, <3>1
  <2>11. QED
    BY <1>8, <2>7, <2>9, <2>10
<1>12. QED
  BY <1>9, <1>10, <1>11

LEMMA ClaimKeeps ==
  ASSUME GrantInv, NEW w \in Workers, Claim(w)
  PROVE  GrantInv'
<1>1. /\ wk[w].pc = "claim" /\ InCall(w) /\ wk[w] \in WorkerRecords /\ wk[w].turn \in Turns
      /\ wk \in [Workers -> WorkerRecords]
      /\ Equipped(wk[w]) /\ Permitted(wk[w]) /\ Reads(wk[w])
      /\ UNCHANGED <<cp, worldVars>> /\ requests' = requests
      /\ calls' \in 0..MaxCalls /\ faults' \in 0..MaxFaults
  BY TypeParts DEF Claim, InCall, GrantInv, GrantsKnown, TypeInv, Equipped, Resuming, budgetVars
<1>2. CASE Claimable(wk[w].turn)
  <2>1. ClaimForResume(wk[w].turn, w) /\ wk' = [wk EXCEPT ![w].pc = "apply", ![w].beating = TRUE]
    BY <1>2 DEF Claim
  <2>2. StoreStep
    BY <1>1, <2>1 DEF StoreStep, StoreNext
  <2>3. PICK u : u = [wk[w] EXCEPT !.pc = "apply", !.beating = TRUE]
    OBVIOUS
  <2>4. /\ u \in WorkerRecords /\ u.turn = wk[w].turn /\ u.mode = wk[w].mode
        /\ u.st = wk[w].st /\ u.pc = "apply"
    BY <1>1, <2>3 DEF WorkerRecords, Labels, Awaiting
  <2>5. wk' = [wk EXCEPT ![w] = u]
    BY <1>1, <2>1, <2>3
  <2>6. /\ ~Free(u) /\ ~CallRuns(u) /\ ~Closing(u) /\ Reads(u) /\ u.pc \notin WithCache
        /\ u.pc # "sync" /\ cp[u.turn] \in LoopStates /\ (u.st.grant = "yes" => granted[u.turn])
        /\ u.st \in LoopStates
    BY <1>1, <2>4 DEF Free, CallRuns, Closing, Reads, WithCache, Equipped, Permitted
  <2>7. /\ StoreTypeOK' /\ \A t \in Turns : Exists(t) => Exists(t)'
        /\ cp' = cp /\ granted' = granted /\ requests' \in Nat
        /\ effects' \in [Turns -> Nat] /\ \A t \in Turns : effects'[t] > 0 => granted[t] /\ Exists(t)
    BY <1>1, <2>2, StoreKeeps, TypeParts
       DEF worldVars, GrantInv, GrantsKnown, RunsOnlyIfGranted, Rooted
  <2>8. QED
    BY <1>1, <2>4, <2>5, <2>6, <2>7, WorkerMoves
<1>3. CASE ~Claimable(wk[w].turn)
  <2>1. Leave(w) /\ UNCHANGED storeVars
    BY <1>3 DEF Claim
  <2>2. QED
    BY <1>1, <2>1, LeaveKeeps
<1>4. QED BY <1>2, <1>3

\* An answer allows the call only if it says so.
LEMMA AnswerFacts ==
  ASSUME NEW s \in LoopStates, NEW a
  PROVE  /\ Answered(s, a) \in LoopStates
         /\ Answered(s, a).grant = "yes" => s.grant = "yes" \/ a = "allow_once"
         /\ Answered(s, a).log = s.log
<1>1. PICK q : q = NoRequest
  OBVIOUS
<1>2. q \in [kind : {"none", "approval", "reconciliation", "drift"}, id : Nat]
  BY <1>1 DEF NoRequest
<1>3. PICK g : g = CASE a = "allow_once" -> "yes"
                     [] a = "deny" \/ (a = "mark_failed" /\ s.rec = "none") -> "no"
                     [] OTHER -> s.grant
  OBVIOUS
<1>4. PICK r : r = CASE a = "mark_completed" -> "completed"
                     [] a = "mark_failed" /\ s.rec # "none" -> "failed"
                     [] OTHER -> s.rec
  OBVIOUS
<1>5. g \in {"ask", "yes", "no"} /\ (g = "yes" => s.grant = "yes" \/ a = "allow_once")
  BY <1>3 DEF LoopStates
<1>6. r \in {"none", "prepared", "started", "unknown", "completed", "failed"}
  BY <1>4 DEF LoopStates
<1>7. Answered(s, a) = [s EXCEPT !.status = "running", !.req = q, !.grant = g, !.rec = r]
  BY <1>1, <1>3, <1>4 DEF Answered
<1>8. QED
  BY <1>2, <1>5, <1>6, <1>7 DEF LoopStates

LEMMA ApplyKeeps ==
  ASSUME GrantInv, NEW w \in Workers, ApplyResponse(w)
  PROVE  GrantInv'
<1>1. /\ wk[w].pc = "apply" /\ InCall(w) /\ wk[w] \in WorkerRecords /\ wk[w].turn \in Turns
      /\ wk \in [Workers -> WorkerRecords]
      /\ Equipped(wk[w]) /\ Permitted(wk[w]) /\ Reads(wk[w])
      /\ UNCHANGED <<storeVars, effects, requests, calls>> /\ granted \in [Turns -> BOOLEAN]
      /\ requests \in Nat /\ calls \in 0..MaxCalls /\ faults \in 0..MaxFaults
  BY TypeParts DEF ApplyResponse, InCall, GrantInv, GrantsKnown, TypeInv, Equipped, Resuming
<1>2. PICK s : s = cp[wk[w].turn]
  OBVIOUS
<1>3. PICK a : a = wk[w].action
  OBVIOUS
<1>4. /\ s \in LoopStates /\ (s.grant = "yes" => granted[wk[w].turn])
      /\ wk[w].st \in LoopStates /\ (wk[w].st.grant = "yes" => granted[wk[w].turn])
  BY <1>1, <1>2, StateAssumption DEF Equipped, Permitted, Free, GrantInv, GrantsKnown
<1>5. /\ StoreTypeOK' /\ \A t \in Turns : Exists(t) => Exists(t)'
      /\ effects' \in [Turns -> Nat]
      /\ \A t \in Turns : effects'[t] > 0 => granted[t] /\ Exists(t)
  BY <1>1, StoreUnchanged, TypeParts DEF GrantInv, GrantsKnown, RunsOnlyIfGranted, Rooted
<1>6. CASE a \in {"continue", "abort"}
  <2>1. PICK x : x = Answered(wk[w].st, a)
    OBVIOUS
  <2>2. x \in LoopStates /\ (x.grant = "yes" => granted[wk[w].turn])
    BY <1>4, <1>6, <2>1, AnswerFacts
  <2>3. PICK u : u = [wk[w] EXCEPT !.st = x, !.pc = "hydrate"]
    OBVIOUS
  <2>4. /\ u \in WorkerRecords /\ u.turn = wk[w].turn /\ u.mode = wk[w].mode
        /\ u.st = x /\ u.pc = "hydrate"
    BY <1>1, <2>2, <2>3 DEF WorkerRecords, Labels
  <2>5. /\ wk' = [wk EXCEPT ![w].st = x, ![w].pc = "hydrate"]
        /\ UNCHANGED <<cp, granted, faults>>
    BY <1>3, <1>6, <2>1 DEF ApplyResponse
  <2>6. wk' = [wk EXCEPT ![w] = u]
    BY <1>1, <2>3, <2>5
  <2>7. /\ ~Free(u) /\ ~CallRuns(u) /\ ~Closing(u) /\ Reads(u) /\ u.pc \notin WithCache
        /\ u.pc # "sync" /\ cp[u.turn] \in LoopStates /\ (u.st.grant = "yes" => granted[u.turn])
    BY <1>1, <1>2, <1>4, <2>2, <2>4 DEF Free, CallRuns, Closing, Reads, WithCache
  <2>8. QED
    BY <1>1, <1>5, <2>2, <2>4, <2>5, <2>6, <2>7, WorkerMoves
<1>7. CASE a \notin {"continue", "abort"} /\ (s.req = NoRequest \/ s.req # wk[w].st.req)
  <2>1. wk' = [wk EXCEPT ![w].pc = "error"] /\ UNCHANGED <<cp, granted, faults>>
    BY <1>2, <1>3, <1>7 DEF ApplyResponse, Become
  <2>2. PICK u : u = [wk[w] EXCEPT !.pc = "error"]
    OBVIOUS
  <2>3. /\ u \in WorkerRecords /\ u.turn = wk[w].turn /\ u.mode = wk[w].mode
        /\ u.st = wk[w].st /\ u.cache = wk[w].cache /\ u.pc = "error"
    BY <1>1, <2>2 DEF WorkerRecords, Labels
  <2>4. wk' = [wk EXCEPT ![w] = u]
    BY <1>1, <2>1, <2>2
  <2>5. UNCHANGED <<cp, worldVars>> /\ [StoreStep]_storeVars
    BY <1>1, <2>1 DEF worldVars
  <2>6. QED
    BY <1>1, <2>1, <2>3, <2>4, <2>5, PlaceKeeps
<1>8. CASE a \notin {"continue", "abort"} /\ s.req # NoRequest /\ s.req = wk[w].st.req
  <2>1. PICK x : x = Answered(s, a)
    OBVIOUS
  <2>2. x \in LoopStates /\ (x.grant = "yes" => granted[wk[w].turn] \/ a = "allow_once")
    BY <1>4, <2>1, AnswerFacts
  <2>3. /\ Save(w, x, "hydrate")
        /\ granted' = [granted EXCEPT ![wk[w].turn] = granted[wk[w].turn] \/ a = "allow_once"]
    BY <1>2, <1>3, <1>8, <2>1 DEF ApplyResponse
  <2>4. PICK u : u = With(w, x)
    OBVIOUS
  <2>5. u \in WorkerRecords /\ u.turn = wk[w].turn /\ u.mode = wk[w].mode /\ u.st = x
    BY <1>1, <2>2, <2>4 DEF With, WorkerRecords
  <2>6. Persist(w, u, x, "hydrate") /\ "hydrate" \in Following
    BY <2>3, <2>4 DEF Save, Following, Labels
  <2>7. /\ granted' \in [Turns -> BOOLEAN] /\ \A t \in Turns : granted[t] => granted'[t]
        /\ granted'[wk[w].turn] = (granted[wk[w].turn] \/ a = "allow_once")
    BY <1>1, <2>3
  <2>8. /\ u.st.grant = "yes" => granted'[u.turn]
        /\ x.grant = "yes" => granted'[u.turn]
        /\ Reads(u) /\ cp[u.turn] \in LoopStates /\ requests' \in Nat
    BY <1>1, <1>2, <1>4, <2>2, <2>5, <2>7 DEF Reads
  <2>9. QED
    BY <1>1, <2>2, <2>5, <2>6, <2>7, <2>8, PersistKeeps
<1>9. QED
  BY <1>6, <1>7, <1>8

LEMMA HydrateKeeps ==
  ASSUME GrantInv, NEW w \in Workers, NEW said \in BOOLEAN, Hydrate(w, said)
  PROVE  GrantInv'
<1>1. /\ wk[w].pc = "hydrate" /\ InCall(w) /\ wk[w] \in WorkerRecords /\ wk[w].turn \in Turns
      /\ wk \in [Workers -> WorkerRecords] /\ wk[w].st \in LoopStates
      /\ Equipped(wk[w]) /\ Permitted(wk[w]) /\ Reads(wk[w])
      /\ LoopFrame /\ requests' = requests /\ requests \in Nat
      /\ calls' \in 0..MaxCalls /\ faults \in 0..MaxFaults
  BY TypeParts DEF Hydrate, InCall, GrantInv, GrantsKnown, TypeInv, Equipped, Resuming, Free, LoopFrame
<1>2. PICK log : log = IF IsPrefix(history[wk[w].turn], wk[w].st.log) THEN wk[w].st.log
                                                                  ELSE history[wk[w].turn]
  OBVIOUS
<1>3. log \in Seq(Messages)
  BY <1>1, <1>2, TypeParts DEF LoopStates, GrantInv, StoreTypeOK
<1>4. PICK h : h = [wk[w].st EXCEPT !.log = log]
  OBVIOUS
<1>5. h \in LoopStates /\ h.grant = wk[w].st.grant
  BY <1>1, <1>3, <1>4 DEF LoopStates
<1>6. ASSUME NEW s \in LoopStates, s.grant = wk[w].st.grant, NEW label \in {"final_sync", "loop_start"},
             Save(w, s, label), label = "loop_start" \/ s.status # "running"
      PROVE  GrantInv'
  <2>1. label \in Following \ {"start", "invoke", "outcome"} /\ wk[w].pc # "load"
        /\ requests' \in Nat
    BY <1>1 DEF Following, Labels, Awaiting
  <2>2. QED
    BY <1>1, <1>6, <2>1, SaveKeeps
<1>7. CASE ~IsPrefix(history[wk[w].turn], wk[w].st.log) /\ ~IsPrefix(wk[w].st.log, history[wk[w].turn])
  <2>1. wk' = [wk EXCEPT ![w].pc = "error"] /\ UNCHANGED <<cp, faults>>
    BY <1>7 DEF Hydrate, Become
  <2>2. PICK u : u = [wk[w] EXCEPT !.pc = "error"]
    OBVIOUS
  <2>3. /\ u \in WorkerRecords /\ u.turn = wk[w].turn /\ u.mode = wk[w].mode
        /\ u.st = wk[w].st /\ u.cache = wk[w].cache /\ u.pc = "error"
    BY <1>1, <2>2 DEF WorkerRecords, Labels
  <2>4. wk' = [wk EXCEPT ![w] = u]
    BY <1>1, <2>1, <2>2
  <2>5. UNCHANGED <<cp, worldVars>> /\ [StoreStep]_storeVars /\ faults' \in 0..MaxFaults
    BY <1>1, <2>1 DEF LoopFrame
  <2>6. QED
    BY <1>1, <2>3, <2>4, <2>5, PlaceKeeps
<1>8. CASE ~(~IsPrefix(history[wk[w].turn], wk[w].st.log) /\ ~IsPrefix(wk[w].st.log, history[wk[w].turn]))
  <2>1. CASE wk[w].action = "abort"
    <3>1. PICK s : s = [h EXCEPT !.status = "failed"]
      OBVIOUS
    <3>2. s \in LoopStates /\ s.grant = wk[w].st.grant /\ s.status # "running"
      BY <1>5, <3>1 DEF LoopStates, Terminal
    <3>3. Save(w, s, "final_sync")
      BY <1>2, <1>4, <1>8, <2>1, <3>1 DEF Hydrate
    <3>4. QED
      BY <1>6, <3>2, <3>3
  <2>2. CASE wk[w].action # "abort"
    <3>1. Save(w, IF said THEN Say(h, w, "input") ELSE h, "loop_start")
      BY <1>2, <1>4, <1>8, <2>2 DEF Hydrate
    <3>2. PICK s : s = Say(h, w, "input")
      OBVIOUS
    <3>3. s \in LoopStates /\ s.grant = wk[w].st.grant
      BY <1>5, <3>2, SayFacts
    <3>4. Save(w, s, "loop_start") \/ Save(w, h, "loop_start")
      BY <3>1, <3>2
    <3>5. QED
      BY <1>5, <1>6, <3>3, <3>4
  <2>3. QED BY <2>1, <2>2
<1>9. QED BY <1>7, <1>8

-----------------------------------------------------------------------------
(* The environment.                                                          *)

\* Nothing of a worker changes.
LEMMA QuietKeeps ==
  ASSUME GrantInv, [StoreStep]_storeVars, UNCHANGED <<cp, wk, worldVars, requests, budgetVars>>
  PROVE  GrantInv'
<1>1. StoreTypeOK' /\ \A t \in Turns : Exists(t) => Exists(t)'
  BY StoreKeeps
<1>2. UNCHANGED <<cp, wk, effects, granted, requests, calls, faults>>
  BY DEF worldVars, budgetVars
<1>3. ServiceTypeOK'
  BY <1>1, <1>2 DEF GrantInv, TypeInv, ServiceTypeOK
<1>4. \A w \in Workers : Equipped(wk[w])'
  BY <1>2 DEF GrantInv, TypeInv, Equipped
<1>5. Rooted'
  BY <1>1, <1>2, TypeParts DEF GrantInv, Rooted, InCall
<1>6. GrantsKnown'
  BY <1>2 DEF GrantInv, GrantsKnown, Permitted, RunsOnlyIfGranted
<1>7. QED BY <1>3, <1>4, <1>5, <1>6 DEF GrantInv, TypeInv

\* A worker keeps its place and its memory; a flag changes.
LEMMA FlagKeeps ==
  ASSUME GrantInv, NEW w \in Workers, InCall(w), NEW b \in BOOLEAN, NEW c \in BOOLEAN, NEW u,
         u = [wk[w] EXCEPT !.beating = b, !.cancelled = c], wk' = [wk EXCEPT ![w] = u],
         UNCHANGED <<storeVars, cp, worldVars, requests, calls>>, faults' \in 0..MaxFaults
  PROVE  GrantInv'
<1>1. wk[w] \in WorkerRecords /\ Equipped(wk[w]) /\ Permitted(wk[w]) /\ calls' \in 0..MaxCalls
      /\ requests' \in Nat
  BY TypeParts DEF GrantInv, TypeInv, GrantsKnown
<1>2. /\ u \in WorkerRecords /\ u.turn = wk[w].turn /\ u.mode = wk[w].mode /\ u.st = wk[w].st
      /\ u.cache = wk[w].cache /\ u.pc = wk[w].pc /\ u.next = wk[w].next
  BY <1>1 DEF WorkerRecords
<1>3. /\ u.pc # "load" => u.st \in LoopStates /\ (u.st.grant = "yes" => granted[u.turn])
      /\ u.pc # "load" /\ Reads(u) => cp[u.turn] \in LoopStates
      /\ u.pc \in WithCache => u.cache \in LoopStates /\ (u.cache.grant = "yes" => granted[u.turn])
      /\ u.pc = "sync" => u.next \in Following
      /\ CallRuns(u) => u.st.grant = "yes"
      /\ Closing(u) => u.st.status # "running"
      /\ Resuming(u) => Reads(u)
      /\ ~Free(u)
  BY <1>1, <1>2 DEF Equipped, Permitted, Free, InCall, Reads, CallRuns, Closing, Resuming
<1>4. /\ StoreTypeOK' /\ \A t \in Turns : Exists(t) => Exists(t)'
      /\ cp' = cp /\ granted' = granted
      /\ effects' \in [Turns -> Nat] /\ \A t \in Turns : effects'[t] > 0 => granted[t] /\ Exists(t)
  BY StoreUnchanged, TypeParts DEF worldVars, GrantInv, GrantsKnown, RunsOnlyIfGranted, Rooted
<1>5. QED
  BY <1>1, <1>2, <1>3, <1>4, WorkerMoves

LEMMA EnvironmentKeeps ==
  ASSUME GrantInv, NEW w \in Workers,
         Heartbeat(w) \/ UserCancels(w) \/ CancelDelivered(w) \/ StepRaises(w) \/ Crash(w) \/ Return(w)
  PROVE  GrantInv'
<1>1. /\ wk \in [Workers -> WorkerRecords] /\ wk[w] \in WorkerRecords
      /\ requests \in Nat /\ calls \in 0..MaxCalls /\ faults \in 0..MaxFaults
  BY TypeParts DEF GrantInv
<1>2. ASSUME NEW b \in BOOLEAN, NEW c \in BOOLEAN, InCall(w),
             wk' = [wk EXCEPT ![w].beating = b, ![w].cancelled = c],
             UNCHANGED <<storeVars, cp, worldVars, requests, calls>>, faults' \in 0..MaxFaults
      PROVE  GrantInv'
  <2>1. PICK u : u = [wk[w] EXCEPT !.beating = b, !.cancelled = c]
    OBVIOUS
  <2>2. wk' = [wk EXCEPT ![w] = u]
    BY <1>1, <1>2, <2>1
  <2>3. QED
    BY <1>2, <2>1, <2>2, FlagKeeps
<1>3. ASSUME Claimed(w), NEW x \in {"error", "cancelled"}, wk' = [wk EXCEPT ![w].pc = x],
             UNCHANGED <<storeVars, cp, worldVars, requests, calls>>, faults' \in 0..MaxFaults
      PROVE  GrantInv'
  <2>1. PICK u : u = [wk[w] EXCEPT !.pc = x]
    OBVIOUS
  <2>2. /\ u \in WorkerRecords /\ u.turn = wk[w].turn /\ u.mode = wk[w].mode
        /\ u.st = wk[w].st /\ u.cache = wk[w].cache /\ u.pc = x
    BY <1>1, <2>1 DEF WorkerRecords, Labels
  <2>3. wk' = [wk EXCEPT ![w] = u] /\ InCall(w) /\ wk[w].pc # "load"
    BY <1>1, <1>3, <2>1 DEF Claimed, Unclaimed
  <2>4. QED
    BY <1>1, <1>3, <2>2, <2>3, PlaceKeeps
<1>4. faults' = faults + 1 /\ faults < MaxFaults => faults' \in 0..MaxFaults
  BY <1>1, ServiceAssumption
<1>5. CASE Heartbeat(w)
  <2>1. CASE status[wk[w].turn] = "running" /\ owner[wk[w].turn] = w
    <3>1. RenewLease(wk[w].turn, w) /\ UNCHANGED wk /\ wk[w].turn \in Turns
          /\ UNCHANGED <<cp, worldVars, requests, budgetVars>>
      BY <1>5, <2>1, TypeParts DEF Heartbeat, GrantInv
    <3>2. StoreStep
      BY <3>1 DEF StoreStep, StoreNext
    <3>3. QED
      BY <3>1, <3>2, QuietKeeps
  <2>2. CASE ~(status[wk[w].turn] = "running" /\ owner[wk[w].turn] = w)
    <3>1. PICK c : c = (wk[w].cancelled \/ status[wk[w].turn] = "running")
      OBVIOUS
    <3>2. c \in BOOLEAN
      BY <3>1
    <3>3. wk' = [wk EXCEPT ![w].beating = FALSE, ![w].cancelled = c]
      <4>1. [wk[w] EXCEPT !.beating = FALSE].cancelled = wk[w].cancelled
        BY <1>1 DEF WorkerRecords
      <4>2. QED BY <1>1, <1>5, <2>2, <3>1, <4>1 DEF Heartbeat
    <3>4. UNCHANGED <<storeVars, cp, worldVars, requests, calls>> /\ faults' \in 0..MaxFaults
          /\ InCall(w)
      BY <1>1, <1>5, <2>2 DEF Heartbeat, budgetVars
    <3>5. QED
      BY <1>2, <3>2, <3>3, <3>4
  <2>3. QED BY <2>1, <2>2
<1>6. CASE UserCancels(w)
  <2>1. wk' = [wk EXCEPT ![w].cancelled = TRUE] /\ UNCHANGED <<storeVars, cp, worldVars, requests, calls>>
        /\ faults' \in 0..MaxFaults /\ InCall(w)
    BY <1>4, <1>6 DEF UserCancels, Fault, FaultFrame, Claimed
  <2>2. PICK u : u = [wk[w] EXCEPT !.beating = wk[w].beating, !.cancelled = TRUE]
    OBVIOUS
  <2>3. u = [wk[w] EXCEPT !.cancelled = TRUE] /\ wk[w].beating \in BOOLEAN
    BY <1>1, <2>2 DEF WorkerRecords
  <2>4. wk' = [wk EXCEPT ![w] = u]
    BY <2>1, <2>3
  <2>5. QED
    BY <2>1, <2>2, <2>3, <2>4, FlagKeeps
<1>7. CASE CancelDelivered(w)
  BY <1>1, <1>3, <1>7 DEF CancelDelivered, Become, budgetVars
<1>8. CASE StepRaises(w)
  BY <1>3, <1>4, <1>8 DEF StepRaises, Become, Fault, FaultFrame
<1>9. CASE Crash(w)
  <2>1. /\ wk' = [wk EXCEPT ![w] = [IdleWorker EXCEPT !.pc = "dead"]]
        /\ UNCHANGED <<storeVars, cp, worldVars, requests, calls>> /\ faults' \in 0..MaxFaults
    BY <1>4, <1>9 DEF Crash, Fault, FaultFrame
  <2>2. QED
    BY <1>1, <2>1, StoreUnchanged, WorkerFreed
<1>10. CASE Return(w)
  <2>1. Leave(w) /\ UNCHANGED <<storeVars, cp, worldVars, requests, calls, faults>>
    BY <1>10 DEF Return, budgetVars
  <2>2. QED
    BY <1>1, <2>1, LeaveKeeps
<1>11. QED
  BY <1>5, <1>6, <1>7, <1>8, <1>9, <1>10

-----------------------------------------------------------------------------
(* The invariants of the service.                                            *)

LEMMA ServiceInitial ==
  ASSUME ServiceInit
  PROVE  GrantInv
<1>1. StoreTypeOK
  BY StoreAssumption DEF ServiceInit, StoreInit, StoreTypeOK, Statuses
<1>2. \A w \in Workers : wk[w] = IdleWorker
  BY DEF ServiceInit
<1>3. ServiceTypeOK
  BY <1>1, FreeWorker, ServiceAssumption DEF ServiceInit, ServiceTypeOK, WorkerRecords
<1>4. \A w \in Workers : Equipped(wk[w]) /\ Permitted(wk[w]) /\ ~InCall(w)
  BY <1>2, FreeWorker
     DEF Equipped, Permitted, InCall, Free, WithCache, CallRuns, Closing, Resuming
<1>5. \A t \in Turns : cp[t] = NoState /\ effects[t] = 0
  BY DEF ServiceInit
<1>6. QED
  BY <1>3, <1>4, <1>5 DEF GrantInv, TypeInv, Rooted, GrantsKnown, RunsOnlyIfGranted

LEMMA GrantStep ==
  ASSUME GrantInv, [ServiceNext]_serviceVars
  PROVE  GrantInv'
<1>1. ASSUME NEW w \in Workers, WorkerStep(w) PROVE GrantInv'
  BY <1>1, SinkKeeps, EnvironmentKeeps, LoopKeeps, CallKeeps, FinalKeeps, LoadKeeps, ManifestKeeps,
     ClaimKeeps, ApplyKeeps, HydrateKeeps
     DEF WorkerStep
<1>2. CASE TimePasses
  <2>1. StoreStep
    BY <1>2 DEF TimePasses, StoreStep, StoreNext
  <2>2. QED
    BY <1>2, <2>1, QuietKeeps DEF TimePasses
<1>3. CASE UNCHANGED serviceVars
  BY <1>3, QuietKeeps DEF serviceVars
<1>4. QED
  BY <1>1, <1>2, <1>3, OpenKeeps, ReadKeeps, EnvironmentKeeps DEF ServiceNext

\* What the two databases, the workers and the counters hold has its type: the memory
\* of a worker is a LoopState once it has one, a checkpoint is one, and the transcript
\* in the turn table is a sequence of messages.
THEOREM ServiceTyping == ServiceSpec => []ServiceTypeOK
<1>1. ServiceInit => GrantInv
  BY ServiceInitial
<1>2. GrantInv /\ [ServiceNext]_serviceVars => GrantInv'
  BY GrantStep
<1>3. GrantInv => ServiceTypeOK
  BY DEF GrantInv, TypeInv
<1>4. QED
  BY <1>1, <1>2, <1>3, PTL DEF ServiceSpec

\* No call runs that the caller has not allowed, whatever crashes, cancellations,
\* overlapping resumes and changed tools come between the question and the answer: a
\* grant is never made up by memory, cache or checkpoint.
THEOREM GrantedCallsRun == ServiceSpec => []RunsOnlyIfGranted
<1>1. ServiceInit => GrantInv
  BY ServiceInitial
<1>2. GrantInv /\ [ServiceNext]_serviceVars => GrantInv'
  BY GrantStep
<1>3. GrantInv => RunsOnlyIfGranted
  BY DEF GrantInv, GrantsKnown
<1>4. QED
  BY <1>1, <1>2, <1>3, PTL DEF ServiceSpec

-----------------------------------------------------------------------------
(* The service uses the turn table as the table is meant to be used: what is *)
(* proved of the table for any callers holds of the service.                 *)

LEMMA WorkerOnStore ==
  ASSUME TypeInv, NEW w \in Workers, WorkerStep(w)
  PROVE  [StoreStep]_storeVars
<1>1. CASE UNCHANGED storeVars
  BY <1>1
<1>2. CASE LoopFrame
  BY <1>2 DEF LoopFrame
<1>3. CASE SyncSink(w)
  <2>1. InCall(w) /\ wk[w].cache \in LoopStates
    BY <1>3 DEF SyncSink, InCall, TypeInv, Equipped, WithCache
  <2>2. SyncTurnMessages(wk[w].turn, wk[w].cache.log) \/ UNCHANGED storeVars
    BY <1>3 DEF SyncSink
  <2>3. QED BY <2>1, <2>2, TranscriptStep
<1>4. CASE FinalSync(w)
  <2>1. InCall(w) /\ wk[w].st \in LoopStates
    BY <1>4 DEF FinalSync, InCall, TypeInv, Equipped, Free
  <2>2. SyncTurnMessages(wk[w].turn, wk[w].st.log) \/ UNCHANGED storeVars
    BY <1>4 DEF FinalSync
  <2>3. QED BY <2>1, <2>2, TranscriptStep
<1>5. CASE FinalMark(w)
  <2>1. InCall(w) /\ wk[w].st.status \in {"paused"} \cup Terminal /\ wk[w].turn \in Turns
    BY <1>5, TypeParts DEF FinalMark, InCall, TypeInv, Equipped, Free, Closing, LoopStates
  <2>2. \/ UNCHANGED storeVars
        \/ MarkPaused(wk[w].turn)
        \/ wk[w].st.status # "paused" /\ MarkTerminal(wk[w].turn, wk[w].st.status)
    BY <1>5 DEF FinalMark
  <2>3. QED BY <2>1, <2>2, MarkStep
<1>6. CASE Unwind(w)
  <2>1. InCall(w) /\ wk[w].turn \in Turns
    BY <1>6, TypeParts DEF Unwind, Unwinding, InCall
  <2>2. UNCHANGED storeVars \/ MarkInterrupted(wk[w].turn) \/ MarkTerminal(wk[w].turn, "failed")
    BY <1>6 DEF Unwind
  <2>3. QED BY <2>1, <2>2, MarkStep DEF Terminal
<1>7. CASE Claim(w)
  <2>1. wk[w].turn \in Turns
    BY <1>7, TypeParts DEF Claim, InCall
  <2>2. ClaimForResume(wk[w].turn, w) \/ UNCHANGED storeVars
    BY <1>7 DEF Claim
  <2>3. QED BY <2>1, <2>2 DEF StoreStep, StoreNext
<1>8. CASE \/ Return(w) \/ InvokeTool(w) \/ StreamFinally(w) \/ ApplyResponse(w) \/ CancelDelivered(w)
  BY <1>1, <1>8 DEF Return, InvokeTool, StreamFinally, ApplyResponse, CancelDelivered
<1>9. CASE \/ LoopStart(w) \/ ScheduleCall(w) \/ ModelPause(w)
           \/ \E v \in Terminal : EndLoop(w, v)
           \/ PauseForApproval(w) \/ RecordResult(w) \/ PauseForReconciliation(w)
           \/ PrepareCall(w) \/ StartCall(w)
           \/ \E o \in Outcomes : ToolReturns(w, o)
           \/ ToolCancelled(w) \/ PauseFinal(w) \/ LoadForResume(w)
           \/ \E a \in Actions, d \in Drifts : ReconcileManifest(w, a, d)
           \/ \E said \in BOOLEAN : Hydrate(w, said)
  BY <1>2, <1>9 DEF LoopStart, ScheduleCall, ModelPause, EndLoop, PauseForApproval, RecordResult,
     PauseForReconciliation, PrepareCall, StartCall, ToolReturns, ToolCancelled, PauseFinal,
     LoadForResume, ReconcileManifest, Hydrate
<1>10. QED
  BY <1>3, <1>4, <1>5, <1>6, <1>7, <1>8, <1>9, Zenon DEF WorkerStep

LEMMA ServiceOnStore ==
  ASSUME TypeInv, [ServiceNext]_serviceVars
  PROVE  [StoreStep]_storeVars
<1>1. ASSUME NEW w \in Workers, NEW t \in Turns, NEW r \in Runtimes, NEW g, NEW m,
             OpenTurn(w, t, r, g, m)
      PROVE  StoreStep
  BY <1>1, ServiceAssumption DEF OpenTurn, StoreStep, StoreNext
<1>2. ASSUME NEW w \in Workers, NEW t \in Turns, Resume(w, t) \/ Inspect(w, t)
      PROVE  [StoreStep]_storeVars
  BY <1>2 DEF Resume, Inspect, StoreStep, StoreNext
<1>3. ASSUME NEW w \in Workers, Heartbeat(w)
      PROVE  [StoreStep]_storeVars
  <2>1. wk[w].turn \in Turns
    BY <1>3, TypeParts DEF Heartbeat
  <2>2. RenewLease(wk[w].turn, w) \/ UNCHANGED storeVars
    BY <1>3 DEF Heartbeat
  <2>3. QED BY <2>1, <2>2 DEF StoreStep, StoreNext
<1>4. ASSUME NEW w \in Workers, UserCancels(w) \/ StepRaises(w) \/ Crash(w)
      PROVE  UNCHANGED storeVars
  BY <1>4 DEF UserCancels, StepRaises, Crash, FaultFrame
<1>5. CASE TimePasses
  BY <1>5 DEF TimePasses, StoreStep, StoreNext
<1>6. CASE UNCHANGED serviceVars
  BY <1>6 DEF serviceVars
<1>7. QED
  BY <1>1, <1>2, <1>3, <1>4, <1>5, <1>6, WorkerOnStore, Zenon DEF ServiceNext

\* The typing of the store is part of ServiceTypeOK, and each lemma about a step of the
\* store is about the steps of the service.
LEMMA ServiceStays ==
  ServiceSpec => [](TypeInv /\ StoreTypeOK) /\ [][TypeInv => StoreStep]_storeVars
<1>1. ServiceInit => GrantInv
  BY ServiceInitial
<1>2. GrantInv /\ [ServiceNext]_serviceVars => GrantInv'
  BY GrantStep
<1>3. GrantInv => TypeInv /\ StoreTypeOK
  BY DEF GrantInv, TypeInv, ServiceTypeOK
<1>4. [ServiceNext]_serviceVars => [TypeInv => StoreStep]_storeVars
  BY ServiceOnStore
<1>5. QED
  BY <1>1, <1>2, <1>3, <1>4, PTL DEF ServiceSpec

\* A running turn is the only one with a lease, a transcript starts with the user's
\* message and is written only while the turn exists: LeaseAndTranscriptOK, of the
\* service.
THEOREM ServiceLeasesSafe == ServiceSpec => []LeaseAndTranscriptOK
<1>1. ServiceInit => LeaseAndTranscriptOK
  BY DEF ServiceInit, StoreInit, LeaseAndTranscriptOK, Exists
<1>2. TypeInv /\ StoreTypeOK /\ LeaseAndTranscriptOK /\ [TypeInv => StoreStep]_storeVars
        => LeaseAndTranscriptOK'
  BY LeaseAndTranscriptStep
<1>3. QED
  BY <1>1, <1>2, ServiceStays, PTL DEF ServiceSpec

\* A turn that has ended stays as it ended, whatever workers still believe they hold it.
THEOREM ServiceEndsRest == ServiceSpec => TerminalIsFinal
<1>1. TypeInv /\ StoreTypeOK /\ LeaseAndTranscriptOK /\ [TypeInv => StoreStep]_storeVars
        => [\A t \in Turns : status[t] \in Terminal => status'[t] = status[t] /\ owner'[t] = NoWorker]_storeVars
  BY EndedStep
<1>2. QED
  BY <1>1, ServiceStays, ServiceLeasesSafe, PTL DEF TerminalIsFinal

\* The service implements the lifecycle of a turn: a turn changes hands only through a
\* state in which nobody holds it, it ends once, and its transcript only grows.
THEOREM ServiceImplementsLifecycle == ServiceSpec => ImplementsLifecycle
<1>1. ServiceInit => Lifecycle!Init
  BY StoreAssumption
     DEF ServiceInit, StoreInit, Lifecycle!Init, phaseBar, PhaseOf, Recoverable, Terminal
<1>2. TypeInv /\ StoreTypeOK /\ [TypeInv => StoreStep]_storeVars
        => [Lifecycle!Next]_(Lifecycle!lifecycleVars)
  BY TransactionIsLifecycleStep DEF LifecycleStep, Lifecycle!lifecycleVars
<1>3. QED
  BY <1>1, <1>2, ServiceStays, PTL DEF ServiceSpec, ImplementsLifecycle, Lifecycle!Spec

-----------------------------------------------------------------------------
(* The steps of a worker between two transactions of the turn table, by what *)
(* they do to its place, its record of the call and the checkpoint.          *)

Done == {"started", "unknown", "completed", "failed"}

\* What no step of a call changes of a worker that is not a stream.
Kept(w, v) ==
    /\ v.turn = wk[w].turn /\ v.mode = wk[w].mode /\ v.beating = wk[w].beating
    /\ v.exc = wk[w].exc \/ wk[w].mode = "stream"

\* The record r that a step writes with a checkpoint, and the state s that it leaves in
\* memory, before it goes on at label.
Writes(w, s, r, label) ==
    \/ /\ wk[w].pc \in {"loop_start", "step", "merge", "pause_final", "hydrate"}
       /\ label \in {"step", "final_sync", "pause_final", "loop_start"}
       /\ s.rec = wk[w].st.rec /\ r = s.rec
    \/ /\ wk[w].pc = "step" /\ label = "start"
       /\ s = wk[w].st /\ MayPrepare(s) /\ r = "prepared"
    \/ /\ wk[w].pc = "start" /\ label = "invoke"
       /\ s = wk[w].st /\ r = "started"
    \/ /\ wk[w].pc = "outcome" /\ label \in {"merge", "cancelled"}
       /\ s.rec = r /\ r \in {"unknown", "completed", "failed"}
    \/ /\ wk[w].pc = "load" /\ label = "manifest"
       /\ s.rec = r /\ r = "unknown"
    \/ /\ wk[w].pc = "manifest" /\ Drifts # {"match"}
       /\ label = "leave" \/ (label = "claim" /\ wk[w].mode # "observe")
       /\ s.rec = r /\ (wk[w].st.rec \in Done => r \in Done)
    \/ /\ wk[w].pc = "apply" /\ label = "hydrate"
       /\ s.rec = r /\ (cp[wk[w].turn].rec \in Done => r \in Done)

Saves(w) ==
    \E u \in WorkerRecords, snap \in LoopStates, label \in Labels :
        /\ Persist(w, u, snap, label)
        /\ Kept(w, u) /\ Writes(w, u.st, snap.rec, label)

\* A step that saves nothing.
Moves(w, v) ==
    /\ v \in WorkerRecords /\ wk' = [wk EXCEPT ![w] = v] /\ cp' = cp
    /\ \/ v = IdleWorker
       \/ /\ Kept(w, v)
          /\ \/ /\ wk[w].pc = "load" /\ v.pc = "manifest"
                /\ cp[wk[w].turn] # NoState /\ v.st = cp[wk[w].turn]
             \/ /\ wk[w].pc = "manifest" /\ v.st = wk[w].st
                /\ v.pc = "leave" \/ (v.pc = "claim" /\ wk[w].mode # "observe")
             \/ /\ wk[w].pc = "apply" /\ v.pc = "hydrate" /\ v.st.rec = wk[w].st.rec
             \/ /\ wk[w].pc # "outcome"
                /\ Claimed(w) \/ (wk[w].mode = "observe" /\ wk[w].pc \in {"apply", "hydrate"})
                /\ v.pc \in {"error", "cancelled"} /\ v.st = wk[w].st

\* The steps of Writes, one by one.
LEMMA LoopSaves ==
  ASSUME TypeInv, NEW w \in Workers,
         \/ LoopStart(w) \/ ScheduleCall(w) \/ ModelPause(w)
         \/ \E v \in Terminal : EndLoop(w, v)
         \/ PauseForApproval(w) \/ RecordResult(w) \/ PauseForReconciliation(w) \/ PauseFinal(w)
  PROVE  Saves(w)
<1>1. wk[w].pc \in {"loop_start", "step", "merge", "pause_final"}
  BY DEF LoopStart, ScheduleCall, ModelPause, EndLoop, PauseForApproval, RecordResult,
         PauseForReconciliation, Looping, PauseFinal
<1>2. wk[w] \in WorkerRecords /\ wk[w].st \in LoopStates /\ requests \in Nat
  BY <1>1, TypeParts DEF TypeInv, Equipped, Free
<1>3. ASSUME NEW s \in LoopStates, s.rec = wk[w].st.rec,
             NEW label \in {"step", "final_sync", "pause_final"}, Save(w, s, label)
      PROVE  Saves(w)
  <2>1. PICK u : u = With(w, s)
    OBVIOUS
  <2>2. u \in WorkerRecords /\ Kept(w, u) /\ u.st = s
    BY <1>2, <2>1 DEF With, WorkerRecords, Kept
  <2>3. Persist(w, u, s, label) /\ Writes(w, u.st, s.rec, label) /\ label \in Labels
    BY <1>1, <1>3, <2>1, <2>2 DEF Save, Writes, Labels, Awaiting
  <2>4. QED
    BY <1>3, <2>2, <2>3 DEF Saves
<1>4. CASE LoopStart(w)
  BY <1>2, <1>3, <1>4 DEF LoopStart
<1>5. CASE ScheduleCall(w) \/ RecordResult(w)
  <2>1. PICK x \in {"tool", "answer"}, k \in {"call", "result"} :
           Save(w, Say([wk[w].st EXCEPT !.stage = x], w, k), "step")
    BY <1>5 DEF ScheduleCall, RecordResult
  <2>2. PICK s : s = [wk[w].st EXCEPT !.stage = x]
    OBVIOUS
  <2>3. s \in LoopStates /\ s.rec = wk[w].st.rec
    BY <1>2, <2>2 DEF LoopStates
  <2>4. PICK r : r = Say(s, w, k)
    OBVIOUS
  <2>0. k \in {"call", "result", "reply", "input"}
    OBVIOUS
  <2>5. r \in LoopStates /\ r.rec = s.rec
    BY <2>0, <2>3, <2>4, SayFacts
  <2>6. QED
    BY <1>3, <2>1, <2>2, <2>3, <2>4, <2>5
<1>6. CASE ModelPause(w)
  <2>1. PICK s : s = [wk[w].st EXCEPT !.status = "paused"]
    OBVIOUS
  <2>2. s \in LoopStates /\ s.rec = wk[w].st.rec
    BY <1>2, <2>1 DEF LoopStates
  <2>3. QED
    BY <1>3, <1>6, <2>1, <2>2 DEF ModelPause
<1>7. ASSUME NEW v \in Terminal, EndLoop(w, v)
      PROVE  Saves(w)
  <2>1. PICK s : s = [wk[w].st EXCEPT !.status = v]
    OBVIOUS
  <2>2. s \in LoopStates /\ s.rec = wk[w].st.rec
    BY <1>2, <2>1 DEF LoopStates
  <2>3. PICK r : r = Say(s, w, "reply")
    OBVIOUS
  <2>4. r \in LoopStates /\ r.rec = s.rec
    BY <2>2, <2>3, SayFacts
  <2>5. Save(w, r, "final_sync") \/ Save(w, s, "final_sync")
    BY <1>7, <2>1, <2>3 DEF EndLoop
  <2>6. QED
    BY <1>3, <2>2, <2>4, <2>5
<1>8. CASE PauseForApproval(w)
  <2>1. PICK r : r = PausedFor(wk[w].st, "approval")
    OBVIOUS
  <2>2. r \in LoopStates /\ r.rec = wk[w].st.rec
    BY <1>2, <2>1, RequestFacts
  <2>3. QED
    BY <1>3, <1>8, <2>1, <2>2 DEF PauseForApproval
<1>9. CASE PauseForReconciliation(w)
  <2>1. PICK s : s = Say(wk[w].st, w, "result")
    OBVIOUS
  <2>2. s \in LoopStates /\ s.rec = wk[w].st.rec
    BY <1>2, <2>1, SayFacts
  <2>3. PICK r : r = PausedFor(s, "reconciliation")
    OBVIOUS
  <2>4. r \in LoopStates /\ r.rec = s.rec
    BY <1>2, <2>2, <2>3, RequestFacts
  <2>5. QED
    BY <1>3, <1>9, <2>1, <2>2, <2>3, <2>4 DEF PauseForReconciliation
<1>10. CASE PauseFinal(w)
  <2>1. PICK u : u = [wk[w] EXCEPT !.closing = TRUE]
    OBVIOUS
  <2>2. u \in WorkerRecords /\ Kept(w, u) /\ u.st = wk[w].st
    BY <1>2, <2>1 DEF WorkerRecords, Kept
  <2>3. Persist(w, u, wk[w].st, "final_sync") /\ Writes(w, u.st, wk[w].st.rec, "final_sync")
        /\ "final_sync" \in Labels
    BY <1>1, <1>10, <2>1, <2>2 DEF PauseFinal, Writes, Labels
  <2>4. QED
    BY <1>2, <2>2, <2>3 DEF Saves
<1>11. QED
  BY <1>4, <1>5, <1>6, <1>7, <1>8, <1>9, <1>10

LEMMA CallSaves ==
  ASSUME TypeInv, NEW w \in Workers,
         \/ PrepareCall(w) \/ StartCall(w)
         \/ \E o \in Outcomes : ToolReturns(w, o)
         \/ ToolCancelled(w)
  PROVE  Saves(w)
<1>1. wk[w].pc \in {"step", "start", "outcome"}
  BY DEF PrepareCall, StartCall, ToolReturns, ToolCancelled, Looping
<1>2. wk[w] \in WorkerRecords /\ wk[w].st \in LoopStates /\ wk[w].cache \in LoopStates
  BY <1>1, TypeParts DEF TypeInv, Equipped, Free, WithCache
<1>3. ASSUME NEW u \in WorkerRecords, Kept(w, u),
             NEW r \in {"prepared", "started", "unknown", "completed", "failed"},
             NEW label \in {"start", "invoke", "merge", "cancelled"},
             PersistRecord(w, u, r, label), Writes(w, u.st, r, label)
      PROVE  Saves(w)
  <2>1. PICK snap : snap = [wk[w].cache EXCEPT !.rec = r]
    OBVIOUS
  <2>2. snap \in LoopStates /\ snap.rec = r
    BY <1>2, <2>1 DEF LoopStates
  <2>3. Persist(w, u, snap, label) /\ label \in Labels
    BY <1>3, <2>1 DEF PersistRecord, Labels, Awaiting
  <2>4. QED
    BY <1>3, <2>2, <2>3 DEF Saves
<1>4. Kept(w, wk[w])
  BY DEF Kept
<1>5. CASE PrepareCall(w)
  <2>1. /\ PersistRecord(w, wk[w], "prepared", "start")
        /\ wk[w].pc = "step" /\ MayPrepare(wk[w].st)
    BY <1>5 DEF PrepareCall, Looping
  <2>2. Writes(w, wk[w].st, "prepared", "start")
    BY <2>1 DEF Writes
  <2>3. QED
    BY <1>2, <1>3, <1>4, <2>1, <2>2
<1>6. CASE StartCall(w)
  <2>1. PersistRecord(w, wk[w], "started", "invoke") /\ Writes(w, wk[w].st, "started", "invoke")
    BY <1>6 DEF StartCall, Writes
  <2>2. QED
    BY <1>2, <1>3, <1>4, <2>1
<1>7. ASSUME NEW u, NEW r \in {"unknown", "completed", "failed"}, NEW c \in BOOLEAN,
             NEW x \in {"none", "error", "cancelled"}, x = wk[w].exc \/ wk[w].mode = "stream",
             NEW s, s = [wk[w].st EXCEPT !.rec = r],
             u = [wk[w] EXCEPT !.st = s, !.cancelled = c, !.exc = x],
             NEW label \in {"merge", "cancelled"}, PersistRecord(w, u, r, label), wk[w].pc = "outcome"
      PROVE  Saves(w)
  <2>1. s \in LoopStates /\ s.rec = r
    BY <1>2, <1>7 DEF LoopStates
  <2>2. u \in WorkerRecords /\ u.st = s /\ Kept(w, u)
    BY <1>2, <1>7, <2>1 DEF WorkerRecords, Kept
  <2>3. Writes(w, u.st, r, label)
    BY <1>7, <2>1, <2>2 DEF Writes
  <2>4. QED
    BY <1>3, <1>7, <2>2, <2>3
<1>8. ASSUME NEW o \in Outcomes, ToolReturns(w, o)
      PROVE  Saves(w)
  <2>1. o \in {"unknown", "completed", "failed"}
    BY DEF Outcomes
  <2>2. PICK s : s = [wk[w].st EXCEPT !.rec = o]
    OBVIOUS
  <2>3. PICK u : u = [wk[w] EXCEPT !.st = s, !.cancelled = wk[w].cancelled, !.exc = wk[w].exc]
    OBVIOUS
  <2>4. u = With(w, s) /\ wk[w].exc \in {"none", "error", "cancelled"} /\ wk[w].cancelled \in BOOLEAN
    BY <1>2, <2>3 DEF With, WorkerRecords
  <2>5. PersistRecord(w, u, o, "merge") /\ wk[w].pc = "outcome"
    BY <1>8, <2>2, <2>4 DEF ToolReturns
  <2>6. QED
    BY <1>7, <2>1, <2>2, <2>3, <2>4, <2>5
<1>9. CASE ToolCancelled(w)
  <2>1. wk[w].pc = "outcome" /\ wk[w].exc \in {"none", "error", "cancelled"}
    BY <1>2, <1>9 DEF ToolCancelled, WorkerRecords
  <2>2. CASE RemoteTool
    <3>1. PICK s : s = [wk[w].st EXCEPT !.rec = "unknown"]
      OBVIOUS
    <3>2. PICK x : x = IF wk[w].mode = "stream" THEN "cancelled" ELSE wk[w].exc
      OBVIOUS
    <3>3. PICK u : u = [wk[w] EXCEPT !.st.rec = "unknown", !.cancelled = FALSE, !.exc = x]
      OBVIOUS
    <3>4. u = [wk[w] EXCEPT !.st = s, !.cancelled = FALSE, !.exc = x]
      BY <1>2, <3>1, <3>3 DEF WorkerRecords
    <3>5. PersistRecord(w, u, "unknown", "merge")
      BY <1>9, <2>2, <3>2, <3>3 DEF ToolCancelled
    <3>6. x \in {"none", "error", "cancelled"} /\ (x = wk[w].exc \/ wk[w].mode = "stream")
      BY <2>1, <3>2
    <3>7. QED
      BY <1>7, <2>1, <3>1, <3>4, <3>5, <3>6
  <2>3. CASE ~RemoteTool
    <3>1. PICK s : s = [wk[w].st EXCEPT !.rec = "failed"]
      OBVIOUS
    <3>2. PICK u : u = [wk[w] EXCEPT !.st.rec = "failed", !.cancelled = FALSE]
      OBVIOUS
    <3>3. u = [wk[w] EXCEPT !.st = s, !.cancelled = FALSE, !.exc = wk[w].exc]
      BY <1>2, <3>1, <3>2 DEF WorkerRecords
    <3>4. PersistRecord(w, u, "failed", "cancelled")
      BY <1>9, <2>3, <3>2 DEF ToolCancelled
    <3>5. QED
      BY <1>7, <2>1, <3>1, <3>3, <3>4
  <2>4. QED BY <2>2, <2>3
<1>10. QED
  BY <1>5, <1>6, <1>8, <1>9

LEMMA LoadShape ==
  ASSUME TypeInv, NEW w \in Workers, LoadForResume(w)
  PROVE  Saves(w) \/ \E v : Moves(w, v)
<1>1. /\ wk[w].pc = "load" /\ InCall(w) /\ wk[w] \in WorkerRecords /\ wk[w].turn \in Turns
      /\ wk \in [Workers -> WorkerRecords] /\ requests \in Nat
  BY TypeParts DEF LoadForResume, InCall
<1>2. PICK s : s = cp[wk[w].turn]
  OBVIOUS
<1>3. CASE s = NoState
  <2>1. wk' = [wk EXCEPT ![w] = IdleWorker] /\ cp' = cp
    BY <1>2, <1>3 DEF LoadForResume, Leave
  <2>2. QED
    BY <2>1, FreeWorker DEF Moves
<1>4. CASE s # NoState /\ Ambiguous(s)
  <2>1. s \in LoopStates
    BY <1>1, <1>2, <1>4, TypeParts
  <2>2. PICK q : q = PausedFor(s, "reconciliation")
    OBVIOUS
  <2>3. q \in LoopStates
    BY <1>1, <2>1, <2>2, RequestFacts
  <2>4. PICK r : r = [q EXCEPT !.rec = "unknown"]
    OBVIOUS
  <2>5. r \in LoopStates /\ r.rec = "unknown"
    BY <2>3, <2>4 DEF LoopStates
  <2>6. Save(w, r, "manifest")
    BY <1>2, <1>4, <2>2, <2>4 DEF LoadForResume
  <2>7. PICK u : u = With(w, r)
    OBVIOUS
  <2>8. u \in WorkerRecords /\ Kept(w, u) /\ u.st = r
    BY <1>1, <2>5, <2>7 DEF With, WorkerRecords, Kept
  <2>9. Persist(w, u, r, "manifest") /\ "manifest" \in Labels
    BY <2>6, <2>7 DEF Save, Labels, Unclaimed
  <2>10. Writes(w, u.st, r.rec, "manifest")
    BY <1>1, <2>5, <2>8 DEF Writes
  <2>11. QED
    BY <2>5, <2>8, <2>9, <2>10 DEF Saves
<1>5. CASE s # NoState /\ ~Ambiguous(s)
  <2>1. s \in LoopStates
    BY <1>1, <1>2, <1>5, TypeParts
  <2>2. PICK v : v = [wk[w] EXCEPT !.st = s, !.cache = s, !.pc = "manifest"]
    OBVIOUS
  <2>3. v \in WorkerRecords /\ Kept(w, v) /\ v.st = s /\ v.pc = "manifest"
    BY <1>1, <2>1, <2>2 DEF WorkerRecords, Labels, Unclaimed, Kept
  <2>4. wk' = [wk EXCEPT ![w].st = s, ![w].cache = s, ![w].pc = "manifest"] /\ cp' = cp
    BY <1>2, <1>5 DEF LoadForResume
  <2>5. wk' = [wk EXCEPT ![w] = v]
    BY <1>1, <2>2, <2>4
  <2>6. QED
    BY <1>1, <1>2, <1>5, <2>3, <2>4, <2>5 DEF Moves
<1>6. QED BY <1>3, <1>4, <1>5

LEMMA ManifestShape ==
  ASSUME TypeInv, NEW w \in Workers, NEW a \in Actions, NEW d \in Drifts,
         ReconcileManifest(w, a, d)
  PROVE  Saves(w) \/ \E v : Moves(w, v)
<1>1. /\ wk[w].pc = "manifest" /\ InCall(w) /\ wk[w] \in WorkerRecords
      /\ wk \in [Workers -> WorkerRecords] /\ requests \in Nat /\ wk[w].st \in LoopStates
  BY TypeParts DEF ReconcileManifest, InCall, TypeInv, Equipped, Free
<1>2. PICK s : s = wk[w].st
  OBVIOUS
<1>3. PICK done : done = IF wk[w].mode = "observe" \/ a = "refused" THEN "leave" ELSE "claim"
  OBVIOUS
<1>4. /\ done \in Labels /\ "leave" \in Labels
      /\ done = "leave" \/ (done = "claim" /\ wk[w].mode # "observe")
  BY <1>3 DEF Labels, Unclaimed
<1>5. PICK u : u = [wk[w] EXCEPT !.action = a]
  OBVIOUS
<1>6. u \in WorkerRecords /\ Kept(w, u) /\ u.st = s
  BY <1>1, <1>2, <1>5 DEF WorkerRecords, Kept
<1>7. ASSUME d # "match", NEW v \in WorkerRecords, Kept(w, v), v.st \in LoopStates,
             s.rec \in Done => v.st.rec \in Done,
             NEW label \in {"leave", done}, Persist(w, v, v.st, label)
      PROVE  Saves(w)
  <2>1. Writes(w, v.st, v.st.rec, label)
    BY <1>1, <1>2, <1>4, <1>7 DEF Writes
  <2>2. QED
    BY <1>4, <1>7, <2>1 DEF Saves
<1>8. CASE d = "match"
  <2>1. PICK v : v = [u EXCEPT !.pc = done]
    OBVIOUS
  <2>2. v \in WorkerRecords /\ Kept(w, v) /\ v.st = s /\ v.pc = done
    BY <1>4, <1>6, <2>1 DEF WorkerRecords, Kept
  <2>3. wk' = [wk EXCEPT ![w] = v] /\ cp' = cp
    BY <1>3, <1>5, <1>8, <2>1 DEF ReconcileManifest
  <2>4. QED
    BY <1>1, <1>2, <1>4, <2>2, <2>3 DEF Moves
<1>9. CASE d = "revision"
  <2>1. Persist(w, u, s, done)
    BY <1>2, <1>3, <1>5, <1>9 DEF ReconcileManifest
  <2>2. QED
    BY <1>1, <1>2, <1>6, <1>7, <1>9, <2>1
<1>10. CASE d \notin {"match", "revision"}
  <2>1. PICK q : q = PausedFor(s, "drift")
    OBVIOUS
  <2>2. q \in LoopStates /\ q.rec = s.rec
    BY <1>1, <1>2, <2>1, RequestFacts
  <2>3. PICK x : x = Drifted(s, d)
    OBVIOUS
  <2>4. PICK y : y = IF s.rec = "none" /\ d = "changed" THEN "prepared" ELSE q.rec
    OBVIOUS
  <2>5. y \in {"none", "prepared", "started", "unknown", "completed", "failed"}
        /\ (s.rec \in Done => y \in Done)
    BY <2>2, <2>4 DEF LoopStates, Done
  <2>6. x = [q EXCEPT !.rec = y]
    BY <2>1, <2>3, <2>4 DEF Drifted
  <2>7. x \in LoopStates /\ x.rec = y
    BY <2>2, <2>5, <2>6 DEF LoopStates
  <2>8. PICK v : v = [u EXCEPT !.st = x]
    OBVIOUS
  <2>9. v \in WorkerRecords /\ Kept(w, v) /\ v.st = x
    BY <1>6, <2>7, <2>8 DEF WorkerRecords, Kept
  <2>10. Persist(w, v, x, "leave")
    <3>1. Persist(w, [u EXCEPT !.st = Drifted(s, d)], Drifted(s, d), "leave")
      BY <1>2, <1>5, <1>10 DEF ReconcileManifest
    <3>2. QED
      BY <2>3, <2>8, <3>1
  <2>11. QED
    BY <1>7, <1>10, <2>5, <2>7, <2>9, <2>10
<1>11. QED
  BY <1>8, <1>9, <1>10

LEMMA AnswerRecord ==
  ASSUME NEW s \in LoopStates, NEW a
  PROVE  /\ Answered(s, a) \in LoopStates
         /\ a \in {"continue", "abort"} => Answered(s, a).rec = s.rec
         /\ s.rec \in Done => Answered(s, a).rec \in Done
<1>1. PICK r : r = CASE a = "mark_completed" -> "completed"
                     [] a = "mark_failed" /\ s.rec # "none" -> "failed"
                     [] OTHER -> s.rec
  OBVIOUS
<1>2. (a \in {"continue", "abort"} => r = s.rec) /\ (s.rec \in Done => r \in Done)
  BY <1>1 DEF Done
<1>3. Answered(s, a).rec = r
  BY <1>1 DEF Answered, LoopStates
<1>4. QED
  BY <1>2, <1>3, AnswerFacts

LEMMA AnswerShape ==
  ASSUME TypeInv, NEW w \in Workers, ApplyResponse(w)
  PROVE  Saves(w) \/ \E v : Moves(w, v)
<1>1. /\ wk[w].pc = "apply" /\ InCall(w) /\ wk[w] \in WorkerRecords
      /\ wk \in [Workers -> WorkerRecords] /\ wk[w].st \in LoopStates
      /\ cp[wk[w].turn] \in LoopStates /\ (Claimed(w) \/ wk[w].mode = "observe")
  BY TypeParts DEF ApplyResponse, InCall, TypeInv, Equipped, Free, Resuming, Claimed, Unclaimed
<1>2. PICK s : s = cp[wk[w].turn]
  OBVIOUS
<1>3. PICK a : a = wk[w].action
  OBVIOUS
<1>4. CASE a \in {"continue", "abort"}
  <2>1. PICK x : x = Answered(wk[w].st, a)
    OBVIOUS
  <2>2. x \in LoopStates /\ x.rec = wk[w].st.rec
    BY <1>1, <1>4, <2>1, AnswerRecord
  <2>3. PICK v : v = [wk[w] EXCEPT !.st = x, !.pc = "hydrate"]
    OBVIOUS
  <2>4. v \in WorkerRecords /\ Kept(w, v) /\ v.st = x /\ v.pc = "hydrate"
    BY <1>1, <2>2, <2>3 DEF WorkerRecords, Labels, Kept
  <2>5. wk' = [wk EXCEPT ![w].st = x, ![w].pc = "hydrate"] /\ cp' = cp
    BY <1>3, <1>4, <2>1 DEF ApplyResponse
  <2>6. wk' = [wk EXCEPT ![w] = v]
    BY <1>1, <2>3, <2>5
  <2>7. QED
    BY <1>1, <2>2, <2>4, <2>5, <2>6 DEF Moves
<1>5. CASE a \notin {"continue", "abort"} /\ s.req # NoRequest /\ s.req = wk[w].st.req
  <2>1. PICK x : x = Answered(s, a)
    OBVIOUS
  <2>2. x \in LoopStates /\ (s.rec \in Done => x.rec \in Done)
    BY <1>1, <1>2, <2>1, AnswerRecord
  <2>3. Save(w, x, "hydrate")
    BY <1>2, <1>3, <1>5, <2>1 DEF ApplyResponse
  <2>4. PICK u : u = With(w, x)
    OBVIOUS
  <2>5. u \in WorkerRecords /\ Kept(w, u) /\ u.st = x
    BY <1>1, <2>2, <2>4 DEF With, WorkerRecords, Kept
  <2>6. Persist(w, u, x, "hydrate") /\ "hydrate" \in Labels
    BY <2>3, <2>4 DEF Save, Labels
  <2>7. Writes(w, u.st, x.rec, "hydrate")
    BY <1>1, <1>2, <2>2, <2>5 DEF Writes
  <2>8. QED
    BY <2>2, <2>5, <2>6, <2>7 DEF Saves
<1>6. CASE a \notin {"continue", "abort"} /\ (s.req = NoRequest \/ s.req # wk[w].st.req)
  <2>1. wk' = [wk EXCEPT ![w].pc = "error"] /\ cp' = cp
    BY <1>2, <1>3, <1>6 DEF ApplyResponse, Become
  <2>2. PICK v : v = [wk[w] EXCEPT !.pc = "error"]
    OBVIOUS
  <2>3. v \in WorkerRecords /\ Kept(w, v) /\ v.st = wk[w].st /\ v.pc = "error"
    BY <1>1, <2>2 DEF WorkerRecords, Labels, Kept
  <2>4. wk' = [wk EXCEPT ![w] = v]
    BY <1>1, <2>1, <2>2
  <2>5. QED
    BY <1>1, <2>1, <2>3, <2>4 DEF Moves
<1>7. QED BY <1>4, <1>5, <1>6

LEMMA HydrateShape ==
  ASSUME TypeInv, NEW w \in Workers, NEW said \in BOOLEAN, Hydrate(w, said)
  PROVE  Saves(w) \/ \E v : Moves(w, v)
<1>1. /\ wk[w].pc = "hydrate" /\ InCall(w) /\ wk[w] \in WorkerRecords /\ wk[w].turn \in Turns
      /\ wk \in [Workers -> WorkerRecords] /\ wk[w].st \in LoopStates
      /\ (Claimed(w) \/ wk[w].mode = "observe")
  BY TypeParts DEF Hydrate, InCall, TypeInv, Equipped, Free, Claimed, Unclaimed
<1>2. PICK log : log = IF IsPrefix(history[wk[w].turn], wk[w].st.log) THEN wk[w].st.log
                                                                  ELSE history[wk[w].turn]
  OBVIOUS
<1>3. log \in Seq(Messages)
  BY <1>1, <1>2, TypeParts DEF LoopStates, StoreTypeOK
<1>4. PICK h : h = [wk[w].st EXCEPT !.log = log]
  OBVIOUS
<1>5. h \in LoopStates /\ h.rec = wk[w].st.rec
  BY <1>1, <1>3, <1>4 DEF LoopStates
<1>6. ASSUME NEW s \in LoopStates, s.rec = wk[w].st.rec, NEW label \in {"final_sync", "loop_start"},
             Save(w, s, label)
      PROVE  Saves(w)
  <2>1. PICK u : u = With(w, s)
    OBVIOUS
  <2>2. u \in WorkerRecords /\ Kept(w, u) /\ u.st = s
    BY <1>1, <2>1 DEF With, WorkerRecords, Kept
  <2>3. Persist(w, u, s, label) /\ Writes(w, u.st, s.rec, label) /\ label \in Labels
    BY <1>1, <1>6, <2>1, <2>2 DEF Save, Writes, Labels, Awaiting
  <2>4. QED
    BY <1>6, <2>2, <2>3 DEF Saves
<1>7. CASE ~IsPrefix(history[wk[w].turn], wk[w].st.log) /\ ~IsPrefix(wk[w].st.log, history[wk[w].turn])
  <2>1. wk' = [wk EXCEPT ![w].pc = "error"] /\ cp' = cp
    BY <1>7 DEF Hydrate, Become
  <2>2. PICK v : v = [wk[w] EXCEPT !.pc = "error"]
    OBVIOUS
  <2>3. v \in WorkerRecords /\ Kept(w, v) /\ v.st = wk[w].st /\ v.pc = "error"
    BY <1>1, <2>2 DEF WorkerRecords, Labels, Kept
  <2>4. wk' = [wk EXCEPT ![w] = v]
    BY <1>1, <2>1, <2>2
  <2>5. QED
    BY <1>1, <2>1, <2>3, <2>4 DEF Moves
<1>8. CASE ~(~IsPrefix(history[wk[w].turn], wk[w].st.log) /\ ~IsPrefix(wk[w].st.log, history[wk[w].turn]))
  <2>1. CASE wk[w].action = "abort"
    <3>1. PICK s : s = [h EXCEPT !.status = "failed"]
      OBVIOUS
    <3>2. s \in LoopStates /\ s.rec = wk[w].st.rec
      BY <1>5, <3>1 DEF LoopStates, Terminal
    <3>3. Save(w, s, "final_sync")
      BY <1>2, <1>4, <1>8, <2>1, <3>1 DEF Hydrate
    <3>4. QED
      BY <1>6, <3>2, <3>3
  <2>2. CASE wk[w].action # "abort"
    <3>1. Save(w, IF said THEN Say(h, w, "input") ELSE h, "loop_start")
      BY <1>2, <1>4, <1>8, <2>2 DEF Hydrate
    <3>2. PICK s : s = Say(h, w, "input")
      OBVIOUS
    <3>3. s \in LoopStates /\ s.rec = wk[w].st.rec
      BY <1>5, <3>2, SayFacts
    <3>4. Save(w, s, "loop_start") \/ Save(w, h, "loop_start")
      BY <3>1, <3>2
    <3>5. QED
      BY <1>5, <1>6, <3>3, <3>4
  <2>3. QED BY <2>1, <2>2
<1>9. QED BY <1>7, <1>8

LEMMA InterruptShape ==
  ASSUME TypeInv, NEW w \in Workers, CancelDelivered(w) \/ StepRaises(w) \/ Return(w)
  PROVE  \E v : Moves(w, v)
<1>1. wk \in [Workers -> WorkerRecords] /\ wk[w] \in WorkerRecords
  BY TypeParts
<1>2. CASE Return(w)
  <2>1. wk' = [wk EXCEPT ![w] = IdleWorker] /\ cp' = cp
    BY <1>2 DEF Return, Leave
  <2>2. QED
    BY <2>1, FreeWorker DEF Moves
<1>3. CASE CancelDelivered(w) \/ StepRaises(w)
  <2>1. PICK x \in {"error", "cancelled"} : wk' = [wk EXCEPT ![w].pc = x]
    BY <1>3 DEF CancelDelivered, StepRaises, Become
  <2>2. cp' = cp /\ Claimed(w) /\ wk[w].pc # "outcome"
    BY <1>3 DEF CancelDelivered, StepRaises, FaultFrame, Awaiting
  <2>3. PICK v : v = [wk[w] EXCEPT !.pc = x]
    OBVIOUS
  <2>4. v \in WorkerRecords /\ Kept(w, v) /\ v.st = wk[w].st /\ v.pc = x
    BY <1>1, <2>3 DEF WorkerRecords, Labels, Kept
  <2>5. wk' = [wk EXCEPT ![w] = v]
    BY <1>1, <2>1, <2>3
  <2>6. QED
    BY <2>2, <2>4, <2>5 DEF Moves
<1>4. QED BY <1>2, <1>3

\* Every step of a worker saves, moves, touches the turn table or runs the tool.
LEMMA WorkerShape ==
  ASSUME TypeInv, NEW w \in Workers, WorkerStep(w) \/ StepRaises(w)
  PROVE  \/ Saves(w) /\ UNCHANGED <<storeVars, effects>>
         \/ (\E v : Moves(w, v)) /\ UNCHANGED <<storeVars, effects>>
         \/ SyncSink(w) \/ InvokeTool(w) \/ FinalSync(w) \/ FinalMark(w) \/ StreamFinally(w)
         \/ Unwind(w) \/ Claim(w)
<1>1. CASE \/ LoopStart(w) \/ ScheduleCall(w) \/ ModelPause(w)
           \/ \E v \in Terminal : EndLoop(w, v)
           \/ PauseForApproval(w) \/ RecordResult(w) \/ PauseForReconciliation(w) \/ PauseFinal(w)
  <2>1. UNCHANGED <<storeVars, effects>>
    BY <1>1 DEF LoopStart, ScheduleCall, ModelPause, EndLoop, PauseForApproval, RecordResult,
                PauseForReconciliation, PauseFinal, LoopFrame, worldVars
  <2>2. QED BY <1>1, <2>1, LoopSaves
<1>2. CASE \/ PrepareCall(w) \/ StartCall(w)
           \/ \E o \in Outcomes : ToolReturns(w, o)
           \/ ToolCancelled(w)
  <2>1. UNCHANGED <<storeVars, effects>>
    BY <1>2 DEF PrepareCall, StartCall, ToolReturns, ToolCancelled, LoopFrame, worldVars
  <2>2. QED BY <1>2, <2>1, CallSaves
<1>3. CASE LoadForResume(w)
  BY <1>3, LoadShape DEF LoadForResume, LoopFrame, worldVars
<1>4. ASSUME NEW a \in Actions, NEW d \in Drifts, ReconcileManifest(w, a, d)
      PROVE  (Saves(w) \/ \E v : Moves(w, v)) /\ UNCHANGED <<storeVars, effects>>
  BY <1>4, ManifestShape DEF ReconcileManifest, LoopFrame, worldVars
<1>5. CASE ApplyResponse(w)
  BY <1>5, AnswerShape DEF ApplyResponse
<1>6. ASSUME NEW said \in BOOLEAN, Hydrate(w, said)
      PROVE  (Saves(w) \/ \E v : Moves(w, v)) /\ UNCHANGED <<storeVars, effects>>
  BY <1>6, HydrateShape DEF Hydrate, LoopFrame, worldVars
<1>7. CASE CancelDelivered(w) \/ StepRaises(w) \/ Return(w)
  BY <1>7, InterruptShape DEF CancelDelivered, StepRaises, Return, FaultFrame, worldVars
<1>8. QED
  BY <1>1, <1>2, <1>3, <1>4, <1>5, <1>6, <1>7, Zenon DEF WorkerStep

\* The ways a save ends: the snapshot sink is next, or a handler, or nothing.
LEMMA SaveShape ==
  ASSUME TypeInv, NEW w \in Workers, Saves(w)
  PROVE  \E s \in LoopStates \cup {NoState}, snap \in LoopStates, label \in Labels, v \in WorkerRecords :
           /\ Writes(w, s, snap.rec, label) /\ wk' = [wk EXCEPT ![w] = v]
           /\ \/ /\ cp' = [cp EXCEPT ![wk[w].turn] = snap]
                 /\ Kept(w, v) /\ v.st = s /\ v.pc = "sync" /\ v.next = label
              \/ /\ cp' = cp /\ Claimed(w)
                 /\ Kept(w, v) /\ v.st = s /\ v.pc \in {"error", "cancelled"}
              \/ cp' = cp /\ v = IdleWorker
<1>1. PICK u \in WorkerRecords, snap \in LoopStates, label \in Labels :
         /\ Persist(w, u, snap, label)
         /\ Kept(w, u) /\ Writes(w, u.st, snap.rec, label)
  BY DEF Saves
<1>2. u.st \in LoopStates \cup {NoState}
  BY DEF WorkerRecords
<1>3. CASE /\ cp' = [cp EXCEPT ![wk[w].turn] = snap]
           /\ wk' = [wk EXCEPT ![w] = [u EXCEPT !.cache = snap, !.pc = "sync", !.next = label]]
  <2>1. PICK v : v = [u EXCEPT !.cache = snap, !.pc = "sync", !.next = label]
    OBVIOUS
  <2>2. /\ v \in WorkerRecords /\ v.st = u.st /\ v.pc = "sync" /\ v.next = label
        /\ v.turn = u.turn /\ v.mode = u.mode /\ v.beating = u.beating /\ v.exc = u.exc
    BY <2>1 DEF WorkerRecords, Labels, Awaiting
  <2>3. Kept(w, v)
    BY <1>1, <2>2 DEF Kept
  <2>4. wk' = [wk EXCEPT ![w] = v]
    BY <1>3, <2>1
  <2>5. QED
    BY <1>1, <1>2, <1>3, <2>2, <2>3, <2>4
<1>4. ASSUME NEW x \in {"error", "cancelled"}, cp' = cp, wk' = [wk EXCEPT ![w] = Raised(w, u, x)]
      PROVE  \E v \in WorkerRecords :
                /\ cp' = cp /\ wk' = [wk EXCEPT ![w] = v]
                /\ \/ /\ Claimed(w) /\ Kept(w, v) /\ v.st = u.st /\ v.pc \in {"error", "cancelled"}
                   \/ v = IdleWorker
  <2>1. CASE Claimed(w)
    <3>1. PICK v : v = [u EXCEPT !.pc = x]
      OBVIOUS
    <3>2. /\ v \in WorkerRecords /\ v.st = u.st /\ v.pc = x
          /\ v.turn = u.turn /\ v.mode = u.mode /\ v.beating = u.beating /\ v.exc = u.exc
      BY <3>1 DEF WorkerRecords, Labels
    <3>3. Kept(w, v) /\ wk' = [wk EXCEPT ![w] = v]
      BY <1>1, <1>4, <2>1, <3>1, <3>2 DEF Kept, Raised
    <3>4. QED
      BY <1>4, <2>1, <3>2, <3>3
  <2>2. CASE ~Claimed(w)
    BY <1>4, <2>2, FreeWorker DEF Raised
  <2>3. QED BY <2>1, <2>2
<1>5. \/ /\ cp' = [cp EXCEPT ![wk[w].turn] = snap]
         /\ wk' = [wk EXCEPT ![w] = [u EXCEPT !.cache = snap, !.pc = "sync", !.next = label]]
      \/ \E x \in {"error", "cancelled"} : cp' = cp /\ wk' = [wk EXCEPT ![w] = Raised(w, u, x)]
  BY <1>1 DEF Persist
<1>6. QED
  BY <1>1, <1>2, <1>3, <1>4, <1>5, Zenon

-----------------------------------------------------------------------------
(* Leases.  With heartbeats that arrive in time, and without streams, a      *)
(* worker that has claimed its turn holds it until it lets go: the turn is   *)
(* running, the worker is its owner, the lease is live and renewed, and no   *)
(* inspection gets beyond reading.                                           *)

SerialCalls == TimelyHeartbeats /\ "stream" \notin Modes

Placed(u) ==
    /\ u.mode # "stream" /\ u.exc = "none"
    /\ ~Free(u) /\ u.mode = "observe" =>
          \/ u.pc \in {"load", "manifest", "leave"}
          \/ u.pc = "sync" /\ u.next \in {"manifest", "leave"}

Holds(w) ==
    LET t == wk[w].turn IN
    status[t] = "running" /\ owner[t] = w /\ expires[t] > now /\ wk[w].beating

Standing == \A w \in Workers : Placed(wk[w]) /\ (Claimed(w) => Holds(w))

HoldInv == GrantInv /\ Standing

\* One worker changes, and no lease does.
LEMMA HoldMoves ==
  ASSUME TypeInv, Standing, NEW w \in Workers, NEW v \in WorkerRecords,
         wk' = [wk EXCEPT ![w] = v], UNCHANGED <<now, status, owner, expires>>, Placed(v),
         Claimed(w)' => Claimed(w) /\ v.turn = wk[w].turn /\ v.beating = wk[w].beating
  PROVE  Standing'
<1>1. wk'[w] = v /\ \A x \in Workers \ {w} : wk'[x] = wk[x]
  BY TypeParts
<1>2. Placed(wk[w])' /\ (Claimed(w)' => Holds(w)')
  BY <1>1 DEF Standing, Holds, Placed, Free
<1>3. \A x \in Workers \ {w} : Placed(wk[x])' /\ (Claimed(x)' => Holds(x)')
  BY <1>1 DEF Standing, Holds, Placed, Free, Claimed, InCall
<1>4. QED
  BY <1>2, <1>3 DEF Standing

\* A worker that ends its call gives up its turn, and no other.
LEMMA HoldReleases ==
  ASSUME TypeInv, Standing, NEW w \in Workers, Claimed(w), Leave(w),
         NEW s, Release({wk[w].turn}, s)
  PROVE  Standing'
<1>1. wk'[w] = IdleWorker /\ \A x \in Workers \ {w} : wk'[x] = wk[x]
  BY TypeParts DEF Leave
<1>2. Placed(wk[w])' /\ ~Claimed(w)'
  BY <1>1 DEF Placed, Free, IdleWorker, Claimed, InCall
<1>3. ASSUME NEW x \in Workers \ {w}, Claimed(x)
      PROVE  Holds(x)'
  <2>1. wk[x].turn \in Turns /\ wk[x].turn # wk[w].turn
    BY <1>3, TypeParts DEF Standing, Holds, Claimed
  <2>2. QED
    BY <1>1, <1>3, <2>1, TypeParts DEF Standing, Holds, Release, Put, StoreTypeOK
<1>4. \A x \in Workers \ {w} : Placed(wk[x])' /\ (Claimed(x)' => Claimed(x))
  BY <1>1 DEF Standing, Placed, Free, Claimed, InCall
<1>5. QED
  BY <1>2, <1>3, <1>4 DEF Standing

\* A turn that nobody holds is written.
LEMMA HoldOthers ==
  ASSUME TypeInv, Standing, NEW w \in Workers, NEW v \in WorkerRecords,
         wk' = [wk EXCEPT ![w] = v], Placed(v), NEW t \in Turns,
         \A x \in Workers : ~(Claimed(x) /\ wk[x].turn = t), now' = now,
         \A u \in Turns \ {t} : status'[u] = status[u] /\ owner'[u] = owner[u] /\ expires'[u] = expires[u],
         Claimed(w)' => Holds(w)'
  PROVE  Standing'
<1>1. wk'[w] = v /\ \A x \in Workers \ {w} : wk'[x] = wk[x]
  BY TypeParts
<1>2. Placed(wk[w])'
  BY <1>1 DEF Placed, Free
<1>3. ASSUME NEW x \in Workers \ {w}, Claimed(x)
      PROVE  Holds(x)'
  <2>1. wk[x].turn \in Turns \ {t}
    BY <1>3, TypeParts DEF Claimed
  <2>2. QED
    BY <1>1, <1>3, <2>1 DEF Standing, Holds
<1>4. \A x \in Workers \ {w} : Placed(wk[x])' /\ (Claimed(x)' => Claimed(x))
  BY <1>1 DEF Standing, Placed, Free, Claimed, InCall
<1>5. QED
  BY <1>2, <1>3, <1>4 DEF Standing

LEMMA HoldWorkerStep ==
  ASSUME SerialCalls, TypeInv, Standing, NEW w \in Workers, WorkerStep(w) \/ StepRaises(w)
  PROVE  Standing'
<1>1. /\ wk \in [Workers -> WorkerRecords] /\ wk[w] \in WorkerRecords /\ Equipped(wk[w])
      /\ Placed(wk[w]) /\ (Claimed(w) => Holds(w)) /\ w # NoWorker
      /\ IdleWorker \in WorkerRecords /\ Placed(IdleWorker) /\ Free(IdleWorker)
  BY TypeParts, FreeWorker, StoreAssumption
     DEF TypeInv, Standing, Placed, IdleWorker, Free
<1>2. ASSUME NEW v \in WorkerRecords, wk' = [wk EXCEPT ![w] = v],
             UNCHANGED <<now, status, owner, expires>>,
             \/ v = IdleWorker
             \/ /\ Kept(w, v) /\ Placed(v)
                /\ Claimed(w) \/ v.mode = "observe" \/ v.pc \in Unclaimed
                   \/ (v.pc = "sync" /\ v.next \in Unclaimed)
      PROVE  Standing'
  <2>1. wk'[w] = v
    BY <1>1, <1>2
  <2>2. Placed(v)
    BY <1>1, <1>2
  <2>3. Claimed(w)' => Claimed(w) /\ v.turn = wk[w].turn /\ v.beating = wk[w].beating
    BY <1>1, <1>2, <2>1 DEF Claimed, InCall, Kept, Free
  <2>4. QED
    BY <1>2, <2>2, <2>3, HoldMoves
<1>3. CASE Saves(w) /\ UNCHANGED <<storeVars, effects>>
  <2>1. PICK s \in LoopStates \cup {NoState}, snap \in LoopStates, label \in Labels, v \in WorkerRecords :
           /\ Writes(w, s, snap.rec, label) /\ wk' = [wk EXCEPT ![w] = v]
           /\ \/ /\ cp' = [cp EXCEPT ![wk[w].turn] = snap]
                 /\ Kept(w, v) /\ v.st = s /\ v.pc = "sync" /\ v.next = label
              \/ /\ cp' = cp /\ Claimed(w)
                 /\ Kept(w, v) /\ v.st = s /\ v.pc \in {"error", "cancelled"}
              \/ cp' = cp /\ v = IdleWorker
    BY <1>3, SaveShape
  <2>2. CASE v = IdleWorker
    BY <1>2, <1>3, <2>1, <2>2 DEF storeVars
  <2>3. CASE Claimed(w) /\ Kept(w, v) /\ v.pc \in {"error", "cancelled"}
    <3>1. Placed(v)
      BY <1>1, <2>3 DEF Placed, Kept, Claimed
    <3>2. QED
      BY <1>2, <1>3, <2>1, <2>3, <3>1 DEF storeVars
  <2>4. CASE Kept(w, v) /\ v.pc = "sync" /\ v.next = label
    <3>1. wk[w].pc \notin {"idle", "dead", "sync"} /\ InCall(w)
      BY <2>1 DEF Writes, InCall
    <3>2. Placed(v)
      BY <1>1, <2>1, <2>4, <3>1 DEF Placed, Kept, Writes, Free
    <3>3. Claimed(w) \/ v.mode = "observe" \/ v.next \in Unclaimed
      BY <2>1, <2>4, <3>1 DEF Claimed, Kept, Writes, Unclaimed
    <3>4. QED
      BY <1>2, <1>3, <2>1, <2>4, <3>2, <3>3 DEF storeVars
  <2>5. QED
    BY <2>1, <2>2, <2>3, <2>4
<1>4. ASSUME NEW v, Moves(w, v), UNCHANGED <<storeVars, effects>>
      PROVE  Standing'
  <2>1. CASE v = IdleWorker
    BY <1>1, <1>2, <1>4, <2>1 DEF storeVars, Moves
  <2>2. CASE v # IdleWorker
    <3>1. Placed(v)
      <4>1. v.mode = wk[w].mode /\ v.mode # "stream" /\ v.exc = "none"
        BY <1>1, <1>4, <2>2 DEF Placed, Kept, Moves
      <4>2. \/ wk[w].pc = "load" /\ v.pc = "manifest"
            \/ v.pc = "leave" \/ wk[w].mode # "observe"
            \/ wk[w].pc \in {"apply", "hydrate"}
        BY <1>4, <2>2, <4>1 DEF Moves, Claimed
      <4>3. wk[w].pc \in {"apply", "hydrate"} => wk[w].mode # "observe"
        BY <1>1 DEF Placed, Free
      <4>4. QED
        BY <4>1, <4>2, <4>3 DEF Placed
    <3>2. Claimed(w) \/ v.mode = "observe" \/ v.pc \in Unclaimed
      BY <1>4, <2>2 DEF Moves, Claimed, InCall, Kept, Unclaimed
    <3>3. QED
      BY <1>2, <1>4, <2>2, <3>1, <3>2 DEF storeVars, Moves
  <2>3. QED BY <2>1, <2>2
<1>5. CASE SyncSink(w)
  <2>1. UNCHANGED <<now, status, owner, expires>>
    BY <1>5 DEF SyncSink, SyncTurnMessages, storeVars
  <2>2. CASE wk' = [wk EXCEPT ![w].pc = wk[w].next]
    <3>1. PICK v : v = [wk[w] EXCEPT !.pc = wk[w].next]
      OBVIOUS
    <3>2. /\ v \in WorkerRecords /\ Kept(w, v) /\ v.pc = wk[w].next /\ v.mode = wk[w].mode
          /\ v.exc = wk[w].exc
      BY <1>1, <3>1 DEF WorkerRecords, Kept
    <3>3. wk' = [wk EXCEPT ![w] = v]
      BY <1>1, <2>2, <3>1
    <3>4. wk[w].pc = "sync" /\ InCall(w)
      BY <1>5 DEF SyncSink, InCall
    <3>5. Placed(v)
      BY <1>1, <3>2, <3>4 DEF Placed, Free
    <3>6. Claimed(w) \/ v.mode = "observe" \/ v.pc \in Unclaimed
      BY <3>2, <3>4 DEF Claimed, Unclaimed
    <3>7. QED
      BY <1>2, <2>1, <3>2, <3>3, <3>5, <3>6
  <2>3. CASE wk' = [wk EXCEPT ![w] = Raised(w, wk[w], "error")]
    <3>1. CASE Claimed(w)
      <4>1. PICK v : v = [wk[w] EXCEPT !.pc = "error"]
        OBVIOUS
      <4>2. v \in WorkerRecords /\ Kept(w, v) /\ v.pc = "error" /\ v.mode = wk[w].mode /\ v.exc = wk[w].exc
        BY <1>1, <4>1 DEF WorkerRecords, Kept, Labels
      <4>3. wk' = [wk EXCEPT ![w] = v] /\ Placed(v)
        BY <1>1, <2>3, <3>1, <4>1, <4>2 DEF Raised, Placed, Claimed
      <4>4. QED
        BY <1>2, <2>1, <3>1, <4>2, <4>3
    <3>2. CASE ~Claimed(w)
      BY <1>1, <1>2, <2>1, <2>3, <3>2 DEF Raised
    <3>3. QED BY <3>1, <3>2
  <2>4. QED
    BY <1>5, <2>2, <2>3 DEF SyncSink, Become, Raise
<1>6. CASE InvokeTool(w)
  <2>1. PICK v : v = [wk[w] EXCEPT !.pc = "outcome"]
    OBVIOUS
  <2>2. /\ v \in WorkerRecords /\ Kept(w, v) /\ v.pc = "outcome" /\ v.mode = wk[w].mode
        /\ v.exc = wk[w].exc
    BY <1>1, <2>1 DEF WorkerRecords, Kept, Labels
  <2>3. wk' = [wk EXCEPT ![w] = v] /\ UNCHANGED <<now, status, owner, expires>> /\ wk[w].pc = "invoke"
    BY <1>6, <2>1 DEF InvokeTool, Become, storeVars
  <2>4. Placed(v) /\ (Claimed(w) \/ v.mode = "observe")
    BY <1>1, <2>2, <2>3 DEF Placed, Free, Claimed, InCall, Unclaimed
  <2>5. QED
    BY <1>2, <2>2, <2>3, <2>4
<1>7. CASE FinalSync(w)
  <2>1. PICK x \in {"error", "final_mark"}, c \in BOOLEAN :
           wk' = [wk EXCEPT ![w].pc = x, ![w].closing = c]
    <3>1. wk[w].closing \in BOOLEAN /\ wk[w].pc = "final_sync"
      BY <1>1, <1>7 DEF WorkerRecords, FinalSync
    <3>2. CASE wk' = [wk EXCEPT ![w].pc = "final_mark"]
      <4>1. [wk[w] EXCEPT !.pc = "final_mark"]
              = [wk[w] EXCEPT !.pc = "final_mark", !.closing = wk[w].closing]
        BY <1>1 DEF WorkerRecords
      <4>2. wk' = [wk EXCEPT ![w].pc = "final_mark", ![w].closing = wk[w].closing]
        BY <1>1, <3>2, <4>1
      <4>3. QED BY <3>1, <4>2
    <3>3. CASE wk' = [wk EXCEPT ![w].pc = "error", ![w].closing = TRUE]
      BY <3>3
    <3>4. QED
      BY <1>7, <3>2, <3>3 DEF FinalSync, Become
  <2>2. PICK v : v = [wk[w] EXCEPT !.pc = x, !.closing = c]
    OBVIOUS
  <2>3. v \in WorkerRecords /\ Kept(w, v) /\ v.pc = x /\ v.mode = wk[w].mode /\ v.exc = wk[w].exc
    BY <1>1, <2>2 DEF WorkerRecords, Kept, Labels
  <2>4. wk' = [wk EXCEPT ![w] = v]
    BY <1>1, <2>1, <2>2
  <2>5. UNCHANGED <<now, status, owner, expires>> /\ wk[w].pc = "final_sync"
    BY <1>7 DEF FinalSync, SyncTurnMessages, storeVars
  <2>6. Placed(v) /\ Claimed(w)
    BY <1>1, <2>3, <2>5 DEF Placed, Free, Claimed, InCall, Unclaimed
  <2>7. QED
    BY <1>2, <2>3, <2>4, <2>5, <2>6
<1>8. CASE FinalMark(w)
  <2>1. wk[w].pc = "final_mark" /\ wk[w].exc = "none" /\ Claimed(w) /\ Holds(w)
    BY <1>1, <1>8 DEF FinalMark, Placed, Free, Claimed, InCall, Unclaimed
  <2>2. status[wk[w].turn] = "running" /\ status[wk[w].turn] \notin Terminal
    BY <2>1 DEF Holds, Terminal
  <2>3. Leave(w) /\ \E s : Release({wk[w].turn}, s)
    BY <1>8, <2>1, <2>2 DEF FinalMark, MarkPaused, MarkRecoverable, MarkTerminal
  <2>4. QED
    BY <2>1, <2>3, HoldReleases
<1>9. CASE StreamFinally(w)
  BY <1>1, <1>9 DEF StreamFinally, StreamCloses, Placed
<1>10. CASE Unwind(w)
  <2>1. wk[w].pc \in {"error", "cancelled"} /\ Claimed(w) /\ Holds(w)
    BY <1>1, <1>10 DEF Unwind, Unwinding, Placed, Free, Claimed, InCall, Unclaimed
  <2>2. status[wk[w].turn] = "running"
    BY <2>1 DEF Holds
  <2>3. Leave(w) /\ \E s : Release({wk[w].turn}, s)
    BY <1>10, <2>2 DEF Unwind, MarkInterrupted, MarkRecoverable, MarkTerminal
  <2>4. QED
    BY <2>1, <2>3, HoldReleases
<1>11. CASE Claim(w)
  <2>1. wk[w].pc = "claim" /\ InCall(w) /\ ~Claimed(w) /\ wk[w].turn \in Turns /\ wk[w].mode # "observe"
    BY <1>1, <1>11, TypeParts DEF Claim, Claimed, InCall, Unclaimed, Placed, Free
  <2>2. CASE Claimable(wk[w].turn)
    <3>1. ClaimForResume(wk[w].turn, w) /\ wk' = [wk EXCEPT ![w].pc = "apply", ![w].beating = TRUE]
      BY <1>11, <2>2 DEF Claim
    <3>2. \A x \in Workers : ~(Claimed(x) /\ wk[x].turn = wk[w].turn)
      BY <2>2 DEF Standing, Holds, Claimable, Recoverable
    <3>3. PICK v : v = [wk[w] EXCEPT !.pc = "apply", !.beating = TRUE]
      OBVIOUS
    <3>4. /\ v \in WorkerRecords /\ v.turn = wk[w].turn /\ v.pc = "apply" /\ v.mode = wk[w].mode
          /\ v.exc = wk[w].exc /\ v.beating
      BY <1>1, <3>3 DEF WorkerRecords, Labels, Awaiting
    <3>5. wk' = [wk EXCEPT ![w] = v] /\ wk'[w] = v
      BY <1>1, <3>1, <3>3
    <3>6. Placed(v)
      BY <1>1, <2>1, <3>4 DEF Placed
    <3>7. /\ now' = now
          /\ \A u \in Turns \ {wk[w].turn} :
                status'[u] = status[u] /\ owner'[u] = owner[u] /\ expires'[u] = expires[u]
          /\ status'[wk[w].turn] = "running" /\ owner'[wk[w].turn] = w
          /\ expires'[wk[w].turn] > now'
      BY <2>1, <3>1, TypeParts, StoreAssumption DEF ClaimForResume, StoreTypeOK
    <3>8. Holds(w)'
      BY <3>4, <3>5, <3>7 DEF Holds
    <3>9. QED
      BY <2>1, <3>2, <3>4, <3>5, <3>6, <3>7, <3>8, HoldOthers
  <2>3. CASE ~Claimable(wk[w].turn)
    BY <1>1, <1>2, <1>11, <2>3 DEF Claim, Leave, storeVars
  <2>4. QED BY <2>2, <2>3
<1>12. QED
  BY <1>3, <1>4, <1>5, <1>6, <1>7, <1>8, <1>9, <1>10, <1>11, WorkerShape

\* The calls that begin, the heartbeat, the faults and the clock.
LEMMA HoldOpens ==
  ASSUME SerialCalls, TypeInv, Standing, NEW w \in Workers, NEW t \in Turns, NEW r, NEW g,
         NEW m \in Modes, OpenTurn(w, t, r, g, m), wk' \in [Workers -> WorkerRecords]
  PROVE  Standing'
<1>1. \A x \in Workers : ~(Claimed(x) /\ wk[x].turn = t)
  BY DEF OpenTurn, BeginTurn, RowFree, Exists, Standing, Holds
<1>2. PICK v : v = [IdleWorker EXCEPT !.pc = "loop_start", !.turn = t, !.mode = m,
                                      !.st = InitialState(g), !.beating = TRUE]
  OBVIOUS
<1>3. wk' = [wk EXCEPT ![w] = v] /\ wk'[w] = v /\ v \in WorkerRecords
  BY <1>2, TypeParts DEF OpenTurn
<1>4. v.pc = "loop_start" /\ v.turn = t /\ v.mode = m /\ v.beating /\ v.exc = "none"
  BY <1>2 DEF IdleWorker
<1>5. Placed(v)
  BY <1>4, ServiceAssumption DEF Placed, SerialCalls
<1>6. /\ now' = now
      /\ \A u \in Turns \ {t} :
            status'[u] = status[u] /\ owner'[u] = owner[u] /\ expires'[u] = expires[u]
      /\ status'[t] = "running" /\ owner'[t] = w /\ expires'[t] > now'
  BY TypeParts, StoreAssumption DEF OpenTurn, BeginTurn, StoreTypeOK
<1>7. Holds(w)'
  BY <1>3, <1>4, <1>6 DEF Holds
<1>8. QED
  BY <1>1, <1>3, <1>5, <1>6, <1>7, HoldOthers

LEMMA HoldReads ==
  ASSUME TypeInv, Standing, NEW w \in Workers, NEW t \in Turns, Resume(w, t) \/ Inspect(w, t)
  PROVE  Standing'
<1>1. PICK m \in {"resume", "observe"} : StartCallOf(w, t, m)
  BY DEF Resume, Inspect
<1>2. PICK v : v = [IdleWorker EXCEPT !.pc = "load", !.turn = t, !.mode = m]
  OBVIOUS
<1>3. /\ v \in WorkerRecords /\ v.pc = "load" /\ v.mode = m /\ v.exc = "none"
  BY <1>2 DEF WorkerRecords, IdleWorker, Labels, Unclaimed
<1>4. wk' = [wk EXCEPT ![w] = v] /\ wk'[w] = v
  BY <1>1, <1>2, TypeParts DEF StartCallOf
<1>5. Placed(v) /\ ~Claimed(w)'
  BY <1>3, <1>4 DEF Placed, Claimed, Unclaimed
<1>6. CASE UNCHANGED storeVars
  BY <1>3, <1>4, <1>5, <1>6, HoldMoves DEF storeVars
<1>7. CASE status[t] = "running" /\ ~HeldByLiveLease(t) /\ Release({t}, "interrupted")
  <2>1. \A x \in Workers : ~(Claimed(x) /\ wk[x].turn = t)
    BY <1>7, StoreAssumption DEF HeldByLiveLease, LeaseLive, Standing, Holds
  <2>2. /\ now' = now
        /\ \A u \in Turns \ {t} :
              status'[u] = status[u] /\ owner'[u] = owner[u] /\ expires'[u] = expires[u]
    BY <1>7, TypeParts DEF Release, Put, StoreTypeOK
  <2>3. QED
    BY <1>3, <1>4, <1>5, <2>1, <2>2, HoldOthers
<1>8. QED
  BY <1>6, <1>7 DEF Resume, Inspect, PrepareTurnForResume

LEMMA HoldEnvironment ==
  ASSUME SerialCalls, TypeInv, Standing,
         TimePasses \/ \E w \in Workers : Heartbeat(w) \/ UserCancels(w) \/ Crash(w)
  PROVE  Standing'
<1>1. wk \in [Workers -> WorkerRecords]
  BY TypeParts
<1>2. CASE TimePasses
  <2>1. /\ wk' = wk /\ now' = now + 1 /\ UNCHANGED <<status, owner, expires>>
        /\ \A w \in Workers : InCall(w) /\ wk[w].beating /\ owner[wk[w].turn] = w
                                 => expires[wk[w].turn] > now + 1
    BY <1>2 DEF TimePasses, Tick, SerialCalls
  <2>2. \A w \in Workers : Placed(wk[w])' /\ (Claimed(w)' => Claimed(w))
    BY <2>1 DEF Standing, Placed, Free, Claimed, InCall
  <2>3. \A w \in Workers : Claimed(w) => Holds(w)'
    BY <2>1 DEF Standing, Holds, Claimed
  <2>4. QED BY <2>2, <2>3 DEF Standing
<1>3. ASSUME NEW w \in Workers, NEW b \in BOOLEAN, NEW c \in BOOLEAN,
             wk' = [wk EXCEPT ![w].beating = b, ![w].cancelled = c], UNCHANGED storeVars,
             Claimed(w) => b = wk[w].beating
      PROVE  Standing'
  <2>1. PICK v : v = [wk[w] EXCEPT !.beating = b, !.cancelled = c]
    OBVIOUS
  <2>2. /\ v \in WorkerRecords /\ v.turn = wk[w].turn /\ v.mode = wk[w].mode /\ v.pc = wk[w].pc
        /\ v.next = wk[w].next /\ v.exc = wk[w].exc /\ v.beating = b
    BY <1>1, <2>1 DEF WorkerRecords
  <2>3. wk' = [wk EXCEPT ![w] = v] /\ wk'[w] = v
    BY <1>1, <1>3, <2>1
  <2>4. Placed(v) /\ (Claimed(w)' <=> Claimed(w))
    BY <2>2, <2>3 DEF Standing, Placed, Free, Claimed, InCall
  <2>5. QED
    BY <1>3, <2>2, <2>3, <2>4, HoldMoves DEF storeVars
<1>4. ASSUME NEW w \in Workers, Heartbeat(w) PROVE Standing'
  <2>1. wk[w].turn \in Turns
    BY <1>4, TypeParts DEF Heartbeat
  <2>2. CASE status[wk[w].turn] = "running" /\ owner[wk[w].turn] = w
    <3>1. RenewLease(wk[w].turn, w) /\ wk' = wk
      BY <1>4, <2>2 DEF Heartbeat
    <3>2. /\ UNCHANGED <<now, status, owner>> /\ expires'[wk[w].turn] > now'
          /\ \A t \in Turns \ {wk[w].turn} : expires'[t] = expires[t]
      BY <2>1, <3>1, TypeParts, StoreAssumption DEF RenewLease, StoreTypeOK
    <3>3. \A x \in Workers : Placed(wk[x])' /\ (Claimed(x)' => Claimed(x))
      BY <3>1 DEF Standing, Placed, Free, Claimed, InCall
    <3>4. \A x \in Workers : Claimed(x) => Holds(x)'
      BY <3>1, <3>2, TypeParts DEF Standing, Holds, Claimed
    <3>5. QED BY <3>3, <3>4 DEF Standing
  <2>3. CASE ~(status[wk[w].turn] = "running" /\ owner[wk[w].turn] = w)
    <3>1. PICK c : c = (wk[w].cancelled \/ status[wk[w].turn] = "running")
      OBVIOUS
    <3>2. c \in BOOLEAN /\ ~Claimed(w)
      BY <2>3, <3>1 DEF Standing, Holds
    <3>3. wk' = [wk EXCEPT ![w].beating = FALSE, ![w].cancelled = c]
      <4>1. [wk[w] EXCEPT !.beating = FALSE].cancelled = wk[w].cancelled
        BY <1>1 DEF WorkerRecords
      <4>2. QED BY <1>1, <1>4, <2>3, <3>1, <4>1 DEF Heartbeat
    <3>4. QED
      BY <1>3, <1>4, <2>3, <3>2, <3>3 DEF Heartbeat
  <2>4. QED BY <2>2, <2>3
<1>5. ASSUME NEW w \in Workers, UserCancels(w) PROVE Standing'
  <2>1. wk' = [wk EXCEPT ![w].cancelled = TRUE] /\ UNCHANGED storeVars
    BY <1>5 DEF UserCancels, FaultFrame
  <2>2. /\ [wk[w] EXCEPT !.cancelled = TRUE] = [wk[w] EXCEPT !.beating = wk[w].beating, !.cancelled = TRUE]
        /\ wk[w].beating \in BOOLEAN
    BY <1>1 DEF WorkerRecords
  <2>3. wk' = [wk EXCEPT ![w].beating = wk[w].beating, ![w].cancelled = TRUE]
    BY <1>1, <2>1, <2>2
  <2>4. QED
    BY <1>3, <2>1, <2>2, <2>3
<1>6. ASSUME NEW w \in Workers, Crash(w) PROVE Standing'
  <2>1. PICK v : v = [IdleWorker EXCEPT !.pc = "dead"]
    OBVIOUS
  <2>2. v \in WorkerRecords /\ v.pc = "dead" /\ v.mode = "none" /\ v.exc = "none"
    BY <2>1, FreeWorker DEF IdleWorker
  <2>3. wk' = [wk EXCEPT ![w] = v] /\ wk'[w] = v /\ UNCHANGED storeVars
    BY <1>1, <1>6, <2>1 DEF Crash, FaultFrame
  <2>4. Placed(v) /\ ~Claimed(w)'
    BY <2>2, <2>3 DEF Placed, Free, Claimed, InCall
  <2>5. QED
    BY <2>2, <2>3, <2>4, HoldMoves DEF storeVars
<1>7. QED
  BY <1>2, <1>4, <1>5, <1>6

LEMMA HoldInitial ==
  ASSUME ServiceInit
  PROVE  HoldInv
<1>1. \A w \in Workers : wk[w] = IdleWorker
  BY DEF ServiceInit
<1>2. Standing
  BY <1>1 DEF Standing, Placed, Free, IdleWorker, Claimed, InCall
<1>3. QED
  BY <1>2, ServiceInitial DEF HoldInv

LEMMA HoldStep ==
  ASSUME SerialCalls, HoldInv, [ServiceNext]_serviceVars
  PROVE  HoldInv'
<1>1. GrantInv' /\ TypeInv /\ Standing
  BY GrantStep DEF HoldInv, GrantInv
<1>2. wk' \in [Workers -> WorkerRecords]
  BY <1>1 DEF GrantInv, TypeInv, ServiceTypeOK, WorkerRecords
<1>3. CASE UNCHANGED serviceVars
  <2>1. wk' = wk /\ UNCHANGED <<now, status, owner, expires>>
    BY <1>3 DEF serviceVars, storeVars
  <2>2. Standing'
    BY <1>1, <2>1 DEF Standing, Placed, Free, Claimed, InCall, Holds
  <2>3. QED BY <1>1, <2>2 DEF HoldInv
<1>4. ASSUME NEW w \in Workers, WorkerStep(w) \/ StepRaises(w) PROVE Standing'
  BY <1>1, <1>4, HoldWorkerStep
<1>5. ASSUME NEW w \in Workers, NEW t \in Turns, Resume(w, t) \/ Inspect(w, t) PROVE Standing'
  BY <1>1, <1>5, HoldReads
<1>6. ASSUME NEW w \in Workers, NEW t \in Turns, NEW r \in Runtimes, NEW g \in {"ask", "yes"},
             NEW m \in Modes, OpenTurn(w, t, r, g, m)
      PROVE  Standing'
  BY <1>1, <1>2, <1>6, HoldOpens
<1>7. TimePasses \/ (\E w \in Workers : Heartbeat(w) \/ UserCancels(w) \/ Crash(w)) => Standing'
  BY <1>1, HoldEnvironment
<1>8. CASE ServiceNext
  <2>1. ASSUME NEW w \in Workers, NEW t \in Turns,
               \/ \E r \in Runtimes, g \in {"ask", "yes"}, m \in Modes : OpenTurn(w, t, r, g, m)
               \/ Resume(w, t) \/ Inspect(w, t)
        PROVE  Standing'
    BY <1>5, <1>6, <2>1
  <2>2. ASSUME NEW w \in Workers,
               WorkerStep(w) \/ Heartbeat(w) \/ UserCancels(w) \/ StepRaises(w) \/ Crash(w)
        PROVE  Standing'
    BY <1>4, <1>7, <2>2
  <2>3. Standing'
    BY <1>7, <1>8, <2>1, <2>2 DEF ServiceNext
  <2>4. QED BY <1>1, <2>3 DEF HoldInv
<1>9. QED
  BY <1>3, <1>8

\* Leases whose heartbeats arrive in time serialise the calls that claim a turn, for any
\* number of service objects: through crashes, cancellations, failed awaits and
\* overlapping resumes and inspections, no two of them execute one turn at a time.
THEOREM CallsAreSerial == SerialCalls => (ServiceSpec => []ExclusiveExecution)
<1> SUFFICES ASSUME SerialCalls PROVE ServiceSpec => []ExclusiveExecution
  OBVIOUS
<1>1. ServiceInit => HoldInv
  BY HoldInitial
<1>2. HoldInv /\ [ServiceNext]_serviceVars => HoldInv'
  BY HoldStep
<1>3. HoldInv => ExclusiveExecution
  BY DEF HoldInv, Standing, Holds, ExclusiveExecution, Executes
<1>4. QED
  BY <1>1, <1>2, <1>3, PTL DEF ServiceSpec

-----------------------------------------------------------------------------
(* The call that acts once.  Where the calls of a turn do not overlap before *)
(* they claim it, except for inspections that find no changed tool, a turn   *)
(* has one writer at a time, and the record of its call is ahead of the act. *)

OneWriterAtATime ==
    SerialCalls /\ "resume" \notin Overlap /\ ("inspect" \in Overlap => Drifts = {"match"})

Writer(u) == ~Free(u) /\ (u.mode # "observe" \/ "inspect" \notin Overlap)

OneWriter ==
    \A v, w \in Workers : Writer(wk[v]) /\ Writer(wk[w]) /\ wk[v].turn = wk[w].turn => v = w

At(u, places) == u.pc \in places \/ (u.pc = "sync" /\ u.next \in places)
Vouched(t) == cp[t] # NoState /\ cp[t].rec \in Done

\* What a writer knows of its turn.
Careful(u) ==
    /\ u.pc # "load" /\ effects[u.turn] > 0 => u.st.rec \in Done \/ u.pc = "outcome"
    /\ At(u, {"start", "invoke"}) => effects[u.turn] = 0
    /\ At(u, {"invoke", "outcome"}) => Vouched(u.turn)

Acted(t) == effects[t] <= 1 /\ (effects[t] > 0 => Vouched(t))

Once ==
    /\ OneWriter
    /\ \A w \in Workers : Writer(wk[w]) => Careful(wk[w])
    /\ \A t \in Turns : Acted(t)

OnceInv == HoldInv /\ Once

\* One worker becomes v, and one turn changes under it.
LEMMA OnceOne ==
  ASSUME TypeInv, Once, NEW w \in Workers, NEW v \in WorkerRecords, wk' = [wk EXCEPT ![w] = v],
         Writer(v) => Careful(v)',
         Writer(v) => \A x \in Workers \ {w} : Writer(wk[x]) => wk[x].turn # v.turn,
         NEW t \in Turns, \A u \in Turns \ {t} : cp'[u] = cp[u] /\ effects'[u] = effects[u],
         Acted(t)',
         \A x \in Workers \ {w} : Writer(wk[x]) /\ wk[x].turn = t =>
            effects'[t] = effects[t] /\ (Vouched(t) => Vouched(t)')
  PROVE  Once'
<1>1. wk'[w] = v /\ \A x \in Workers \ {w} : wk'[x] = wk[x]
  BY TypeParts
<1>2. OneWriter'
  BY <1>1 DEF Once, OneWriter, Writer, Free
<1>3. Writer(wk[w])' => Careful(wk[w])'
  BY <1>1 DEF Writer, Free, Careful, At, Vouched
<1>4. ASSUME NEW x \in Workers \ {w}, Writer(wk[x])'
      PROVE  Careful(wk[x])'
  <2>1. wk'[x] = wk[x] /\ Writer(wk[x]) /\ Careful(wk[x]) /\ wk[x].turn \in Turns
    BY <1>1, <1>4, TypeParts DEF Once, Writer, Free, InCall
  <2>2. effects'[wk[x].turn] = effects[wk[x].turn]
        /\ (Vouched(wk[x].turn) => Vouched(wk[x].turn)')
    BY <2>1 DEF Vouched
  <2>3. QED
    BY <2>1, <2>2 DEF Careful, At, Vouched
<1>5. \A u \in Turns : Acted(u)'
  BY DEF Once, Acted, Vouched
<1>6. QED
  BY <1>2, <1>3, <1>4, <1>5 DEF Once

\* A worker goes on with its call, and neither the checkpoints nor the world change.
LEMMA OnceMoves ==
  ASSUME TypeInv, Once, NEW w \in Workers, NEW v \in WorkerRecords, wk' = [wk EXCEPT ![w] = v],
         UNCHANGED <<cp, effects>>,
         \/ Free(v)
         \/ /\ InCall(w) /\ v.turn = wk[w].turn /\ v.mode = wk[w].mode
            /\ Writer(v) => Careful(v)
  PROVE  Once'
<1>1. CASE Free(v)
  <2>1. CASE Turns = {}
    BY <1>1, <2>1, TypeParts DEF Once, OneWriter, Writer, Free, InCall
  <2>2. CASE Turns # {}
    <3>1. PICK t \in Turns : TRUE
      BY <2>2
    <3>2. Acted(t)' /\ ~Writer(v) /\ (Vouched(t) => Vouched(t)')
      BY <1>1 DEF Once, Acted, Vouched, Writer
    <3>3. QED BY <3>2, OnceOne
  <2>3. QED BY <2>1, <2>2
<1>2. CASE ~Free(v)
  <2>1. /\ InCall(w) /\ v.turn = wk[w].turn /\ v.mode = wk[w].mode /\ v.turn \in Turns
        /\ Writer(v) => Careful(v)
    BY <1>2, TypeParts
  <2>2. Writer(v) <=> Writer(wk[w])
    BY <1>2, <2>1 DEF Writer, Free, InCall
  <2>3. Writer(v) => \A x \in Workers \ {w} : Writer(wk[x]) => wk[x].turn # v.turn
    BY <2>1, <2>2 DEF Once, OneWriter
  <2>4. (Writer(v) => Careful(v)') /\ Acted(v.turn)' /\ (Vouched(v.turn) => Vouched(v.turn)')
    BY <2>1 DEF Once, Acted, Careful, Vouched, At
  <2>5. QED
    BY <2>1, <2>3, <2>4, OnceOne
<1>3. QED BY <1>1, <1>2

\* A worker saves a checkpoint of its turn.
LEMMA OnceSaves ==
  ASSUME TypeInv, Once, NEW w \in Workers, InCall(w), NEW v \in WorkerRecords,
         wk' = [wk EXCEPT ![w] = v], v.turn = wk[w].turn, v.mode = wk[w].mode, ~Free(v),
         NEW snap \in LoopStates, cp' = [cp EXCEPT ![v.turn] = snap], effects' = effects,
         snap.rec \in Done \/ (Writer(v) /\ effects[v.turn] = 0),
         Writer(v) => /\ effects[v.turn] > 0 => v.st.rec \in Done
                      /\ At(v, {"start", "invoke"}) => effects[v.turn] = 0
                      /\ At(v, {"invoke", "outcome"}) => snap.rec \in Done
  PROVE  Once'
<1>1. v.turn \in Turns /\ cp'[v.turn] = snap /\ snap # NoState
      /\ \A u \in Turns \ {v.turn} : cp'[u] = cp[u]
  BY TypeParts, StateAssumption
<1>2. Writer(v) <=> Writer(wk[w])
  BY DEF Writer, Free, InCall
<1>3. Writer(v) => \A x \in Workers \ {w} : Writer(wk[x]) => wk[x].turn # v.turn
  BY <1>2 DEF Once, OneWriter
<1>4. (snap.rec \in Done => Vouched(v.turn)') /\ Acted(v.turn)'
  BY <1>1, TypeParts DEF Once, Acted, Vouched
<1>5. Writer(v) => Careful(v)'
  BY <1>1 DEF Careful, At, Vouched
<1>6. QED
  BY <1>1, <1>3, <1>4, <1>5, OnceOne

LEMMA OnceSaveStep ==
  ASSUME OneWriterAtATime, TypeInv, Standing, Once, NEW w \in Workers, Saves(w), effects' = effects
  PROVE  Once'
<1>1. PICK s \in LoopStates \cup {NoState}, snap \in LoopStates, label \in Labels, v \in WorkerRecords :
         /\ Writes(w, s, snap.rec, label) /\ wk' = [wk EXCEPT ![w] = v]
         /\ \/ /\ cp' = [cp EXCEPT ![wk[w].turn] = snap]
               /\ Kept(w, v) /\ v.st = s /\ v.pc = "sync" /\ v.next = label
            \/ /\ cp' = cp /\ Claimed(w)
               /\ Kept(w, v) /\ v.st = s /\ v.pc \in {"error", "cancelled"}
            \/ cp' = cp /\ v = IdleWorker
  BY SaveShape
<1>2. PICK t : t = wk[w].turn
  OBVIOUS
<1>3. /\ InCall(w) /\ t \in Turns /\ wk[w].pc \notin {"idle", "dead", "sync"} /\ effects[t] \in Nat
      /\ Placed(wk[w]) /\ (Writer(wk[w]) => Careful(wk[w])) /\ Acted(t)
  BY <1>1, <1>2, TypeParts DEF Writes, InCall, Standing, Once
<1>4. /\ \/ wk[w].mode # "observe"
         \/ wk[w].pc \in {"load", "manifest", "leave"}
      /\ Writer(wk[w]) <=> (wk[w].mode # "observe" \/ "inspect" \notin Overlap)
      /\ wk[w].pc = "manifest" /\ Drifts # {"match"} => Writer(wk[w])
  BY <1>3 DEF Placed, Writer, Free, InCall, OneWriterAtATime
<1>5. wk[w].pc # "load" => Writer(wk[w])
  BY <1>1, <1>3, <1>4 DEF Writes
<1>6. /\ effects[t] > 0 => snap.rec \in Done
      /\ wk[w].pc # "load" /\ effects[t] > 0 => s.rec \in Done
      /\ wk[w].pc = "load" => snap.rec \in Done /\ s.rec \in Done /\ label = "manifest"
      /\ label \in {"start", "invoke"} => effects[t] = 0
      /\ label = "invoke" => snap.rec \in Done
      /\ label # "outcome"
  <2>1. CASE wk[w].pc \in {"loop_start", "step", "merge", "pause_final", "hydrate"}
             /\ label \in {"step", "final_sync", "pause_final", "loop_start"}
             /\ s.rec = wk[w].st.rec /\ snap.rec = s.rec
    BY <1>2, <1>3, <1>5, <2>1 DEF Careful
  <2>2. CASE wk[w].pc = "step" /\ label = "start" /\ s = wk[w].st /\ MayPrepare(s)
    <3>1. wk[w].st.rec \notin Done
      BY <2>2 DEF MayPrepare, Ambiguous, Settled, Done
    <3>2. ~(effects[t] > 0)
      BY <1>2, <1>3, <1>5, <2>2, <3>1 DEF Careful
    <3>3. QED
      BY <1>3, <2>2, <3>2
  <2>3. CASE wk[w].pc = "start" /\ label = "invoke" /\ snap.rec = "started"
    <3>1. effects[t] = 0
      BY <1>2, <1>3, <1>5, <2>3 DEF Careful, At
    <3>2. QED
      BY <2>3, <3>1 DEF Done
  <2>4. CASE wk[w].pc = "outcome" /\ label \in {"merge", "cancelled"}
             /\ s.rec = snap.rec /\ snap.rec \in {"unknown", "completed", "failed"}
    BY <2>4 DEF Done
  <2>5. CASE wk[w].pc = "load" /\ label = "manifest" /\ s.rec = snap.rec /\ snap.rec = "unknown"
    BY <2>5 DEF Done
  <2>6. CASE wk[w].pc = "manifest" /\ label \in {"leave", "claim"}
             /\ s.rec = snap.rec /\ (wk[w].st.rec \in Done => snap.rec \in Done)
    BY <1>2, <1>3, <1>5, <2>6 DEF Careful
  <2>7. CASE wk[w].pc = "apply" /\ label = "hydrate"
             /\ s.rec = snap.rec /\ (cp[wk[w].turn].rec \in Done => snap.rec \in Done)
    BY <1>2, <1>3, <2>7 DEF Acted, Vouched
  <2>8. QED
    BY <1>1, <2>1, <2>2, <2>3, <2>4, <2>5, <2>6, <2>7 DEF Writes
<1>7. CASE /\ cp' = [cp EXCEPT ![wk[w].turn] = snap]
           /\ Kept(w, v) /\ v.st = s /\ v.pc = "sync" /\ v.next = label
  <2>1. v.turn = t /\ v.mode = wk[w].mode /\ ~Free(v) /\ cp' = [cp EXCEPT ![v.turn] = snap]
    BY <1>2, <1>7 DEF Kept, Free
  <2>2. snap.rec \in Done \/ (Writer(v) /\ effects[t] = 0)
    BY <1>3, <1>4, <1>5, <1>6, <2>1 DEF Writer
  <2>3. /\ effects[t] > 0 => v.st.rec \in Done
        /\ At(v, {"start", "invoke"}) => effects[t] = 0
        /\ At(v, {"invoke", "outcome"}) => snap.rec \in Done
    BY <1>6, <1>7 DEF At
  <2>4. QED
    BY <1>1, <1>2, <1>3, <2>1, <2>2, <2>3, OnceSaves
<1>8. CASE /\ cp' = cp /\ Claimed(w) /\ Kept(w, v) /\ v.st = s /\ v.pc \in {"error", "cancelled"}
  <2>1. v.turn = t /\ v.mode = wk[w].mode /\ Careful(v)
    BY <1>2, <1>6, <1>8 DEF Kept, Careful, At, Claimed, Unclaimed
  <2>2. QED
    BY <1>1, <1>2, <1>3, <1>8, <2>1, OnceMoves
<1>9. CASE cp' = cp /\ v = IdleWorker
  BY <1>1, <1>9, FreeWorker, OnceMoves DEF Free
<1>10. QED
  BY <1>1, <1>7, <1>8, <1>9

\* A worker whose place changes, and nothing that Careful looks at.
LEMMA OnceGoesOn ==
  ASSUME TypeInv, Standing, Once, NEW w \in Workers, InCall(w), wk[w].pc \notin {"load", "outcome"},
         NEW v \in WorkerRecords, wk' = [wk EXCEPT ![w] = v], UNCHANGED <<cp, effects>>,
         v.turn = wk[w].turn, v.mode = wk[w].mode, v.st = wk[w].st,
         v.pc \notin {"sync", "start", "invoke", "outcome"} \/ (wk[w].pc = "sync" /\ v.pc = wk[w].next)
  PROVE  Once'
<1>1. Writer(v) => Careful(wk[w])
  BY DEF Once, Writer, Free, InCall
<1>2. v.pc # "sync"
  BY DEF TypeInv, Equipped, Following
<1>3. Careful(wk[w]) => Careful(v)
  BY <1>2 DEF Careful, At
<1>4. QED
  BY <1>1, <1>3, OnceMoves

LEMMA OnceMoveStep ==
  ASSUME TypeInv, Standing, Once, NEW w \in Workers, NEW v, Moves(w, v), effects' = effects
  PROVE  Once'
<1>1. v \in WorkerRecords /\ wk' = [wk EXCEPT ![w] = v] /\ cp' = cp
  BY DEF Moves
<1>2. CASE v = IdleWorker
  BY <1>1, <1>2, FreeWorker, OnceMoves DEF Free
<1>3. CASE Kept(w, v) /\ wk[w].pc = "load" /\ v.pc = "manifest"
           /\ cp[wk[w].turn] # NoState /\ v.st = cp[wk[w].turn]
  <2>1. InCall(w) /\ wk[w].turn \in Turns /\ v.turn = wk[w].turn /\ v.mode = wk[w].mode
    BY <1>3, TypeParts DEF InCall, Kept
  <2>2. Careful(v)
    BY <1>3, <2>1 DEF Careful, At, Once, Acted, Vouched
  <2>3. QED
    BY <1>1, <2>1, <2>2, OnceMoves
<1>4. CASE Kept(w, v) /\ wk[w].pc = "manifest" /\ v.st = wk[w].st /\ v.pc \in {"leave", "claim"}
  BY <1>1, <1>4, OnceGoesOn DEF Kept, InCall
<1>5. CASE Kept(w, v) /\ wk[w].pc = "apply" /\ v.pc = "hydrate" /\ v.st.rec = wk[w].st.rec
  <2>1. InCall(w) /\ v.turn = wk[w].turn /\ v.mode = wk[w].mode
    BY <1>5 DEF InCall, Kept
  <2>2. Writer(v) => Careful(wk[w])
    BY <2>1 DEF Once, Writer, Free, InCall
  <2>3. Careful(wk[w]) => Careful(v)
    BY <1>5, <2>1 DEF Careful, At
  <2>4. QED
    BY <1>1, <2>1, <2>2, <2>3, OnceMoves
<1>6. CASE Kept(w, v) /\ wk[w].pc # "outcome" /\ v.pc \in {"error", "cancelled"} /\ v.st = wk[w].st
           /\ (Claimed(w) \/ (wk[w].mode = "observe" /\ wk[w].pc \in {"apply", "hydrate"}))
  BY <1>1, <1>6, OnceGoesOn DEF Kept, InCall, Claimed, Unclaimed
<1>7. QED
  BY <1>2, <1>3, <1>4, <1>5, <1>6 DEF Moves

\* The tool acts: for the first time, and its record says so.
LEMMA OnceInvokes ==
  ASSUME TypeInv, Standing, Once, NEW w \in Workers, InvokeTool(w)
  PROVE  Once'
<1>1. PICK t : t = wk[w].turn
  OBVIOUS
<1>2. /\ wk[w].pc = "invoke" /\ InCall(w) /\ t \in Turns /\ Placed(wk[w]) /\ cp' = cp
      /\ effects' = [effects EXCEPT ![t] = @ + 1] /\ wk[w] \in WorkerRecords
  BY <1>1, TypeParts DEF InvokeTool, InCall, Standing
<1>3. Writer(wk[w]) /\ effects[t] = 0 /\ Vouched(t)
  BY <1>1, <1>2 DEF Placed, Writer, Free, Once, Careful, At
<1>4. PICK v : v = [wk[w] EXCEPT !.pc = "outcome"]
  OBVIOUS
<1>5. v \in WorkerRecords /\ v.turn = t /\ v.mode = wk[w].mode /\ v.pc = "outcome"
  BY <1>1, <1>2, <1>4 DEF WorkerRecords, Labels
<1>6. wk' = [wk EXCEPT ![w] = v]
  BY <1>4 DEF InvokeTool, Become
<1>7. effects'[t] = 1 /\ \A u \in Turns \ {t} : effects'[u] = effects[u]
  BY <1>2, <1>3, TypeParts
<1>8. Acted(t)' /\ Careful(v)'
  BY <1>2, <1>3, <1>5, <1>7 DEF Acted, Careful, At, Vouched
<1>9. \A x \in Workers \ {w} : Writer(wk[x]) => wk[x].turn # t
  BY <1>1, <1>3 DEF Once, OneWriter
<1>10. QED
  BY <1>2, <1>5, <1>6, <1>7, <1>8, <1>9, OnceOne

LEMMA OnceWorkerStep ==
  ASSUME OneWriterAtATime, TypeInv, Standing, Once, NEW w \in Workers, WorkerStep(w) \/ StepRaises(w)
  PROVE  Once'
<1>1. /\ wk \in [Workers -> WorkerRecords] /\ wk[w] \in WorkerRecords /\ Placed(wk[w])
      /\ IdleWorker \in WorkerRecords /\ Free(IdleWorker)
  BY TypeParts, FreeWorker DEF Standing, Free
<1>2. CASE Leave(w) /\ UNCHANGED <<cp, effects>>
  BY <1>1, <1>2, OnceMoves DEF Leave
<1>3. ASSUME NEW v, v = [wk[w] EXCEPT !.pc = v.pc, !.closing = v.closing, !.beating = v.beating],
             v.pc \in Labels, v.closing \in BOOLEAN, v.beating \in BOOLEAN, wk' = [wk EXCEPT ![w] = v],
             InCall(w), wk[w].pc \notin {"load", "outcome"}, UNCHANGED <<cp, effects>>,
             \/ v.pc \notin {"sync", "start", "invoke", "outcome"}
             \/ wk[w].pc = "sync" /\ v.pc = wk[w].next
      PROVE  Once'
  <2>1. v \in WorkerRecords /\ v.turn = wk[w].turn /\ v.mode = wk[w].mode /\ v.st = wk[w].st
    BY <1>1, <1>3 DEF WorkerRecords
  <2>2. QED
    BY <1>3, <2>1, OnceGoesOn
<1>4. ASSUME NEW x \in Labels, wk' = [wk EXCEPT ![w].pc = x], InCall(w),
             wk[w].pc \notin {"load", "outcome"}, UNCHANGED <<cp, effects>>,
             x \notin {"sync", "start", "invoke", "outcome"} \/ (wk[w].pc = "sync" /\ x = wk[w].next)
      PROVE  Once'
  <2>1. PICK v : v = [wk[w] EXCEPT !.pc = x]
    OBVIOUS
  <2>2. /\ v.pc = x /\ v.closing \in BOOLEAN /\ v.beating \in BOOLEAN
        /\ v = [wk[w] EXCEPT !.pc = v.pc, !.closing = v.closing, !.beating = v.beating]
    BY <1>1, <2>1 DEF WorkerRecords
  <2>3. wk' = [wk EXCEPT ![w] = v]
    BY <1>4, <2>1
  <2>4. QED
    BY <1>3, <1>4, <2>2, <2>3
<1>5. CASE SyncSink(w)
  <2>1. wk[w].pc = "sync" /\ InCall(w) /\ UNCHANGED <<cp, effects>> /\ wk[w].next \in Labels
    BY <1>1, <1>5 DEF SyncSink, InCall, worldVars, WorkerRecords
  <2>2. CASE Become(w, wk[w].next)
    BY <1>4, <2>1, <2>2 DEF Become
  <2>3. CASE Raise(w)
    <3>1. CASE Claimed(w)
      <4>1. wk' = [wk EXCEPT ![w].pc = "error"]
        BY <2>3, <3>1 DEF Raise, Raised
      <4>2. QED
        BY <1>4, <2>1, <4>1 DEF Labels
    <3>2. CASE ~Claimed(w)
      BY <1>2, <2>1, <2>3, <3>2 DEF Raise, Raised, Leave
    <3>3. QED BY <3>1, <3>2
  <2>4. QED BY <1>5, <2>2, <2>3 DEF SyncSink
<1>6. CASE FinalSync(w)
  <2>1. wk[w].pc = "final_sync" /\ InCall(w) /\ UNCHANGED <<cp, effects>>
    BY <1>6 DEF FinalSync, InCall, worldVars
  <2>2. CASE wk' = [wk EXCEPT ![w].pc = "final_mark"]
    BY <1>4, <2>1, <2>2 DEF Labels
  <2>3. CASE wk' = [wk EXCEPT ![w].pc = "error", ![w].closing = TRUE]
    <3>1. PICK v : v = [wk[w] EXCEPT !.pc = "error", !.closing = TRUE]
      OBVIOUS
    <3>2. /\ v.pc = "error" /\ v.closing = TRUE /\ v.beating \in BOOLEAN
          /\ v = [wk[w] EXCEPT !.pc = v.pc, !.closing = v.closing, !.beating = v.beating]
      BY <1>1, <3>1 DEF WorkerRecords
    <3>3. wk' = [wk EXCEPT ![w] = v]
      BY <1>1, <2>3, <3>1
    <3>4. QED
      BY <1>3, <2>1, <3>2, <3>3 DEF Labels
  <2>4. QED BY <1>6, <2>2, <2>3 DEF FinalSync, Become
<1>7. CASE FinalMark(w)
  <2>1. wk[w].pc = "final_mark" /\ wk[w].exc = "none" /\ UNCHANGED <<cp, effects>> /\ Claimed(w)
    BY <1>1, <1>7 DEF FinalMark, Placed, worldVars, Claimed, InCall, Unclaimed, Free
  <2>2. status[wk[w].turn] = "running" /\ status[wk[w].turn] \notin Terminal
    BY <2>1 DEF Standing, Holds, Terminal
  <2>3. Leave(w)
    BY <1>7, <2>1, <2>2 DEF FinalMark
  <2>4. QED BY <1>2, <2>1, <2>3
<1>8. CASE Unwind(w)
  BY <1>2, <1>8 DEF Unwind, worldVars
<1>9. CASE Claim(w)
  <2>1. wk[w].pc = "claim" /\ InCall(w) /\ UNCHANGED <<cp, effects>>
    BY <1>9 DEF Claim, InCall, worldVars
  <2>2. CASE wk' = [wk EXCEPT ![w].pc = "apply", ![w].beating = TRUE]
    <3>1. PICK v : v = [wk[w] EXCEPT !.pc = "apply", !.beating = TRUE]
      OBVIOUS
    <3>2. /\ v.pc = "apply" /\ v.beating = TRUE /\ v.closing \in BOOLEAN
          /\ v = [wk[w] EXCEPT !.pc = v.pc, !.closing = v.closing, !.beating = v.beating]
      BY <1>1, <3>1 DEF WorkerRecords
    <3>3. wk' = [wk EXCEPT ![w] = v]
      BY <1>1, <2>2, <3>1
    <3>4. QED
      BY <1>3, <2>1, <3>2, <3>3 DEF Labels, Awaiting
  <2>3. QED BY <1>2, <1>9, <2>1, <2>2 DEF Claim
<1>10. CASE StreamFinally(w)
  BY <1>1, <1>10 DEF StreamFinally, StreamCloses, Placed
<1>11. ASSUME NEW v, Moves(w, v), effects' = effects PROVE Once'
  BY <1>11, OnceMoveStep
<1>12. QED
  BY <1>5, <1>6, <1>7, <1>8, <1>9, <1>10, <1>11, WorkerShape, OnceSaveStep, OnceInvokes

\* A call begins where no writer is.
LEMMA OnceBegins ==
  ASSUME OneWriterAtATime, GrantInv, Standing, Once, NEW w \in Workers, NEW t \in Turns,
         wk' \in [Workers -> WorkerRecords],
         \/ Resume(w, t) \/ Inspect(w, t)
         \/ \E r \in Runtimes, g \in {"ask", "yes"}, m \in Modes : OpenTurn(w, t, r, g, m)
  PROVE  Once'
<1>1. TypeInv /\ wk \in [Workers -> WorkerRecords]
  BY TypeParts DEF GrantInv
<1>2. UNCHANGED <<cp, effects>>
  BY DEF Resume, Inspect, StartCallOf, OpenTurn, worldVars
<1>3. PICK v \in WorkerRecords : v = wk'[w]
  OBVIOUS
<1>4. wk' = [wk EXCEPT ![w] = v]
  BY <1>1, <1>3 DEF Resume, Inspect, StartCallOf, OpenTurn
<1>5. Acted(t)' /\ (Vouched(t) => Vouched(t)')
  BY <1>2 DEF Once, Acted, Vouched
<1>6. CASE Resume(w, t) \/ Inspect(w, t)
  <2>1. PICK m \in {"resume", "observe"} :
          wk' = [wk EXCEPT ![w] = [IdleWorker EXCEPT !.pc = "load", !.turn = t, !.mode = m]]
          /\ (m = "resume" => Resume(w, t)) /\ (m = "observe" => Inspect(w, t))
    BY <1>6 DEF Resume, Inspect, StartCallOf
  <2>2. v.pc = "load" /\ v.turn = t /\ v.mode = m
    BY <1>1, <1>3, <2>1 DEF IdleWorker
  <2>3. Careful(v)'
    BY <2>2 DEF Careful, At
  <2>4. ASSUME Writer(v), NEW x \in Workers \ {w}, Writer(wk[x]), wk[x].turn = t
        PROVE  FALSE
    <3>1. InCall(x)
      BY <2>4 DEF Writer, Free, InCall
    <3>2. m = "resume"
      BY <2>1, <2>2, <2>4, <3>1 DEF Writer, Inspect, MayBegin
    <3>3. Resume(w, t) /\ Claimed(x)
      BY <2>1, <2>4, <3>1, <3>2 DEF Resume, MayBegin, OneWriterAtATime
    <3>4. Holds(x)
      BY <3>3 DEF Standing
    <3>5. status[t] = "running" /\ LeaseLive(t)
      BY <2>4, <3>4, StoreAssumption DEF Holds, LeaseLive
    <3>6. QED
      BY <3>3, <3>5 DEF Resume, PrepareTurnForResume, Recoverable, HeldByLiveLease
  <2>5. QED
    BY <1>1, <1>2, <1>4, <1>5, <2>2, <2>3, <2>4, OnceOne
<1>7. ASSUME NEW r \in Runtimes, NEW g \in {"ask", "yes"}, NEW m \in Modes, OpenTurn(w, t, r, g, m)
      PROVE  Once'
  <2>1. ~Exists(t)
    BY <1>7 DEF OpenTurn, BeginTurn, RowFree
  <2>2. effects[t] = 0 /\ \A x \in Workers : ~Free(wk[x]) => wk[x].turn # t
    BY <2>1, TypeParts DEF GrantInv, Rooted, Free, InCall
  <2>3. v.turn = t /\ v.pc = "loop_start"
    BY <1>1, <1>3, <1>7 DEF OpenTurn, IdleWorker
  <2>4. Careful(v)'
    BY <1>2, <2>2, <2>3 DEF Careful, At
  <2>5. QED
    BY <1>1, <1>2, <1>4, <1>5, <2>2, <2>3, <2>4, OnceOne DEF Writer
<1>8. QED BY <1>6, <1>7

LEMMA OnceEnvironment ==
  ASSUME TypeInv, Once,
         TimePasses \/ \E w \in Workers : Heartbeat(w) \/ UserCancels(w) \/ Crash(w)
  PROVE  Once'
<1>1. wk \in [Workers -> WorkerRecords]
  BY TypeParts
<1>2. ASSUME wk' = wk, UNCHANGED <<cp, effects>>
      PROVE  Once'
  BY <1>2 DEF Once, OneWriter, Writer, Free, Careful, At, Vouched, Acted
<1>3. ASSUME NEW w \in Workers, NEW b \in BOOLEAN, NEW c \in BOOLEAN, InCall(w),
             wk' = [wk EXCEPT ![w].beating = b, ![w].cancelled = c], UNCHANGED <<cp, effects>>
      PROVE  Once'
  <2>1. PICK v : v = [wk[w] EXCEPT !.beating = b, !.cancelled = c]
    OBVIOUS
  <2>2. /\ v \in WorkerRecords /\ v.turn = wk[w].turn /\ v.mode = wk[w].mode /\ v.pc = wk[w].pc
        /\ v.next = wk[w].next /\ v.st = wk[w].st
    <3>1. wk[w] \in WorkerRecords
      BY <1>1
    <3>2. QED BY <2>1, <3>1 DEF WorkerRecords
  <2>3. wk' = [wk EXCEPT ![w] = v]
    BY <1>1, <1>3, <2>1
  <2>4. Writer(v) => Careful(v)
    BY <2>2 DEF Once, Writer, Free, Careful, At
  <2>5. QED
    BY <1>3, <2>2, <2>3, <2>4, OnceMoves
<1>4. ASSUME NEW w \in Workers, Heartbeat(w) PROVE Once'
  <2>1. UNCHANGED <<cp, effects>> /\ InCall(w)
    BY <1>4 DEF Heartbeat, worldVars
  <2>2. CASE status[wk[w].turn] = "running" /\ owner[wk[w].turn] = w
    BY <1>2, <1>4, <2>1, <2>2 DEF Heartbeat
  <2>3. CASE ~(status[wk[w].turn] = "running" /\ owner[wk[w].turn] = w)
    <3>1. PICK c : c = (wk[w].cancelled \/ status[wk[w].turn] = "running")
      OBVIOUS
    <3>2. c \in BOOLEAN
      BY <3>1
    <3>3. wk' = [wk EXCEPT ![w].beating = FALSE, ![w].cancelled = c]
      <4>1. [wk[w] EXCEPT !.beating = FALSE].cancelled = wk[w].cancelled
        BY <1>1 DEF WorkerRecords
      <4>2. QED BY <1>1, <1>4, <2>3, <3>1, <4>1 DEF Heartbeat
    <3>4. QED
      BY <1>3, <2>1, <3>2, <3>3
  <2>4. QED BY <2>2, <2>3
<1>5. ASSUME NEW w \in Workers, UserCancels(w) PROVE Once'
  <2>1. wk' = [wk EXCEPT ![w].cancelled = TRUE] /\ UNCHANGED <<cp, effects>> /\ InCall(w)
    BY <1>5 DEF UserCancels, FaultFrame, worldVars, Claimed
  <2>2. /\ [wk[w] EXCEPT !.cancelled = TRUE] = [wk[w] EXCEPT !.beating = wk[w].beating, !.cancelled = TRUE]
        /\ wk[w].beating \in BOOLEAN
    BY <1>1 DEF WorkerRecords
  <2>3. wk' = [wk EXCEPT ![w].beating = wk[w].beating, ![w].cancelled = TRUE]
    BY <1>1, <2>1, <2>2
  <2>4. QED
    BY <1>3, <2>1, <2>2, <2>3
<1>6. ASSUME NEW w \in Workers, Crash(w) PROVE Once'
  <2>1. PICK v : v = [IdleWorker EXCEPT !.pc = "dead"]
    OBVIOUS
  <2>2. v \in WorkerRecords /\ Free(v)
    BY <2>1, FreeWorker DEF Free
  <2>3. wk' = [wk EXCEPT ![w] = v] /\ UNCHANGED <<cp, effects>>
    BY <1>1, <1>6, <2>1 DEF Crash, FaultFrame, worldVars
  <2>4. QED
    BY <2>2, <2>3, OnceMoves
<1>7. CASE TimePasses
  BY <1>2, <1>7 DEF TimePasses, worldVars
<1>8. QED
  BY <1>4, <1>5, <1>6, <1>7

LEMMA OnceInitial ==
  ASSUME ServiceInit
  PROVE  OnceInv
<1>1. /\ \A w \in Workers : Free(wk[w])
      /\ \A t \in Turns : effects[t] = 0
  BY DEF ServiceInit, IdleWorker, Free
<1>2. Once
  BY <1>1 DEF Once, OneWriter, Writer, Acted
<1>3. QED
  BY <1>2, HoldInitial DEF OnceInv

LEMMA OnceStep ==
  ASSUME OneWriterAtATime, OnceInv, [ServiceNext]_serviceVars
  PROVE  OnceInv'
<1>1. HoldInv' /\ HoldInv /\ GrantInv /\ TypeInv /\ Standing /\ Once
  BY HoldStep DEF OnceInv, HoldInv, GrantInv, OneWriterAtATime
<1>2. wk' \in [Workers -> WorkerRecords]
  BY <1>1 DEF HoldInv, GrantInv, TypeInv, ServiceTypeOK, WorkerRecords
<1>3. CASE UNCHANGED serviceVars
  <2>1. wk' = wk /\ UNCHANGED <<cp, effects>>
    BY <1>3 DEF serviceVars, worldVars
  <2>2. Once'
    BY <1>1, <2>1 DEF Once, OneWriter, Writer, Free, Careful, At, Vouched, Acted
  <2>3. QED BY <1>1, <2>2 DEF OnceInv
<1>4. CASE ServiceNext
  <2>1. ASSUME NEW w \in Workers, NEW t \in Turns,
               \/ \E r \in Runtimes, g \in {"ask", "yes"}, m \in Modes : OpenTurn(w, t, r, g, m)
               \/ Resume(w, t) \/ Inspect(w, t)
        PROVE  Once'
    BY <1>1, <1>2, <2>1, OnceBegins
  <2>2. ASSUME NEW w \in Workers, WorkerStep(w) \/ StepRaises(w)
        PROVE  Once'
    BY <1>1, <2>2, OnceWorkerStep
  <2>3. TimePasses \/ (\E w \in Workers : Heartbeat(w) \/ UserCancels(w) \/ Crash(w)) => Once'
    BY <1>1, OnceEnvironment
  <2>4. Once'
    BY <1>4, <2>1, <2>2, <2>3 DEF ServiceNext
  <2>5. QED BY <1>1, <2>4 DEF OnceInv
<1>5. QED
  BY <1>3, <1>4

\* A tool call that is not idempotent acts at most once, for any number of service
\* objects and turns: no crash, cancellation, failed save, answer of a human or
\* inspection between two steps of any call makes a later one act again.
THEOREM ActsOnce == OneWriterAtATime => (ServiceSpec => []NeverReplayed)
<1> SUFFICES ASSUME OneWriterAtATime PROVE ServiceSpec => []NeverReplayed
  OBVIOUS
<1>1. ServiceInit => OnceInv
  BY OnceInitial
<1>2. OnceInv /\ [ServiceNext]_serviceVars => OnceInv'
  BY OnceStep
<1>3. OnceInv => NeverReplayed
  BY DEF OnceInv, Once, Acted, NeverReplayed
<1>4. QED
  BY <1>1, <1>2, <1>3, PTL DEF ServiceSpec

-----------------------------------------------------------------------------
(* What the two databases say of a turn.  The checkpoint, the transcript and *)
(* the status are three writes of two databases.  Where a turn has one       *)
(* writer at a time, the transcript is never ahead of the checkpoint, a      *)
(* writer's memory is what has been said, and what it puts down is what the  *)
(* checkpoint holds.                                                         *)

\* Prefixes of transcripts.
LEMMA PrefixReflexive ==
  ASSUME NEW S, NEW s \in Seq(S)
  PROVE  IsPrefix(s, s)
BY PrefixElements

LEMMA PrefixAntisymmetric ==
  ASSUME NEW S, NEW s \in Seq(S), NEW t \in Seq(S), IsPrefix(s, t), IsPrefix(t, s)
  PROVE  s = t
<1>1. Len(s) <= Len(t) /\ Len(t) <= Len(s) /\ \A i \in 1..Len(s) : s[i] = t[i]
  BY PrefixElements
<1>2. Len(s) = Len(t)
  BY <1>1
<1>3. QED
  BY <1>1, <1>2

LEMMA PrefixAppended ==
  ASSUME NEW S, NEW s \in Seq(S), NEW e \in S
  PROVE  IsPrefix(s, Append(s, e))
<1>1. Append(s, e) \in Seq(S) /\ Len(s) <= Len(Append(s, e))
      /\ \A i \in 1..Len(s) : s[i] = Append(s, e)[i]
  OBVIOUS
<1>2. QED
  BY <1>1, PrefixElements

-----------------------------------------------------------------------------
(* The two databases. *)

\* A state that is saved: a doubt is about the pending call, and nothing is pending in the end.
Sane(s) ==
    /\ s.stage # "tool" => ~Ambiguous(s)
    /\ s.status = "completed" => s.stage # "tool"

\* What has been said in a turn, whose checkpoint is c and whose history is h.
Said(c, h) == IF c = NoState THEN h ELSE c.log

\* What the two databases say of a turn.
InStep(c, h, s) ==
    /\ IsPrefix(h, Said(c, h))
    /\ c # NoState => Sane(c)
    /\ s = "paused" => c # NoState /\ c.status = "paused"
    /\ s = "completed" => c # NoState /\ c.status = "completed" /\ h = c.log

\* What a snapshot sink is about to write is no longer than the checkpoint.
Quotes(u, c) == u.pc = "sync" => c # NoState /\ IsPrefix(u.cache.log, c.log)

Busy == {"loop_start", "step", "start", "invoke", "outcome", "merge", "hydrate"}
Calling == {"start", "invoke", "outcome"}
Alike(c, s) == c.status = s.status /\ c.stage = s.stage /\ c.log = s.log

\* What a writer knows of its turn.
Faithful(u, c, h, s) ==
    /\ u.pc \notin {"load", "error", "cancelled"} => u.st.log = Said(c, h) /\ Sane(u.st)
    /\ u.pc = "sync" => u.cache.log = Said(c, h)
    /\ At(u, Busy) => u.st.status = "running"
    /\ At(u, {"step"} \cup Calling) => Alike(u.cache, u.st)
    /\ At(u, Calling) => u.st.stage = "tool"
    /\ Closing(u) => c # NoState /\ (u.st.status \in {"paused", "completed"} => c.status = u.st.status)
    /\ u.pc = "final_mark" => h = Said(c, h)
    /\ At(u, {"manifest"}) /\ "inspect" \notin Overlap => u.st.status = c.status
    /\ u.mode = "observe" \/ At(u, Unclaimed) => s \notin Terminal

Agreement ==
    /\ \A t \in Turns : InStep(cp[t], history[t], status[t])
    /\ \A w \in Workers : ~Free(wk[w]) => Quotes(wk[w], cp[wk[w].turn])
    /\ \A w \in Workers : Writer(wk[w]) =>
          Faithful(wk[w], cp[wk[w].turn], history[wk[w].turn], status[wk[w].turn])

LEMMA StateParts ==
  ASSUME NEW s \in LoopStates
  PROVE  /\ s.log \in Seq(Messages) /\ s # NoState
         /\ s.status \in {"running", "paused"} \cup Terminal
BY StateAssumption DEF LoopStates

\* One worker becomes v, and one turn changes under it.
LEMMA AgreeOne ==
  ASSUME TypeInv, Agreement, NEW w \in Workers, NEW v \in WorkerRecords, wk' = [wk EXCEPT ![w] = v],
         NEW t \in Turns,
         \A x \in Turns \ {t} : cp'[x] = cp[x] /\ history'[x] = history[x] /\ status'[x] = status[x],
         cp' \in [Turns -> LoopStates \cup {NoState}],
         InStep(cp'[t], history'[t], status'[t]),
         Free(v) \/ (v.turn = t /\ Quotes(v, cp'[t])),
         Writer(v) => Faithful(v, cp'[t], history'[t], status'[t]),
         cp[t] # NoState => cp'[t] # NoState /\ IsPrefix(cp[t].log, cp'[t].log),
         \A x \in Workers \ {w} : Writer(wk[x]) /\ wk[x].turn = t =>
            Faithful(wk[x], cp'[t], history'[t], status'[t])
  PROVE  Agreement'
<1>1. wk'[w] = v /\ \A x \in Workers \ {w} : wk'[x] = wk[x]
  BY TypeParts
<1>2. \A x \in Turns : InStep(cp'[x], history'[x], status'[x])
  BY DEF Agreement
<1>3. ASSUME NEW x \in Workers \ {w}, ~Free(wk[x])
      PROVE  Quotes(wk[x], cp'[wk[x].turn])
  <2>1. wk[x].turn \in Turns /\ Quotes(wk[x], cp[wk[x].turn])
    BY <1>3, TypeParts DEF Agreement, InCall, Free
  <2>2. CASE wk[x].turn # t
    BY <2>1, <2>2
  <2>3. CASE wk[x].turn = t /\ wk[x].pc = "sync"
    <3>1. wk[x].cache \in LoopStates /\ cp[t] # NoState /\ IsPrefix(wk[x].cache.log, cp[t].log)
      BY <2>1, <2>3 DEF TypeInv, Equipped, WithCache, Quotes
    <3>2. cp[t] \in LoopStates /\ cp'[t] \in LoopStates
      BY <3>1, TypeParts
    <3>3. IsPrefix(wk[x].cache.log, cp'[t].log)
      BY <3>1, <3>2, StateParts, PrefixTransitive
    <3>4. QED
      BY <2>3, <3>1, <3>3 DEF Quotes
  <2>4. QED
    BY <2>2, <2>3 DEF Quotes
<1>4. ASSUME NEW x \in Workers \ {w}, Writer(wk[x])
      PROVE  Faithful(wk[x], cp'[wk[x].turn], history'[wk[x].turn], status'[wk[x].turn])
  <2>1. wk[x].turn \in Turns
    BY <1>4, TypeParts DEF Writer, InCall, Free
  <2>2. Faithful(wk[x], cp[wk[x].turn], history[wk[x].turn], status[wk[x].turn])
    BY <1>4 DEF Agreement
  <2>3. CASE wk[x].turn # t
    BY <2>1, <2>2, <2>3
  <2>4. CASE wk[x].turn = t
    BY <1>4, <2>4
  <2>5. QED BY <2>3, <2>4
<1>5. \A x \in Workers : ~Free(wk'[x]) => Quotes(wk'[x], cp'[wk'[x].turn])
  BY <1>1, <1>3
<1>6. \A x \in Workers : Writer(wk'[x]) =>
         Faithful(wk'[x], cp'[wk'[x].turn], history'[wk'[x].turn], status'[wk'[x].turn])
  <2>1. Writer(v) => ~Free(v)
    BY DEF Writer
  <2>2. QED
    BY <1>1, <1>4, <2>1
<1>7. (\A x \in Workers : (~Free(wk[x]))' => Quotes(wk[x], cp[wk[x].turn])')
      /\ (\A x \in Workers : Writer(wk[x])' =>
            Faithful(wk[x], cp[wk[x].turn], history[wk[x].turn], status[wk[x].turn])')
      /\ (\A x \in Turns : InStep(cp[x], history[x], status[x])')
  BY <1>2, <1>5, <1>6 DEF Free, Quotes, Writer, Faithful, InStep, At, Closing, Said, Alike, Sane,
       Ambiguous
<1>8. QED
  BY <1>7 DEF Agreement

\* A worker goes on, and neither database changes.
LEMMA AgreeMoves ==
  ASSUME TypeInv, Agreement, NEW w \in Workers, NEW v \in WorkerRecords, wk' = [wk EXCEPT ![w] = v],
         UNCHANGED <<cp, history, status>>,
         \/ Free(v)
         \/ /\ InCall(w) /\ v.turn = wk[w].turn /\ Quotes(v, cp[v.turn])
            /\ Writer(v) => Faithful(v, cp[v.turn], history[v.turn], status[v.turn])
  PROVE  Agreement'
<1>1. CASE Turns = {}
  <2>1. \A x \in Workers : Free(wk[x])
    BY <1>1, TypeParts DEF InCall, Free
  <2>2. \A x \in Workers : Free(wk'[x])
    BY <1>1, <2>1, TypeParts DEF Free, InCall
  <2>3. QED
    BY <1>1, <2>2 DEF Agreement, Free, Writer
<1>2. CASE Turns # {}
  <2>1. PICK t \in Turns : ~Free(v) => t = v.turn
    BY <1>2, TypeParts
  <2>2. cp[t] # NoState => IsPrefix(cp[t].log, cp[t].log)
    BY TypeParts, StateParts, PrefixReflexive
  <2>3. InStep(cp[t], history[t], status[t])
        /\ \A x \in Workers \ {w} : Writer(wk[x]) /\ wk[x].turn = t =>
              Faithful(wk[x], cp[t], history[t], status[t])
    BY DEF Agreement
  <2>4. cp' \in [Turns -> LoopStates \cup {NoState}]
    BY TypeParts
  <2>5. Free(v) \/ (v.turn = t /\ Quotes(v, cp[t]))
    BY <2>1
  <2>6. Writer(v) => Faithful(v, cp[t], history[t], status[t])
    BY <2>1 DEF Writer
  <2>7. QED
    BY <2>2, <2>3, <2>4, <2>5, <2>6, AgreeOne
<1>3. QED BY <1>1, <1>2

\* What is known of a worker in a call.
LEMMA AtHand ==
  ASSUME OnceInv, Agreement, NEW w \in Workers, InCall(w)
  PROVE  /\ TypeInv /\ OneWriter
         /\ wk \in [Workers -> WorkerRecords] /\ wk[w] \in WorkerRecords
         /\ Equipped(wk[w]) /\ Placed(wk[w]) /\ ~Free(wk[w])
         /\ wk[w].turn \in Turns /\ cp[wk[w].turn] \in LoopStates \cup {NoState}
         /\ history[wk[w].turn] \in Seq(Messages)
         /\ InStep(cp[wk[w].turn], history[wk[w].turn], status[wk[w].turn])
         /\ Quotes(wk[w], cp[wk[w].turn])
         /\ Writer(wk[w]) =>
              Faithful(wk[w], cp[wk[w].turn], history[wk[w].turn], status[wk[w].turn])
<1>1. TypeInv /\ OneWriter /\ Standing /\ ~Free(wk[w])
  BY DEF OnceInv, HoldInv, GrantInv, Once, InCall, Free
<1>2. wk[w].turn \in Turns /\ wk \in [Workers -> WorkerRecords]
      /\ cp[wk[w].turn] \in LoopStates \cup {NoState} /\ history[wk[w].turn] \in Seq(Messages)
  BY <1>1, TypeParts DEF StoreTypeOK
<1>3. Equipped(wk[w]) /\ Placed(wk[w]) /\ wk[w] \in WorkerRecords
  BY <1>1, <1>2 DEF TypeInv, Standing
<1>4. QED
  BY <1>1, <1>2, <1>3 DEF Agreement

\* The places at which a turn is held.
Held == {"loop_start", "step", "start", "invoke", "outcome", "merge", "pause_final", "final_sync",
         "final_mark", "hydrate", "apply", "error", "cancelled"}

LEMMA InHold ==
  ASSUME OnceInv, Agreement, NEW w \in Workers, wk[w].pc \in Held
  PROVE  /\ InCall(w) /\ Claimed(w) /\ Writer(wk[w]) /\ wk[w].mode # "observe"
         /\ status[wk[w].turn] = "running" /\ wk[w].st \in LoopStates
         /\ Faithful(wk[w], cp[wk[w].turn], history[wk[w].turn], status[wk[w].turn])
<1>1. InCall(w)
  BY DEF InCall, Held
<1>2. Placed(wk[w]) /\ ~Free(wk[w]) /\ Equipped(wk[w]) /\ Standing
  BY <1>1, AtHand DEF OnceInv, HoldInv
<1>3. wk[w].mode # "observe" /\ wk[w].pc \notin Unclaimed /\ wk[w].pc # "sync" /\ wk[w].pc # "load"
  BY <1>2 DEF Placed, Held, Unclaimed
<1>4. Claimed(w) /\ Writer(wk[w])
  BY <1>1, <1>2, <1>3 DEF Claimed, Writer
<1>5. status[wk[w].turn] = "running" /\ wk[w].st \in LoopStates
  BY <1>2, <1>3, <1>4 DEF Standing, Holds, Equipped
<1>6. QED
  BY <1>1, <1>3, <1>4, <1>5, AtHand

\* Nobody else writes the turn of a writer.
LEMMA AgreeWriter ==
  ASSUME TypeInv, OneWriter, Agreement, NEW w \in Workers, Writer(wk[w]),
         NEW t \in Turns, t = wk[w].turn,
         NEW v \in WorkerRecords, wk' = [wk EXCEPT ![w] = v],
         \A x \in Turns \ {t} : cp'[x] = cp[x] /\ history'[x] = history[x] /\ status'[x] = status[x],
         cp' \in [Turns -> LoopStates \cup {NoState}],
         InStep(cp'[t], history'[t], status'[t]),
         \/ Free(v)
         \/ v.turn = t /\ Quotes(v, cp'[t]) /\ Faithful(v, cp'[t], history'[t], status'[t]),
         cp[t] # NoState => cp'[t] # NoState /\ IsPrefix(cp[t].log, cp'[t].log)
  PROVE  Agreement'
<1>1. \A x \in Workers \ {w} : ~(Writer(wk[x]) /\ wk[x].turn = t)
  BY DEF OneWriter
<1>2. Free(v) \/ (v.turn = t /\ Quotes(v, cp'[t]))
  OBVIOUS
<1>3. Writer(v) => Faithful(v, cp'[t], history'[t], status'[t])
  BY DEF Writer
<1>4. \A x \in Workers \ {w} : Writer(wk[x]) /\ wk[x].turn = t =>
          Faithful(wk[x], cp'[t], history'[t], status'[t])
  BY <1>1
<1>5. QED
  BY <1>2, <1>3, <1>4, AgreeOne

\* What must hold of a snapshot, of the state it leaves in memory and of the step that is next.
Ready(st, snap, label) ==
    /\ st.log = snap.log /\ Sane(st) /\ Sane(snap)
    /\ label \in Busy => st.status = "running"
    /\ label \in {"step"} \cup Calling => Alike(snap, st)
    /\ label \in Calling => st.stage = "tool"
    /\ label \in {"pause_final", "final_sync", "final_mark"} =>
         (st.status \in {"paused", "completed"} => snap.status = st.status)
    /\ label = "manifest" /\ "inspect" \notin Overlap => st.status = snap.status

LEMMA SnapshotFits ==
  ASSUME NEW v, NEW snap \in LoopStates, NEW c, NEW h, NEW s,
         v.pc = "sync", v.cache = snap, Ready(v.st, snap, v.next),
         InStep(c, h, s), h \in Seq(Messages), c \in LoopStates \cup {NoState},
         IsPrefix(Said(c, h), snap.log), s = "paused" => snap.status = "paused", s # "completed",
         v.mode = "observe" \/ v.next \in Unclaimed => s \notin Terminal
  PROVE  /\ InStep(snap, h, s) /\ Quotes(v, snap) /\ Faithful(v, snap, h, s)
         /\ c # NoState => IsPrefix(c.log, snap.log)
<1>1. snap # NoState /\ Said(snap, h) = snap.log /\ snap.log \in Seq(Messages)
      /\ Said(c, h) \in Seq(Messages)
  BY StateParts DEF Said
<1>2. IsPrefix(h, snap.log) /\ IsPrefix(snap.log, snap.log)
  BY <1>1, PrefixTransitive, PrefixReflexive DEF InStep
<1>3. InStep(snap, h, s)
  BY <1>1, <1>2 DEF InStep, Ready
<1>4. Quotes(v, snap)
  BY <1>1, <1>2 DEF Quotes
<1>5. Faithful(v, snap, h, s)
  <2>1. \A places : "sync" \notin places /\ At(v, places) => v.next \in places
    BY DEF At
  <2>2. "sync" \notin Busy /\ "sync" \notin Calling /\ "sync" \notin Unclaimed
    BY DEF Busy, Calling, Unclaimed
  <2>3. At(v, Busy) => v.next \in Busy
    BY <2>1, <2>2
  <2>4. At(v, {"step"} \cup Calling) => v.next \in {"step"} \cup Calling
    BY <2>1, <2>2
  <2>5. At(v, Calling) => v.next \in Calling
    BY <2>1, <2>2
  <2>6. At(v, {"manifest"}) => v.next = "manifest"
    BY <2>1
  <2>7. At(v, Unclaimed) => v.next \in Unclaimed
    BY <2>1, <2>2
  <2>8. Closing(v) => v.next \in {"pause_final", "final_sync", "final_mark"}
    BY DEF Closing
  <2>9. QED
    BY <1>1, <2>3, <2>4, <2>5, <2>6, <2>7, <2>8 DEF Faithful, Ready
<1>6. QED
  BY <1>1, <1>3, <1>4, <1>5 DEF Said

\* A worker that raises knows nothing any more.
LEMMA RaisedFits ==
  ASSUME NEW v, v.pc \in {"error", "cancelled"}, v.mode # "observe", NEW c, NEW h, NEW s
  PROVE  Quotes(v, c) /\ Faithful(v, c, h, s)
BY DEF Quotes, Faithful, At, Busy, Calling, Closing, Unclaimed

\* A worker raises: its handler is next, or the caller is told.
LEMMA AgreeRaises ==
  ASSUME OnceInv, Agreement, NEW w \in Workers, InCall(w),
         NEW u \in WorkerRecords, u.turn = wk[w].turn, u.mode = wk[w].mode,
         NEW x \in {"error", "cancelled"}, wk' = [wk EXCEPT ![w] = Raised(w, u, x)],
         UNCHANGED <<cp, history, status>>
  PROVE  Agreement'
<1>1. TypeInv
  BY AtHand
<1>2. PICK t : t = wk[w].turn
  OBVIOUS
<1>3. CASE Claimed(w)
  <2>1. PICK v : v = [u EXCEPT !.pc = x]
    OBVIOUS
  <2>2. /\ v \in WorkerRecords /\ v.pc = x /\ v.turn = t /\ v.mode = u.mode
    BY <1>2, <2>1 DEF WorkerRecords, Labels
  <2>3. wk' = [wk EXCEPT ![w] = v]
    BY <1>3, <2>1 DEF Raised
  <2>4. Quotes(v, cp[t]) /\ Faithful(v, cp[t], history[t], status[t])
    BY <1>3, <2>2, RaisedFits DEF Claimed
  <2>5. v.turn = wk[w].turn /\ Quotes(v, cp[v.turn])
        /\ Faithful(v, cp[v.turn], history[v.turn], status[v.turn])
    BY <1>2, <2>2, <2>4
  <2>6. QED
    BY <1>1, <2>2, <2>3, <2>5, AgreeMoves
<1>4. CASE ~Claimed(w)
  BY <1>1, <1>4, FreeWorker, AgreeMoves DEF Raised, Free
<1>5. QED BY <1>3, <1>4

\* A writer saves.
LEMMA AgreeSaves ==
  ASSUME OnceInv, Agreement, NEW w \in Workers, InCall(w), Writer(wk[w]),
         NEW t, t = wk[w].turn, NEW u \in WorkerRecords, u.turn = t, u.mode = wk[w].mode,
         NEW snap \in LoopStates, NEW label \in Labels,
         Persist(w, u, snap, label), UNCHANGED storeVars,
         IsPrefix(Said(cp[t], history[t]), snap.log), Ready(u.st, snap, label),
         status[t] = "paused" => snap.status = "paused", status[t] # "completed",
         u.mode = "observe" \/ label \in Unclaimed => status[t] \notin Terminal
  PROVE  Agreement'
<1>1. /\ TypeInv /\ OneWriter /\ wk \in [Workers -> WorkerRecords] /\ t \in Turns
      /\ cp[t] \in LoopStates \cup {NoState} /\ history[t] \in Seq(Messages)
      /\ InStep(cp[t], history[t], status[t]) /\ ~Free(wk[w])
  BY AtHand
<1>2. cp \in [Turns -> LoopStates \cup {NoState}] /\ UNCHANGED <<history, status>>
  BY <1>1, TypeParts DEF storeVars
<1>3. CASE /\ cp' = [cp EXCEPT ![wk[w].turn] = snap]
           /\ wk' = [wk EXCEPT ![w] = [u EXCEPT !.cache = snap, !.pc = "sync", !.next = label]]
  <2>1. PICK v : v = [u EXCEPT !.cache = snap, !.pc = "sync", !.next = label]
    OBVIOUS
  <2>2. /\ v \in WorkerRecords /\ v.st = u.st /\ v.pc = "sync" /\ v.next = label
        /\ v.turn = t /\ v.mode = u.mode /\ v.cache = snap
    BY <2>1 DEF WorkerRecords, Labels, Awaiting
  <2>3. wk' = [wk EXCEPT ![w] = v]
    BY <1>3, <2>1
  <2>4. /\ cp' \in [Turns -> LoopStates \cup {NoState}] /\ cp'[t] = snap /\ snap # NoState
        /\ \A x \in Turns \ {t} : cp'[x] = cp[x] /\ history'[x] = history[x] /\ status'[x] = status[x]
    BY <1>1, <1>2, <1>3, StateParts
  <2>5. /\ InStep(snap, history[t], status[t]) /\ Quotes(v, snap)
        /\ Faithful(v, snap, history[t], status[t])
        /\ cp[t] # NoState => IsPrefix(cp[t].log, snap.log)
    BY <1>1, <2>2, SnapshotFits
  <2>6. QED
    BY <1>1, <1>2, <2>2, <2>3, <2>4, <2>5, AgreeWriter
<1>4. ASSUME NEW x \in {"error", "cancelled"}, cp' = cp, wk' = [wk EXCEPT ![w] = Raised(w, u, x)]
      PROVE  Agreement'
  BY <1>2, <1>4, AgreeRaises
<1>5. QED
  BY <1>3, <1>4 DEF Persist

-----------------------------------------------------------------------------
(* The steps of the loop. *)

\* A turn that is held is running, and memory is what has been said.
LEMMA AgreeHeldSaves ==
  ASSUME OnceInv, Agreement, NEW w \in Workers, wk[w].pc \in Held \ {"error", "cancelled"},
         NEW u \in WorkerRecords, u.turn = wk[w].turn, u.mode = wk[w].mode,
         NEW snap \in LoopStates, NEW label \in Labels \ Unclaimed,
         Persist(w, u, snap, label), LoopFrame \/ UNCHANGED storeVars,
         IsPrefix(wk[w].st.log, snap.log), Ready(u.st, snap, label)
  PROVE  Agreement'
<1>1. /\ InCall(w) /\ Writer(wk[w]) /\ wk[w].mode # "observe" /\ status[wk[w].turn] = "running"
      /\ Faithful(wk[w], cp[wk[w].turn], history[wk[w].turn], status[wk[w].turn])
  BY InHold
<1>2. wk[w].st.log = Said(cp[wk[w].turn], history[wk[w].turn])
  BY <1>1 DEF Faithful, Held
<1>3. UNCHANGED storeVars
  BY DEF LoopFrame
<1>4. QED
  BY <1>1, <1>2, <1>3, AgreeSaves

\* The same state goes to memory and to the checkpoint.
LEMMA AgreeLoopSaves ==
  ASSUME OnceInv, Agreement, NEW w \in Workers, wk[w].pc \in Held \ {"error", "cancelled"},
         NEW r \in LoopStates, NEW label \in {"step", "loop_start", "final_sync", "pause_final", "hydrate"},
         Save(w, r, label), LoopFrame \/ UNCHANGED storeVars,
         IsPrefix(wk[w].st.log, r.log), Sane(r), label \in Busy => r.status = "running"
  PROVE  Agreement'
<1>1. wk[w] \in WorkerRecords
  BY InHold, AtHand
<1>2. PICK u : u = With(w, r)
  OBVIOUS
<1>3. u \in WorkerRecords /\ u.turn = wk[w].turn /\ u.mode = wk[w].mode /\ u.st = r
  BY <1>1, <1>2 DEF With, WorkerRecords
<1>4. Ready(u.st, r, label)
  BY <1>3 DEF Ready, Alike, Calling
<1>5. Persist(w, u, r, label) /\ label \in Labels \ Unclaimed
  BY <1>2 DEF Save, Labels, Awaiting, Unclaimed
<1>6. QED
  BY <1>3, <1>4, <1>5, AgreeHeldSaves

LEMMA RequestLog ==
  ASSUME requests \in Nat, NEW s \in LoopStates,
         NEW k \in {"approval", "reconciliation", "drift"}
  PROVE  PausedFor(s, k).log = s.log
<1>1. PICK r : r = Request(k)
  OBVIOUS
<1>2. PausedFor(s, k) = [s EXCEPT !.status = "paused", !.req = r]
  BY <1>1 DEF PausedFor
<1>3. QED
  BY <1>2 DEF LoopStates

\* What a worker that holds its turn works on.
LEMMA Working ==
  ASSUME OnceInv, Agreement, NEW w \in Workers, wk[w].pc \in {"loop_start", "step", "merge"}
  PROVE  /\ wk[w].pc \in Held \ {"error", "cancelled"} /\ wk[w].st \in LoopStates /\ requests \in Nat
         /\ wk[w].st.log \in Seq(Messages) /\ IsPrefix(wk[w].st.log, wk[w].st.log)
         /\ wk[w].st.status = "running" /\ Sane(wk[w].st) /\ wk[w].st.stage \in {"model", "tool", "answer"}
         /\ \A k \in {"call", "result", "reply", "input"}, s \in LoopStates :
               s.log = wk[w].st.log => IsPrefix(wk[w].st.log, Say(s, w, k).log)
<1>1. wk[w].pc \in Held \ {"error", "cancelled"}
  BY DEF Held
<1>2. /\ wk[w].st \in LoopStates
      /\ Faithful(wk[w], cp[wk[w].turn], history[wk[w].turn], status[wk[w].turn])
  BY <1>1, InHold
<1>3. wk[w].st.log \in Seq(Messages) /\ IsPrefix(wk[w].st.log, wk[w].st.log)
  BY <1>2, StateParts, PrefixReflexive
<1>4. wk[w].st.status = "running" /\ Sane(wk[w].st)
  BY <1>2 DEF Faithful, At, Busy
<1>5. ASSUME NEW k \in {"call", "result", "reply", "input"}, NEW s \in LoopStates,
             s.log = wk[w].st.log
      PROVE  IsPrefix(wk[w].st.log, Say(s, w, k).log)
  <2>1. <<k, w>> \in Messages
    BY ServiceAssumption
  <2>a. Say(s, w, k).log = Append(s.log, <<k, w>>)
    BY SayFacts
  <2>2. PICK e \in Messages : Say(s, w, k).log = Append(wk[w].st.log, e)
    BY <1>5, <2>1, <2>a
  <2>3. IsPrefix(wk[w].st.log, Append(wk[w].st.log, e))
    BY <1>3, PrefixAppended
  <2>4. QED
    BY <2>2, <2>3
<1>6. wk[w].st.stage \in {"model", "tool", "answer"}
  BY <1>2 DEF LoopStates
<1>7. TypeInv
  BY DEF OnceInv, HoldInv, GrantInv
<1>8. requests \in Nat
  BY <1>7, TypeParts
<1>9. QED
  BY <1>1, <1>2, <1>3, <1>4, <1>5, <1>6, <1>8

LEMMA AgreeLoopStep ==
  ASSUME OnceInv, Agreement, NEW w \in Workers,
         \/ LoopStart(w) \/ ScheduleCall(w) \/ ModelPause(w)
         \/ \E v \in Terminal : EndLoop(w, v)
         \/ PauseForApproval(w) \/ RecordResult(w) \/ PauseForReconciliation(w)
  PROVE  Agreement'
<1>1. wk[w].pc \in {"loop_start", "step", "merge"} /\ LoopFrame
  BY DEF LoopStart, ScheduleCall, ModelPause, EndLoop, PauseForApproval, RecordResult,
         PauseForReconciliation, Looping
<1>2. /\ wk[w].pc \in Held \ {"error", "cancelled"} /\ wk[w].st \in LoopStates /\ requests \in Nat
      /\ IsPrefix(wk[w].st.log, wk[w].st.log)
      /\ wk[w].st.status = "running" /\ Sane(wk[w].st)
      /\ \A k \in {"call", "result", "reply", "input"}, s \in LoopStates :
            s.log = wk[w].st.log => IsPrefix(wk[w].st.log, Say(s, w, k).log)
  BY <1>1, Working
<1>3. ASSUME NEW r \in LoopStates, NEW label \in {"step", "final_sync", "pause_final"},
             Save(w, r, label), IsPrefix(wk[w].st.log, r.log), Sane(r),
             label = "step" => r.status = "running"
      PROVE  Agreement'
  <2>1. label \in Busy => label = "step"
    BY DEF Busy
  <2>2. QED
    BY <1>1, <1>2, <1>3, <2>1, AgreeLoopSaves
<1>4. CASE LoopStart(w)
  BY <1>2, <1>3, <1>4 DEF LoopStart
<1>5. ASSUME NEW x \in {"tool", "answer"}, NEW k \in {"call", "result"},
             x = "answer" => ~Ambiguous(wk[w].st),
             Save(w, Say([wk[w].st EXCEPT !.stage = x], w, k), "step")
      PROVE  Agreement'
  <2>1. PICK s : s = [wk[w].st EXCEPT !.stage = x]
    OBVIOUS
  <2>2. /\ s \in LoopStates /\ s.rec = wk[w].st.rec /\ s.stage = x /\ s.status = "running"
        /\ s.log = wk[w].st.log
    BY <1>2, <2>1 DEF LoopStates
  <2>3. PICK r : r = Say(s, w, k)
    OBVIOUS
  <2>4. k \in {"call", "result", "reply", "input"}
    OBVIOUS
  <2>5. /\ r \in LoopStates /\ r.rec = s.rec /\ r.status = s.status /\ r.stage = s.stage
        /\ IsPrefix(wk[w].st.log, r.log)
    BY <1>2, <2>2, <2>3, <2>4, SayFacts
  <2>6. Sane(r)
    BY <1>5, <2>2, <2>5 DEF Sane, Ambiguous
  <2>7. QED
    BY <1>3, <1>5, <2>1, <2>2, <2>3, <2>5, <2>6
<1>6. CASE ScheduleCall(w)
  BY <1>5, <1>6 DEF ScheduleCall
<1>7. CASE RecordResult(w)
  <2>1. ~Ambiguous(wk[w].st)
    BY <1>7 DEF RecordResult, MayPrepare, Settled, Ambiguous
  <2>2. Save(w, Say([wk[w].st EXCEPT !.stage = "answer"], w, "result"), "step")
    BY <1>7 DEF RecordResult
  <2>3. QED
    BY <1>5, <2>1, <2>2
<1>8. ASSUME NEW v \in {"paused"} \cup Terminal, wk[w].st.stage # "tool"
      PROVE  /\ [wk[w].st EXCEPT !.status = v] \in LoopStates
             /\ [wk[w].st EXCEPT !.status = v].log = wk[w].st.log
             /\ [wk[w].st EXCEPT !.status = v].rec = wk[w].st.rec
             /\ [wk[w].st EXCEPT !.status = v].stage = wk[w].st.stage
             /\ ~Ambiguous(wk[w].st)
  <2>1. [wk[w].st EXCEPT !.status = v].stage = wk[w].st.stage
    BY <1>2 DEF LoopStates
  <2>2. QED
    BY <1>2, <1>8, <2>1, StatusFacts DEF Sane
<1>9. CASE ModelPause(w)
  <2>1. PICK r : r = [wk[w].st EXCEPT !.status = "paused"]
    OBVIOUS
  <2>2. wk[w].st.stage # "tool"
    BY <1>9 DEF ModelPause, Looping
  <2>3. /\ r \in LoopStates /\ r.log = wk[w].st.log /\ Sane(r)
    BY <1>8, <2>1, <2>2 DEF Sane, Ambiguous
  <2>4. QED
    BY <1>2, <1>3, <1>9, <2>1, <2>3 DEF ModelPause
<1>10. ASSUME NEW v \in Terminal, EndLoop(w, v)
       PROVE  Agreement'
  <2>1. PICK s : s = [wk[w].st EXCEPT !.status = v]
    OBVIOUS
  <2>2. wk[w].st.stage # "tool"
    BY <1>10 DEF EndLoop, Looping
  <2>3. /\ s \in LoopStates /\ s.log = wk[w].st.log /\ Sane(s) /\ s.stage # "tool" /\ ~Ambiguous(s)
    BY <1>8, <2>1, <2>2 DEF Sane, Ambiguous
  <2>4. PICK r : r = Say(s, w, "reply")
    OBVIOUS
  <2>5. r \in LoopStates /\ r.rec = s.rec /\ r.stage = s.stage /\ IsPrefix(wk[w].st.log, r.log)
    BY <1>2, <2>3, <2>4, SayFacts
  <2>6. Sane(r)
    BY <2>3, <2>5 DEF Sane, Ambiguous
  <2>7. Save(w, r, "final_sync") \/ Save(w, s, "final_sync")
    BY <1>10, <2>1, <2>4 DEF EndLoop
  <2>8. QED
    BY <1>2, <1>3, <2>3, <2>5, <2>6, <2>7
<1>11. CASE PauseForApproval(w)
  <2>1. PICK r : r = PausedFor(wk[w].st, "approval")
    OBVIOUS
  <2>2. /\ r \in LoopStates /\ r.rec = wk[w].st.rec /\ r.stage = wk[w].st.stage /\ r.status = "paused"
        /\ r.log = wk[w].st.log
    BY <1>2, <2>1, RequestFacts, RequestLog
  <2>3. Sane(r)
    BY <1>2, <2>2 DEF Sane, Ambiguous
  <2>4. QED
    BY <1>2, <1>3, <1>11, <2>1, <2>2, <2>3 DEF PauseForApproval
<1>12. CASE PauseForReconciliation(w)
  <2>1. PICK s : s = Say(wk[w].st, w, "result")
    OBVIOUS
  <2>2. /\ s \in LoopStates /\ s.rec = wk[w].st.rec /\ s.stage = wk[w].st.stage
        /\ IsPrefix(wk[w].st.log, s.log)
    BY <1>2, <2>1, SayFacts
  <2>3. PICK r : r = PausedFor(s, "reconciliation")
    OBVIOUS
  <2>4. /\ r \in LoopStates /\ r.rec = s.rec /\ r.stage = s.stage /\ r.status = "paused"
        /\ r.log = s.log
    BY <1>2, <2>2, <2>3, RequestFacts, RequestLog
  <2>5. Sane(r)
    BY <1>2, <2>2, <2>4 DEF Sane, Ambiguous
  <2>6. QED
    BY <1>2, <1>3, <1>12, <2>1, <2>2, <2>3, <2>4, <2>5 DEF PauseForReconciliation
<1>13. QED
  BY <1>4, <1>6, <1>7, <1>9, <1>10, <1>11, <1>12

LEMMA AgreePauseFinal ==
  ASSUME OnceInv, Agreement, NEW w \in Workers, PauseFinal(w)
  PROVE  Agreement'
<1>1. wk[w].pc = "pause_final" /\ wk[w].pc \in Held \ {"error", "cancelled"} /\ LoopFrame
  BY DEF PauseFinal, Held
<1>2. /\ wk[w].st \in LoopStates /\ wk[w] \in WorkerRecords
      /\ Faithful(wk[w], cp[wk[w].turn], history[wk[w].turn], status[wk[w].turn])
  BY <1>1, InHold, AtHand
<1>3. Sane(wk[w].st) /\ IsPrefix(wk[w].st.log, wk[w].st.log)
  BY <1>1, <1>2, StateParts, PrefixReflexive DEF Faithful
<1>4. PICK u : u = [wk[w] EXCEPT !.closing = TRUE]
  OBVIOUS
<1>5. u \in WorkerRecords /\ u.turn = wk[w].turn /\ u.mode = wk[w].mode /\ u.st = wk[w].st
  BY <1>2, <1>4 DEF WorkerRecords
<1>6. Ready(u.st, wk[w].st, "final_sync") /\ "final_sync" \in Labels \ Unclaimed
  BY <1>3, <1>5 DEF Ready, Busy, Calling, Labels, Unclaimed
<1>7. Persist(w, u, wk[w].st, "final_sync")
  BY <1>4 DEF PauseFinal
<1>8. QED
  BY <1>1, <1>2, <1>3, <1>5, <1>6, <1>7, AgreeHeldSaves

-----------------------------------------------------------------------------
(* The steps of a call. *)

\* A record is written into the cached state, which is memory but for its record.
LEMMA AgreeRecords ==
  ASSUME OnceInv, Agreement, NEW w \in Workers,
         \/ wk[w].pc = "step" /\ wk[w].st.stage = "tool"
         \/ wk[w].pc \in {"start", "outcome"},
         NEW u \in WorkerRecords, u.turn = wk[w].turn, u.mode = wk[w].mode,
         u.st.log = wk[w].st.log, u.st.status = wk[w].st.status, u.st.stage = wk[w].st.stage,
         NEW x \in {"prepared", "started", "unknown", "completed", "failed"},
         NEW label \in {"start", "invoke", "merge", "cancelled"},
         PersistRecord(w, u, x, label), LoopFrame
  PROVE  Agreement'
<1>1. wk[w].pc \in Held \ {"error", "cancelled"} /\ wk[w].pc \in {"step"} \cup Calling
  BY DEF Held, Calling
<1>2. /\ wk[w].st \in LoopStates /\ InCall(w)
      /\ Faithful(wk[w], cp[wk[w].turn], history[wk[w].turn], status[wk[w].turn])
  BY <1>1, InHold
<1>3. Alike(wk[w].cache, wk[w].st) /\ wk[w].st.status = "running" /\ wk[w].st.stage = "tool"
  BY <1>1, <1>2 DEF Faithful, At, Busy, Calling
<1>4. wk[w].cache \in LoopStates
  BY <1>1, <1>2, AtHand DEF Equipped, WithCache, Calling
<1>5. PICK snap : snap = [wk[w].cache EXCEPT !.rec = x]
  OBVIOUS
<1>6. /\ snap \in LoopStates /\ snap.status = wk[w].cache.status /\ snap.stage = wk[w].cache.stage
      /\ snap.log = wk[w].cache.log
  BY <1>4, <1>5 DEF LoopStates
<1>7. Sane(snap) /\ Sane(u.st) /\ Alike(snap, u.st) /\ u.st.status = "running"
  BY <1>3, <1>6 DEF Alike, Sane
<1>8. Ready(u.st, snap, label)
  BY <1>3, <1>7 DEF Ready, Alike
<1>9. IsPrefix(wk[w].st.log, snap.log)
  BY <1>2, <1>3, <1>6, StateParts, PrefixReflexive DEF Alike
<1>10. Persist(w, u, snap, label) /\ label \in Labels \ Unclaimed
  BY <1>5 DEF PersistRecord, Labels, Awaiting, Unclaimed
<1>11. QED
  BY <1>1, <1>6, <1>8, <1>9, <1>10, AgreeHeldSaves

LEMMA AgreeCall ==
  ASSUME OnceInv, Agreement, NEW w \in Workers,
         \/ PrepareCall(w) \/ StartCall(w)
         \/ \E o \in Outcomes : ToolReturns(w, o)
         \/ ToolCancelled(w)
  PROVE  Agreement'
<1>1. LoopFrame /\ wk[w].pc \in {"step", "start", "outcome"} /\ InCall(w)
  BY DEF PrepareCall, StartCall, ToolReturns, ToolCancelled, Looping, InCall
<1>2. wk[w] \in WorkerRecords /\ wk[w].st \in LoopStates
  BY <1>1, AtHand DEF Equipped, Free
<1>3. CASE PrepareCall(w)
  BY <1>1, <1>2, <1>3, AgreeRecords DEF PrepareCall, Looping
<1>4. CASE StartCall(w)
  BY <1>1, <1>2, <1>4, AgreeRecords DEF StartCall
<1>5. ASSUME NEW s, NEW x \in {"unknown", "completed", "failed"}, s = [wk[w].st EXCEPT !.rec = x]
      PROVE  s \in LoopStates /\ s.log = wk[w].st.log /\ s.status = wk[w].st.status /\ s.stage = wk[w].st.stage
  BY <1>2, <1>5 DEF LoopStates
<1>6. ASSUME NEW o \in Outcomes, ToolReturns(w, o)
      PROVE  Agreement'
  <2>1. o \in {"unknown", "completed", "failed"}
    BY DEF Outcomes
  <2>2. PICK s : s = [wk[w].st EXCEPT !.rec = o]
    OBVIOUS
  <2>3. PICK u : u = With(w, s)
    OBVIOUS
  <2>4. s \in LoopStates /\ s.log = wk[w].st.log /\ s.status = wk[w].st.status /\ s.stage = wk[w].st.stage
    BY <1>5, <2>1, <2>2
  <2>5. u \in WorkerRecords /\ u.turn = wk[w].turn /\ u.mode = wk[w].mode /\ u.st = s
    BY <1>2, <2>3, <2>4 DEF With, WorkerRecords
  <2>6. PersistRecord(w, u, o, "merge") /\ wk[w].pc = "outcome"
    BY <1>6, <2>2, <2>3 DEF ToolReturns
  <2>7. QED
    BY <1>1, <2>1, <2>4, <2>5, <2>6, AgreeRecords
<1>7. CASE ToolCancelled(w)
  <2>1. PICK x \in {"unknown", "failed"}, e \in {"none", "error", "cancelled"}, label \in {"merge", "cancelled"} :
          PersistRecord(w, [wk[w] EXCEPT !.st.rec = x, !.cancelled = FALSE, !.exc = e], x, label)
    <3>1. CASE RemoteTool
      <4>1. PICK e : e = IF wk[w].mode = "stream" THEN "cancelled" ELSE wk[w].exc
        OBVIOUS
      <4>2. e \in {"none", "error", "cancelled"}
        BY <1>2, <4>1 DEF WorkerRecords
      <4>3. PersistRecord(w, [wk[w] EXCEPT !.st.rec = "unknown", !.cancelled = FALSE, !.exc = e], "unknown", "merge")
        BY <1>2, <1>7, <3>1, <4>1 DEF ToolCancelled, WorkerRecords
      <4>4. QED BY <4>2, <4>3
    <3>2. CASE ~RemoteTool
      <4>1. [wk[w] EXCEPT !.st.rec = "failed", !.cancelled = FALSE]
              = [wk[w] EXCEPT !.st.rec = "failed", !.cancelled = FALSE, !.exc = wk[w].exc]
        BY <1>2 DEF WorkerRecords
      <4>2. wk[w].exc \in {"none", "error", "cancelled"}
        BY <1>2 DEF WorkerRecords
      <4>3. QED BY <1>7, <3>2, <4>1, <4>2 DEF ToolCancelled
    <3>3. QED BY <3>1, <3>2
  <2>2. PICK s : s = [wk[w].st EXCEPT !.rec = x]
    OBVIOUS
  <2>3. s \in LoopStates /\ s.log = wk[w].st.log /\ s.status = wk[w].st.status /\ s.stage = wk[w].st.stage
    BY <1>5, <2>2
  <2>4. PICK u : u = [wk[w] EXCEPT !.st.rec = x, !.cancelled = FALSE, !.exc = e]
    OBVIOUS
  <2>5. u = [wk[w] EXCEPT !.st = s, !.cancelled = FALSE, !.exc = e]
    BY <1>2, <2>2, <2>4 DEF WorkerRecords
  <2>6. u \in WorkerRecords /\ u.turn = wk[w].turn /\ u.mode = wk[w].mode /\ u.st = s
    BY <1>2, <2>3, <2>5 DEF WorkerRecords
  <2>7. PersistRecord(w, u, x, label) /\ wk[w].pc = "outcome"
    BY <1>7, <2>1, <2>4 DEF ToolCancelled
  <2>8. QED
    BY <1>1, <2>3, <2>6, <2>7, AgreeRecords
<1>8. QED
  BY <1>3, <1>4, <1>6, <1>7

-----------------------------------------------------------------------------
(* The steps of a resume and of an inspection. *)

\* The state that asks for a reconciliation.
LEMMA AskedFacts ==
  ASSUME requests \in Nat, NEW s \in LoopStates, NEW r,
         r = [PausedFor(s, "reconciliation") EXCEPT !.rec = "unknown"]
  PROVE  /\ r \in LoopStates /\ r.log = s.log /\ r.stage = s.stage /\ r.status = "paused"
         /\ r.rec = "unknown"
<1>1. PICK q : q = PausedFor(s, "reconciliation")
  OBVIOUS
<1>2. q \in LoopStates /\ q.log = s.log /\ q.stage = s.stage /\ q.status = "paused"
  BY <1>1, RequestFacts, RequestLog
<1>3. r = [q EXCEPT !.rec = "unknown"]
  BY <1>1
<1>4. QED
  BY <1>2, <1>3 DEF LoopStates

\* A worker that has read, or read and reconciled, or answered nothing yet.
LEMMA ReadFits ==
  ASSUME NEW v, v.pc \in {"manifest", "claim", "leave"}, NEW c, NEW h, NEW s,
         v.st.log = Said(c, h), Sane(v.st), s \notin Terminal,
         v.pc = "manifest" /\ "inspect" \notin Overlap => v.st.status = c.status
  PROVE  Quotes(v, c) /\ Faithful(v, c, h, s)
BY DEF Quotes, Faithful, At, Busy, Calling, Closing

LEMMA AgreeLoad ==
  ASSUME OnceInv, Agreement, NEW w \in Workers, LoadForResume(w)
  PROVE  Agreement'
<1>1. /\ wk[w].pc = "load" /\ InCall(w) /\ LoopFrame
  BY DEF LoadForResume, InCall
<1>2. PICK t : t = wk[w].turn
  OBVIOUS
<1>3. /\ TypeInv /\ wk \in [Workers -> WorkerRecords] /\ wk[w] \in WorkerRecords /\ t \in Turns
      /\ cp[t] \in LoopStates \cup {NoState} /\ history[t] \in Seq(Messages) /\ ~Free(wk[w])
      /\ InStep(cp[t], history[t], status[t])
      /\ Writer(wk[w]) => Faithful(wk[w], cp[t], history[t], status[t])
  BY <1>1, <1>2, AtHand
<1>4. UNCHANGED <<history, status>> /\ UNCHANGED storeVars
      /\ requests \in Nat /\ cp \in [Turns -> LoopStates \cup {NoState}]
  BY <1>1, <1>3, TypeParts DEF LoopFrame, storeVars
<1>5. Writer(wk[w]) => status[t] \notin Terminal
  BY <1>1, <1>3 DEF Faithful, At, Unclaimed
<1>6. PICK s : s = cp[t]
  OBVIOUS
<1>7. CASE s = NoState
  BY <1>1, <1>2, <1>3, <1>4, <1>6, <1>7, FreeWorker, AgreeMoves DEF LoadForResume, Leave, Free
<1>8. CASE s # NoState /\ ~Ambiguous(s)
  <2>1. PICK v : v = [wk[w] EXCEPT !.st = s, !.cache = s, !.pc = "manifest"]
    OBVIOUS
  <2>2. /\ v \in WorkerRecords /\ v.st = s /\ v.pc = "manifest" /\ v.turn = t
        /\ v.mode = wk[w].mode
    BY <1>2, <1>3, <1>6, <2>1 DEF WorkerRecords, Labels, Unclaimed
  <2>3. wk' = [wk EXCEPT ![w].st = s, ![w].cache = s, ![w].pc = "manifest"] /\ cp' = cp
    BY <1>2, <1>6, <1>8 DEF LoadForResume
  <2>4. wk' = [wk EXCEPT ![w] = v]
    BY <1>3, <2>1, <2>3
  <2>5. s.log = Said(cp[t], history[t]) /\ Sane(s)
    BY <1>3, <1>6, <1>8 DEF Said, InStep
  <2>6. Writer(v) => Writer(wk[w])
    BY <1>3, <2>2 DEF Writer
  <2>7. Quotes(v, cp[t]) /\ (Writer(v) => Faithful(v, cp[t], history[t], status[t]))
    BY <1>5, <1>6, <2>2, <2>5, <2>6, ReadFits DEF Quotes
  <2>8. /\ v.turn = wk[w].turn /\ Quotes(v, cp[v.turn])
        /\ Writer(v) => Faithful(v, cp[v.turn], history[v.turn], status[v.turn])
    BY <1>2, <2>2, <2>7
  <2>9. QED
    BY <1>1, <1>3, <1>4, <2>2, <2>3, <2>4, <2>8, AgreeMoves
<1>9. CASE s # NoState /\ Ambiguous(s)
  <2>1. PICK r : r = [PausedFor(s, "reconciliation") EXCEPT !.rec = "unknown"]
    OBVIOUS
  <2>2. /\ r \in LoopStates /\ r.log = s.log /\ r.stage = s.stage /\ r.status = "paused"
        /\ r.rec = "unknown" /\ s \in LoopStates
    BY <1>3, <1>4, <1>6, <1>9, <2>1, AskedFacts
  <2>3. Sane(s) /\ s.stage = "tool" /\ s.status # "completed" /\ Sane(r) /\ status[t] # "completed"
    BY <1>3, <1>6, <1>9, <2>2 DEF InStep, Sane
  <2>4. PICK u : u = With(w, r)
    OBVIOUS
  <2>5. u \in WorkerRecords /\ u.turn = t /\ u.mode = wk[w].mode /\ u.st = r
    BY <1>2, <1>3, <2>2, <2>4 DEF With, WorkerRecords
  <2>6. Persist(w, u, r, "manifest") /\ "manifest" \in Labels /\ "manifest" \in Unclaimed
    BY <1>2, <1>6, <1>9, <2>1, <2>4 DEF LoadForResume, Save, Labels, Unclaimed
  <2>7. IsPrefix(history[t], r.log) /\ IsPrefix(s.log, r.log) /\ Said(s, history[t]) = r.log
        /\ Said(r, history[t]) = r.log
    <3>1. Said(s, history[t]) = s.log /\ Said(r, history[t]) = r.log
      BY <1>9, <2>2, StateParts DEF Said
    <3>2. IsPrefix(history[t], s.log)
      BY <1>3, <1>6, <3>1 DEF InStep
    <3>3. QED
      BY <2>2, <3>1, <3>2, StateParts, PrefixReflexive
  <2>8. CASE Writer(wk[w])
    <3>1. Ready(u.st, r, "manifest")
      BY <2>3, <2>5 DEF Ready, Busy, Calling
    <3>2. status[t] \notin Terminal /\ status[t] # "completed" /\ IsPrefix(Said(cp[t], history[t]), r.log)
      BY <1>5, <1>6, <2>2, <2>3, <2>7, <2>8
    <3>3. QED
      BY <1>1, <1>2, <1>4, <2>2, <2>5, <2>6, <2>8, <3>1, <3>2, AgreeSaves
  <2>9. CASE ~Writer(wk[w])
    <3>1. wk[w].mode = "observe" /\ "inspect" \in Overlap
      BY <1>3, <2>9 DEF Writer
    <3>2. CASE /\ cp' = [cp EXCEPT ![wk[w].turn] = r]
               /\ wk' = [wk EXCEPT ![w] = [u EXCEPT !.cache = r, !.pc = "sync", !.next = "manifest"]]
      <4>a. PICK label \in Labels : label = "manifest"
        BY <2>6
      <4>1. PICK v : v = [u EXCEPT !.cache = r, !.pc = "sync", !.next = label]
        OBVIOUS
      <4>2. /\ v \in WorkerRecords /\ v.pc = "sync" /\ v.turn = t /\ v.mode = "observe" /\ v.cache = r
        <5>1. u \in WorkerRecords /\ r \in LoopStates \cup {NoState} /\ "sync" \in Labels
          BY <2>2, <2>5 DEF Labels, Awaiting
        <5>2. v \in WorkerRecords
          BY <4>1, <5>1 DEF WorkerRecords
        <5>3. v.pc = "sync" /\ v.turn = u.turn /\ v.mode = u.mode /\ v.cache = r
          BY <4>1, <5>1 DEF WorkerRecords
        <5>4. QED BY <2>5, <3>1, <5>2, <5>3
      <4>3. wk' = [wk EXCEPT ![w] = v]
        BY <3>2, <4>a, <4>1
      <4>4. /\ cp' \in [Turns -> LoopStates \cup {NoState}] /\ cp'[t] = r /\ r # NoState
            /\ \A x \in Turns \ {t} : cp'[x] = cp[x] /\ history'[x] = history[x] /\ status'[x] = status[x]
            /\ history'[t] = history[t] /\ status'[t] = status[t]
        BY <1>2, <1>3, <1>4, <2>2, <3>2, StateParts
      <4>5. InStep(r, history[t], status[t])
        BY <2>2, <2>3, <2>7, <4>4 DEF InStep
      <4>6. Quotes(v, r) /\ ~Writer(v)
        BY <2>2, <3>1, <4>2, <4>4, StateParts, PrefixReflexive DEF Quotes, Writer
      <4>7. ASSUME NEW x \in Workers \ {w}, Writer(wk[x]), wk[x].turn = t
            PROVE  Faithful(wk[x], r, history[t], status[t])
        <5>1. Faithful(wk[x], s, history[t], status[t])
          BY <1>6, <4>7 DEF Agreement
        <5>2. Closing(wk[x]) => wk[x].st.status # "completed"
          BY <2>3, <5>1 DEF Faithful
        <5>3. QED
          BY <2>2, <2>7, <3>1, <4>4, <5>1, <5>2 DEF Faithful
      <4>8. cp[t] # NoState => cp'[t] # NoState /\ IsPrefix(cp[t].log, cp'[t].log)
        BY <1>6, <2>7, <4>4
      <4>9. /\ InStep(cp'[t], history'[t], status'[t]) /\ v.turn = t /\ Quotes(v, cp'[t])
            /\ \A x \in Workers \ {w} : Writer(wk[x]) /\ wk[x].turn = t =>
                  Faithful(wk[x], cp'[t], history'[t], status'[t])
        BY <4>2, <4>4, <4>5, <4>6, <4>7
      <4>10. QED
        BY <1>3, <4>2, <4>3, <4>4, <4>6, <4>8, <4>9, AgreeOne
    <3>3. ASSUME NEW x \in {"error", "cancelled"}, cp' = cp, wk' = [wk EXCEPT ![w] = Raised(w, u, x)]
          PROVE  Agreement'
      BY <1>1, <1>2, <1>4, <2>5, <3>3, AgreeRaises
    <3>4. QED
      BY <2>6, <3>2, <3>3 DEF Persist
  <2>10. QED BY <2>8, <2>9
<1>10. QED BY <1>7, <1>8, <1>9

\* The state that asks what became of a changed tool.
LEMMA DriftedFacts ==
  ASSUME requests \in Nat, NEW s \in LoopStates, NEW d
  PROVE  LET x == Drifted(s, d) IN
         x \in LoopStates /\ x.log = s.log /\ x.stage = s.stage /\ x.status = "paused"
<1>1. PICK q : q = PausedFor(s, "drift")
  OBVIOUS
<1>2. q \in LoopStates /\ q.log = s.log /\ q.stage = s.stage /\ q.status = "paused"
  BY <1>1, RequestFacts, RequestLog
<1>3. PICK y : y = IF s.rec = "none" /\ d = "changed" THEN "prepared" ELSE q.rec
  OBVIOUS
<1>4. y \in {"none", "prepared", "started", "unknown", "completed", "failed"}
  BY <1>2, <1>3 DEF LoopStates
<1>5. Drifted(s, d) = [q EXCEPT !.rec = y]
  BY <1>1, <1>3 DEF Drifted
<1>6. QED
  BY <1>2, <1>4, <1>5 DEF LoopStates

LEMMA AgreeManifest ==
  ASSUME OneWriterAtATime, OnceInv, Agreement, NEW w \in Workers, NEW a \in Actions, NEW d \in Drifts,
         ReconcileManifest(w, a, d)
  PROVE  Agreement'
<1>1. /\ wk[w].pc = "manifest" /\ InCall(w) /\ LoopFrame /\ DriftPossible(w, wk[w].st, a, d)
  BY DEF ReconcileManifest, InCall
<1>2. PICK t : t = wk[w].turn
  OBVIOUS
<1>3. /\ TypeInv /\ wk \in [Workers -> WorkerRecords] /\ wk[w] \in WorkerRecords /\ t \in Turns
      /\ cp[t] \in LoopStates \cup {NoState} /\ history[t] \in Seq(Messages) /\ ~Free(wk[w])
      /\ InStep(cp[t], history[t], status[t]) /\ Equipped(wk[w])
      /\ Writer(wk[w]) => Faithful(wk[w], cp[t], history[t], status[t])
  BY <1>1, <1>2, AtHand
<1>4. UNCHANGED <<history, status>> /\ UNCHANGED storeVars
      /\ requests \in Nat /\ cp \in [Turns -> LoopStates \cup {NoState}]
  BY <1>1, <1>3, TypeParts DEF LoopFrame, storeVars
<1>5. Writer(wk[w]) => /\ status[t] \notin Terminal /\ wk[w].st.log = Said(cp[t], history[t])
                       /\ Sane(wk[w].st)
  BY <1>1, <1>3 DEF Faithful, At, Unclaimed
<1>6. PICK s : s = wk[w].st
  OBVIOUS
<1>7. s \in LoopStates
  BY <1>1, <1>3, <1>6 DEF Equipped
<1>8. PICK done : done = IF wk[w].mode = "observe" \/ a = "refused" THEN "leave" ELSE "claim"
  OBVIOUS
<1>9. done \in {"leave", "claim"}
  BY <1>8
<1>10. PICK u : u = [wk[w] EXCEPT !.action = a]
  OBVIOUS
<1>11. u \in WorkerRecords /\ u.turn = t /\ u.mode = wk[w].mode /\ u.st = s
  BY <1>2, <1>3, <1>6, <1>10 DEF WorkerRecords
<1>12. CASE d = "match"
  <2>1. PICK v : v = [u EXCEPT !.pc = done]
    OBVIOUS
  <2>2. v \in WorkerRecords /\ v.st = s /\ v.pc = done /\ v.turn = t /\ v.mode = wk[w].mode
    BY <1>9, <1>11, <2>1 DEF WorkerRecords, Labels, Unclaimed
  <2>3. wk' = [wk EXCEPT ![w] = v] /\ cp' = cp
    BY <1>8, <1>10, <1>12, <2>1 DEF ReconcileManifest
  <2>4. Writer(v) => Writer(wk[w])
    BY <1>3, <2>2 DEF Writer
  <2>5. Quotes(v, cp[t]) /\ (Writer(v) => Faithful(v, cp[t], history[t], status[t]))
    BY <1>5, <1>6, <1>9, <2>2, <2>4, ReadFits DEF Quotes
  <2>6. /\ v.turn = wk[w].turn /\ Quotes(v, cp[v.turn])
        /\ Writer(v) => Faithful(v, cp[v.turn], history[v.turn], status[v.turn])
    BY <1>2, <2>2, <2>5
  <2>7. QED
    BY <1>1, <1>3, <1>4, <2>2, <2>3, <2>6, AgreeMoves
<1>13. ASSUME d # "match", NEW v \in WorkerRecords, v.turn = t, v.mode = wk[w].mode,
              NEW x \in LoopStates, v.st = x, x.log = s.log, Sane(x),
              s.status = "paused" => x.status = "paused",
              NEW label \in {"leave", "claim"}, Persist(w, v, x, label)
       PROVE  Agreement'
  <2>1. "inspect" \notin Overlap
    BY <1>13 DEF OneWriterAtATime
  <2>2. Writer(wk[w])
    BY <1>3, <2>1 DEF Writer
  <2>3. s.status = cp[t].status
    BY <1>1, <1>3, <1>6, <2>1, <2>2 DEF Faithful, At
  <2>4. status[t] = "paused" => x.status = "paused"
    BY <1>3, <1>13, <2>3 DEF InStep
  <2>5. IsPrefix(Said(cp[t], history[t]), x.log)
    BY <1>5, <1>6, <1>7, <1>13, <2>2, StateParts, PrefixReflexive
  <2>6. Ready(v.st, x, label)
    BY <1>13 DEF Ready, Busy, Calling
  <2>7. label \in Labels /\ status[t] \notin Terminal /\ status[t] # "completed"
    BY <1>5, <2>2 DEF Labels, Unclaimed, Terminal
  <2>8. QED
    BY <1>1, <1>2, <1>4, <1>13, <2>2, <2>4, <2>5, <2>6, <2>7, AgreeSaves
<1>14. d # "match" => Sane(s)
  <2>1. d # "match" => Writer(wk[w])
    BY <1>3 DEF OneWriterAtATime, Writer
  <2>2. QED BY <1>5, <1>6, <2>1
<1>15. CASE d = "revision"
  <2>1. Persist(w, u, s, done)
    BY <1>6, <1>8, <1>10, <1>15 DEF ReconcileManifest
  <2>2. QED
    BY <1>7, <1>9, <1>11, <1>13, <1>14, <1>15, <2>1
<1>16. CASE d \notin {"match", "revision"}
  <2>1. PICK x : x = Drifted(s, d)
    OBVIOUS
  <2>2. x \in LoopStates /\ x.log = s.log /\ x.stage = s.stage /\ x.status = "paused"
    BY <1>4, <1>7, <2>1, DriftedFacts
  <2>3. s.stage = "tool"
    BY <1>1, <1>6, <1>16 DEF DriftPossible
  <2>4. Sane(x)
    BY <2>2, <2>3 DEF Sane
  <2>5. PICK v : v = [u EXCEPT !.st = x]
    OBVIOUS
  <2>6. v \in WorkerRecords /\ v.turn = t /\ v.mode = wk[w].mode /\ v.st = x
    BY <1>11, <2>2, <2>5 DEF WorkerRecords
  <2>7. Persist(w, v, x, "leave")
    <3>1. Persist(w, [u EXCEPT !.st = Drifted(s, d)], Drifted(s, d), "leave")
      BY <1>6, <1>10, <1>16 DEF ReconcileManifest
    <3>2. QED
      BY <2>1, <2>5, <3>1
  <2>8. QED
    BY <1>13, <1>16, <2>2, <2>4, <2>6, <2>7
<1>17. QED
  BY <1>12, <1>15, <1>16

\* An answer settles a doubt and makes none.
LEMMA AnswerSane ==
  ASSUME NEW s \in LoopStates, Sane(s), NEW a
  PROVE  /\ Answered(s, a) \in LoopStates /\ Answered(s, a).log = s.log
         /\ Answered(s, a).status = "running" /\ Sane(Answered(s, a))
<1>1. PICK r : r = CASE a = "mark_completed" -> "completed"
                     [] a = "mark_failed" /\ s.rec # "none" -> "failed"
                     [] OTHER -> s.rec
  OBVIOUS
<1>2. r \in {"started", "unknown"} => s.rec \in {"started", "unknown"}
  BY <1>1
<1>3. Answered(s, a).rec = r
  BY <1>1 DEF Answered, LoopStates
<1>4. Answered(s, a).status = "running"
  BY DEF Answered, LoopStates
<1>5. Answered(s, a).stage = s.stage
  BY DEF Answered, LoopStates
<1>6. Sane(Answered(s, a))
  BY <1>2, <1>3, <1>4, <1>5 DEF Sane, Ambiguous
<1>7. QED
  BY <1>4, <1>6, AnswerFacts

LEMMA AgreeApply ==
  ASSUME OnceInv, Agreement, NEW w \in Workers, ApplyResponse(w)
  PROVE  Agreement'
<1>1. /\ wk[w].pc = "apply" /\ wk[w].pc \in Held \ {"error", "cancelled"} /\ InCall(w)
      /\ UNCHANGED storeVars
  BY DEF ApplyResponse, Held, InCall
<1>2. PICK t : t = wk[w].turn
  OBVIOUS
<1>3. /\ TypeInv /\ wk \in [Workers -> WorkerRecords] /\ wk[w] \in WorkerRecords /\ t \in Turns
      /\ Equipped(wk[w]) /\ cp[t] \in LoopStates \cup {NoState} /\ history[t] \in Seq(Messages)
      /\ InStep(cp[t], history[t], status[t])
  BY <1>1, <1>2, AtHand
<1>4. /\ wk[w].st \in LoopStates /\ wk[w].mode # "observe"
      /\ Faithful(wk[w], cp[t], history[t], status[t])
  BY <1>1, <1>2, InHold
<1>5. UNCHANGED <<history, status>>
  BY <1>1 DEF storeVars
<1>6. wk[w].st.log = Said(cp[t], history[t]) /\ Sane(wk[w].st)
  BY <1>1, <1>4 DEF Faithful
<1>7. cp[t] \in LoopStates /\ cp[t].log = wk[w].st.log /\ Sane(cp[t])
  <2>1. cp[t] \in LoopStates
    BY <1>1, <1>2, <1>3 DEF Equipped, Resuming, Free
  <2>2. cp[t] # NoState
    BY <2>1, StateParts
  <2>3. Said(cp[t], history[t]) = cp[t].log
    BY <2>2 DEF Said
  <2>4. Sane(cp[t])
    BY <1>3, <2>2 DEF InStep
  <2>5. QED
    BY <1>6, <2>1, <2>3, <2>4
<1>8. PICK a : a = wk[w].action
  OBVIOUS
<1>9. PICK s : s = cp[t]
  OBVIOUS
<1>10. CASE a \in {"continue", "abort"}
  <2>1. PICK x : x = Answered(wk[w].st, a)
    OBVIOUS
  <2>2. x \in LoopStates /\ x.log = wk[w].st.log /\ x.status = "running" /\ Sane(x)
    BY <1>4, <1>6, <2>1, AnswerSane
  <2>3. PICK v : v = [wk[w] EXCEPT !.st = x, !.pc = "hydrate"]
    OBVIOUS
  <2>4. v \in WorkerRecords /\ v.st = x /\ v.pc = "hydrate" /\ v.turn = t
        /\ v.mode = wk[w].mode
    BY <1>2, <1>3, <2>2, <2>3 DEF WorkerRecords, Labels
  <2>5. wk' = [wk EXCEPT ![w].st = x, ![w].pc = "hydrate"] /\ cp' = cp
    BY <1>8, <1>10, <2>1 DEF ApplyResponse
  <2>6. wk' = [wk EXCEPT ![w] = v]
    BY <1>3, <2>3, <2>5
  <2>7. Quotes(v, cp[t]) /\ Faithful(v, cp[t], history[t], status[t])
    BY <1>4, <1>6, <2>2, <2>4 DEF Quotes, Faithful, At, Calling, Closing, Unclaimed
  <2>8. v.turn = wk[w].turn /\ Quotes(v, cp[v.turn])
        /\ Faithful(v, cp[v.turn], history[v.turn], status[v.turn])
    BY <1>2, <2>4, <2>7
  <2>9. QED
    BY <1>1, <1>3, <1>5, <2>4, <2>5, <2>6, <2>8, AgreeMoves
<1>11. CASE a \notin {"continue", "abort"} /\ s.req # NoRequest /\ s.req = wk[w].st.req
  <2>1. PICK x : x = Answered(s, a)
    OBVIOUS
  <2>2. x \in LoopStates /\ x.log = wk[w].st.log /\ x.status = "running" /\ Sane(x)
    BY <1>7, <1>9, <2>1, AnswerSane
  <2>3. Save(w, x, "hydrate")
    BY <1>2, <1>8, <1>9, <1>11, <2>1 DEF ApplyResponse
  <2>4. IsPrefix(wk[w].st.log, x.log)
    BY <2>2, StateParts, PrefixReflexive
  <2>5. QED
    BY <1>1, <2>2, <2>3, <2>4, AgreeLoopSaves
<1>12. CASE a \notin {"continue", "abort"} /\ (s.req = NoRequest \/ s.req # wk[w].st.req)
  <2>1. wk' = [wk EXCEPT ![w].pc = "error"] /\ cp' = cp
    BY <1>2, <1>8, <1>9, <1>12 DEF ApplyResponse, Become
  <2>2. wk' = [wk EXCEPT ![w] = Raised(w, wk[w], "error")]
    BY <1>1, <1>3, <1>4, <2>1 DEF Raised, Claimed, Unclaimed
  <2>3. QED
    BY <1>1, <1>3, <1>5, <2>1, <2>2, AgreeRaises
<1>13. QED BY <1>10, <1>11, <1>12

LEMMA AgreeHydrate ==
  ASSUME OnceInv, Agreement, NEW w \in Workers, NEW said \in BOOLEAN, Hydrate(w, said)
  PROVE  Agreement'
<1>1. /\ wk[w].pc = "hydrate" /\ wk[w].pc \in Held \ {"error", "cancelled"} /\ InCall(w)
      /\ LoopFrame
  BY DEF Hydrate, Held, InCall
<1>2. PICK t : t = wk[w].turn
  OBVIOUS
<1>3. /\ wk[w].st \in LoopStates /\ Faithful(wk[w], cp[t], history[t], status[t])
      /\ InStep(cp[t], history[t], status[t]) /\ t \in Turns
  BY <1>1, <1>2, InHold, AtHand
<1>4. PICK s : s = wk[w].st
  OBVIOUS
<1>5. /\ s \in LoopStates /\ s.log \in Seq(Messages) /\ IsPrefix(s.log, s.log)
      /\ s.status = "running" /\ Sane(s) /\ IsPrefix(history[t], s.log)
  <2>1. s \in LoopStates /\ s.log \in Seq(Messages) /\ IsPrefix(s.log, s.log)
    BY <1>3, <1>4, StateParts, PrefixReflexive
  <2>2. s.status = "running" /\ Sane(s) /\ s.log = Said(cp[t], history[t])
    BY <1>1, <1>3, <1>4 DEF Faithful, At, Busy
  <2>3. QED
    BY <1>3, <2>1, <2>2 DEF InStep
<1>6. [s EXCEPT !.log = s.log] = s
  BY <1>5 DEF LoopStates
<1>7. \/ Save(w, [s EXCEPT !.status = "failed"], "final_sync")
      \/ Save(w, Say(s, w, "input"), "loop_start")
      \/ Save(w, s, "loop_start")
  BY <1>2, <1>4, <1>5, <1>6 DEF Hydrate
<1>8. ASSUME NEW r \in LoopStates, IsPrefix(s.log, r.log), Sane(r),
             NEW label \in {"final_sync", "loop_start"}, Save(w, r, label),
             label = "loop_start" => r.status = "running"
      PROVE  Agreement'
  <2>1. label \in Busy => label = "loop_start"
    BY DEF Busy
  <2>2. QED
    BY <1>1, <1>4, <1>8, <2>1, AgreeLoopSaves
<1>9. CASE Save(w, s, "loop_start")
  BY <1>5, <1>8, <1>9
<1>10. CASE Save(w, [s EXCEPT !.status = "failed"], "final_sync")
  <2>1. PICK r : r = [s EXCEPT !.status = "failed"]
    OBVIOUS
  <2>2. /\ r \in LoopStates /\ r.log = s.log /\ r.rec = s.rec /\ r.stage = s.stage
        /\ r.status = "failed"
    BY <1>5, <2>1 DEF LoopStates, Terminal
  <2>3. Sane(r)
    BY <1>5, <2>2 DEF Sane, Ambiguous
  <2>4. QED
    BY <1>5, <1>8, <1>10, <2>1, <2>2, <2>3
<1>11. CASE Save(w, Say(s, w, "input"), "loop_start")
  <2>1. PICK r : r = Say(s, w, "input")
    OBVIOUS
  <2>2. /\ r \in LoopStates /\ r.rec = s.rec /\ r.stage = s.stage
        /\ r.status = "running" /\ r.log = Append(s.log, <<"input", w>>)
    BY <1>5, <2>1, SayFacts
  <2>3. Sane(r)
    BY <1>5, <2>2 DEF Sane, Ambiguous
  <2>4. <<"input", w>> \in Messages
    BY ServiceAssumption
  <2>5. IsPrefix(s.log, Append(s.log, <<"input", w>>))
    BY <1>5, <2>4, PrefixAppended
  <2>6. QED
    BY <1>8, <1>11, <2>1, <2>2, <2>3, <2>5
<1>12. QED BY <1>7, <1>9, <1>10, <1>11

-----------------------------------------------------------------------------
(* The steps that touch the turn table, and the tool. *)

\* The canonical history is no longer than the checkpoint; if it was the checkpoint, it stays so.
LEMMA AgreeSink ==
  ASSUME OnceInv, Agreement, NEW w \in Workers, SyncSink(w)
  PROVE  Agreement'
<1>1. wk[w].pc = "sync" /\ InCall(w) /\ UNCHANGED cp
  BY DEF SyncSink, InCall
<1>2. PICK t : t = wk[w].turn
  OBVIOUS
<1>3. /\ TypeInv /\ wk \in [Workers -> WorkerRecords] /\ wk[w] \in WorkerRecords /\ t \in Turns
      /\ Equipped(wk[w]) /\ cp[t] \in LoopStates \cup {NoState} /\ history[t] \in Seq(Messages)
      /\ InStep(cp[t], history[t], status[t]) /\ ~Free(wk[w]) /\ Quotes(wk[w], cp[t])
      /\ Writer(wk[w]) => Faithful(wk[w], cp[t], history[t], status[t])
  BY <1>1, <1>2, AtHand
<1>4. StoreTypeOK /\ cp \in [Turns -> LoopStates \cup {NoState}]
  BY <1>3, TypeParts
<1>5. PICK l : l = wk[w].cache.log
  OBVIOUS
<1>6. CASE ~ExtendsHistory(t, l)
  <2>1. wk' = [wk EXCEPT ![w] = Raised(w, wk[w], "error")] /\ UNCHANGED storeVars
    BY <1>2, <1>5, <1>6 DEF SyncSink, Raise
  <2>2. UNCHANGED <<cp, history, status>>
    BY <1>1, <2>1 DEF storeVars
  <2>3. QED
    BY <1>1, <1>3, <2>1, <2>2, AgreeRaises
<1>7. CASE ExtendsHistory(t, l)
  <2>1. PICK v : v = [wk[w] EXCEPT !.pc = wk[w].next]
    OBVIOUS
  <2>2. /\ v \in WorkerRecords /\ v.pc = wk[w].next /\ v.turn = t /\ v.mode = wk[w].mode
        /\ v.st = wk[w].st /\ v.pc \in Following
    BY <1>1, <1>2, <1>3, <2>1 DEF WorkerRecords, Equipped
  <2>3. wk' = [wk EXCEPT ![w] = v] /\ SyncTurnMessages(t, l)
    BY <1>2, <1>5, <1>7, <2>1 DEF SyncSink, Become
  <2>4. /\ history'[t] = l /\ status' = status
        /\ \A x \in Turns \ {t} : history'[x] = history[x]
    BY <1>3, <1>4, <2>3 DEF SyncTurnMessages, StoreTypeOK
  <2>5. /\ l \in Seq(Messages) /\ cp[t] \in LoopStates /\ cp[t].log \in Seq(Messages)
        /\ cp[t] # NoState /\ IsPrefix(l, cp[t].log) /\ IsPrefix(history[t], l)
        /\ Said(cp[t], history[t]) = cp[t].log /\ Said(cp[t], l) = cp[t].log
        /\ IsPrefix(cp[t].log, cp[t].log)
    <3>1. wk[w].cache \in LoopStates
      BY <1>1, <1>3 DEF Equipped, WithCache
    <3>2. l \in Seq(Messages)
      BY <1>5, <3>1, StateParts
    <3>3. cp[t] # NoState /\ IsPrefix(l, cp[t].log)
      BY <1>1, <1>3, <1>5 DEF Quotes
    <3>4. cp[t] \in LoopStates
      BY <1>3, <3>3
    <3>5. cp[t].log \in Seq(Messages) /\ IsPrefix(cp[t].log, cp[t].log)
      BY <3>4, StateParts, PrefixReflexive
    <3>6. Said(cp[t], history[t]) = cp[t].log /\ Said(cp[t], l) = cp[t].log
      BY <3>3 DEF Said
    <3>7. QED
      BY <1>7, <3>2, <3>3, <3>4, <3>5, <3>6 DEF ExtendsHistory
  <2>6. history[t] = cp[t].log => l = cp[t].log
    BY <2>5, PrefixAntisymmetric
  <2>7. InStep(cp[t], l, status[t])
    BY <1>3, <2>5, <2>6 DEF InStep
  <2>8. ASSUME NEW u, Faithful(u, cp[t], history[t], status[t])
        PROVE  Faithful(u, cp[t], l, status[t])
    BY <2>5, <2>6, <2>8 DEF Faithful
  <2>9. ASSUME Writer(v)
        PROVE  Faithful(v, cp[t], l, status[t])
    <3>1. Writer(wk[w])
      BY <1>3, <2>2, <2>9 DEF Writer
    <3>2. Faithful(wk[w], cp[t], l, status[t])
      BY <1>3, <2>8, <3>1
    <3>3. \A places : At(v, places) => At(wk[w], places)
      BY <1>1, <2>2 DEF At, Following
    <3>4. Closing(v) => Closing(wk[w])
      BY <1>1, <2>2 DEF Closing, Following
    <3>5. At(v, {"step"} \cup Calling) => v.cache = wk[w].cache
      BY <1>3, <2>1 DEF WorkerRecords
    <3>6. v.pc # "sync" /\ v.pc # "load"
      BY <2>2 DEF Following
    <3>7. v.pc = "final_mark" => l = Said(cp[t], l)
      BY <1>1, <1>5, <3>2 DEF Faithful
    <3>8. wk[w].st.log = Said(cp[t], l) /\ Sane(wk[w].st)
      BY <1>1, <3>2 DEF Faithful
    <3>9. QED
      BY <2>2, <3>2, <3>3, <3>4, <3>5, <3>6, <3>7, <3>8 DEF Faithful
  <2>10. Quotes(v, cp[t])
    BY <2>2 DEF Quotes, Following
  <2>11. \A x \in Workers \ {w} : Writer(wk[x]) /\ wk[x].turn = t => Faithful(wk[x], cp[t], l, status[t])
    <3>1. \A x \in Workers \ {w} : Writer(wk[x]) /\ wk[x].turn = t =>
             Faithful(wk[x], cp[t], history[t], status[t])
      BY DEF Agreement
    <3>2. QED BY <2>8, <3>1
  <2>12. /\ cp'[t] = cp[t] /\ cp' \in [Turns -> LoopStates \cup {NoState}] /\ status'[t] = status[t]
         /\ \A x \in Turns \ {t} : cp'[x] = cp[x] /\ history'[x] = history[x] /\ status'[x] = status[x]
    BY <1>1, <1>4, <2>4
  <2>13. QED
    BY <1>3, <2>2, <2>3, <2>4, <2>5, <2>7, <2>9, <2>10, <2>11, <2>12, AgreeOne
<1>8. QED BY <1>6, <1>7

\* The transcript follows the memory of a worker that puts its turn down.
LEMMA AgreeFinalSync ==
  ASSUME OnceInv, Agreement, NEW w \in Workers, FinalSync(w)
  PROVE  Agreement'
<1>1. wk[w].pc = "final_sync" /\ wk[w].pc \in Held /\ InCall(w) /\ UNCHANGED cp
  BY DEF FinalSync, InCall, Held
<1>2. PICK t : t = wk[w].turn
  OBVIOUS
<1>3. /\ TypeInv /\ OneWriter /\ wk \in [Workers -> WorkerRecords] /\ wk[w] \in WorkerRecords
      /\ t \in Turns /\ cp[t] \in LoopStates \cup {NoState} /\ history[t] \in Seq(Messages)
      /\ InStep(cp[t], history[t], status[t])
  BY <1>1, <1>2, AtHand
<1>4. /\ wk[w].st \in LoopStates /\ wk[w].mode # "observe" /\ Writer(wk[w])
      /\ status[t] = "running" /\ Faithful(wk[w], cp[t], history[t], status[t])
  BY <1>1, <1>2, InHold
<1>5. StoreTypeOK /\ cp \in [Turns -> LoopStates \cup {NoState}]
  BY <1>3, TypeParts
<1>6. PICK l : l = wk[w].st.log
  OBVIOUS
<1>7. cp[t] # NoState /\ l = cp[t].log /\ l \in Seq(Messages) /\ IsPrefix(l, l) /\ Sane(wk[w].st)
      /\ (wk[w].st.status \in {"paused", "completed"} => cp[t].status = wk[w].st.status)
  <2>1. cp[t] # NoState /\ Sane(wk[w].st) /\ l = Said(cp[t], history[t])
        /\ (wk[w].st.status \in {"paused", "completed"} => cp[t].status = wk[w].st.status)
    BY <1>1, <1>4, <1>6 DEF Faithful, Closing
  <2>2. l \in Seq(Messages) /\ IsPrefix(l, l)
    BY <1>4, <1>6, StateParts, PrefixReflexive
  <2>3. QED BY <2>1, <2>2 DEF Said
<1>8. ExtendsHistory(t, l)
  BY <1>3, <1>7 DEF InStep, Said, ExtendsHistory
<1>9. PICK v : v = [wk[w] EXCEPT !.pc = "final_mark"]
  OBVIOUS
<1>10. /\ v \in WorkerRecords /\ v.pc = "final_mark" /\ v.turn = t /\ v.mode = wk[w].mode
       /\ v.st = wk[w].st
  BY <1>2, <1>3, <1>9 DEF WorkerRecords, Labels
<1>11. wk' = [wk EXCEPT ![w] = v] /\ SyncTurnMessages(t, l)
  BY <1>2, <1>6, <1>8, <1>9 DEF FinalSync, Become
<1>12. /\ history'[t] = l /\ status' = status
       /\ \A x \in Turns \ {t} : history'[x] = history[x]
  BY <1>3, <1>5, <1>11 DEF SyncTurnMessages, StoreTypeOK
<1>13. InStep(cp[t], l, status[t])
  BY <1>3, <1>4, <1>7 DEF InStep, Said
<1>14. Quotes(v, cp[t])
  BY <1>10 DEF Quotes
<1>15. Faithful(v, cp[t], l, status[t])
  BY <1>4, <1>6, <1>7, <1>10 DEF Faithful, At, Busy, Calling, Closing, Unclaimed, Said
<1>16. /\ cp'[t] = cp[t] /\ cp' \in [Turns -> LoopStates \cup {NoState}] /\ status'[t] = status[t]
       /\ \A x \in Turns \ {t} : cp'[x] = cp[x] /\ history'[x] = history[x] /\ status'[x] = status[x]
  BY <1>1, <1>5, <1>12
<1>17. /\ InStep(cp'[t], history'[t], status'[t]) /\ v.turn = t /\ Quotes(v, cp'[t])
       /\ Faithful(v, cp'[t], history'[t], status'[t])
       /\ cp[t] # NoState => cp'[t] # NoState /\ IsPrefix(cp[t].log, cp'[t].log)
  BY <1>7, <1>10, <1>12, <1>13, <1>14, <1>15, <1>16
<1>18. wk' = [wk EXCEPT ![w] = v]
  BY <1>11
<1>19. QED
  BY <1>2, <1>3, <1>4, <1>10, <1>16, <1>17, <1>18, AgreeWriter

\* A worker lets go of the turn it holds.
LEMMA AgreeReleases ==
  ASSUME OnceInv, Agreement, NEW w \in Workers, wk[w].pc \in Held, Leave(w), cp' = cp,
         NEW s \in {"paused", "interrupted"} \cup Terminal, Release({wk[w].turn}, s),
         InStep(cp[wk[w].turn], history[wk[w].turn], s)
  PROVE  Agreement'
<1>1. PICK t : t = wk[w].turn
  OBVIOUS
<1>2. InCall(w) /\ Writer(wk[w])
  BY InHold
<1>3. /\ TypeInv /\ OneWriter /\ wk \in [Workers -> WorkerRecords] /\ t \in Turns
      /\ cp[t] \in LoopStates \cup {NoState}
  BY <1>1, <1>2, AtHand
<1>4. StoreTypeOK /\ cp \in [Turns -> LoopStates \cup {NoState}]
  BY <1>3, TypeParts
<1>5. /\ status'[t] = s /\ history' = history
      /\ \A x \in Turns \ {t} : status'[x] = status[x]
  BY <1>1, <1>3, <1>4 DEF Release, Put, StoreTypeOK
<1>6. PICK v : v = IdleWorker
  OBVIOUS
<1>7. wk' = [wk EXCEPT ![w] = v] /\ v \in WorkerRecords /\ Free(v)
  BY <1>6, FreeWorker DEF Leave, Free
<1>8. cp[t] # NoState => IsPrefix(cp[t].log, cp[t].log)
  BY <1>3, StateParts, PrefixReflexive
<1>9. InStep(cp'[t], history'[t], status'[t])
  BY <1>1, <1>5
<1>10. /\ cp' \in [Turns -> LoopStates \cup {NoState}]
       /\ \A x \in Turns \ {t} : cp'[x] = cp[x] /\ history'[x] = history[x] /\ status'[x] = status[x]
  BY <1>4, <1>5
<1>11. QED
  BY <1>1, <1>2, <1>3, <1>7, <1>8, <1>9, <1>10, AgreeWriter

LEMMA AgreeFinalMark ==
  ASSUME OnceInv, Agreement, NEW w \in Workers, FinalMark(w) \/ StreamFinally(w) \/ Unwind(w)
  PROVE  Agreement'
<1>1. wk[w].pc \in {"final_mark", "error", "cancelled"} /\ wk[w].pc \in Held
  BY DEF FinalMark, StreamFinally, Unwind, Unwinding, Held
<1>2. PICK t : t = wk[w].turn
  OBVIOUS
<1>3. /\ InCall(w) /\ wk[w].st \in LoopStates /\ status[t] = "running"
      /\ Faithful(wk[w], cp[t], history[t], status[t])
  BY <1>1, <1>2, InHold
<1>4. /\ Equipped(wk[w]) /\ Placed(wk[w]) /\ InStep(cp[t], history[t], status[t])
  BY <1>2, <1>3, AtHand
<1>5. wk[w].mode # "stream" /\ wk[w].exc = "none"
  BY <1>4 DEF Placed
<1>6. CASE FinalMark(w)
  <2>1. wk[w].pc = "final_mark" /\ wk[w].st.status # "running"
    BY <1>4, <1>6 DEF FinalMark, Equipped, Closing
  <2>2. wk[w].st.status \in {"paused"} \cup Terminal
    BY <1>3, <2>1, StateParts
  <2>3. PICK s : s = wk[w].st.status
    OBVIOUS
  <2>4. Leave(w) /\ cp' = cp /\ Release({t}, s)
    <3>1. "running" \notin Terminal
      BY DEF Terminal
    <3>2. CASE s = "paused"
      BY <1>2, <1>3, <1>5, <1>6, <2>3, <3>2 DEF FinalMark, MarkPaused, MarkRecoverable
    <3>3. CASE s # "paused"
      BY <1>2, <1>3, <1>5, <1>6, <2>3, <3>1, <3>3 DEF FinalMark, MarkTerminal
    <3>4. QED BY <3>2, <3>3
  <2>5. /\ history[t] = Said(cp[t], history[t]) /\ cp[t] # NoState
        /\ s \in {"paused", "completed"} => cp[t].status = s
    BY <1>3, <2>1, <2>3 DEF Faithful, Closing
  <2>6. InStep(cp[t], history[t], s)
    BY <1>4, <2>5 DEF InStep, Said
  <2>7. QED
    BY <1>1, <1>2, <2>2, <2>3, <2>4, <2>6, AgreeReleases
<1>7. CASE Unwind(w)
  <2>1. PICK s \in {"failed", "interrupted"} : Release({t}, s)
    BY <1>2, <1>3, <1>7 DEF Unwind, MarkTerminal, MarkInterrupted, MarkRecoverable
  <2>2. Leave(w) /\ cp' = cp
    BY <1>7 DEF Unwind
  <2>3. InStep(cp[t], history[t], s)
    BY <1>4 DEF InStep
  <2>4. s \in {"paused", "interrupted"} \cup Terminal
    BY DEF Terminal
  <2>5. QED
    BY <1>1, <1>2, <2>1, <2>2, <2>3, <2>4, AgreeReleases
<1>8. CASE StreamFinally(w)
  BY <1>5, <1>8 DEF StreamFinally, StreamCloses
<1>9. QED
  BY <1>6, <1>7, <1>8

LEMMA AgreeClaim ==
  ASSUME OnceInv, Agreement, NEW w \in Workers, Claim(w)
  PROVE  Agreement'
<1>1. wk[w].pc = "claim" /\ InCall(w) /\ UNCHANGED cp
  BY DEF Claim, InCall
<1>2. PICK t : t = wk[w].turn
  OBVIOUS
<1>3. /\ TypeInv /\ OneWriter /\ wk \in [Workers -> WorkerRecords] /\ wk[w] \in WorkerRecords
      /\ t \in Turns /\ cp[t] \in LoopStates \cup {NoState} /\ ~Free(wk[w]) /\ Placed(wk[w])
      /\ InStep(cp[t], history[t], status[t])
      /\ Writer(wk[w]) => Faithful(wk[w], cp[t], history[t], status[t])
  BY <1>1, <1>2, AtHand
<1>4. StoreTypeOK /\ cp \in [Turns -> LoopStates \cup {NoState}]
  BY <1>3, TypeParts
<1>5. wk[w].mode # "observe" /\ Writer(wk[w])
  BY <1>1, <1>3 DEF Placed, Writer
<1>6. CASE ~Claimable(t)
  <2>1. wk' = [wk EXCEPT ![w] = IdleWorker] /\ UNCHANGED storeVars
    BY <1>2, <1>6 DEF Claim, Leave
  <2>2. UNCHANGED <<cp, history, status>>
    BY <1>1, <2>1 DEF storeVars
  <2>3. QED
    BY <1>3, <2>1, <2>2, FreeWorker, AgreeMoves DEF Free
<1>7. CASE Claimable(t)
  <2>1. PICK v : v = [wk[w] EXCEPT !.pc = "apply", !.beating = TRUE]
    OBVIOUS
  <2>2. /\ v \in WorkerRecords /\ v.pc = "apply" /\ v.turn = t /\ v.mode = wk[w].mode
        /\ v.st = wk[w].st
    BY <1>2, <1>3, <2>1 DEF WorkerRecords, Labels, Awaiting
  <2>3. wk' = [wk EXCEPT ![w].pc = "apply", ![w].beating = TRUE] /\ ClaimForResume(t, w)
    BY <1>2, <1>7 DEF Claim
  <2>4. wk' = [wk EXCEPT ![w] = v]
    BY <1>3, <2>1, <2>3
  <2>5. status'[t] = "running" /\ history' = history
        /\ \A x \in Turns \ {t} : status'[x] = status[x]
    BY <1>3, <1>4, <2>3 DEF ClaimForResume, StoreTypeOK
  <2>6. InStep(cp[t], history[t], "running")
    BY <1>3 DEF InStep
  <2>7. wk[w].st.log = Said(cp[t], history[t]) /\ Sane(wk[w].st)
    BY <1>1, <1>3, <1>5 DEF Faithful
  <2>8. Quotes(v, cp[t]) /\ Faithful(v, cp[t], history[t], "running")
    BY <1>5, <2>2, <2>7 DEF Quotes, Faithful, At, Busy, Calling, Closing, Unclaimed
  <2>9. cp[t] # NoState => IsPrefix(cp[t].log, cp[t].log)
    BY <1>3, StateParts, PrefixReflexive
  <2>10. /\ InStep(cp'[t], history'[t], status'[t]) /\ Quotes(v, cp'[t])
         /\ Faithful(v, cp'[t], history'[t], status'[t])
         /\ cp[t] # NoState => cp'[t] # NoState /\ IsPrefix(cp[t].log, cp'[t].log)
    BY <1>1, <2>5, <2>6, <2>8, <2>9
  <2>11. /\ cp' \in [Turns -> LoopStates \cup {NoState}]
         /\ \A x \in Turns \ {t} : cp'[x] = cp[x] /\ history'[x] = history[x] /\ status'[x] = status[x]
    BY <1>1, <1>4, <2>5
  <2>12. QED
    BY <1>2, <1>3, <1>5, <2>2, <2>4, <2>10, <2>11, AgreeWriter
<1>8. QED BY <1>6, <1>7

\* The tool runs, or an await raises, or the call returns.
LEMMA AgreeGoes ==
  ASSUME OnceInv, Agreement, NEW w \in Workers,
         InvokeTool(w) \/ CancelDelivered(w) \/ StepRaises(w) \/ Return(w)
  PROVE  Agreement'
<1>1. InCall(w) /\ UNCHANGED <<cp, history, status>>
  BY DEF InvokeTool, CancelDelivered, StepRaises, Return, FaultFrame, storeVars, InCall, Claimed
<1>2. PICK t : t = wk[w].turn
  OBVIOUS
<1>3. /\ TypeInv /\ wk \in [Workers -> WorkerRecords] /\ wk[w] \in WorkerRecords
  BY <1>1, AtHand
<1>4. CASE InvokeTool(w)
  <2>1. wk[w].pc = "invoke" /\ wk[w].pc \in Held
    BY <1>4 DEF InvokeTool, Held
  <2>2. /\ Faithful(wk[w], cp[t], history[t], status[t]) /\ wk[w].mode # "observe"
    BY <1>2, <2>1, InHold
  <2>3. PICK v : v = [wk[w] EXCEPT !.pc = "outcome"]
    OBVIOUS
  <2>4. /\ v \in WorkerRecords /\ v.pc = "outcome" /\ v.turn = t /\ v.mode = wk[w].mode
        /\ v.st = wk[w].st /\ v.cache = wk[w].cache
    BY <1>2, <1>3, <2>3 DEF WorkerRecords, Labels
  <2>5. wk' = [wk EXCEPT ![w] = v]
    BY <1>4, <2>3 DEF InvokeTool, Become
  <2>6. Quotes(v, cp[t]) /\ Faithful(v, cp[t], history[t], status[t])
    BY <2>1, <2>2, <2>4 DEF Quotes, Faithful, At, Busy, Calling, Closing, Unclaimed
  <2>7. v.turn = wk[w].turn /\ Quotes(v, cp[v.turn])
        /\ Faithful(v, cp[v.turn], history[v.turn], status[v.turn])
    BY <1>2, <2>4, <2>6
  <2>8. QED
    BY <1>1, <1>3, <2>4, <2>5, <2>7, AgreeMoves
<1>5. CASE CancelDelivered(w) \/ StepRaises(w)
  <2>1. PICK x \in {"error", "cancelled"} : wk' = [wk EXCEPT ![w].pc = x]
    BY <1>5 DEF CancelDelivered, StepRaises, Become
  <2>2. Claimed(w)
    BY <1>5 DEF CancelDelivered, StepRaises
  <2>3. wk' = [wk EXCEPT ![w] = Raised(w, wk[w], x)]
    BY <1>3, <2>1, <2>2 DEF Raised
  <2>4. QED
    BY <1>1, <1>3, <2>3, AgreeRaises
<1>6. CASE Return(w)
  BY <1>1, <1>3, <1>6, FreeWorker, AgreeMoves DEF Return, Leave, Free
<1>7. QED
  BY <1>4, <1>5, <1>6

LEMMA AgreeWorkerStep ==
  ASSUME OneWriterAtATime, OnceInv, Agreement, NEW w \in Workers, WorkerStep(w) \/ StepRaises(w)
  PROVE  Agreement'
<1>1. CASE \/ LoopStart(w) \/ ScheduleCall(w) \/ ModelPause(w)
           \/ \E v \in Terminal : EndLoop(w, v)
           \/ PauseForApproval(w) \/ RecordResult(w) \/ PauseForReconciliation(w)
  BY <1>1, AgreeLoopStep
<1>2. CASE \/ PrepareCall(w) \/ StartCall(w)
           \/ \E o \in Outcomes : ToolReturns(w, o)
           \/ ToolCancelled(w)
  BY <1>2, AgreeCall
<1>3. CASE InvokeTool(w) \/ CancelDelivered(w) \/ StepRaises(w) \/ Return(w)
  BY <1>3, AgreeGoes
<1>4. CASE FinalMark(w) \/ StreamFinally(w) \/ Unwind(w)
  BY <1>4, AgreeFinalMark
<1>5. CASE \E a \in Actions, d \in Drifts : ReconcileManifest(w, a, d)
  BY <1>5, AgreeManifest
<1>6. CASE \E said \in BOOLEAN : Hydrate(w, said)
  BY <1>6, AgreeHydrate
<1>7. CASE SyncSink(w) \/ FinalSync(w) \/ PauseFinal(w) \/ Claim(w) \/ ApplyResponse(w)
           \/ LoadForResume(w)
  BY <1>7, AgreeSink, AgreeFinalSync, AgreePauseFinal, AgreeClaim, AgreeApply, AgreeLoad
<1>8. QED
  BY <1>1, <1>2, <1>3, <1>4, <1>5, <1>6, <1>7, Zenon DEF WorkerStep

-----------------------------------------------------------------------------
(* The calls that begin, and the environment. *)

LEMMA AgreeOpens ==
  ASSUME OnceInv, Agreement, NEW w \in Workers, NEW t \in Turns, NEW r \in Runtimes,
         NEW g \in {"ask", "yes"}, NEW m \in Modes, OpenTurn(w, t, r, g, m),
         wk' \in [Workers -> WorkerRecords]
  PROVE  Agreement'
<1>1. GrantInv /\ TypeInv
  BY DEF OnceInv, HoldInv, GrantInv
<1>2. StoreTypeOK /\ cp \in [Turns -> LoopStates \cup {NoState}] /\ wk \in [Workers -> WorkerRecords]
  BY <1>1, TypeParts
<1>3. ~Exists(t) /\ cp' = cp /\ BeginTurn(t, UserMessage, r, NoTurn, w)
  BY DEF OpenTurn, BeginTurn, RowFree
<1>4. cp[t] = NoState /\ \A x \in Workers : ~Free(wk[x]) => wk[x].turn # t
  BY <1>1, <1>3 DEF GrantInv, Rooted, Free, InCall
<1>5. /\ history'[t] = <<UserMessage>> /\ status'[t] = "running"
      /\ \A x \in Turns \ {t} : history'[x] = history[x] /\ status'[x] = status[x]
  BY <1>2, <1>3 DEF BeginTurn, StoreTypeOK
<1>6. PICK v \in WorkerRecords : v = wk'[w]
  OBVIOUS
<1>7. wk' = [wk EXCEPT ![w] = v]
  BY <1>2, <1>6 DEF OpenTurn
<1>8. v.turn = t /\ v.pc = "loop_start" /\ v.mode = m /\ v.st = InitialState(g)
  BY <1>2, <1>6 DEF OpenTurn, IdleWorker
<1>9. /\ v.st.log = <<UserMessage>> /\ v.st.status = "running" /\ v.st.rec = "none"
  BY <1>8 DEF InitialState
<1>10. Sane(v.st)
  BY <1>9 DEF Sane, Ambiguous
<1>11. m # "observe"
  BY ServiceAssumption
<1>12. IsPrefix(<<UserMessage>>, <<UserMessage>>)
  <2>1. PICK h : h = <<UserMessage>>
    OBVIOUS
  <2>2. UserMessage \in Messages
    BY ServiceAssumption
  <2>3. h \in Seq(Messages)
    BY <2>1, <2>2
  <2>4. IsPrefix(h, h)
    BY <2>3, PrefixReflexive
  <2>5. QED BY <2>1, <2>4
<1>13. InStep(cp'[t], history'[t], status'[t])
  BY <1>3, <1>4, <1>5, <1>12 DEF InStep, Said
<1>14. Quotes(v, cp'[t])
  BY <1>8 DEF Quotes
<1>15. Faithful(v, cp'[t], history'[t], status'[t])
  BY <1>3, <1>4, <1>5, <1>8, <1>9, <1>10, <1>11 DEF Faithful, At, Calling, Closing, Unclaimed, Said
<1>16. \A x \in Workers \ {w} : ~(Writer(wk[x]) /\ wk[x].turn = t)
  BY <1>4 DEF Writer
<1>17. /\ cp[t] # NoState => cp'[t] # NoState /\ IsPrefix(cp[t].log, cp'[t].log)
       /\ cp' \in [Turns -> LoopStates \cup {NoState}]
       /\ \A x \in Turns \ {t} : cp'[x] = cp[x] /\ history'[x] = history[x] /\ status'[x] = status[x]
  BY <1>2, <1>3, <1>4, <1>5
<1>18. \A x \in Workers \ {w} : Writer(wk[x]) /\ wk[x].turn = t =>
          Faithful(wk[x], cp'[t], history'[t], status'[t])
  BY <1>16
<1>19. (Free(v) \/ (v.turn = t /\ Quotes(v, cp'[t])))
       /\ (Writer(v) => Faithful(v, cp'[t], history'[t], status'[t]))
  BY <1>8, <1>14, <1>15
<1>20. QED
  BY <1>1, <1>7, <1>13, <1>17, <1>18, <1>19, AgreeOne

LEMMA AgreeReads ==
  ASSUME OneWriterAtATime, OnceInv, Agreement, NEW w \in Workers, NEW t \in Turns,
         Resume(w, t) \/ Inspect(w, t), wk' \in [Workers -> WorkerRecords]
  PROVE  Agreement'
<1>1. GrantInv /\ TypeInv /\ Standing
  BY DEF OnceInv, HoldInv, GrantInv
<1>2. StoreTypeOK /\ cp \in [Turns -> LoopStates \cup {NoState}] /\ wk \in [Workers -> WorkerRecords]
  BY <1>1, TypeParts
<1>3. PICK m \in {"resume", "observe"} :
        wk' = [wk EXCEPT ![w] = [IdleWorker EXCEPT !.pc = "load", !.turn = t, !.mode = m]]
  BY DEF Resume, Inspect, StartCallOf
<1>4. PICK v \in WorkerRecords : v = wk'[w]
  OBVIOUS
<1>5. wk' = [wk EXCEPT ![w] = v] /\ v.pc = "load" /\ v.turn = t
  BY <1>2, <1>3, <1>4 DEF IdleWorker
<1>6. cp' = cp
  BY DEF Resume, Inspect, StartCallOf
<1>7. /\ history' = history /\ status'[t] \notin Terminal
      /\ \A x \in Turns \ {t} : status'[x] = status[x]
      /\ status'[t] = status[t] \/ (status'[t] = "interrupted" /\ Resume(w, t))
  <2>1. CASE Inspect(w, t)
    BY <2>1 DEF Inspect, storeVars
  <2>2. CASE Resume(w, t)
    BY <1>2, <2>2 DEF Resume, PrepareTurnForResume, Release, Put, storeVars, StoreTypeOK, Terminal,
                      Recoverable
  <2>3. QED BY <2>1, <2>2
<1>8. InStep(cp[t], history[t], status[t])
  BY DEF Agreement
<1>9. InStep(cp'[t], history'[t], status'[t])
  BY <1>6, <1>7, <1>8 DEF InStep
<1>10. Quotes(v, cp'[t]) /\ Faithful(v, cp'[t], history'[t], status'[t])
  BY <1>5, <1>7 DEF Quotes, Faithful, At, Busy, Calling, Closing
<1>11. ASSUME NEW x \in Workers \ {w}, Writer(wk[x]), wk[x].turn = t
       PROVE  Faithful(wk[x], cp'[t], history'[t], status'[t])
  <2>1. Faithful(wk[x], cp[t], history[t], status[t])
    BY <1>11 DEF Agreement
  <2>2. ~Resume(w, t)
    <3>1. SUFFICES ASSUME Resume(w, t) PROVE FALSE
      OBVIOUS
    <3>2. InCall(x)
      BY <1>11 DEF Writer, Free, InCall
    <3>3. Claimed(x)
      BY <1>11, <3>1, <3>2 DEF Resume, MayBegin, OneWriterAtATime
    <3>4. Holds(x)
      BY <1>1, <3>3 DEF Standing
    <3>5. status[t] = "running" /\ LeaseLive(t)
      BY <1>11, <3>4, StoreAssumption DEF Holds, LeaseLive
    <3>6. QED
      BY <3>1, <3>5 DEF Resume, PrepareTurnForResume, Recoverable, HeldByLiveLease
  <2>3. QED
    BY <1>6, <1>7, <2>1, <2>2
<1>12. cp[t] # NoState => cp'[t] # NoState /\ IsPrefix(cp[t].log, cp'[t].log)
  <2>1. cp[t] # NoState => IsPrefix(cp[t].log, cp[t].log)
    BY <1>2, StateParts, PrefixReflexive
  <2>2. QED BY <1>6, <2>1
<1>13. /\ cp' \in [Turns -> LoopStates \cup {NoState}]
       /\ \A x \in Turns \ {t} : cp'[x] = cp[x] /\ history'[x] = history[x] /\ status'[x] = status[x]
  BY <1>2, <1>6, <1>7
<1>14. QED
  BY <1>1, <1>5, <1>9, <1>10, <1>11, <1>12, <1>13, AgreeOne

\* Nothing that the databases or the workers hold changes.
LEMMA AgreeRests ==
  ASSUME Agreement, UNCHANGED <<cp, wk, history, status>>
  PROVE  Agreement'
BY DEF Agreement, Free, Quotes, Writer, Faithful, InStep, At, Closing, Said, Alike, Sane, Ambiguous

LEMMA AgreeEnvironment ==
  ASSUME OnceInv, Agreement,
         TimePasses \/ \E w \in Workers : Heartbeat(w) \/ UserCancels(w) \/ Crash(w)
  PROVE  Agreement'
<1>1. TypeInv
  BY DEF OnceInv, HoldInv, GrantInv
<1>2. wk \in [Workers -> WorkerRecords]
  BY <1>1, TypeParts
<1>3. ASSUME NEW w \in Workers, NEW b \in BOOLEAN, NEW c \in BOOLEAN, InCall(w),
             wk' = [wk EXCEPT ![w].beating = b, ![w].cancelled = c], UNCHANGED <<cp, history, status>>
      PROVE  Agreement'
  <2>1. PICK v : v = [wk[w] EXCEPT !.beating = b, !.cancelled = c]
    OBVIOUS
  <2>2. /\ v \in WorkerRecords /\ v.turn = wk[w].turn /\ v.mode = wk[w].mode /\ v.pc = wk[w].pc
        /\ v.next = wk[w].next /\ v.st = wk[w].st /\ v.cache = wk[w].cache
    <3>1. wk[w] \in WorkerRecords
      BY <1>2
    <3>2. QED BY <2>1, <3>1 DEF WorkerRecords
  <2>3. wk' = [wk EXCEPT ![w] = v]
    BY <1>2, <1>3, <2>1
  <2>4. /\ Quotes(wk[w], cp[v.turn])
        /\ Writer(wk[w]) => Faithful(wk[w], cp[v.turn], history[v.turn], status[v.turn])
    BY <1>3, <2>2, AtHand
  <2>5. (Writer(v) => Writer(wk[w])) /\ Quotes(v, cp[v.turn])
    BY <2>2, <2>4 DEF Writer, Free, Quotes
  <2>6. Writer(v) => Faithful(v, cp[v.turn], history[v.turn], status[v.turn])
    BY <2>2, <2>4, <2>5 DEF Faithful, At, Closing
  <2>7. QED
    BY <1>1, <1>3, <2>2, <2>3, <2>5, <2>6, AgreeMoves
<1>4. ASSUME NEW w \in Workers, Heartbeat(w) PROVE Agreement'
  <2>1. UNCHANGED <<cp, history, status>> /\ InCall(w)
    BY <1>4 DEF Heartbeat, RenewLease, storeVars
  <2>2. CASE status[wk[w].turn] = "running" /\ owner[wk[w].turn] = w
    BY <1>4, <2>1, <2>2, AgreeRests DEF Heartbeat
  <2>3. CASE ~(status[wk[w].turn] = "running" /\ owner[wk[w].turn] = w)
    <3>1. PICK c : c = (wk[w].cancelled \/ status[wk[w].turn] = "running")
      OBVIOUS
    <3>2. c \in BOOLEAN
      BY <3>1
    <3>3. wk' = [wk EXCEPT ![w].beating = FALSE, ![w].cancelled = c]
      <4>1. [wk[w] EXCEPT !.beating = FALSE].cancelled = wk[w].cancelled
        BY <1>2 DEF WorkerRecords
      <4>2. QED BY <1>2, <1>4, <2>3, <3>1, <4>1 DEF Heartbeat
    <3>4. QED
      BY <1>3, <2>1, <3>2, <3>3
  <2>4. QED BY <2>2, <2>3
<1>5. ASSUME NEW w \in Workers, UserCancels(w) PROVE Agreement'
  <2>1. wk' = [wk EXCEPT ![w].cancelled = TRUE] /\ UNCHANGED <<cp, history, status>> /\ InCall(w)
    BY <1>5 DEF UserCancels, FaultFrame, storeVars, Claimed
  <2>2. /\ [wk[w] EXCEPT !.cancelled = TRUE] = [wk[w] EXCEPT !.beating = wk[w].beating, !.cancelled = TRUE]
        /\ wk[w].beating \in BOOLEAN
    BY <1>2 DEF WorkerRecords
  <2>3. wk' = [wk EXCEPT ![w].beating = wk[w].beating, ![w].cancelled = TRUE]
    BY <1>2, <2>1, <2>2
  <2>4. QED
    BY <1>3, <2>1, <2>2, <2>3
<1>6. ASSUME NEW w \in Workers, Crash(w) PROVE Agreement'
  <2>1. PICK v : v = [IdleWorker EXCEPT !.pc = "dead"]
    OBVIOUS
  <2>2. v \in WorkerRecords /\ Free(v)
    BY <2>1, FreeWorker DEF Free
  <2>3. wk' = [wk EXCEPT ![w] = v] /\ UNCHANGED <<cp, history, status>>
    BY <1>6, <2>1 DEF Crash, FaultFrame, storeVars
  <2>4. QED
    BY <1>1, <2>2, <2>3, AgreeMoves
<1>7. CASE TimePasses
  BY <1>7, AgreeRests DEF TimePasses, Tick
<1>8. QED
  BY <1>4, <1>5, <1>6, <1>7

LEMMA AgreeInitial ==
  ASSUME ServiceInit
  PROVE  Agreement
<1>1. /\ \A w \in Workers : Free(wk[w])
      /\ \A t \in Turns : cp[t] = NoState /\ history[t] = << >> /\ status[t] = "absent"
  BY DEF ServiceInit, StoreInit, IdleWorker, Free
<1>2. IsPrefix(<< >>, << >>)
  <2>1. << >> \in Seq(Messages)
    OBVIOUS
  <2>2. QED BY <2>1, PrefixReflexive
<1>3. \A t \in Turns : InStep(cp[t], history[t], status[t])
  BY <1>1, <1>2 DEF InStep, Said
<1>4. QED
  BY <1>1, <1>3 DEF Agreement, Writer

LEMMA AgreeStep ==
  ASSUME OneWriterAtATime, OnceInv, Agreement, [ServiceNext]_serviceVars
  PROVE  Agreement'
<1>1. OnceInv'
  BY OnceStep
<1>2. wk' \in [Workers -> WorkerRecords]
  BY <1>1 DEF OnceInv, HoldInv, GrantInv, TypeInv, ServiceTypeOK, WorkerRecords
<1>3. CASE UNCHANGED serviceVars
  BY <1>3, AgreeRests DEF serviceVars, storeVars
<1>4. CASE ServiceNext
  <2>1. ASSUME NEW w \in Workers, NEW t \in Turns,
               \/ \E r \in Runtimes, g \in {"ask", "yes"}, m \in Modes : OpenTurn(w, t, r, g, m)
               \/ Resume(w, t) \/ Inspect(w, t)
        PROVE  Agreement'
    BY <1>2, <2>1, AgreeOpens, AgreeReads
  <2>2. ASSUME NEW w \in Workers, WorkerStep(w) \/ StepRaises(w)
        PROVE  Agreement'
    BY <2>2, AgreeWorkerStep
  <2>3. TimePasses \/ (\E w \in Workers : Heartbeat(w) \/ UserCancels(w) \/ Crash(w)) => Agreement'
    BY AgreeEnvironment
  <2>4. QED
    BY <1>4, <2>1, <2>2, <2>3 DEF ServiceNext
<1>5. QED
  BY <1>3, <1>4

LEMMA AgreementMeans ==
  ASSUME Agreement
  PROVE  PausedTurnsResumable /\ CompletedTurnsAgree
BY DEF Agreement, InStep, Said, PausedTurnsResumable, CompletedTurnsAgree, DurableCompletion

\* Neither database runs ahead of the other where it matters, for any number of service
\* objects and turns, and whatever crashes, raises or is cancelled between the two writes:
\* a paused turn has a paused checkpoint that its history can be hydrated with, and the
\* history of a completed turn is the transcript of its completed checkpoint.
THEOREM DatabasesInStep ==
  OneWriterAtATime => (ServiceSpec => [](PausedTurnsResumable /\ CompletedTurnsAgree))
<1> SUFFICES ASSUME OneWriterAtATime
             PROVE  ServiceSpec => [](PausedTurnsResumable /\ CompletedTurnsAgree)
  OBVIOUS
<1>1. ServiceInit => OnceInv /\ Agreement
  BY OnceInitial, AgreeInitial
<1>2. OnceInv /\ Agreement /\ [ServiceNext]_serviceVars => (OnceInv /\ Agreement)'
  BY OnceStep, AgreeStep
<1>3. Agreement => PausedTurnsResumable /\ CompletedTurnsAgree
  BY AgreementMeans
<1>4. QED
  BY <1>1, <1>2, <1>3, PTL DEF ServiceSpec
=============================================================================
