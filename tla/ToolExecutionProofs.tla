------------------------ MODULE ToolExecutionProofs ------------------------
(* Proofs about ToolExecution, for every number of calls, every choice of    *)
(* tools and any number of stops.                                            *)
EXTENDS ToolExecution, NatFacts, FiniteSetTheorems, TLAPS

-----------------------------------------------------------------------------
(* Facts about the operators. *)

\* The gate that is asked for first is one of the open gates.
LEMMA NextGateIn ==
  ASSUME NEW gs \in SUBSET Gates, gs # {}
  PROVE  NextGate(gs) \in gs
<1>1. \E g \in gs : g[2] = "tool" \/ \A h \in gs : h[2] # "tool"
  OBVIOUS
<1>2. QED
  BY <1>1 DEF NextGate

\* Writing a record leaves a LoopState a LoopState, with every other field as it was.
LEMMA WriteRecord ==
  ASSUME NEW s \in LoopStates, NEW c \in Calls, NEW r \in Records,
         NEW w, w = [s EXCEPT !.rec[c] = r]
  PROVE  /\ w \in LoopStates
         /\ \A d \in Calls : w.rec[d] = IF d = c THEN r ELSE s.rec[d]
         /\ w.approved = s.approved /\ w.denied = s.denied /\ w.req = s.req
BY DEF LoopStates

\* No LoopState is the absence of one.
LEMMA NoLoopIsNone == NoLoop \notin LoopStates
BY DEF NoLoop, LoopStates
-----------------------------------------------------------------------------
(* Types: what has to be known of the loop to know that its records are.   *)

Shape ==
    /\ pc \in {"loop", "batch", "paused", "asking", "down", "ended"}
    /\ mem \in LoopStates \cup {NoLoop}
    /\ cache \in [Batches -> LoopStates \cup {NoLoop}]
    /\ stage \in [Batches -> [Calls -> Stages]]
    /\ chunk \in [Batches -> SUBSET Calls]
    /\ hit \in [Batches -> SUBSET Calls]
    /\ pc \in {"loop", "batch", "asking"} => mem # NoLoop /\ cache.main # NoLoop
    /\ Left # {} => cache.left # NoLoop
    /\ pc # "batch" => stage.main = Resting
    /\ \A c \in Calls : stage.main[c] = "approval" => Unresolved(c) # {}

Tallies ==
    /\ disk \in LoopStates
    /\ runs \in [Calls -> Nat]
    /\ allowed \subseteq Gates /\ refused \subseteq Gates
    /\ vouched \subseteq Calls /\ settled \subseteq Calls
    /\ stops \in 0..MaxStops

TypeInv == Shape /\ Tallies

\* A call that raises leaves the loop, or the calls left behind, in shape.
LEMMA RaiseShape ==
  ASSUME Shape, NEW b \in Batches, NEW c \in Calls, NEW s \in LoopStates,
         b = "main" => pc = "batch", Raise(b, c, s)
  PROVE  Shape'
<1> USE NoLoopIsNone
<1> DEFINE rest == {d \in chunk.main \ {c} : stage.main[d] \in UnderWay}
<1>1. CASE b = "left"
  <2>1. /\ stage' = [stage EXCEPT !.left[c] = "idle"]
        /\ cache' = [cache EXCEPT !.left = s]
        /\ UNCHANGED <<pc, mem, chunk, hit>>
    BY <1>1 DEF Raise
  <2>2. stage' \in [Batches -> [Calls -> Stages]] /\ stage'.main = stage.main
    BY <2>1 DEF Shape, Batches, Stages
  <2>3. cache' \in [Batches -> LoopStates \cup {NoLoop}] /\ cache'.left = s /\ cache'.main = cache.main
    BY <2>1 DEF Shape, Batches
  <2>4. QED
    BY <2>1, <2>2, <2>3 DEF Shape, Unresolved
<1>2. CASE b = "main" /\ rest = {}
  <2>1. /\ pc' = "down" /\ mem' = NoLoop
        /\ cache' = [cache EXCEPT !.main = NoLoop]
        /\ stage' = [stage EXCEPT !.main = Resting]
        /\ chunk' = [chunk EXCEPT !.main = {}]
        /\ hit' = [hit EXCEPT !.main = {}]
    BY <1>2 DEF Raise, Clear
  <2>2. Resting \in [Calls -> Stages]
    BY DEF Resting, Stages
  <2>3. stage' \in [Batches -> [Calls -> Stages]] /\ stage'.main = Resting /\ stage'.left = stage.left
    BY <2>1, <2>2 DEF Shape, Batches
  <2>4. cache' \in [Batches -> LoopStates \cup {NoLoop}] /\ cache'.left = cache.left
    BY <2>1 DEF Shape, Batches
  <2>5. Left' = Left
    BY <2>3 DEF Left, In
  <2>6. QED
    BY <2>1, <2>3, <2>4, <2>5 DEF Shape, Resting, Batches
<1>3. CASE b = "main" /\ rest # {}
  <2>1. /\ pc' = "down" /\ mem' = NoLoop
        /\ cache' = [main |-> NoLoop, left |-> s]
        /\ stage' = [main |-> Resting,
                     left |-> [d \in Calls |-> IF d \in rest THEN stage.main[d] ELSE "idle"]]
        /\ chunk' = [main |-> {}, left |-> rest]
        /\ hit' = [main |-> {}, left |-> hit.main \cap rest]
    BY <1>3 DEF Raise
  <2>2. stage' \in [Batches -> [Calls -> Stages]] /\ stage'.main = Resting
    BY <2>1 DEF Shape, Batches, Stages, UnderWay, Resting
  <2>3. /\ cache' \in [Batches -> LoopStates \cup {NoLoop}] /\ cache'.left = s
        /\ chunk' \in [Batches -> SUBSET Calls] /\ hit' \in [Batches -> SUBSET Calls]
    BY <2>1 DEF Shape, Batches
  <2>4. QED
    BY <2>1, <2>2, <2>3 DEF Shape, Resting
<1>4. QED
  BY <1>1, <1>2, <1>3 DEF Batches

\* Recording an outcome of a call, or failing to, keeps the types.
LEMMA PersistTypes ==
  ASSUME TypeInv, NEW b \in Batches, NEW c \in Calls, NEW r \in Records,
         NEW label \in Stages \ {"approval"}, cache[b] \in LoopStates,
         b = "main" => pc = "batch", Persist(b, c, r, label), LoopFrame
  PROVE  TypeInv'
<1> USE NoLoopIsNone, ToolAssumption
<1>1. /\ WithRecord(b, c, r) \in LoopStates
  BY WriteRecord DEF WithRecord
<1>2. CASE Record(b, c, r, label)
  <2>1. /\ disk' = WithRecord(b, c, r) /\ cache' = [cache EXCEPT ![b] = WithRecord(b, c, r)]
        /\ stage' = [stage EXCEPT ![b][c] = label]
        /\ Witnessed(WithRecord(b, c, r))
        /\ UNCHANGED <<pc, mem, chunk, hit, stops>>
    BY <1>2 DEF Record
  <2>2. Tallies'
    BY <1>1, <2>1 DEF TypeInv, Tallies, Witnessed, LoopFrame, humanVars
  <2>3. stage' \in [Batches -> [Calls -> Stages]]
    BY <2>1 DEF TypeInv, Shape
  <2>4. cache' \in [Batches -> LoopStates \cup {NoLoop}] /\ cache'[b] # NoLoop
    BY <1>1, <2>1 DEF TypeInv, Shape
  <2>5. pc # "batch" => stage'.main = stage.main
    BY <2>1 DEF TypeInv, Shape, Batches
  <2>6. Left' # {} => cache'.left # NoLoop
    <3>1. CASE b = "left" BY <2>4, <3>1
    <3>2. CASE b = "main"
      <4>1. stage'.left = stage.left /\ cache'.left = cache.left
        BY <3>2, <2>1 DEF TypeInv, Shape, Batches
      <4>2. QED BY <4>1 DEF TypeInv, Shape, Left, In
    <3>3. QED BY <3>1, <3>2 DEF Batches
  <2>7. pc' \in {"loop", "batch", "asking"} => cache'.main # NoLoop
    BY <1>1, <2>1 DEF TypeInv, Shape, Batches
  <2>8. \A d \in Calls : stage'.main[d] = "approval" => stage.main[d] = "approval"
    BY <2>1 DEF TypeInv, Shape, Batches
  <2>9. Shape'
    BY <2>1, <2>3, <2>4, <2>5, <2>6, <2>7, <2>8 DEF TypeInv, Shape, Unresolved
  <2>10. QED BY <2>2, <2>9 DEF TypeInv
<1>3. CASE RecordFails(b, c, r)
  <2>1. stops' \in 0..MaxStops
    BY <1>3 DEF RecordFails, Stop, TypeInv, Tallies
  <2>2. PICK s \in LoopStates : Raise(b, c, s)
    BY <1>1, <1>3 DEF RecordFails
  <2>3. disk' \in LoopStates /\ settled' \subseteq Calls
    BY <1>1, <1>3 DEF RecordFails, Witnessed, TypeInv, Tallies
  <2>4. Tallies'
    BY <2>1, <2>3 DEF TypeInv, Tallies, LoopFrame, humanVars
  <2>5. Shape'
    BY <2>2, RaiseShape DEF TypeInv
  <2>6. QED BY <2>4, <2>5 DEF TypeInv
<1>4. QED
  BY <1>2, <1>3 DEF Persist

\* What a step of a call that is under way has to know.
LEMMA UnderWayTypes ==
  ASSUME TypeInv, NEW b \in Batches, NEW c \in Calls, stage[b][c] \in UnderWay
  PROVE  cache[b] \in LoopStates /\ (b = "main" => pc = "batch")
<1>1. CASE b = "left"
  <2>1. c \in Left BY <1>1 DEF Left, In
  <2>2. QED BY <1>1, <2>1 DEF TypeInv, Shape, Batches
<1>2. CASE b = "main"
  <2>1. pc = "batch" BY <1>2 DEF TypeInv, Shape, Resting, UnderWay
  <2>2. QED BY <1>2, <2>1 DEF TypeInv, Shape, Batches
<1>3. QED BY <1>1, <1>2 DEF Batches

\* A step of a call under way keeps the types.
LEMMA InvokeTypes ==
  ASSUME TypeInv, NEW b \in Batches, NEW c \in Calls, Invoke(b, c)
  PROVE  TypeInv'
<1> USE ToolAssumption, NoLoopIsNone
<1>1. stage[b][c] \in UnderWay
  BY DEF Invoke, StartCall, StartCancelled, CallRunner, RunnerEnds, RunnerStopped, Invoking, UnderWay
<1>2. cache[b] \in LoopStates /\ (b = "main" => pc = "batch")
  BY <1>1, UnderWayTypes
<1>3. CASE StartCall(b, c)
  BY <1>2, <1>3, PersistTypes DEF StartCall, Records, Stages
<1>4. CASE StartCancelled(b, c)
  <2>1. WithRecord(b, c, "started") \in LoopStates
    BY <1>2, WriteRecord DEF WithRecord, Records
  <2>2. Shape'
    BY <1>2, <1>4, RaiseShape DEF StartCancelled, TypeInv
  <2>3. Tallies'
    BY <1>4, <2>1 DEF StartCancelled, LoopFrame, humanVars, TypeInv, Tallies
  <2>4. QED BY <2>2, <2>3 DEF TypeInv
<1>5. CASE CallRunner(b, c)
  <2>1. /\ stage' = [stage EXCEPT ![b][c] = "running"]
        /\ runs' = [runs EXCEPT ![c] = @ + 1]
        /\ UNCHANGED <<pc, mem, disk, cache, chunk, hit, humanVars, settled, stops>>
    BY <1>5 DEF CallRunner
  <2>2. Tallies'
    BY <2>1 DEF TypeInv, Tallies, humanVars
  <2>3. stage' \in [Batches -> [Calls -> Stages]]
    BY <2>1 DEF TypeInv, Shape, Stages
  <2>4. Left' # {} => Left # {}
    BY <1>1, <2>1 DEF Left, In, TypeInv, Shape, UnderWay, Batches
  <2>5. pc # "batch" => stage'.main = stage.main
    BY <1>2, <2>1 DEF TypeInv, Shape, Batches
  <2>6. \A d \in Calls : stage'.main[d] = "approval" => stage.main[d] = "approval"
    BY <2>1 DEF TypeInv, Shape, Batches
  <2>7. Shape'
    BY <2>1, <2>3, <2>4, <2>5, <2>6 DEF TypeInv, Shape, Unresolved
  <2>8. QED BY <2>2, <2>7 DEF TypeInv
<1>6. ASSUME NEW r \in Records, RunnerEnds(b, c, r) PROVE TypeInv'
  BY <1>2, <1>6, PersistTypes DEF RunnerEnds, Stages
<1>7. CASE RunnerStopped(b, c)
  <2>1. CASE RecordFails(b, c, "failed")
    BY <1>2, <1>7, <2>1, PersistTypes DEF RunnerStopped, Persist, Records, Stages
  <2>2. CASE /\ disk' = WithRecord(b, c, "failed")
             /\ Raise(b, c, WithRecord(b, c, "failed"))
             /\ Witnessed(WithRecord(b, c, "failed"))
             /\ UNCHANGED stops
    <3>1. WithRecord(b, c, "failed") \in LoopStates
      BY <1>2, WriteRecord DEF WithRecord, Records
    <3>2. Shape'
      BY <1>2, <2>2, <3>1, RaiseShape DEF TypeInv
    <3>3. Tallies'
      BY <1>7, <2>2, <3>1 DEF RunnerStopped, LoopFrame, humanVars, TypeInv, Tallies, Witnessed
    <3>4. QED BY <3>2, <3>3 DEF TypeInv
  <2>3. QED BY <1>7, <2>1, <2>2 DEF RunnerStopped
<1>8. QED
  BY <1>3, <1>4, <1>5, <1>6, <1>7 DEF Invoke

\* A call that is prepared is new, and the loop is in a batch.
LEMMA PrepareTypes ==
  ASSUME TypeInv, NEW c \in Calls, Prepare(c)
  PROVE  TypeInv'
<1> USE ToolAssumption, NoLoopIsNone
<1>1. /\ pc = "batch" /\ c \in Calls /\ stage.main[c] = "new"
      /\ mem \in LoopStates /\ cache["main"] \in LoopStates /\ "main" \in Batches
  BY DEF Prepare, PrepareRecorded, PrepareRefused, PrepareGated, PrepareReady, Preparing, In,
         TypeInv, Shape, Batches
<1>2. ASSUME NEW label \in Stages, Answer(c, label), LoopFrame,
             label = "approval" => Unresolved(c) # {}
      PROVE  TypeInv'
  <2>1. /\ stage' = [stage EXCEPT !.main[c] = label]
        /\ UNCHANGED <<pc, mem, disk, cache, chunk, hit, settled, stops>>
        /\ UNCHANGED <<runs, humanVars>>
    BY <1>2 DEF Answer, LoopFrame
  <2>2. stage' \in [Batches -> [Calls -> Stages]] /\ stage'.left = stage.left
    BY <2>1 DEF TypeInv, Shape, Batches
  <2>3. \A d \in Calls : stage'.main[d] = "approval" =>
              stage.main[d] = "approval" \/ (d = c /\ label = "approval")
    BY <1>1, <2>1 DEF TypeInv, Shape, Batches
  <2>4. Shape'
    BY <1>1, <1>2, <2>1, <2>2, <2>3 DEF TypeInv, Shape, Unresolved, Left, In
  <2>5. Tallies'
    BY <2>1 DEF TypeInv, Tallies, humanVars
  <2>6. QED BY <2>4, <2>5 DEF TypeInv
<1>3. CASE PrepareRecorded(c)
  <2>1. mem.rec[c] \in Records
    BY <1>1 DEF LoopStates
  <2>2. QED
    BY <1>1, <1>3, <2>1, PersistTypes DEF PrepareRecorded, Stages, Records
<1>4. CASE PrepareRefused(c)
  BY <1>2, <1>4 DEF PrepareRefused, Stages
<1>5. CASE PrepareGated(c)
  <2> DEFINE open == {g \in GatesOf(c) : g \in mem.denied \/ g \notin mem.approved}
  <2>1. open # {} /\ open \subseteq Gates
    BY <1>5 DEF PrepareGated, GatesOf
  <2>2. NextGate(open) \in open
    BY <2>1, NextGateIn
  <2>3. NextGate(open) \notin mem.denied => Unresolved(c) # {}
    BY <2>2 DEF Unresolved
  <2>4. QED BY <1>2, <1>5, <2>3 DEF PrepareGated, Stages
<1>6. CASE PrepareReady(c)
  BY <1>1, <1>6, PersistTypes DEF PrepareReady, Stages, Records
<1>7. QED
  BY <1>3, <1>4, <1>5, <1>6 DEF Prepare

\* The results of a batch make a LoopState, and so does the pause for a request.
LEMMA MergeTypes ==
  ASSUME TypeInv, Merge
  PROVE  TypeInv'
<1> USE ToolAssumption, NoLoopIsNone
<1> DEFINE s == [mem EXCEPT !.rec = cache.main.rec, !.pending = StillPending,
                     !.told = [c \in Calls |-> IF c \in Results THEN @[c] + 1 ELSE @[c]]]
           asked == Approval(NextGate(Unresolved(Min(Asking))))
           doubt == Reconciliation(Min(Doubtful))
           Pause(r) == [s EXCEPT !.status = "paused", !.req = r]
<1>1. /\ pc = "batch"
      /\ disk' = IF Asking # {} THEN Pause(asked)
                 ELSE IF Doubtful # {} THEN Pause(doubt) ELSE s
      /\ pc' = IF disk'.status = "paused" THEN "paused" ELSE "loop"
      /\ mem' = IF disk'.status = "paused" THEN NoLoop ELSE s
      /\ cache' = [cache EXCEPT !.main = mem']
      /\ Witnessed(s) /\ Clear
      /\ LoopFrame /\ UNCHANGED stops
  BY DEF Merge
<1>2. mem \in LoopStates /\ cache.main \in LoopStates
  BY <1>1 DEF TypeInv, Shape, Batches
<1>3. Asking \subseteq Calls /\ Results \subseteq Calls /\ Doubtful \subseteq Calls /\ Calls \subseteq Nat
  BY DEF Asking, Results, Doubtful, In, Calls
<1>4. Doubtful # {} => Min(Doubtful) \in Calls
  BY <1>3, MinIn
<1>5. StillPending \subseteq Calls
  BY <1>3, <1>4 DEF StillPending
<1>6. s \in LoopStates
  <2> DEFINE told == [c \in Calls |-> IF c \in Results THEN mem.told[c] + 1 ELSE mem.told[c]]
  <2>1. told \in [Calls -> Nat]
    BY <1>2 DEF LoopStates
  <2>2. cache.main.rec \in [Calls -> Records]
    BY <1>2 DEF LoopStates
  <2>3. s = [mem EXCEPT !.rec = cache.main.rec, !.pending = StillPending, !.told = told]
    OBVIOUS
  <2> HIDE DEF told, s
  <2>4. QED BY <1>2, <1>5, <2>1, <2>2, <2>3 DEF LoopStates
<1>7. Asking # {} => asked \in Requests
  <2>1. SUFFICES ASSUME Asking # {} PROVE asked \in Requests
    OBVIOUS
  <2>2. Min(Asking) \in Asking
    BY <1>3, <2>1, MinIn
  <2>3. Unresolved(Min(Asking)) # {} /\ Unresolved(Min(Asking)) \subseteq Gates
    BY <2>2 DEF Asking, In, TypeInv, Shape, Unresolved, GatesOf
  <2>4. NextGate(Unresolved(Min(Asking))) \in Gates
    BY <2>3, NextGateIn
  <2>5. QED BY <2>4 DEF Requests
<1>8. Doubtful # {} => doubt \in Requests
  BY <1>4 DEF Requests
<1>9. disk' \in LoopStates
  <2>1. ASSUME NEW r \in Requests PROVE Pause(r) \in LoopStates
    BY <1>6, <2>1 DEF LoopStates
  <2>2. QED BY <1>1, <1>6, <1>7, <1>8, <2>1
<1>10. mem' \in LoopStates \cup {NoLoop} /\ (pc' = "loop" => mem' # NoLoop)
  BY <1>1, <1>6
<1>11. cache' \in [Batches -> LoopStates \cup {NoLoop}] /\ cache'.main = mem' /\ cache'.left = cache.left
  BY <1>1, <1>10 DEF TypeInv, Shape, Batches
<1>12. stage' \in [Batches -> [Calls -> Stages]] /\ stage'.main = Resting /\ stage'.left = stage.left
  BY <1>1 DEF Clear, TypeInv, Shape, Batches, Resting, Stages
<1>13. Left' = Left
  BY <1>12 DEF Left, In
<1>14. chunk' \in [Batches -> SUBSET Calls] /\ hit' \in [Batches -> SUBSET Calls]
  BY <1>1 DEF Clear, TypeInv, Shape, Batches
<1>15. Shape'
  BY <1>1, <1>10, <1>11, <1>12, <1>13, <1>14 DEF TypeInv, Shape, Resting
<1>16. settled' \subseteq Calls
  BY <1>1 DEF Witnessed, TypeInv, Tallies
<1>17. Tallies'
  BY <1>1, <1>9, <1>16 DEF TypeInv, Tallies, LoopFrame, humanVars
<1>18. QED BY <1>15, <1>17 DEF TypeInv

\* Saving a LoopState between batches keeps the types.
LEMMA SaveTypes ==
  ASSUME TypeInv, pc # "batch", NEW s \in LoopStates, Save(s),
         pc' \in {"loop", "asking", "ended"}, UNCHANGED batchVars,
         runs' = runs, stops' = stops, allowed' \subseteq Gates, refused' \subseteq Gates,
         vouched' \subseteq Calls
  PROVE  TypeInv'
<1> USE NoLoopIsNone
<1>1. /\ mem' = s /\ disk' = s
      /\ cache' \in [Batches -> LoopStates \cup {NoLoop}] /\ cache'.main = s /\ cache'.left = cache.left
  BY DEF Save, TypeInv, Shape, Batches
<1>2. Shape'
  BY <1>1 DEF TypeInv, Shape, Left, In, Resting, Unresolved, batchVars
<1>3. settled' \subseteq Calls
  BY DEF Save, Witnessed, TypeInv, Tallies
<1>4. QED
  BY <1>1, <1>2, <1>3 DEF TypeInv, Tallies

\* A loop that is gone leaves nothing to be typed.
LEMMA GoneTypes ==
  ASSUME TypeInv, pc # "batch", pc' = "down", mem' = NoLoop,
         cache' = [cache EXCEPT !.main = NoLoop], UNCHANGED <<disk, batchVars, settled>>,
         LoopFrame, stops' \in 0..MaxStops
  PROVE  TypeInv'
<1>1. cache' \in [Batches -> LoopStates \cup {NoLoop}] /\ cache'.left = cache.left
  BY DEF TypeInv, Shape, Batches
<1>2. Shape'
  BY <1>1 DEF TypeInv, Shape, Left, In, Resting, batchVars
<1>3. QED
  BY <1>2 DEF TypeInv, Tallies, LoopFrame, humanVars

\* Every step of the turn, its calls and the human keeps the types.
LEMMA TypeStep ==
  ASSUME TypeInv, [Next]_vars
  PROVE  TypeInv'
<1> USE ToolAssumption, NoLoopIsNone
<1>1. ASSUME NEW k \in 1..N, Schedule(k) PROVE TypeInv'
  <2>1. mem \in LoopStates /\ pc = "loop"
    BY <1>1 DEF Schedule, Running, TypeInv, Shape
  <2>2. (mem.sched + 1)..(mem.sched + k) \subseteq Calls /\ mem.sched + k \in 0..N
    BY <1>1, <2>1 DEF Schedule, LoopStates, Calls
  <2>3. [mem EXCEPT !.sched = @ + k, !.pending = (mem.sched + 1)..(mem.sched + k)] \in LoopStates
    BY <2>1, <2>2 DEF LoopStates
  <2>4. QED BY <1>1, <2>1, <2>3, SaveTypes DEF Schedule, LoopFrame, humanVars, TypeInv, Tallies
<1>2. ASSUME NEW v \in {"completed", "failed"}, EndTurn(v) PROVE TypeInv'
  <2>1. mem \in LoopStates /\ pc = "loop"
    BY <1>2 DEF EndTurn, Running, TypeInv, Shape
  <2>2. [mem EXCEPT !.status = v] \in LoopStates
    BY <2>1 DEF LoopStates
  <2>3. QED BY <1>2, <2>1, <2>2, SaveTypes DEF EndTurn, LoopFrame, humanVars, TypeInv, Tallies
<1>3. ASSUME NEW held \in SUBSET Calls, BeginBatch(held) PROVE TypeInv'
  <2>1. stage' \in [Batches -> [Calls -> Stages]] /\ stage'.left = stage.left
    BY <1>3 DEF BeginBatch, TypeInv, Shape, Batches, Stages
  <2>2. \A c \in Calls : stage'.main[c] # "approval"
    BY <1>3 DEF BeginBatch, TypeInv, Shape, Batches
  <2>3. QED
    BY <1>3, <2>1, <2>2 DEF BeginBatch, TypeInv, Shape, Tallies, Left, In, LoopFrame, humanVars
<1>4. ASSUME NEW k \in SUBSET Calls, Launch(k) PROVE TypeInv'
  <2>1. /\ chunk' = [chunk EXCEPT !.main = k] /\ hit' = [hit EXCEPT !.main = {}]
        /\ UNCHANGED <<pc, mem, disk, cache, stage, settled, stops>>
        /\ UNCHANGED <<runs, humanVars>>
    BY <1>4 DEF Launch, LoopFrame
  <2>2. QED
    BY <2>1 DEF TypeInv, Shape, Tallies, Left, In, Unresolved, humanVars
<1>5. CASE Cancel
  <2>1. hit' \in [Batches -> SUBSET Calls]
    BY <1>5 DEF Cancel, TypeInv, Shape
  <2>2. stops' \in 0..MaxStops
    BY <1>5 DEF Cancel, Stop, TypeInv, Tallies
  <2>3. QED
    BY <1>5, <2>1, <2>2 DEF Cancel, TypeInv, Shape, Tallies, Left, In, Unresolved, LoopFrame, humanVars
<1>6. CASE Interrupt
  <2>1. stops' \in 0..MaxStops
    BY <1>6 DEF Interrupt, Stop, TypeInv, Tallies
  <2>2. QED BY <1>6, <2>1, GoneTypes DEF Interrupt
<1>7. CASE Crash
  <2>1. stops' \in 0..MaxStops
    BY <1>7 DEF Crash, Stop, TypeInv, Tallies
  <2>2. stage' \in [Batches -> [Calls -> Stages]] /\ stage'.main = Resting /\ stage'.left = Resting
    BY <1>7 DEF Crash, Batches, Resting, Stages
  <2>3. Left' = {}
    BY <2>2 DEF Left, In, Resting, UnderWay
  <2>4. QED
    BY <1>7, <2>1, <2>2, <2>3 DEF Crash, TypeInv, Shape, Tallies, Resting, LoopFrame, humanVars
<1>8. CASE Load
  <2>1. pc' = "asking" /\ pc # "batch" /\ UNCHANGED batchVars /\ UNCHANGED <<runs, humanVars, stops>>
    BY <1>8 DEF Load, LoopFrame
  <2>2. CASE mem' = disk /\ cache' = [cache EXCEPT !.main = disk] /\ UNCHANGED <<disk, settled>>
    <3>1. cache' \in [Batches -> LoopStates \cup {NoLoop}] /\ cache'.main = disk /\ cache'.left = cache.left
      BY <2>2 DEF TypeInv, Shape, Tallies, Batches
    <3>2. QED
      BY <2>1, <2>2, <3>1 DEF TypeInv, Shape, Tallies, Left, In, Resting, batchVars, humanVars
  <2>3. CASE \E c \in Calls, U \in SUBSET Calls :
                Save([disk EXCEPT !.rec = [d \in Calls |-> IF d \in U THEN "unknown" ELSE @[d]],
                                  !.status = "paused", !.req = Reconciliation(c)])
    <3>1. PICK c \in Calls, U \in SUBSET Calls :
                Save([disk EXCEPT !.rec = [d \in Calls |-> IF d \in U THEN "unknown" ELSE @[d]],
                                  !.status = "paused", !.req = Reconciliation(c)])
      BY <2>3
    <3>2. [disk EXCEPT !.rec = [d \in Calls |-> IF d \in U THEN "unknown" ELSE @[d]],
                       !.status = "paused", !.req = Reconciliation(c)] \in LoopStates
      <4> DEFINE rec == [d \in Calls |-> IF d \in U THEN "unknown" ELSE disk.rec[d]]
      <4>1. rec \in [Calls -> Records] /\ Reconciliation(c) \in Requests
        BY DEF TypeInv, Tallies, LoopStates, Records, Requests
      <4> HIDE DEF rec
      <4>2. [disk EXCEPT !.rec = rec, !.status = "paused", !.req = Reconciliation(c)] \in LoopStates
        BY <4>1 DEF TypeInv, Tallies, LoopStates
      <4>3. QED BY <4>2 DEF rec
    <3>3. QED
      BY <2>1, <3>1, <3>2, SaveTypes DEF humanVars, TypeInv, Tallies
  <2>4. QED BY <1>8, <2>2, <2>3 DEF Load
<1>9. ASSUME NEW s \in LoopStates, Resume(s), pc = "asking",
             allowed' \subseteq Gates, refused' \subseteq Gates, vouched' \subseteq Calls
      PROVE  TypeInv'
  <2>1. [s EXCEPT !.status = "running", !.req = NoRequest] \in LoopStates
    BY DEF LoopStates, Requests
  <2>2. QED BY <1>9, <2>1, SaveTypes DEF Resume
<1>10. CASE Continue
  <2>1. mem \in LoopStates
    BY <1>10 DEF Continue, TypeInv, Shape
  <2>2. QED BY <1>9, <1>10, <2>1 DEF Continue, humanVars, TypeInv, Tallies
<1>11. ASSUME NEW g \in Gates, Allow(g) PROVE TypeInv'
  <2>1. [disk EXCEPT !.approved = @ \cup {g}] \in LoopStates
    BY <1>11 DEF TypeInv, Tallies, LoopStates
  <2>2. QED BY <1>9, <1>11, <2>1 DEF Allow, Asked, TypeInv, Tallies
<1>12. ASSUME NEW g \in Gates, Deny(g) PROVE TypeInv'
  <2>1. [disk EXCEPT !.denied = @ \cup {g}] \in LoopStates
    BY <1>12 DEF TypeInv, Tallies, LoopStates
  <2>2. QED BY <1>9, <1>12, <2>1 DEF Deny, Asked, TypeInv, Tallies
<1>13. ASSUME NEW c \in Calls, NEW r \in {"completed", "failed"}, Mark(c, r) PROVE TypeInv'
  <2>1. [disk EXCEPT !.rec[c] = r] \in LoopStates
    BY <1>13, WriteRecord DEF TypeInv, Tallies, Records
  <2>2. QED BY <1>9, <1>13, <2>1 DEF Mark, Asked, TypeInv, Tallies
<1>14. CASE AnswerRejected
  BY <1>14, GoneTypes DEF AnswerRejected, TypeInv, Tallies
<1>15. CASE Abort
  <2>1. mem \in LoopStates
    BY <1>15 DEF Abort, TypeInv, Shape
  <2>2. [mem EXCEPT !.status = "failed", !.req = NoRequest] \in LoopStates
    BY <2>1 DEF LoopStates, Requests
  <2>3. QED BY <1>15, <2>2, SaveTypes DEF Abort, LoopFrame, humanVars, TypeInv, Tallies
<1>16. CASE UNCHANGED vars
  BY <1>16 DEF vars, batchVars, humanVars, TypeInv, Shape, Tallies, Left, In, Unresolved
<1>17. CASE BatchStep
  <2>1. "main" \in Batches BY DEF Batches
  <2>2. QED BY <1>4, <1>17, <2>1, PrepareTypes, InvokeTypes, MergeTypes DEF BatchStep
<1>18. CASE \E c \in Calls : Invoke("left", c)
  BY <1>18, InvokeTypes DEF Batches
<1>19. CASE Human
  BY <1>10, <1>11, <1>12, <1>13, <1>14, <1>15, <1>19 DEF Human
<1>20. QED
  BY <1>1, <1>2, <1>3, <1>5, <1>6, <1>7, <1>8, <1>16, <1>17, <1>18, <1>19 DEF Next

\* The first state has the types.
LEMMA InitTypes == Init => TypeInv
<1> SUFFICES ASSUME Init PROVE TypeInv
  OBVIOUS
<1>2. FirstLoop \in LoopStates
  BY ToolAssumption DEF FirstLoop, LoopStates, Records, Requests
<1>3. Resting \in [Calls -> Stages] /\ \A c \in Calls : Resting[c] = "idle"
  BY DEF Resting, Stages
<1>4. stage.main = Resting /\ stage.left = Resting /\ stage \in [Batches -> [Calls -> Stages]]
  BY <1>3 DEF Init, Batches
<1>5. cache \in [Batches -> LoopStates \cup {NoLoop}] /\ cache.main = FirstLoop
  BY <1>2 DEF Init, Batches
<1>6. Left = {}
  BY <1>3, <1>4 DEF Left, In, UnderWay
<1>7. Shape
  BY <1>2, <1>3, <1>4, <1>5, <1>6, NoLoopIsNone DEF Init, Shape
<1>8. Tallies
  BY <1>2, ToolAssumption DEF Init, Tallies
<1>9. QED BY <1>7, <1>8 DEF TypeInv

\* ToolTypeOK holds in every behaviour: whatever is cancelled, lost or left behind,
\* every record, approval and request keeps its type, and the calls keep their stages.
THEOREM ToolTyping == Spec => []ToolTypeOK
<1>1. Init => TypeInv
  BY InitTypes
<1>2. TypeInv /\ [Next]_vars => TypeInv'
  BY TypeStep
<1>3. TypeInv => ToolTypeOK
  BY DEF TypeInv, Shape, Tallies, ToolTypeOK
<1>4. QED
  BY <1>1, <1>2, <1>3, PTL DEF Spec
-----------------------------------------------------------------------------
(* Approvals: no copy of the loop's state holds one that no human gave.      *)

ApprovedOf(s) == IF s = NoLoop THEN {} ELSE s.approved

Allowances ==
    /\ ApprovedOf(mem) \subseteq allowed
    /\ \A b \in Batches : ApprovedOf(cache[b]) \subseteq allowed
    /\ \A b \in Batches, c \in Calls : stage[b][c] \in UnderWay => GatesOf(c) \subseteq allowed

AllowedInv ==
    /\ TypeInv
    /\ disk.approved \subseteq allowed
    /\ Allowances
    /\ RunsOnlyIfAllowed

\* A raise hands no approval on that a human has not given.
LEMMA RaiseAllowances ==
  ASSUME TypeInv, Allowances, NEW b \in Batches, NEW c \in Calls, NEW s \in LoopStates,
         s.approved \subseteq allowed, Raise(b, c, s), allowed' = allowed
  PROVE  Allowances'
<1> USE NoLoopIsNone DEF Batches
<1> DEFINE rest == {d \in chunk.main \ {c} : stage.main[d] \in UnderWay}
<1>1. /\ ApprovedOf(mem') \subseteq allowed
      /\ \A d \in Batches : ApprovedOf(cache'[d]) \subseteq allowed
  BY DEF Raise, Allowances, ApprovedOf, TypeInv, Shape
<1>2. \A d \in Calls : stage'["main"][d] \in UnderWay => stage["main"][d] \in UnderWay
  BY DEF Raise, Clear, TypeInv, Shape, Resting, UnderWay
<1>3. \A d \in Calls : stage'["left"][d] \in UnderWay =>
           stage["left"][d] \in UnderWay \/ stage["main"][d] \in UnderWay
  BY DEF Raise, Clear, TypeInv, Shape, UnderWay
<1>4. QED
  BY <1>1, <1>2, <1>3 DEF Allowances

\* Recording a call, or failing to, needs no more approvals than it had.
LEMMA PersistAllowed ==
  ASSUME AllowedInv, NEW b \in Batches, NEW c \in Calls, NEW r \in Records,
         NEW label \in Stages \ {"approval"}, cache[b] \in LoopStates,
         b = "main" => pc = "batch", Persist(b, c, r, label), LoopFrame,
         label \in UnderWay => GatesOf(c) \subseteq allowed
  PROVE  AllowedInv'
<1> USE NoLoopIsNone
<1>1. TypeInv'
  BY PersistTypes DEF AllowedInv
<1>2. WithRecord(b, c, r) \in LoopStates /\ WithRecord(b, c, r).approved = cache[b].approved
  BY WriteRecord DEF WithRecord
<1>3. cache[b].approved \subseteq allowed
  BY DEF AllowedInv, Allowances, ApprovedOf
<1>4. runs' = runs /\ allowed' = allowed
  BY DEF LoopFrame, humanVars
<1>5. disk'.approved \subseteq allowed
  BY <1>2, <1>3 DEF Persist, Record, RecordFails, AllowedInv
<1>6. CASE Record(b, c, r, label)
  <2>1. \A d \in Batches, e \in Calls :
           stage'[d][e] = IF d = b /\ e = c THEN label ELSE stage[d][e]
    BY <1>6 DEF Record, AllowedInv, TypeInv, Shape
  <2>2. mem' = mem /\ \A d \in Batches : cache'[d] = IF d = b THEN WithRecord(b, c, r) ELSE cache[d]
    BY <1>6 DEF Record, AllowedInv, TypeInv, Shape
  <2>3. Allowances'
    BY <1>2, <1>3, <1>4, <2>1, <2>2 DEF AllowedInv, Allowances, ApprovedOf
  <2>4. QED BY <1>1, <1>4, <1>5, <2>3 DEF AllowedInv, RunsOnlyIfAllowed
<1>7. CASE RecordFails(b, c, r)
  <2>1. PICK s \in LoopStates : Raise(b, c, s) /\ s.approved \subseteq allowed
    BY <1>2, <1>3, <1>7 DEF RecordFails
  <2>2. Allowances'
    BY <1>4, <2>1, RaiseAllowances DEF AllowedInv
  <2>3. QED BY <1>1, <1>4, <1>5, <2>2 DEF AllowedInv, RunsOnlyIfAllowed
<1>8. QED
  BY <1>6, <1>7 DEF Persist

\* A step of a call under way, in either batch, keeps the approvals.
LEMMA InvokeAllowed ==
  ASSUME AllowedInv, NEW b \in Batches, NEW c \in Calls, Invoke(b, c)
  PROVE  AllowedInv'
<1> USE NoLoopIsNone
<1>1. stage[b][c] \in UnderWay
  BY DEF Invoke, StartCall, StartCancelled, CallRunner, RunnerEnds, RunnerStopped, Invoking, UnderWay
<1>2. cache[b] \in LoopStates /\ (b = "main" => pc = "batch")
  BY <1>1, UnderWayTypes DEF AllowedInv
<1>3. TypeInv' /\ GatesOf(c) \subseteq allowed
  BY <1>1, InvokeTypes DEF AllowedInv, Allowances
<1>4. CASE StartCall(b, c)
  BY <1>2, <1>3, <1>4, PersistAllowed DEF StartCall, Records, Stages
<1>5. ASSUME NEW r \in Records, NEW s \in {cache[b], WithRecord(b, c, r)},
             disk' \in {disk, WithRecord(b, c, r)}, Raise(b, c, s), LoopFrame
      PROVE  AllowedInv'
  <2>1. cache[b].approved \subseteq allowed
    BY <1>2 DEF AllowedInv, Allowances, ApprovedOf
  <2>2. s \in LoopStates /\ s.approved \subseteq allowed /\ disk'.approved \subseteq allowed
    <3>1. WithRecord(b, c, r) \in LoopStates /\ WithRecord(b, c, r).approved = cache[b].approved
      BY <1>2, WriteRecord DEF WithRecord
    <3>2. QED BY <1>2, <1>5, <2>1, <3>1 DEF AllowedInv
  <2>3. Allowances'
    BY <1>5, <2>2, RaiseAllowances DEF AllowedInv, LoopFrame, humanVars
  <2>4. QED BY <1>3, <1>5, <2>2, <2>3 DEF AllowedInv, RunsOnlyIfAllowed, LoopFrame, humanVars
<1>6. CASE StartCancelled(b, c)
  BY <1>5, <1>6 DEF StartCancelled, Records
<1>7. CASE CallRunner(b, c)
  <2>1. UNCHANGED <<mem, disk, cache, allowed>>
    BY <1>7 DEF CallRunner, humanVars
  <2>2. \A d \in Batches, e \in Calls : stage'[d][e] \in UnderWay => stage[d][e] \in UnderWay
    BY <1>1, <1>7 DEF CallRunner, AllowedInv, TypeInv, Shape
  <2>3. \A d \in Calls : runs'[d] > 0 => runs[d] > 0 \/ d = c
    BY <1>7 DEF CallRunner, AllowedInv, TypeInv, Tallies
  <2>4. QED
    BY <1>3, <2>1, <2>2, <2>3 DEF AllowedInv, Allowances, RunsOnlyIfAllowed
<1>8. ASSUME NEW r \in Records, RunnerEnds(b, c, r) PROVE AllowedInv'
  BY <1>2, <1>3, <1>8, PersistAllowed DEF RunnerEnds, Stages
<1>9. CASE RunnerStopped(b, c)
  BY <1>5, <1>9 DEF RunnerStopped, RecordFails, Records
<1>10. QED
  BY <1>4, <1>6, <1>7, <1>8, <1>9 DEF Invoke

\* A step that writes the checkpoint from a state in which every approval is a
\* human's, and starts no call.
LEMMA SavedAllowed ==
  ASSUME AllowedInv, TypeInv', allowed \subseteq allowed', runs' = runs,
         disk'.approved \subseteq allowed',
         ApprovedOf(mem') \subseteq allowed',
         \A b \in Batches : ApprovedOf(cache'[b]) \subseteq allowed',
         \A b \in Batches, c \in Calls : stage'[b][c] \in UnderWay => stage[b][c] \in UnderWay
  PROVE  AllowedInv'
BY DEF AllowedInv, Allowances, RunsOnlyIfAllowed

\* Save, with one more approval at most.
LEMMA SaveAllowed ==
  ASSUME AllowedInv, TypeInv', NEW s \in LoopStates, Save(s), UNCHANGED <<stage, runs>>,
         allowed \subseteq allowed', s.approved \subseteq allowed'
  PROVE  AllowedInv'
<1> USE NoLoopIsNone
<1>1. mem' = s /\ disk' = s /\ \A b \in Batches : cache'[b] = IF b = "main" THEN s ELSE cache[b]
  BY DEF Save, AllowedInv, TypeInv, Shape
<1>2. QED
  BY <1>1, SavedAllowed DEF AllowedInv, Allowances, ApprovedOf

\* Every step keeps what is known of the approvals.
LEMMA AllowedStep ==
  ASSUME AllowedInv, [Next]_vars
  PROVE  AllowedInv'
<1> USE NoLoopIsNone
<1>0. TypeInv'
  BY TypeStep DEF AllowedInv
<1>a. pc \in {"loop", "batch", "asking"} => mem \in LoopStates /\ mem.approved \subseteq allowed
  BY DEF AllowedInv, TypeInv, Shape, Allowances, ApprovedOf
<1>b. disk \in LoopStates /\ disk.approved \subseteq allowed
  BY DEF AllowedInv, TypeInv, Tallies
<1>1. ASSUME NEW s, Save(s), UNCHANGED <<stage, runs>>, allowed \subseteq allowed',
             s.approved \subseteq allowed'
      PROVE  AllowedInv'
  <2>1. s \in LoopStates
    BY <1>0, <1>1 DEF Save, TypeInv, Tallies
  <2>2. QED BY <1>0, <1>1, <2>1, SaveAllowed
<1>2. ASSUME UNCHANGED <<disk, runs, allowed>>, mem' \in {mem, disk, NoLoop},
             \A b \in Batches : cache'[b] \in {cache[b], disk, NoLoop},
             \A b \in Batches, c \in Calls : stage'[b][c] \in UnderWay => stage[b][c] \in UnderWay
      PROVE  AllowedInv'
  <2>1. ApprovedOf(mem') \subseteq allowed'
    BY <1>2, <1>b DEF AllowedInv, Allowances, ApprovedOf
  <2>2. \A b \in Batches : ApprovedOf(cache'[b]) \subseteq allowed'
    BY <1>2, <1>b DEF AllowedInv, Allowances, ApprovedOf
  <2>3. QED BY <1>0, <1>2, <1>b, <2>1, <2>2, SavedAllowed
<1>3. ASSUME NEW k \in 1..N, Schedule(k) PROVE AllowedInv'
  <2>1. [mem EXCEPT !.sched = @ + k, !.pending = (mem.sched + 1)..(mem.sched + k)].approved = mem.approved
    BY <1>3, <1>a DEF Schedule, Running, LoopStates
  <2>2. QED BY <1>1, <1>3, <1>a, <2>1 DEF Schedule, Running, LoopFrame, humanVars, batchVars
<1>4. ASSUME NEW v \in {"completed", "failed"}, EndTurn(v) PROVE AllowedInv'
  <2>1. [mem EXCEPT !.status = v].approved = mem.approved
    BY <1>4, <1>a DEF EndTurn, Running, LoopStates
  <2>2. QED BY <1>1, <1>4, <1>a, <2>1 DEF EndTurn, Running, LoopFrame, humanVars, batchVars
<1>5. ASSUME NEW held \in SUBSET Calls, BeginBatch(held) PROVE AllowedInv'
  <2>1. \A b \in Batches, c \in Calls : stage'[b][c] \in UnderWay => stage[b][c] \in UnderWay
    BY <1>5 DEF BeginBatch, AllowedInv, TypeInv, Shape, Batches, UnderWay
  <2>2. QED BY <1>2, <1>5, <2>1 DEF BeginBatch, LoopFrame, humanVars
<1>6. ASSUME NEW c \in Calls, Prepare(c) PROVE AllowedInv'
  <2>1. /\ pc = "batch" /\ mem \in LoopStates
        /\ cache["main"] \in LoopStates /\ "main" \in Batches
    BY <1>6 DEF Prepare, PrepareRecorded, PrepareRefused, PrepareGated, PrepareReady, Preparing,
                AllowedInv, TypeInv, Shape, Batches
  <2>2. ASSUME NEW label \in Stages \ UnderWay, Answer(c, label), LoopFrame PROVE AllowedInv'
    <3>1. \A b \in Batches, d \in Calls : stage'[b][d] \in UnderWay => stage[b][d] \in UnderWay
      BY <2>2 DEF Answer, AllowedInv, TypeInv, Shape, Batches
    <3>2. QED BY <1>2, <2>2, <3>1 DEF Answer, LoopFrame, humanVars
  <2>3. CASE PrepareRecorded(c)
    <3>1. mem.rec[c] \in Records
      BY <2>1 DEF LoopStates
    <3>2. QED BY <2>1, <2>3, <3>1, PersistAllowed DEF PrepareRecorded, Stages, Records, UnderWay
  <2>4. CASE PrepareRefused(c) \/ PrepareGated(c)
    BY <2>2, <2>4 DEF PrepareRefused, PrepareGated, Stages, UnderWay
  <2>5. CASE PrepareReady(c)
    BY <1>a, <2>1, <2>5, PersistAllowed DEF PrepareReady, Stages, Records
  <2>6. QED BY <1>6, <2>3, <2>4, <2>5 DEF Prepare
<1>7. ASSUME NEW k \in SUBSET Calls, Launch(k) PROVE AllowedInv'
  BY <1>2, <1>7 DEF Launch, LoopFrame, humanVars
<1>8. CASE Merge
  <2>1. /\ runs' = runs /\ allowed' = allowed /\ pc = "batch"
        /\ mem' \in {NoLoop, disk'}
        /\ cache' = [cache EXCEPT !.main = mem']
        /\ stage' = [stage EXCEPT !.main = Resting]
    BY <1>8 DEF Merge, LoopFrame, humanVars, Clear
  <2>2. disk'.approved = mem.approved
    BY <1>8, <1>a DEF Merge, LoopStates
  <2>3. \A b \in Batches, d \in Calls : stage'[b][d] \in UnderWay => stage[b][d] \in UnderWay
    BY <2>1 DEF AllowedInv, TypeInv, Shape, Batches, Resting, UnderWay
  <2>4. \A b \in Batches : cache'[b] = IF b = "main" THEN mem' ELSE cache[b]
    BY <2>1 DEF AllowedInv, TypeInv, Shape
  <2>5. QED
    BY <1>0, <1>a, <2>1, <2>2, <2>3, <2>4, SavedAllowed DEF AllowedInv, Allowances, ApprovedOf
<1>9. CASE Cancel \/ Interrupt \/ AnswerRejected
  <2>1. \A b \in Batches : cache'[b] \in {cache[b], NoLoop}
    BY <1>9 DEF Cancel, Interrupt, AnswerRejected, AllowedInv, TypeInv, Shape
  <2>2. QED BY <1>2, <1>9, <2>1 DEF Cancel, Interrupt, AnswerRejected, LoopFrame, humanVars, batchVars
<1>10. CASE Crash
  <2>1. \A b \in Batches, d \in Calls : stage'[b][d] \notin UnderWay
    BY <1>10 DEF Crash, Resting, UnderWay
  <2>2. QED BY <1>2, <1>10, <2>1 DEF Crash, LoopFrame, humanVars
<1>11. CASE Load
  <2>1. UNCHANGED <<stage, runs, allowed>>
    BY <1>11 DEF Load, LoopFrame, humanVars, batchVars
  <2>2. CASE mem' = disk /\ cache' = [cache EXCEPT !.main = disk] /\ UNCHANGED <<disk, settled>>
    <3>1. \A b \in Batches : cache'[b] \in {cache[b], disk}
      BY <2>2 DEF AllowedInv, TypeInv, Shape
    <3>2. QED BY <1>2, <2>1, <2>2, <3>1
  <2>3. CASE \E c \in Calls, U \in SUBSET Calls :
                Save([disk EXCEPT !.rec = [d \in Calls |-> IF d \in U THEN "unknown" ELSE @[d]],
                                  !.status = "paused", !.req = Reconciliation(c)])
    <3>1. PICK c \in Calls, U \in SUBSET Calls :
                Save([disk EXCEPT !.rec = [d \in Calls |-> IF d \in U THEN "unknown" ELSE @[d]],
                                  !.status = "paused", !.req = Reconciliation(c)])
      BY <2>3
    <3>2. [disk EXCEPT !.rec = [d \in Calls |-> IF d \in U THEN "unknown" ELSE @[d]],
                       !.status = "paused", !.req = Reconciliation(c)].approved = disk.approved
      BY <1>b DEF LoopStates
    <3>3. QED BY <1>1, <1>b, <2>1, <3>1, <3>2
  <2>4. QED BY <1>11, <2>2, <2>3 DEF Load
<1>12. ASSUME NEW s \in LoopStates, Resume(s), allowed \subseteq allowed', s.approved \subseteq allowed'
       PROVE  AllowedInv'
  <2>1. [s EXCEPT !.status = "running", !.req = NoRequest].approved = s.approved
    BY DEF LoopStates
  <2>2. QED BY <1>1, <1>12, <2>1 DEF Resume, batchVars
<1>13. CASE Continue
  BY <1>12, <1>13, <1>a DEF Continue, humanVars
<1>14. ASSUME NEW g \in Gates, Allow(g) PROVE AllowedInv'
  <2>1. /\ [disk EXCEPT !.approved = @ \cup {g}] \in LoopStates
        /\ [disk EXCEPT !.approved = @ \cup {g}].approved = disk.approved \cup {g}
    BY <1>b DEF LoopStates
  <2>2. QED BY <1>12, <1>14, <1>b, <2>1 DEF Allow
<1>15. ASSUME NEW g \in Gates, Deny(g) PROVE AllowedInv'
  <2>1. /\ [disk EXCEPT !.denied = @ \cup {g}] \in LoopStates
        /\ [disk EXCEPT !.denied = @ \cup {g}].approved = disk.approved
    BY <1>b DEF LoopStates
  <2>2. QED BY <1>12, <1>15, <1>b, <2>1 DEF Deny
<1>16. ASSUME NEW c \in Calls, NEW r \in {"completed", "failed"}, Mark(c, r) PROVE AllowedInv'
  <2>1. [disk EXCEPT !.rec[c] = r] \in LoopStates /\ [disk EXCEPT !.rec[c] = r].approved = disk.approved
    <3>1. r \in Records BY DEF Records
    <3>2. QED BY <1>b, <3>1, WriteRecord
  <2>2. QED BY <1>12, <1>16, <1>b, <2>1 DEF Mark
<1>17. CASE Abort
  <2>1. [mem EXCEPT !.status = "failed", !.req = NoRequest].approved = mem.approved
    BY <1>17, <1>a DEF Abort, LoopStates
  <2>2. QED BY <1>1, <1>17, <1>a, <2>1 DEF Abort, LoopFrame, humanVars, batchVars
<1>18. CASE UNCHANGED vars
  BY <1>2, <1>18 DEF vars, batchVars, humanVars
<1>19. CASE BatchStep
  BY <1>6, <1>7, <1>8, <1>19, InvokeAllowed DEF BatchStep, Batches
<1>20. CASE \E c \in Calls : Invoke("left", c)
  BY <1>20, InvokeAllowed DEF Batches
<1>21. CASE Human
  BY <1>9, <1>13, <1>14, <1>15, <1>16, <1>17, <1>21 DEF Human
<1>22. QED
  BY <1>3, <1>4, <1>5, <1>9, <1>10, <1>11, <1>18, <1>19, <1>20, <1>21 DEF Next

\* RunsOnlyIfAllowed: the runner of a call is called only when a human has allowed
\* each of its gates, even if calls left behind by a failed gather write the checkpoint
\* while the turn is resumed.
THEOREM OnlyAllowedCallsRun == Spec => []RunsOnlyIfAllowed
<1>1. Init => AllowedInv
  <2> SUFFICES ASSUME Init PROVE AllowedInv
    OBVIOUS
  <2>1. TypeInv
    BY InitTypes
  <2>2. disk.approved = {} /\ mem.approved = {} /\ cache.main.approved = {} /\ cache.left = NoLoop
    BY DEF Init, FirstLoop
  <2>3. \A b \in Batches, c \in Calls : stage[b][c] \notin UnderWay
    BY DEF Init, Batches, Resting, UnderWay
  <2>4. RunsOnlyIfAllowed
    BY DEF Init, RunsOnlyIfAllowed
  <2>5. QED
    BY <2>1, <2>2, <2>3, <2>4 DEF AllowedInv, Allowances, ApprovedOf, Batches
<1>2. AllowedInv /\ [Next]_vars => AllowedInv'
  BY AllowedStep
<1>3. AllowedInv => RunsOnlyIfAllowed
  BY DEF AllowedInv
<1>4. QED
  BY <1>1, <1>2, <1>3, PTL DEF Spec
-----------------------------------------------------------------------------
(* The inductive invariant, for turns that are resumed after the calls left    *)
(* behind have ended.                                                          *)

Guarded == Calls \ Idempotent
NoRecordYet == {"none", "prepared"}

\* What the record of a call under way says.
RecordAt(s) == IF s = "ready" THEN "prepared" ELSE "started"

\* The loop, its store object and the checkpoint agree whenever the loop is not in
\* a batch; in a batch the loop lags behind by the records of the calls.
LoopInv ==
    /\ pc \in {"loop", "asking"} => mem = disk /\ cache.main = disk
    /\ pc = "batch" => /\ mem # NoLoop /\ cache.main = disk
                       /\ mem.approved = disk.approved /\ mem.denied = disk.denied
                       /\ mem.req = disk.req
                       /\ \A c \in Calls : stage.main[c] = "new" => mem.rec[c] = disk.rec[c]
    /\ pc # "batch" => stage.main = Resting /\ chunk.main = {}

\* A call that may not be replayed is never in a gather with others.
ChunkInv ==
    /\ chunk.left \subseteq Idempotent
    /\ \A c \in chunk.main \cap Guarded : chunk.main = {c}
    /\ In("main", {"new"}) # {} => chunk.main = {}
    /\ \A c \in Calls : stage.left[c] \in {"idle"} \cup UnderWay
    /\ \A c \in Left : c \in chunk.left

\* What a call under way has recorded, and what the durable record says of the runs.
RecordInv ==
    /\ \A c \in Calls : stage.main[c] \in UnderWay => disk.rec[c] = RecordAt(stage.main[c])
    /\ \A c \in Guarded : stage.main[c] \in UnderWay =>
                              runs[c] = IF stage.main[c] = "running" THEN 1 ELSE 0
    /\ \A c \in Guarded : runs[c] = 0 \/ (runs[c] = 1 /\ disk.rec[c] \notin NoRecordYet)
    /\ \A c \in settled : Settled(disk.rec[c])

\* The calls left behind know all that matters of the checkpoint they write.
LeftInv ==
    Left # {} =>
        /\ pc = "down" /\ cache.left # NoLoop
        /\ cache.left.approved = disk.approved /\ cache.left.denied = disk.denied
        /\ cache.left.req = disk.req
        /\ \A c \in Guarded : cache.left.rec[c] = disk.rec[c]
        /\ \A c \in settled : Settled(cache.left.rec[c])
        /\ \A c \in Left : cache.left.rec[c] = RecordAt(stage.left[c])

\* Approvals and denials are never lost.
GateInv ==
    /\ disk.approved \subseteq allowed /\ refused \subseteq disk.denied
    /\ \A c \in Calls : runs[c] > 0 => GatesOf(c) \subseteq disk.approved \ refused
    /\ \A b \in Batches, c \in Calls :
           stage[b][c] \in UnderWay => GatesOf(c) \subseteq disk.approved \ refused
    /\ \A c \in Calls : stage.main[c] = "approval" => Unresolved(c) # {}
    /\ \A g \in Gates : disk.req = Approval(g) => g \notin disk.approved

IInv == TypeInv /\ LoopInv /\ ChunkInv /\ RecordInv /\ LeftInv /\ GateInv
-----------------------------------------------------------------------------
(* Records: what the inductive invariant says of a step of one call.         *)

\* A call may record r: no settled outcome is forgotten, nor that it has run.
MayRecord(c, r) ==
    /\ c \in settled => Settled(r)
    /\ c \in Guarded /\ runs[c] # 0 => r \notin NoRecordYet

\* Call c of the loop's batch records r and goes on.
LEMMA RecordInBatch ==
  ASSUME IInv, TypeInv', pc = "batch", NEW c \in Calls, NEW r \in Records,
         NEW label \in Stages \ {"approval", "new"}, MayRecord(c, r),
         Record("main", c, r, label), LoopFrame,
         label \in UnderWay => /\ r = RecordAt(label) /\ label # "running"
                               /\ GatesOf(c) \subseteq disk.approved \ refused
                               /\ c \in Guarded => runs[c] = 0
  PROVE  IInv'
<1> USE DEF IInv
<1>1. cache.main = disk /\ disk \in LoopStates /\ Left = {} /\ mem # NoLoop
  BY DEF LoopInv, LeftInv, TypeInv, Tallies
<1> DEFINE after == WithRecord("main", c, r)
<1>2. /\ after.approved = disk.approved /\ after.denied = disk.denied /\ after.req = disk.req
      /\ \A d \in Calls : after.rec[d] = IF d = c THEN r ELSE disk.rec[d]
  <2>1. after = [disk EXCEPT !.rec[c] = r]
    BY <1>1 DEF WithRecord
  <2> HIDE DEF after, IInv
  <2>2. QED BY <1>1, <2>1 DEF LoopStates
<1>3. /\ disk' = after /\ cache'.main = after /\ cache'.left = cache.left
      /\ settled' = settled \cup {d \in Calls : Settled(after.rec[d])}
      /\ UNCHANGED <<pc, mem, chunk, hit, stops, runs, allowed, refused, vouched>>
  BY DEF Record, Witnessed, LoopFrame, humanVars, TypeInv, Shape, Batches
<1>4. /\ stage'.left = stage.left
      /\ \A d \in Calls : stage'.main[d] = IF d = c THEN label ELSE stage.main[d]
  BY DEF Record, TypeInv, Shape, Batches
<1> HIDE DEF after
<1>5. Left' = {} /\ In("main", {"new"})' \subseteq In("main", {"new"})
  BY <1>1, <1>4 DEF Left, In
<1>6. LoopInv'
  BY <1>2, <1>3, <1>4 DEF LoopInv
<1>7. ChunkInv'
  BY <1>1, <1>3, <1>4, <1>5 DEF ChunkInv
<1>8. RecordInv'
  <2>1. \A d \in Calls : stage'.main[d] \in UnderWay => disk'.rec[d] = RecordAt(stage'.main[d])
    BY <1>2, <1>3, <1>4 DEF RecordInv
  <2>2. \A d \in Guarded : stage'.main[d] \in UnderWay =>
                              runs'[d] = IF stage'.main[d] = "running" THEN 1 ELSE 0
    BY <1>3, <1>4 DEF RecordInv, Guarded
  <2>3. \A d \in Guarded : runs'[d] = 0 \/ (runs'[d] = 1 /\ disk'.rec[d] \notin NoRecordYet)
    BY <1>2, <1>3 DEF RecordInv, Guarded, MayRecord
  <2>4. settled \subseteq Calls
    BY DEF TypeInv, Tallies
  <2>5. \A d \in settled' : Settled(disk'.rec[d])
    BY <1>2, <1>3, <2>4 DEF RecordInv, MayRecord
  <2>6. QED BY <2>1, <2>2, <2>3, <2>5 DEF RecordInv
<1>9. LeftInv'
  BY <1>5 DEF LeftInv
<1>10. GateInv'
  BY <1>2, <1>3, <1>4 DEF GateInv, Unresolved, Batches
<1>11. QED
  BY <1>6, <1>7, <1>8, <1>9, <1>10

\* Call c of the loop's batch raises, having written r or not.
LEMMA RaiseInBatch ==
  ASSUME IInv, TypeInv', pc = "batch", NEW c \in Calls, NEW r \in Records, MayRecord(c, r),
         NEW s \in {disk, WithRecord("main", c, r)}, Raise("main", c, s),
         disk' \in {disk, WithRecord("main", c, r)}, LoopFrame,
         settled' \in {settled, settled \cup {d \in Calls : Settled(disk'.rec[d])}},
         s # disk' => s = disk /\ settled' = settled,
         c \in chunk.main \/ chunk.main = {}
  PROVE  IInv'
<1> USE DEF IInv
<1>1. /\ cache.main = disk /\ disk \in LoopStates /\ Left = {} /\ mem # NoLoop
      /\ disk.rec \in [Calls -> Records] /\ settled \subseteq Calls
  BY DEF LoopInv, LeftInv, TypeInv, Tallies, LoopStates
<1> DEFINE w == WithRecord("main", c, r)
           rest == {d \in chunk.main \ {c} : stage.main[d] \in UnderWay}
<1>2. /\ w.approved = disk.approved /\ w.denied = disk.denied /\ w.req = disk.req
      /\ \A d \in Calls : w.rec[d] = IF d = c THEN r ELSE disk.rec[d]
  <2>1. w = [disk EXCEPT !.rec[c] = r]
    BY <1>1 DEF WithRecord
  <2> HIDE DEF w, IInv
  <2>2. QED BY <1>1, <2>1 DEF LoopStates
<1>3. pc' = "down" /\ UNCHANGED <<runs, allowed, refused, vouched>>
  BY DEF Raise, LoopFrame, humanVars
<1>4. stage'.main = Resting /\ chunk'.main = {} /\ \A d \in Calls : stage'.main[d] = "idle"
  BY DEF Raise, Clear, TypeInv, Shape, Batches, Resting
<1>5. /\ disk'.approved = disk.approved /\ disk'.denied = disk.denied /\ disk'.req = disk.req
      /\ s.approved = disk.approved /\ s.denied = disk.denied /\ s.req = disk.req
  BY <1>2
<1>6. \A d \in Calls : d # c => disk'.rec[d] = disk.rec[d] /\ s.rec[d] = disk.rec[d]
  BY <1>2
<1>7. /\ \A d \in settled : Settled(disk.rec[d]) /\ Settled(w.rec[d])
      /\ \A d \in settled' : Settled(disk'.rec[d]) /\ Settled(s.rec[d])
  <2>1. \A d \in settled : Settled(disk.rec[d]) /\ Settled(w.rec[d])
    BY <1>1, <1>2 DEF RecordInv, MayRecord
  <2>2. \A d \in settled' : Settled(disk'.rec[d])
    BY <1>1, <2>1
  <2>3. s = disk' \/ (s = disk /\ settled' = settled)
    OBVIOUS
  <2>4. QED BY <2>1, <2>2, <2>3
<1>8. \A d \in Guarded : runs'[d] = 0 \/ (runs'[d] = 1 /\ disk'.rec[d] \notin NoRecordYet)
  BY <1>2, <1>3 DEF RecordInv, Guarded, MayRecord
<1>9. LoopInv'
  BY <1>3, <1>4 DEF LoopInv
<1>10. RecordInv'
  BY <1>4, <1>7, <1>8 DEF RecordInv, UnderWay, Guarded
<1>11. In("main", {"new"})' = {}
  BY <1>4 DEF In
<1>12. CASE rest = {}
  <2>1. stage'.left = stage.left /\ chunk'.left = chunk.left
    BY <1>12 DEF Raise, Clear, TypeInv, Shape, Batches
  <2>2. Left' = {}
    BY <1>1, <2>1 DEF Left, In
  <2>3. ChunkInv'
    BY <1>4, <1>11, <2>1, <2>2 DEF ChunkInv
  <2>4. LeftInv'
    BY <2>2 DEF LeftInv
  <2>5. \A b \in Batches, d \in Calls : stage'[b][d] \notin UnderWay
    BY <1>4, <2>2 DEF Left, In, Batches, UnderWay
  <2>6. GateInv'
    BY <1>3, <1>4, <1>5, <2>5 DEF GateInv
  <2>7. QED BY <1>9, <1>10, <2>3, <2>4, <2>6
<1>13. CASE rest # {}
  <2>1. /\ cache'.left = s /\ chunk'.left = rest
        /\ stage'.left = [d \in Calls |-> IF d \in rest THEN stage.main[d] ELSE "idle"]
    BY <1>13 DEF Raise
  <2>2. rest \subseteq Calls /\ \A d \in rest : stage.main[d] \in UnderWay /\ d # c
    BY DEF TypeInv, Shape, Batches
  <2>3. rest \subseteq Idempotent /\ c \notin Guarded
    <3>1. c \in chunk.main /\ \E d \in chunk.main : d # c
      BY <1>13
    <3>2. \A e \in chunk.main : e \notin Guarded
      BY <3>1 DEF ChunkInv
    <3>3. QED BY <2>2, <3>1, <3>2 DEF Guarded
  <2>4. Left' = rest
    BY <2>1, <2>2 DEF Left, In, UnderWay
  <2>5. ChunkInv'
    BY <1>4, <1>11, <2>1, <2>2, <2>3, <2>4 DEF ChunkInv
  <2>6. cache'.left # NoLoop
    BY <1>1, <2>1, NoLoopIsNone, WriteRecord DEF WithRecord
  <2>7. \A d \in Guarded : cache'.left.rec[d] = disk'.rec[d]
    BY <1>6, <2>1, <2>3 DEF Guarded
  <2>8. \A d \in Left' : cache'.left.rec[d] = RecordAt(stage'.left[d])
    BY <1>6, <2>1, <2>2, <2>4 DEF RecordInv
  <2>9. LeftInv'
    BY <1>3, <1>5, <1>7, <2>1, <2>6, <2>7, <2>8 DEF LeftInv
  <2>10. \A d \in Calls : stage'.left[d] \in UnderWay => GatesOf(d) \subseteq disk.approved \ refused
    BY <2>1, <2>2 DEF GateInv, UnderWay, Batches
  <2>11. GateInv'
    BY <1>3, <1>4, <1>5, <2>10 DEF GateInv, Batches, UnderWay
  <2>12. QED BY <1>9, <1>10, <2>5, <2>9, <2>11
<1>14. QED
  BY <1>12, <1>13

\* Recording r durably or failing to, in the loop's batch.
LEMMA PersistInBatch ==
  ASSUME IInv, TypeInv', pc = "batch", NEW c \in Calls, NEW r \in Records,
         NEW label \in Stages \ {"approval", "new"}, MayRecord(c, r),
         Persist("main", c, r, label), LoopFrame,
         c \in chunk.main \/ chunk.main = {},
         label \in UnderWay => /\ r = RecordAt(label) /\ label # "running"
                               /\ GatesOf(c) \subseteq disk.approved \ refused
                               /\ c \in Guarded => runs[c] = 0
  PROVE  IInv'
<1>1. cache.main = disk
  BY DEF IInv, LoopInv
<1>2. CASE Record("main", c, r, label)
  BY <1>2, RecordInBatch
<1>3. CASE RecordFails("main", c, r)
  <2>1. CASE disk' = disk /\ Raise("main", c, cache.main) /\ UNCHANGED settled
    <3>1. Raise("main", c, disk) /\ disk \in {disk, WithRecord("main", c, r)}
      BY <1>1, <2>1
    <3>2. QED BY <2>1, <3>1, RaiseInBatch
  <2>2. CASE /\ disk' = WithRecord("main", c, r)
             /\ Raise("main", c, WithRecord("main", c, r))
             /\ Witnessed(WithRecord("main", c, r))
    <3>1. settled' = settled \cup {d \in Calls : Settled(disk'.rec[d])}
      BY <2>2 DEF Witnessed
    <3> DEFINE s == WithRecord("main", c, r)
    <3>2. s \in {disk, WithRecord("main", c, r)} /\ Raise("main", c, s) /\ s = disk'
      BY <2>2
    <3> HIDE DEF s
    <3>3. QED BY <2>2, <3>1, <3>2, RaiseInBatch
  <2>3. QED BY <1>3, <2>1, <2>2 DEF RecordFails
<1>4. QED
  BY <1>2, <1>3 DEF Persist

\* Preparing a call of the batch keeps the inductive invariant.
LEMMA PrepareKeeps ==
  ASSUME IInv, TypeInv', NEW c \in Calls, Prepare(c)
  PROVE  IInv'
<1>1. /\ pc = "batch" /\ stage.main[c] = "new" /\ c \in In("main", {"new"})
  BY DEF Prepare, PrepareRecorded, PrepareRefused, PrepareGated, PrepareReady, Preparing, In
<1>2. /\ chunk.main = {} /\ mem.rec[c] = disk.rec[c] /\ mem \in LoopStates
      /\ mem.approved = disk.approved /\ mem.denied = disk.denied /\ cache.main = disk
      /\ Left = {}
  BY <1>1 DEF IInv, LoopInv, ChunkInv, LeftInv, TypeInv, Shape
<1>3. c \in settled => Settled(mem.rec[c])
  BY <1>2 DEF IInv, RecordInv
<1>4. c \in Guarded => runs[c] = 0 \/ (runs[c] = 1 /\ mem.rec[c] \notin NoRecordYet)
  BY <1>2 DEF IInv, RecordInv
<1>5. ASSUME NEW label \in Stages \ (UnderWay \cup {"new"}), Answer(c, label), LoopFrame,
             label = "approval" => Unresolved(c) # {}
      PROVE  IInv'
  <2>1. /\ stage'.left = stage.left
        /\ \A d \in Calls : stage'.main[d] = IF d = c THEN label ELSE stage.main[d]
        /\ UNCHANGED <<pc, mem, disk, cache, chunk, hit, settled, stops>>
        /\ UNCHANGED <<runs, allowed, refused, vouched>>
    BY <1>5 DEF Answer, LoopFrame, humanVars, IInv, TypeInv, Shape, Batches
  <2>2. Left' = Left /\ In("main", {"new"})' \subseteq In("main", {"new"})
    BY <2>1 DEF Left, In
  <2>3. \A d \in Calls : stage'.main[d] \in UnderWay => stage'.main[d] = stage.main[d]
    BY <2>1
  <2>4. LoopInv'
    BY <1>1, <2>1 DEF IInv, LoopInv
  <2>5. ChunkInv'
    BY <1>2, <2>1, <2>2 DEF IInv, ChunkInv
  <2>6. RecordInv'
    BY <2>1, <2>3 DEF IInv, RecordInv, Guarded
  <2>7. LeftInv'
    BY <1>2, <2>2 DEF LeftInv
  <2>8. GateInv'
    BY <1>5, <2>1, <2>3 DEF IInv, GateInv, Unresolved, Batches
  <2>9. QED BY <2>4, <2>5, <2>6, <2>7, <2>8 DEF IInv
<1>6. CASE PrepareRecorded(c)
  <2> DEFINE r == IF Settled(mem.rec[c]) THEN mem.rec[c] ELSE "unknown"
  <2>1. r \in Records /\ MayRecord(c, r)
    BY <1>2, <1>3 DEF MayRecord, Settled, Records, NoRecordYet, LoopStates
  <2>2. Persist("main", c, r, "answered") /\ LoopFrame
    BY <1>6 DEF PrepareRecorded
  <2> HIDE DEF r
  <2>3. "answered" \in Stages \ {"approval", "new"} /\ "answered" \notin UnderWay
    BY DEF Stages, UnderWay
  <2>4. QED BY <1>1, <1>2, <2>1, <2>2, <2>3, PersistInBatch
<1>7. CASE PrepareRefused(c)
  BY <1>5, <1>7 DEF PrepareRefused, Stages, UnderWay
<1>8. CASE PrepareGated(c)
  <2> DEFINE open == {g \in GatesOf(c) : g \in mem.denied \/ g \notin mem.approved}
  <2>1. open # {} /\ open \subseteq Gates
    BY <1>8 DEF PrepareGated, GatesOf
  <2>2. NextGate(open) \in open
    BY <2>1, NextGateIn
  <2>3. NextGate(open) \notin mem.denied => Unresolved(c) # {}
    BY <2>2 DEF Unresolved
  <2>4. QED BY <1>5, <1>8, <2>3 DEF PrepareGated, Stages, UnderWay
<1>9. CASE PrepareReady(c)
  <2>1. MayPrepare(c) /\ GatesOf(c) \subseteq mem.approved \ mem.denied
        /\ Persist("main", c, "prepared", "ready") /\ LoopFrame
    BY <1>9 DEF PrepareReady
  <2>2. c \notin settled /\ (c \in Guarded => runs[c] = 0)
    <3>1. mem.rec[c] \in Records
      BY <1>2 DEF LoopStates
    <3>2. QED BY <1>3, <1>4, <2>1, <3>1 DEF MayPrepare, Unsure, Settled, NoRecordYet, Guarded, Records
  <2>3. MayRecord(c, "prepared")
    BY <2>2 DEF MayRecord
  <2>4. GatesOf(c) \subseteq disk.approved \ refused
    BY <1>2, <2>1 DEF IInv, GateInv
  <2>5. "prepared" \in Records /\ "prepared" = RecordAt("ready") /\ "ready" \in Stages \ {"approval", "new"}
    BY DEF Records, RecordAt, Stages
  <2>6. QED BY <1>1, <1>2, <2>1, <2>2, <2>3, <2>4, <2>5, PersistInBatch
<1>10. QED
  BY <1>6, <1>7, <1>8, <1>9 DEF Prepare

\* So does each step of a call of the batch that is under way,
LEMMA InvokeInBatch ==
  ASSUME IInv, TypeInv', NEW c \in Calls, Invoke("main", c)
  PROVE  IInv'
<1>1. stage.main[c] \in UnderWay /\ c \in chunk.main
  BY DEF Invoke, StartCall, StartCancelled, CallRunner, RunnerEnds, RunnerStopped, Invoking, UnderWay
<1>2. pc = "batch"
  BY <1>1 DEF IInv, TypeInv, Shape, Resting, UnderWay
<1>3. /\ disk.rec[c] = RecordAt(stage.main[c]) /\ c \notin settled
      /\ GatesOf(c) \subseteq disk.approved \ refused
      /\ cache.main = disk /\ Left = {} /\ In("main", {"new"}) = {}
  BY <1>1, <1>2 DEF IInv, RecordInv, GateInv, RecordAt, Settled, LoopInv, LeftInv, ChunkInv, Batches
<1>4. ASSUME NEW r \in {"started", "completed", "failed", "unknown"} PROVE r \in Records /\ MayRecord(c, r)
  BY <1>3, <1>4 DEF Records, MayRecord, NoRecordYet
<1>5. CASE StartCall("main", c)
  <2>1. Persist("main", c, "started", "started") /\ LoopFrame /\ stage.main[c] = "ready"
    BY <1>5 DEF StartCall, Invoking
  <2>2. c \in Guarded => runs[c] = 0
    BY <1>1, <2>1 DEF IInv, RecordInv
  <2>3. "started" = RecordAt("started") /\ "started" \in Stages \ {"approval", "new"}
    BY DEF RecordAt, Stages
  <2>4. QED BY <1>1, <1>2, <1>3, <1>4, <2>1, <2>2, <2>3, PersistInBatch
<1>6. CASE StartCancelled("main", c)
  <2>1. /\ disk' \in {disk, WithRecord("main", c, "started")} /\ Raise("main", c, cache["main"])
        /\ LoopFrame /\ settled' = settled
    BY <1>6 DEF StartCancelled
  <2>2. Raise("main", c, disk) /\ disk \in {disk, WithRecord("main", c, "started")}
    BY <1>3, <2>1
  <2>3. QED BY <1>1, <1>2, <1>4, <2>1, <2>2, RaiseInBatch
<1>7. CASE CallRunner("main", c)
  <2>1. /\ stage.main[c] = "started"
        /\ stage' = [stage EXCEPT !["main"][c] = "running"]
        /\ runs' = [runs EXCEPT ![c] = @ + 1]
        /\ UNCHANGED <<pc, mem, disk, cache, chunk, hit, humanVars, settled, stops>>
    BY <1>7 DEF CallRunner, Invoking
  <2>2. /\ stage'.left = stage.left
        /\ \A d \in Calls : stage'.main[d] = IF d = c THEN "running" ELSE stage.main[d]
    BY <2>1 DEF IInv, TypeInv, Shape, Batches
  <2>3. \A d \in Calls : runs'[d] = IF d = c THEN runs[c] + 1 ELSE runs[d]
    BY <2>1 DEF IInv, TypeInv, Tallies
  <2>4. UNCHANGED <<pc, mem, disk, cache, chunk, settled, allowed, refused>>
    BY <2>1 DEF humanVars
  <2>5. Left' = {} /\ In("main", {"new"})' = {}
    BY <1>3, <2>2 DEF Left, In
  <2>6. disk.rec[c] = "started" /\ (c \in Guarded => runs[c] = 0)
    BY <1>1, <1>3, <2>1 DEF RecordAt, IInv, RecordInv
  <2>7. LoopInv'
    BY <1>2, <2>2, <2>4 DEF IInv, LoopInv
  <2>8. ChunkInv'
    BY <2>2, <2>4, <2>5 DEF IInv, ChunkInv
  <2>9. RecordInv'
    BY <2>2, <2>3, <2>4, <2>6 DEF IInv, RecordInv, Guarded, RecordAt, NoRecordYet
  <2>10. LeftInv'
    BY <2>5 DEF LeftInv
  <2>11. GateInv'
    BY <1>1, <1>3, <2>2, <2>3, <2>4 DEF IInv, GateInv, Unresolved, Batches, TypeInv, Tallies
  <2>12. QED BY <2>7, <2>8, <2>9, <2>10, <2>11 DEF IInv
<1>8. ASSUME NEW r \in Records, RunnerEnds("main", c, r) PROVE IInv'
  <2>1. Persist("main", c, r, "ended") /\ LoopFrame /\ r \in {"completed", "failed", "unknown"}
    BY <1>8 DEF RunnerEnds
  <2>2. "ended" \in Stages \ {"approval", "new"} /\ "ended" \notin UnderWay
    BY DEF Stages, UnderWay
  <2>3. MayRecord(c, r)
    BY <1>4, <2>1
  <2>4. QED BY <1>1, <1>2, <1>8, <2>1, <2>2, <2>3, PersistInBatch
<1>9. CASE RunnerStopped("main", c)
  <2>1. LoopFrame /\ "failed" \in Records /\ MayRecord(c, "failed")
    BY <1>4, <1>9 DEF RunnerStopped
  <2>2. CASE RecordFails("main", c, "failed")
    <3>1. Persist("main", c, "failed", "ended")
      BY <2>2 DEF Persist
    <3>2. "ended" \in Stages \ {"approval", "new"} /\ "ended" \notin UnderWay
      BY DEF Stages, UnderWay
    <3>3. QED BY <1>1, <1>2, <2>1, <3>1, <3>2, PersistInBatch
  <2>3. CASE /\ disk' = WithRecord("main", c, "failed")
             /\ Raise("main", c, WithRecord("main", c, "failed"))
             /\ Witnessed(WithRecord("main", c, "failed"))
    <3>1. settled' = settled \cup {d \in Calls : Settled(disk'.rec[d])}
      BY <2>3 DEF Witnessed
    <3> DEFINE s == WithRecord("main", c, "failed")
    <3>2. s \in {disk, WithRecord("main", c, "failed")} /\ Raise("main", c, s) /\ s = disk'
      BY <2>3
    <3> HIDE DEF s
    <3>3. QED BY <1>1, <1>2, <2>1, <2>3, <3>1, <3>2, RaiseInBatch
  <2>4. QED BY <1>9, <2>2, <2>3 DEF RunnerStopped
<1>10. QED
  BY <1>5, <1>6, <1>7, <1>8, <1>9 DEF Invoke

\* A call left behind writes record r, or not, and goes on or ends.
LEMMA LeftWrites ==
  ASSUME IInv, TypeInv', NEW c \in Left, NEW r \in Records, NEW label \in {"started", "running", "idle"},
         disk' \in {disk, WithRecord("left", c, r)},
         cache'.left \in {cache.left, WithRecord("left", c, r)},
         label # "idle" => cache'.left.rec[c] = RecordAt(label),
         settled' \in {settled, settled \cup {d \in Calls : Settled(disk'.rec[d])}},
         settled' # settled => cache'.left = disk',
         runs' \in {runs, [runs EXCEPT ![c] = @ + 1]},
         stage' = [stage EXCEPT !.left[c] = label],
         UNCHANGED <<pc, mem, chunk, humanVars>>
  PROVE  IInv'
<1> DEFINE w == WithRecord("left", c, r)
<1>1. /\ c \in Calls /\ stage.left[c] \in UnderWay /\ pc = "down"
      /\ cache.left \in LoopStates /\ disk \in LoopStates /\ settled \subseteq Calls
      /\ c \in Idempotent /\ GatesOf(c) \subseteq disk.approved \ refused
  BY DEF IInv, LeftInv, ChunkInv, Left, In, GateInv, TypeInv, Shape, Tallies, Batches
<1>2. /\ cache.left.approved = disk.approved /\ cache.left.denied = disk.denied
      /\ cache.left.req = disk.req
      /\ \A d \in Guarded : cache.left.rec[d] = disk.rec[d]
      /\ \A d \in settled : Settled(cache.left.rec[d])
      /\ \A d \in Left : cache.left.rec[d] = RecordAt(stage.left[d])
  BY DEF IInv, LeftInv
<1>3. /\ w.approved = disk.approved /\ w.denied = disk.denied /\ w.req = disk.req
      /\ \A d \in Calls : w.rec[d] = IF d = c THEN r ELSE cache.left.rec[d]
  <2>1. w = [cache.left EXCEPT !.rec[c] = r]
    BY DEF WithRecord
  <2> HIDE DEF w
  <2>2. QED BY <1>1, <1>2, <2>1 DEF LoopStates
<1>4. c \notin settled /\ c \notin Guarded
  BY <1>1, <1>2 DEF RecordAt, Settled, Guarded
<1>5. /\ stage'.main = stage.main
      /\ \A d \in Calls : stage'.left[d] = IF d = c THEN label ELSE stage.left[d]
  BY <1>1 DEF IInv, TypeInv, Shape, Batches
<1>6. UNCHANGED <<pc, mem, chunk, allowed, refused>>
  BY DEF humanVars
<1>7. /\ \A d \in Calls : d # c => runs'[d] = runs[d]
      /\ \A d \in Guarded : runs'[d] = runs[d]
  BY <1>1, <1>4 DEF IInv, TypeInv, Tallies, Guarded
<1>8. /\ disk'.approved = disk.approved /\ disk'.denied = disk.denied /\ disk'.req = disk.req
      /\ cache'.left.approved = disk.approved /\ cache'.left.denied = disk.denied
      /\ cache'.left.req = disk.req
  BY <1>2, <1>3
<1>9. /\ \A d \in Guarded : disk'.rec[d] = disk.rec[d] /\ cache'.left.rec[d] = disk.rec[d]
      /\ \A d \in Calls : d # c => cache'.left.rec[d] = cache.left.rec[d]
  BY <1>2, <1>3, <1>4 DEF Guarded
<1>10. /\ \A d \in settled' : Settled(disk'.rec[d]) /\ Settled(cache'.left.rec[d])
  <2>1. \A d \in settled : Settled(disk.rec[d]) /\ Settled(cache.left.rec[d]) /\ Settled(w.rec[d])
    BY <1>1, <1>2, <1>3, <1>4 DEF IInv, RecordInv
  <2>2. \A d \in settled : Settled(disk'.rec[d]) /\ Settled(cache'.left.rec[d])
    BY <2>1
  <2>3. settled' = settled \/ cache'.left = disk'
    OBVIOUS
  <2>4. QED BY <2>2, <2>3
<1>11. stage.main = Resting /\ chunk.main = {} /\ \A d \in Calls : stage.main[d] = "idle"
  BY <1>1 DEF IInv, LoopInv, Resting
<1>12. Left' \subseteq Left
  BY <1>1, <1>5 DEF Left, In
<1>13. LoopInv'
  BY <1>1, <1>5, <1>6, <1>11 DEF LoopInv
<1>14. ChunkInv'
  BY <1>5, <1>6, <1>11, <1>12 DEF IInv, ChunkInv, UnderWay
<1>15. RecordInv'
  BY <1>5, <1>7, <1>9, <1>10, <1>11 DEF IInv, RecordInv, UnderWay, Guarded
<1>16. \A d \in Left' : cache'.left.rec[d] = RecordAt(stage'.left[d])
  <2>1. ASSUME NEW d \in Left' PROVE cache'.left.rec[d] = RecordAt(stage'.left[d])
    <3>1. d \in Left /\ d \in Calls /\ stage'.left[d] \in UnderWay
      BY <1>12 DEF Left, In
    <3>2. CASE d = c
      BY <1>5, <3>1, <3>2 DEF UnderWay
    <3>3. CASE d # c
      BY <1>2, <1>5, <1>9, <3>1, <3>3
    <3>4. QED BY <3>2, <3>3
  <2>2. QED BY <2>1
<1>17. cache'.left # NoLoop
  BY <1>1, NoLoopIsNone, WriteRecord DEF WithRecord
<1>18. LeftInv'
  BY <1>1, <1>6, <1>8, <1>9, <1>10, <1>16, <1>17 DEF LeftInv
<1>19. \A d \in Calls : stage'.left[d] \in UnderWay => stage.left[d] \in UnderWay
  BY <1>1, <1>5 DEF UnderWay
<1>20. \A d \in Calls : runs'[d] > 0 => GatesOf(d) \subseteq disk.approved \ refused
  BY <1>1, <1>7 DEF IInv, GateInv
<1>21. GateInv'
  BY <1>5, <1>6, <1>8, <1>11, <1>19, <1>20 DEF IInv, GateInv, Batches, UnderWay
<1>22. QED
  BY <1>13, <1>14, <1>15, <1>18, <1>21 DEF IInv

\* and each step of a call left behind.
LEMMA LeftKeeps ==
  ASSUME IInv, TypeInv', NEW c \in Calls, Invoke("left", c)
  PROVE  IInv'
<1>1. stage["left"][c] \in UnderWay
  BY DEF Invoke, StartCall, StartCancelled, CallRunner, RunnerEnds, RunnerStopped, Invoking, UnderWay
<1>2. c \in Left
  BY <1>1 DEF Left, In
<1>3. cache.left \in LoopStates /\ cache \in [Batches -> LoopStates \cup {NoLoop}] /\ "left" \in Batches
  BY <1>1, UnderWayTypes DEF IInv, Batches, TypeInv, Shape
<1>4. ASSUME NEW r \in Records, NEW s \in {cache.left, WithRecord("left", c, r)},
             disk' \in {disk, WithRecord("left", c, r)}, Raise("left", c, s), LoopFrame,
             settled' \in {settled, settled \cup {d \in Calls : Settled(disk'.rec[d])}},
             settled' # settled => s = disk'
      PROVE  IInv'
  <2>1. /\ stage' = [stage EXCEPT !.left[c] = "idle"] /\ cache' = [cache EXCEPT !.left = s]
        /\ UNCHANGED <<pc, mem, chunk, humanVars>> /\ runs' = runs
    BY <1>4 DEF Raise, LoopFrame
  <2>2. cache'.left = s
    BY <1>3, <2>1
  <2>3. QED BY <1>2, <1>4, <2>1, <2>2, LeftWrites
<1>5. ASSUME NEW r \in Records, RecordFails("left", c, r), LoopFrame PROVE IInv'
  <2>1. CASE disk' = disk /\ Raise("left", c, cache["left"]) /\ UNCHANGED settled
    BY <1>4, <1>5, <2>1
  <2>2. CASE /\ disk' = WithRecord("left", c, r) /\ Raise("left", c, WithRecord("left", c, r))
             /\ Witnessed(WithRecord("left", c, r))
    BY <1>4, <1>5, <2>2 DEF Witnessed
  <2>3. QED BY <1>5, <2>1, <2>2 DEF RecordFails
<1>6. ASSUME NEW r \in Records, NEW label \in {"started", "idle"}, Record("left", c, r, label), LoopFrame,
             label # "idle" => r = RecordAt(label)
      PROVE  IInv'
  <2> DEFINE w == WithRecord("left", c, r)
  <2>1. /\ disk' = w /\ cache' = [cache EXCEPT !.left = w]
        /\ stage' = [stage EXCEPT !.left[c] = label]
        /\ settled' = settled \cup {d \in Calls : Settled(disk'.rec[d])}
        /\ UNCHANGED <<pc, mem, chunk, humanVars>> /\ runs' = runs
    BY <1>6 DEF Record, Witnessed, LoopFrame
  <2>2. w.rec[c] = r
    BY <1>3 DEF WithRecord, LoopStates
  <2>3. cache'.left = w
    BY <1>3, <2>1
  <2> HIDE DEF w
  <2>4. disk' \in {disk, w} /\ cache'.left \in {cache.left, w}
    BY <2>1, <2>3
  <2>5. label # "idle" => cache'.left.rec[c] = RecordAt(label)
    BY <1>6, <2>2, <2>3
  <2>6. QED BY <1>2, <1>6, <2>1, <2>3, <2>4, <2>5, LeftWrites DEF w
<1>7. CASE StartCall("left", c)
  <2>1. "started" \in Records /\ "started" = RecordAt("started")
    BY DEF Records, RecordAt
  <2>2. QED BY <1>5, <1>6, <1>7, <2>1 DEF StartCall, Persist
<1>8. CASE StartCancelled("left", c)
  BY <1>4, <1>8 DEF StartCancelled, Records
<1>9. CASE CallRunner("left", c)
  <2>1. /\ stage' = [stage EXCEPT !.left[c] = "running"] /\ stage.left[c] = "started"
        /\ runs' = [runs EXCEPT ![c] = @ + 1]
        /\ UNCHANGED <<pc, mem, disk, cache, chunk, humanVars, settled>>
    BY <1>9 DEF CallRunner, Invoking
  <2>2. cache.left.rec[c] = RecordAt("running")
    BY <1>2, <2>1 DEF IInv, LeftInv, RecordAt
  <2>3. "started" \in Records
    BY DEF Records
  <2>4. QED BY <1>2, <2>1, <2>2, <2>3, LeftWrites
<1>10. ASSUME NEW r \in Records, RunnerEnds("left", c, r) PROVE IInv'
  BY <1>5, <1>6, <1>10 DEF RunnerEnds, Persist
<1>11. CASE RunnerStopped("left", c)
  <2>1. "failed" \in Records /\ LoopFrame
    BY <1>11 DEF RunnerStopped, Records
  <2>2. CASE /\ disk' = WithRecord("left", c, "failed") /\ Raise("left", c, WithRecord("left", c, "failed"))
             /\ Witnessed(WithRecord("left", c, "failed"))
    BY <1>4, <2>1, <2>2 DEF Witnessed
  <2>3. QED BY <1>5, <1>11, <2>1, <2>2 DEF RunnerStopped
<1>12. QED
  BY <1>7, <1>8, <1>9, <1>10, <1>11 DEF Invoke

\* A call that must not be replayed is launched alone.
LEMMA GuardedLaunchedAlone ==
  ASSUME NEW k \in SUBSET Calls, Launch(k), NEW c \in k, c \in Guarded
  PROVE  k = {c}
<1> DEFINE ready == In("main", {"ready"})
<1>1. k \subseteq ready /\ k # {} /\ Cardinality(k) = Min({Width, Cardinality(ready)})
  BY DEF Launch
<1>2. c \in Prepared /\ c \notin Safe
  BY <1>1, ToolAssumption DEF Prepared, In, UnderWay, Guarded
<1>3. Width = 1
  BY <1>2 DEF Width, CanRunInParallel
<1>4. IsFiniteSet(Calls) /\ ready \subseteq Calls
  BY FS_Interval, ToolAssumption DEF Calls, In
<1>5. IsFiniteSet(k) /\ IsFiniteSet(ready)
  BY <1>4, FS_Subset
<1>6. Cardinality(k) \in Nat /\ Cardinality(ready) \in Nat
  BY <1>5, FS_CardinalityType
<1>7. {1, Cardinality(ready)} \in SUBSET Nat /\ {1, Cardinality(ready)} # {}
  BY <1>6
<1>8. Min({1, Cardinality(ready)}) <= 1
  BY <1>7, MinIn
<1>9. Cardinality(k) <= 1 /\ Cardinality(k) # 0
  BY <1>1, <1>3, <1>5, <1>8, FS_EmptySet
<1>10. Cardinality(k) = 1
  BY <1>6, <1>9
<1>11. PICK x : k = {x}
  BY <1>5, <1>10, FS_Singleton
<1>12. QED BY <1>11

\* A gather of several calls holds safe ones only.
LEMMA LaunchKeeps ==
  ASSUME IInv, TypeInv', NEW k \in SUBSET Calls, Launch(k)
  PROVE  IInv'
<1> DEFINE ready == In("main", {"ready"})
<1>1. /\ pc = "batch" /\ In("main", {"new"}) = {}
      /\ k \subseteq ready /\ k # {}
      /\ Cardinality(k) = Min({Width, Cardinality(ready)})
      /\ chunk' = [chunk EXCEPT !.main = k]
      /\ UNCHANGED <<pc, mem, disk, cache, stage, settled>> /\ UNCHANGED <<runs, humanVars>>
  BY DEF Launch, LoopFrame
<1>2. chunk'.main = k /\ chunk'.left = chunk.left
  BY <1>1 DEF IInv, TypeInv, Shape, Batches
<1>3. \A c \in k \cap Guarded : k = {c}
  BY GuardedLaunchedAlone
<1>4. In("main", {"new"})' = {} /\ Left' = Left
  BY <1>1 DEF Left, In
<1>5. LoopInv'
  BY <1>1 DEF IInv, LoopInv
<1>6. ChunkInv'
  BY <1>1, <1>2, <1>3, <1>4 DEF IInv, ChunkInv
<1>7. RecordInv' /\ LeftInv' /\ GateInv'
  BY <1>1, <1>4 DEF IInv, RecordInv, LeftInv, GateInv, Unresolved, humanVars
<1>8. QED
  BY <1>5, <1>6, <1>7 DEF IInv

\* A step that leaves the records and the approvals, and no call under way in the
\* loop's batch.
LEMMA QuietKeeps ==
  ASSUME IInv, TypeInv', UNCHANGED <<runs, allowed, refused, settled>>,
         \A c \in Calls : disk'.rec[c] = disk.rec[c],
         disk'.approved = disk.approved, disk'.denied = disk.denied,
         \A g \in Gates : disk'.req = Approval(g) => g \notin disk.approved,
         LoopInv', chunk'.main = {}, \A c \in Calls : stage'.main[c] \notin UnderWay \cup {"approval"},
         \/ (\A c \in Calls : stage'.left[c] = "idle") /\ chunk'.left = {}
         \/ /\ stage'.left = stage.left /\ chunk'.left = chunk.left
            /\ Left # {} => pc' = pc /\ cache'.left = cache.left /\ disk'.req = disk.req
  PROVE  IInv'
<1>1. Left' \subseteq Left /\ (Left' # {} => Left' = Left)
  BY DEF Left, In, UnderWay
<1>2. Left' # {} => stage'.left = stage.left /\ pc' = pc /\ cache'.left = cache.left /\ disk'.req = disk.req
  BY <1>1 DEF Left, In, UnderWay
<1>3. \A c \in Calls : stage'.left[c] \in UnderWay => stage.left[c] \in UnderWay
  BY DEF UnderWay
<1>4. settled \subseteq Calls
  BY DEF IInv, TypeInv, Tallies
<1>5. ChunkInv'
  <2>1. chunk'.left \subseteq Idempotent /\ \A c \in Calls : stage'.left[c] \in {"idle"} \cup UnderWay
    BY DEF IInv, ChunkInv
  <2>2. \A c \in Left' : c \in chunk'.left
    <3>1. CASE (\A c \in Calls : stage'.left[c] = "idle") /\ chunk'.left = {}
      BY <3>1 DEF Left, In, UnderWay
    <3>2. CASE stage'.left = stage.left /\ chunk'.left = chunk.left
      BY <1>1, <3>2 DEF IInv, ChunkInv
    <3>3. QED BY <3>1, <3>2
  <2>3. QED BY <2>1, <2>2 DEF ChunkInv
<1>6. RecordInv'
  BY <1>4 DEF IInv, RecordInv, Guarded
<1>7. LeftInv'
  BY <1>1, <1>2, <1>4 DEF IInv, LeftInv, Guarded
<1>8. GateInv'
  BY <1>3 DEF IInv, GateInv, Batches
<1>9. QED
  BY <1>5, <1>6, <1>7, <1>8 DEF IInv

\* The results of a batch are what its records say.
LEMMA MergeKeeps ==
  ASSUME IInv, TypeInv', Merge
  PROVE  IInv'
<1> DEFINE s == [mem EXCEPT !.rec = cache.main.rec, !.pending = StillPending,
                     !.told = [c \in Calls |-> IF c \in Results THEN @[c] + 1 ELSE @[c]]]
           asked == NextGate(Unresolved(Min(Asking)))
           Pause(r) == [s EXCEPT !.status = "paused", !.req = r]
<1>1. /\ pc = "batch"
      /\ disk' = IF Asking # {} THEN Pause(Approval(asked))
                 ELSE IF Doubtful # {} THEN Pause(Reconciliation(Min(Doubtful))) ELSE s
      /\ pc' = IF disk'.status = "paused" THEN "paused" ELSE "loop"
      /\ mem' = IF disk'.status = "paused" THEN NoLoop ELSE s
      /\ cache' = [cache EXCEPT !.main = mem']
      /\ Witnessed(s) /\ Clear /\ runs' = runs /\ UNCHANGED humanVars
  BY DEF Merge, LoopFrame
<1>2. /\ mem \in LoopStates /\ cache.main = disk /\ disk \in LoopStates /\ Left = {}
      /\ mem.approved = disk.approved /\ mem.denied = disk.denied /\ mem.req = disk.req
  BY <1>1 DEF IInv, LoopInv, LeftInv, TypeInv, Shape, Tallies
<1>3. s.rec = disk.rec /\ s.approved = disk.approved /\ s.denied = disk.denied /\ s.req = disk.req
  BY <1>2 DEF LoopStates
<1>4. \A r : /\ Pause(r).rec = disk.rec /\ Pause(r).approved = disk.approved
             /\ Pause(r).denied = disk.denied /\ Pause(r).req = r /\ Pause(r).status = "paused"
  BY <1>2 DEF LoopStates
<1> HIDE DEF s, Pause
<1>5. disk'.rec = disk.rec /\ disk'.approved = disk.approved /\ disk'.denied = disk.denied
  BY <1>1, <1>3, <1>4
<1>6. \A g \in Gates : disk'.req = Approval(g) => g \notin disk.approved
  <2> SUFFICES ASSUME NEW g \in Gates, disk'.req = Approval(g) PROVE g \notin disk.approved
    OBVIOUS
  <2>1. CASE Asking # {}
    <3>1. disk'.req = Approval(asked)
      BY <1>1, <1>4, <2>1
    <3>2. g = asked
      BY <3>1 DEF Approval
    <3>3. Asking \in SUBSET Nat /\ Asking \subseteq Calls
      BY ToolAssumption DEF Asking, In, Calls
    <3>4. Min(Asking) \in Asking
      BY <2>1, <3>3, MinIn
    <3>5. Unresolved(Min(Asking)) # {} /\ Unresolved(Min(Asking)) \in SUBSET Gates
      BY <3>3, <3>4 DEF Asking, In, IInv, GateInv, Unresolved, GatesOf
    <3>6. asked \in Unresolved(Min(Asking))
      BY <3>5, NextGateIn
    <3>7. QED BY <1>2, <3>2, <3>6 DEF Unresolved
  <2>2. CASE Asking = {} /\ Doubtful # {}
    BY <1>1, <1>4, <2>2 DEF Approval, Reconciliation
  <2>3. CASE Asking = {} /\ Doubtful = {}
    BY <1>1, <1>2, <1>3, <2>3 DEF IInv, GateInv
  <2>4. QED BY <2>1, <2>2, <2>3
<1>7. settled' = settled \cup {c \in Calls : Settled(disk.rec[c])}
  BY <1>1, <1>3 DEF Witnessed
<1>8. /\ stage'.main = Resting /\ stage'.left = stage.left
      /\ chunk'.main = {} /\ chunk'.left = chunk.left
      /\ cache'.main = mem' /\ \A c \in Calls : stage'.main[c] = "idle"
  BY <1>1 DEF Clear, IInv, TypeInv, Shape, Batches, Resting
<1>9. LoopInv'
  <2>1. CASE disk'.status = "paused"
    BY <1>1, <1>8, <2>1 DEF LoopInv
  <2>2. CASE disk'.status # "paused"
    <3>1. disk' = s
      BY <1>1, <1>4, <2>2
    <3>2. QED BY <1>1, <1>8, <2>2, <3>1 DEF LoopInv
  <2>3. QED BY <2>1, <2>2
<1>10. Left' = {}
  BY <1>2, <1>8 DEF Left, In
<1>11. ChunkInv'
  BY <1>8, <1>10 DEF IInv, ChunkInv, In
<1>12. RecordInv'
  <2>1. settled \subseteq Calls
    BY DEF IInv, TypeInv, Tallies
  <2>2. \A c \in settled' : Settled(disk'.rec[c])
    BY <1>5, <1>7, <2>1 DEF IInv, RecordInv
  <2>3. \A c \in Guarded : runs'[c] = 0 \/ (runs'[c] = 1 /\ disk'.rec[c] \notin NoRecordYet)
    BY <1>1, <1>5 DEF IInv, RecordInv
  <2>4. \A c \in Calls : stage'.main[c] \notin UnderWay
    BY <1>8 DEF UnderWay
  <2>5. QED BY <2>2, <2>3, <2>4 DEF RecordInv, Guarded
<1>13. \A b \in Batches, c \in Calls : stage'[b][c] \notin UnderWay
  BY <1>8, <1>10 DEF Left, In, Batches, UnderWay
<1>14. GateInv'
  BY <1>1, <1>5, <1>6, <1>8, <1>13 DEF IInv, GateInv, humanVars
<1>15. QED
  BY <1>9, <1>10, <1>11, <1>12, <1>14 DEF IInv, LeftInv

\* A step that saves state s of the loop, when no call is under way.
LEMMA SaveKeeps ==
  ASSUME IInv, TypeInv', NEW s \in LoopStates, Save(s), UNCHANGED <<batchVars, runs>>,
         Left = {}, pc # "batch", pc' # "batch",
         \A c \in Calls : MayRecord(c, s.rec[c]),
         disk.approved \subseteq s.approved, s.approved \subseteq allowed',
         refused' \subseteq s.denied,
         \A g \in refused' \ refused : g \notin disk.approved,
         \A g \in Gates : s.req = Approval(g) => g \notin s.approved
  PROVE  IInv'
<1>1. /\ mem' = s /\ disk' = s /\ cache'.main = s
      /\ settled' = settled \cup {c \in Calls : Settled(s.rec[c])}
  BY DEF Save, Witnessed, IInv, TypeInv, Shape, Batches
<1>2. /\ UNCHANGED <<stage, chunk, runs>> /\ stage.main = Resting /\ chunk.main = {}
      /\ \A b \in Batches, c \in Calls : stage[b][c] \notin UnderWay
      /\ \A c \in Calls : stage.main[c] = "idle"
  BY DEF batchVars, IInv, LoopInv, Resting, Left, In, UnderWay, Batches
<1>3. Left' = {} /\ In("main", {"new"})' = {}
  BY <1>2 DEF Left, In, Batches
<1>4. LoopInv'
  BY <1>1, <1>2 DEF LoopInv
<1>5. ChunkInv'
  BY <1>2, <1>3 DEF IInv, ChunkInv
<1>6. RecordInv'
  <2>1. settled \subseteq Calls
    BY DEF IInv, TypeInv, Tallies
  <2>2. \A c \in settled' : Settled(disk'.rec[c])
    BY <1>1, <2>1 DEF MayRecord
  <2>3. \A c \in Guarded : runs'[c] = 0 \/ (runs'[c] = 1 /\ disk'.rec[c] \notin NoRecordYet)
    BY <1>1, <1>2 DEF IInv, RecordInv, MayRecord, Guarded
  <2>4. \A c \in Calls : stage'.main[c] \notin UnderWay
    BY <1>2 DEF Batches
  <2>5. QED BY <2>2, <2>3, <2>4 DEF RecordInv, Guarded
<1>7. LeftInv'
  BY <1>3 DEF LeftInv
<1>8. GateInv'
  <2>1. disk'.approved \subseteq allowed' /\ refused' \subseteq disk'.denied
    BY <1>1
  <2>2. \A c \in Calls : runs'[c] > 0 => GatesOf(c) \subseteq disk'.approved \ refused'
    BY <1>1, <1>2 DEF IInv, GateInv
  <2>3. QED BY <1>1, <1>2, <2>1, <2>2 DEF GateInv, Batches
<1>9. QED
  BY <1>4, <1>5, <1>6, <1>7, <1>8 DEF IInv

\* Each step keeps the inductive invariant, if the calls left behind by a raise have
\* ended when the turn is resumed.
LEMMA InductiveStep ==
  ASSUME LeftCallsEnd, IInv, [Next]_vars
  PROVE  IInv'
<1>1. TypeInv'
  BY TypeStep DEF IInv
<1>2. disk \in LoopStates /\ (pc \in {"loop", "asking"} => mem = disk /\ cache.main = disk /\ Left = {})
  BY DEF IInv, TypeInv, Tallies, LoopInv, LeftInv
<1>3. \A c \in Calls : MayRecord(c, disk.rec[c])
  BY DEF IInv, RecordInv, MayRecord, Guarded
<1>4. /\ disk.approved \subseteq allowed /\ refused \subseteq disk.denied
      /\ \A g \in Gates : disk.req = Approval(g) => g \notin disk.approved
  BY DEF IInv, GateInv
<1>5. \A g \in Gates : NoRequest # Approval(g) /\ \A c \in Calls : Reconciliation(c) # Approval(g)
  BY DEF NoRequest, Approval, Reconciliation
<1>6. UNCHANGED humanVars => allowed' = allowed /\ refused' = refused
  BY DEF humanVars
<1>7. ASSUME NEW k \in 1..N, Schedule(k) PROVE IInv'
  <2> DEFINE s == [mem EXCEPT !.sched = @ + k, !.pending = (mem.sched + 1)..(mem.sched + k)]
  <2>1. Save(s) /\ LoopFrame /\ UNCHANGED <<pc, batchVars, stops>> /\ pc = "loop"
    BY <1>7 DEF Schedule, Running
  <2>2. s.rec = disk.rec /\ s.approved = disk.approved /\ s.denied = disk.denied /\ s.req = disk.req
    BY <1>2, <2>1 DEF LoopStates
  <2>3. s \in LoopStates
    BY <1>1, <2>1 DEF Save, TypeInv, Tallies
  <2> HIDE DEF s
  <2>4. QED BY <1>1, <1>2, <1>3, <1>4, <1>6, <2>1, <2>2, <2>3, SaveKeeps DEF LoopFrame
<1>8. ASSUME NEW v \in {"completed", "failed"}, EndTurn(v) PROVE IInv'
  <2> DEFINE s == [mem EXCEPT !.status = v]
  <2>1. Save(s) /\ LoopFrame /\ UNCHANGED batchVars /\ pc = "loop" /\ pc' = "ended"
    BY <1>8 DEF EndTurn, Running
  <2>2. s.rec = disk.rec /\ s.approved = disk.approved /\ s.denied = disk.denied /\ s.req = disk.req
    BY <1>2, <2>1 DEF LoopStates
  <2>3. s \in LoopStates
    BY <1>1, <2>1 DEF Save, TypeInv, Tallies
  <2> HIDE DEF s
  <2>4. QED BY <1>1, <1>2, <1>3, <1>4, <1>6, <2>1, <2>2, <2>3, SaveKeeps DEF LoopFrame
<1>9. ASSUME NEW held \in SUBSET Calls, BeginBatch(held) PROVE IInv'
  <2>1. /\ pc = "loop" /\ pc' = "batch" /\ UNCHANGED <<mem, disk, cache, chunk, settled>>
        /\ UNCHANGED <<runs, allowed, refused>>
        /\ stage' = [stage EXCEPT !.main =
                        [c \in Calls |-> IF c \in held THEN "answered"
                                         ELSE IF c \in mem.pending THEN "new" ELSE "idle"]]
    BY <1>9 DEF BeginBatch, LoopFrame, humanVars
  <2>2. /\ stage'.left = stage.left
        /\ \A c \in Calls : stage'.main[c] \in {"answered", "new", "idle"}
    BY <2>1 DEF IInv, TypeInv, Shape, Batches
  <2>3. mem = disk /\ cache.main = disk /\ chunk.main = {} /\ Left = {} /\ mem # NoLoop
    BY <1>2, <2>1, NoLoopIsNone DEF IInv, LoopInv
  <2>4. LoopInv'
    BY <2>1, <2>3 DEF LoopInv
  <2>5. \A c \in Calls : stage'.main[c] \notin UnderWay \cup {"approval"}
    BY <2>2 DEF UnderWay
  <2>6. QED BY <1>1, <1>4, <2>1, <2>2, <2>3, <2>4, <2>5, QuietKeeps
<1>10. CASE Cancel
  <2>1. UNCHANGED <<pc, mem, disk, cache, stage, chunk, settled, runs, allowed, refused>>
    BY <1>10 DEF Cancel, LoopFrame, humanVars
  <2>2. Left' = Left /\ In("main", {"new"})' = In("main", {"new"})
    BY <2>1 DEF Left, In
  <2>3. LoopInv' /\ ChunkInv'
    BY <2>1, <2>2 DEF IInv, LoopInv, ChunkInv
  <2>4. RecordInv' /\ LeftInv' /\ GateInv'
    BY <2>1, <2>2 DEF IInv, RecordInv, LeftInv, GateInv, Unresolved
  <2>5. QED BY <1>1, <2>3, <2>4 DEF IInv
<1>11. CASE Interrupt \/ AnswerRejected
  <2>1. /\ pc \in {"loop", "asking"} /\ pc' = "down" /\ UNCHANGED <<disk, stage, chunk, settled>>
        /\ UNCHANGED <<runs, allowed, refused>>
    BY <1>11 DEF Interrupt, AnswerRejected, LoopFrame, humanVars, batchVars
  <2>2. /\ stage.main = Resting /\ chunk.main = {} /\ Left = {}
        /\ \A c \in Calls : stage.main[c] = "idle"
    BY <1>2, <2>1 DEF IInv, LoopInv, Resting
  <2>3. LoopInv'
    BY <2>1, <2>2 DEF LoopInv
  <2>4. QED BY <1>1, <1>4, <2>1, <2>2, <2>3, QuietKeeps DEF UnderWay
<1>12. CASE Crash
  <2>1. /\ pc' \notin {"loop", "asking", "batch"} /\ UNCHANGED <<disk, settled, runs, allowed, refused>>
        /\ stage' = [b \in Batches |-> Resting] /\ chunk' = [b \in Batches |-> {}]
    BY <1>12 DEF Crash, LoopFrame, humanVars, IInv, TypeInv, Shape
  <2>2. /\ stage'.main = Resting /\ stage'.left = Resting /\ chunk'.main = {} /\ chunk'.left = {}
        /\ \A c \in Calls : stage'.main[c] = "idle" /\ stage'.left[c] = "idle"
    BY <2>1 DEF Batches, Resting
  <2>3. LoopInv'
    BY <2>1, <2>2 DEF LoopInv
  <2>4. QED BY <1>1, <1>4, <2>1, <2>2, <2>3, QuietKeeps DEF UnderWay
<1>13. CASE Load
  <2>1. /\ pc \in {"paused", "down"} /\ pc' = "asking" /\ Left = {}
        /\ UNCHANGED <<stage, chunk, runs, allowed, refused>> /\ UNCHANGED <<batchVars, runs, humanVars>>
    BY <1>13 DEF Load, LoopFrame, humanVars, batchVars
  <2>2. CASE mem' = disk /\ cache' = [cache EXCEPT !.main = disk] /\ UNCHANGED <<disk, settled>>
    <3>1. cache'.main = disk
      BY <2>2 DEF IInv, TypeInv, Shape, Batches
    <3>2. /\ stage.main = Resting /\ chunk.main = {}
          /\ \A c \in Calls : stage.main[c] = "idle"
      BY <2>1 DEF IInv, LoopInv, Resting
    <3>3. LoopInv'
      BY <2>1, <2>2, <3>1, <3>2 DEF LoopInv
    <3>4. QED BY <1>1, <1>4, <2>1, <2>2, <3>2, <3>3, QuietKeeps DEF UnderWay
  <2>3. ASSUME NEW c \in Calls, NEW U, U = {d \in Calls : Unsure(d, disk.rec[d])},
               NEW s, s = [disk EXCEPT !.rec = [d \in Calls |-> IF d \in U THEN "unknown" ELSE @[d]],
                                       !.status = "paused", !.req = Reconciliation(c)],
               Save(s)
        PROVE  IInv'
    <3>1. s \in LoopStates
      BY <1>1, <2>3 DEF Save, TypeInv, Tallies
    <3>2. /\ s.approved = disk.approved /\ s.denied = disk.denied /\ s.req = Reconciliation(c)
          /\ \A d \in Calls : s.rec[d] = IF d \in U THEN "unknown" ELSE disk.rec[d]
      BY <1>2, <2>3 DEF LoopStates
    <3>3. \A d \in Calls : MayRecord(d, s.rec[d])
      BY <1>3, <2>3, <3>2 DEF MayRecord, Unsure, Settled, NoRecordYet
    <3>4. QED BY <1>1, <1>4, <1>5, <2>1, <2>3, <3>1, <3>2, <3>3, SaveKeeps, <1>6
  <2>4. QED BY <1>13, <2>2, <2>3 DEF Load
<1>14. ASSUME NEW s \in LoopStates, Resume(s), pc = "asking",
              \A c \in Calls : MayRecord(c, s.rec[c]),
              disk.approved \subseteq s.approved, s.approved \subseteq allowed',
              refused' \subseteq s.denied, \A g \in refused' \ refused : g \notin disk.approved
       PROVE  IInv'
  <2> DEFINE t == [s EXCEPT !.status = "running", !.req = NoRequest]
  <2>1. Save(t) /\ pc' = "loop" /\ UNCHANGED <<batchVars, runs>>
    BY <1>14 DEF Resume
  <2>2. t.rec = s.rec /\ t.approved = s.approved /\ t.denied = s.denied /\ t.req = NoRequest
    BY DEF LoopStates
  <2>3. t \in LoopStates
    BY <1>1, <2>1 DEF Save, TypeInv, Tallies
  <2> HIDE DEF t
  <2>4. QED BY <1>1, <1>2, <1>5, <1>14, <2>1, <2>2, <2>3, SaveKeeps
<1>15. CASE Continue
  BY <1>2, <1>3, <1>4, <1>6, <1>14, <1>15 DEF Continue
<1>16. ASSUME NEW g \in Gates, Allow(g) PROVE IInv'
  <2> DEFINE s == [disk EXCEPT !.approved = @ \cup {g}]
  <2>1. /\ s \in LoopStates /\ s.approved = disk.approved \cup {g} /\ s.denied = disk.denied
        /\ s.rec = disk.rec
    BY <1>2 DEF LoopStates
  <2>2. Resume(s) /\ pc = "asking" /\ allowed' = allowed \cup {g} /\ refused' = refused
    BY <1>16 DEF Allow, Asked
  <2> HIDE DEF s
  <2>3. QED BY <1>3, <1>4, <1>14, <2>1, <2>2
<1>17. ASSUME NEW g \in Gates, Deny(g) PROVE IInv'
  <2> DEFINE s == [disk EXCEPT !.denied = @ \cup {g}]
  <2>1. /\ s \in LoopStates /\ s.approved = disk.approved /\ s.denied = disk.denied \cup {g}
        /\ s.rec = disk.rec
    BY <1>2 DEF LoopStates
  <2>2. /\ Resume(s) /\ pc = "asking" /\ allowed' = allowed /\ refused' = refused \cup {g}
        /\ disk.req = Approval(g)
    BY <1>17 DEF Deny, Asked
  <2> HIDE DEF s
  <2>3. QED BY <1>3, <1>4, <1>14, <2>1, <2>2
<1>18. ASSUME NEW c \in Calls, NEW r \in {"completed", "failed"}, Mark(c, r) PROVE IInv'
  <2> DEFINE s == [disk EXCEPT !.rec[c] = r]
  <2>1. /\ s \in LoopStates /\ s.approved = disk.approved /\ s.denied = disk.denied
        /\ \A d \in Calls : s.rec[d] = IF d = c THEN r ELSE disk.rec[d]
    <3>1. r \in Records
      BY DEF Records
    <3>2. s = [disk EXCEPT !.rec[c] = r]
      OBVIOUS
    <3> HIDE DEF s
    <3>3. QED BY <1>2, <3>1, <3>2 DEF LoopStates
  <2>2. Resume(s) /\ pc = "asking" /\ allowed' = allowed /\ refused' = refused
    BY <1>18 DEF Mark, Asked
  <2> HIDE DEF s
  <2>3. \A d \in Calls : MayRecord(d, s.rec[d])
    BY <1>3, <2>1 DEF MayRecord, Settled, NoRecordYet
  <2>4. QED BY <1>4, <1>14, <2>1, <2>2, <2>3
<1>19. CASE Abort
  <2> DEFINE s == [mem EXCEPT !.status = "failed", !.req = NoRequest]
  <2>1. Save(s) /\ LoopFrame /\ UNCHANGED batchVars /\ pc = "asking" /\ pc' = "ended"
    BY <1>19 DEF Abort
  <2>2. s.rec = disk.rec /\ s.approved = disk.approved /\ s.denied = disk.denied /\ s.req = NoRequest
    BY <1>2, <2>1 DEF LoopStates
  <2>3. s \in LoopStates
    BY <1>1, <2>1 DEF Save, TypeInv, Tallies
  <2> HIDE DEF s
  <2>4. QED BY <1>1, <1>2, <1>3, <1>4, <1>5, <1>6, <2>1, <2>2, <2>3, SaveKeeps DEF LoopFrame
<1>20. CASE UNCHANGED vars
  <2>1. UNCHANGED <<pc, mem, disk, cache, stage, chunk, settled, runs, allowed, refused>>
    BY <1>20 DEF vars, batchVars, humanVars
  <2>2. Left' = Left /\ In("main", {"new"})' = In("main", {"new"})
    BY <2>1 DEF Left, In
  <2>3. LoopInv' /\ ChunkInv'
    BY <2>1, <2>2 DEF IInv, LoopInv, ChunkInv
  <2>4. RecordInv' /\ LeftInv' /\ GateInv'
    BY <2>1, <2>2 DEF IInv, RecordInv, LeftInv, GateInv, Unresolved
  <2>5. QED BY <1>1, <2>3, <2>4 DEF IInv
<1>21. CASE BatchStep
  BY <1>1, <1>21, PrepareKeeps, InvokeInBatch, LaunchKeeps, MergeKeeps DEF BatchStep
<1>22. CASE \E c \in Calls : Invoke("left", c)
  BY <1>1, <1>22, LeftKeeps
<1>23. CASE Human
  BY <1>11, <1>15, <1>16, <1>17, <1>18, <1>19, <1>23 DEF Human
<1>24. QED
  BY <1>7, <1>8, <1>9, <1>10, <1>11, <1>12, <1>13, <1>20, <1>21, <1>22, <1>23 DEF Next

\* The inductive invariant holds at first.
LEMMA InitIInv == Init => IInv
<1> SUFFICES ASSUME Init PROVE IInv
  OBVIOUS
<1>1. TypeInv
  BY InitTypes
<1>2. /\ pc = "loop" /\ mem = FirstLoop /\ disk = FirstLoop /\ cache.main = FirstLoop
      /\ stage.main = Resting /\ stage.left = Resting /\ chunk.main = {} /\ chunk.left = {}
      /\ runs = [c \in Calls |-> 0] /\ allowed = {} /\ refused = {} /\ settled = {}
  BY DEF Init, Batches
<1>3. \A b \in Batches, c \in Calls : stage[b][c] = "idle"
  BY <1>2 DEF Batches, Resting
<1>4. Left = {} /\ In("main", {"new"}) = {}
  BY <1>3 DEF Left, In, Batches, UnderWay
<1>5. LoopInv /\ ChunkInv /\ LeftInv
  BY <1>2, <1>3, <1>4 DEF LoopInv, ChunkInv, LeftInv, Batches
<1>6. RecordInv /\ GateInv
  BY <1>2, <1>3 DEF RecordInv, GateInv, Batches, UnderWay, Guarded, FirstLoop, NoRequest, Approval
<1>7. QED
  BY <1>1, <1>5, <1>6 DEF IInv

\* IInv is an invariant of turns that are resumed after the calls left behind by a
\* raise in a gather have ended.
LEMMA Inductive ==
  ASSUME LeftCallsEnd
  PROVE  Spec => []IInv
<1>1. Init => IInv
  BY InitIInv
<1>2. IInv /\ [Next]_vars => IInv'
  BY InductiveStep
<1>3. QED
  BY <1>1, <1>2, PTL DEF Spec

\* ActsOnce: if the calls left behind by a raise have ended when the turn is resumed,
\* the runner of a call that must not be replayed is called at most once, whatever
\* is cancelled, lost in a crash, reconciled or run again.
THEOREM ActsAtMostOnce ==
  ASSUME LeftCallsEnd
  PROVE  Spec => []ActsOnce
<1>1. IInv => ActsOnce
  BY DEF IInv, RecordInv, ActsOnce, Guarded
<1>2. QED
  BY <1>1, Inductive, PTL

\* RefusedNeverRuns: if the calls left behind by a raise have ended when the turn is
\* resumed, a call of which a human has denied a gate is not run, before or after.
THEOREM DeniedCallsDoNotRun ==
  ASSUME LeftCallsEnd
  PROVE  Spec => []RefusedNeverRuns
<1>1. IInv => RefusedNeverRuns
  BY DEF IInv, GateInv, RefusedNeverRuns
<1>2. QED
  BY <1>1, Inductive, PTL

\* Only CallRunner counts a run, and the call it counts has no settled outcome.
LEMMA RunnerStep ==
  ASSUME IInv, [Next]_vars
  PROVE  \A c \in settled : runs'[c] = runs[c]
<1>1. ASSUME NEW b \in Batches, NEW c \in Calls, CallRunner(b, c)
      PROVE  \A d \in settled : runs'[d] = runs[d]
  <2>1. stage[b][c] = "started" /\ runs' = [runs EXCEPT ![c] = @ + 1]
    BY <1>1 DEF CallRunner, Invoking
  <2>2. CASE b = "main"
    <3>1. disk.rec[c] = "started"
      BY <2>1, <2>2 DEF IInv, RecordInv, UnderWay, RecordAt
    <3>2. c \notin settled
      BY <3>1 DEF IInv, RecordInv, Settled
    <3>3. QED BY <2>1, <3>2 DEF IInv, TypeInv, Tallies
  <2>3. CASE b = "left"
    <3>1. c \in Left
      BY <2>1, <2>3 DEF Left, In, UnderWay
    <3>2. cache.left.rec[c] = "started"
      BY <2>1, <2>3, <3>1 DEF IInv, LeftInv, RecordAt
    <3>3. c \notin settled
      BY <3>1, <3>2 DEF IInv, LeftInv, Settled
    <3>4. QED BY <2>1, <3>3 DEF IInv, TypeInv, Tallies
  <2>4. QED BY <2>2, <2>3 DEF Batches
<1>2. ASSUME NEW b \in Batches, NEW c \in Calls, Invoke(b, c)
      PROVE  \A d \in settled : runs'[d] = runs[d]
  BY <1>1, <1>2 DEF Invoke, StartCall, StartCancelled, RunnerStopped, RunnerEnds, LoopFrame
<1>3. ASSUME NEW c \in Calls, Prepare(c) PROVE runs' = runs
  BY <1>3 DEF Prepare, PrepareRecorded, PrepareRefused, PrepareGated, PrepareReady, LoopFrame
<1>4. CASE BatchStep
  BY <1>2, <1>3, <1>4 DEF BatchStep, Launch, Merge, LoopFrame, Batches
<1>5. CASE Human
  BY <1>5 DEF Human, Continue, Abort, AnswerRejected, Allow, Deny, Mark, Resume, LoopFrame
<1>6. CASE UNCHANGED vars
  BY <1>6 DEF vars
<1>7. QED
  BY <1>2, <1>4, <1>5, <1>6 DEF Next, Schedule, EndTurn, BeginBatch, Cancel, Interrupt, Crash, Load,
     LoopFrame, Batches

\* SettledNeverRerun: if the calls left behind by a raise have ended when the turn is
\* resumed, no step runs a call whose outcome has been durable.
THEOREM SettledCallsRest ==
  ASSUME LeftCallsEnd
  PROVE  Spec => SettledNeverRerun
<1>1. IInv /\ [Next]_vars => [\A c \in settled : runs'[c] = runs[c]]_vars
  BY RunnerStep
<1>2. QED
  BY <1>1, Inductive, PTL DEF Spec, SettledNeverRerun

-----------------------------------------------------------------------------
(* The steps of a call, as far as the state of the loop is concerned.      *)

\* Call c of batch b goes on to stage label, with or without record r.
GoesOn(b, c, r, label) ==
    /\ disk' \in {disk, WithRecord(b, c, r)}
    /\ cache' \in {cache, [cache EXCEPT ![b] = WithRecord(b, c, r)]}
    /\ stage' = [stage EXCEPT ![b][c] = label]
    /\ UNCHANGED <<pc, mem, chunk, vouched>>

\* Call c of the loop's batch raises: the loop is gone, with or without record r, and
\* the calls of the chunk that are under way may be left.
FallsDown(c, r) ==
    /\ disk' \in {disk, WithRecord("main", c, r)}
    /\ pc' = "down" /\ mem' = NoLoop /\ cache'.main = NoLoop
    /\ stage'.main = Resting /\ chunk'.main = {}
    /\ \/ cache'.left = cache.left /\ chunk'.left = chunk.left
       \/ /\ cache'.left \in {cache.main, WithRecord("main", c, r)}
          /\ chunk'.left \subseteq {d \in chunk.main \ {c} : stage.main[d] \in UnderWay}
    /\ UNCHANGED vouched

StepsOn(b, c, r, label) == GoesOn(b, c, r, label) \/ (b = "main" /\ FallsDown(c, r))

\* A raise is one of the two.
LEMMA RaiseSteps ==
  ASSUME TypeInv, NEW b \in Batches, NEW c \in Calls, NEW r \in Records,
         NEW s \in {cache[b], WithRecord(b, c, r)}, NEW label, b = "left" => label = "idle",
         Raise(b, c, s), disk' \in {disk, WithRecord(b, c, r)}, UNCHANGED vouched
  PROVE  StepsOn(b, c, r, label)
<1> DEFINE rest == {d \in chunk.main \ {c} : stage.main[d] \in UnderWay}
<1>1. CASE b = "left"
  <2>1. /\ stage' = [stage EXCEPT !.left[c] = "idle"] /\ cache' = [cache EXCEPT !.left = s]
        /\ UNCHANGED <<pc, mem, chunk, hit>>
    BY <1>1 DEF Raise
  <2>2. cache' \in {cache, [cache EXCEPT !.left = WithRecord(b, c, r)]}
    BY <1>1, <2>1 DEF TypeInv, Shape, Batches
  <2>3. QED
    BY <1>1, <2>1, <2>2 DEF StepsOn, GoesOn
<1>2. CASE b = "main" /\ rest = {}
  <2>1. /\ pc' = "down" /\ mem' = NoLoop /\ cache' = [cache EXCEPT !.main = NoLoop] /\ Clear
    BY <1>2 DEF Raise
  <2>2. QED
    BY <1>2, <2>1 DEF StepsOn, FallsDown, Clear, TypeInv, Shape, Batches
<1>3. CASE b = "main" /\ rest # {}
  <2>1. /\ pc' = "down" /\ mem' = NoLoop
        /\ cache' = [main |-> NoLoop, left |-> s]
        /\ stage'.main = Resting /\ chunk' = [main |-> {}, left |-> rest]
    BY <1>3 DEF Raise
  <2>2. QED
    BY <1>3, <2>1 DEF StepsOn, FallsDown
<1>4. QED BY <1>1, <1>2, <1>3 DEF Batches

\* So is saving a record, or failing to.
LEMMA PersistSteps ==
  ASSUME TypeInv, NEW b \in Batches, NEW c \in Calls, NEW r \in Records, NEW label,
         Persist(b, c, r, label), UNCHANGED vouched
  PROVE  \E l \in {label, "idle"} : StepsOn(b, c, r, l) /\ (b = "main" => l = label)
<1>1. CASE Record(b, c, r, label)
  BY <1>1 DEF Record, StepsOn, GoesOn
<1>2. CASE RecordFails(b, c, r)
  <2>1. PICK s \in {cache[b], WithRecord(b, c, r)} : Raise(b, c, s)
    BY <1>2 DEF RecordFails
  <2>2. disk' \in {disk, WithRecord(b, c, r)}
    BY <1>2 DEF RecordFails
  <2>3. StepsOn(b, c, r, IF b = "main" THEN label ELSE "idle")
    BY <2>1, <2>2, RaiseSteps
  <2>4. QED BY <2>3 DEF Batches
<1>3. QED BY <1>1, <1>2 DEF Persist

\* A call under way goes on, is over, or takes the loop down.
LEMMA InvokeSteps ==
  ASSUME TypeInv, NEW b \in Batches, NEW c \in Calls, Invoke(b, c)
  PROVE  /\ c \in chunk[b] /\ stage[b][c] \in UnderWay
         /\ \E r \in Records, label \in {"started", "running", "ended", "idle"} :
                (b = "main" => label # "idle") /\ StepsOn(b, c, r, label)
<1>1. c \in chunk[b] /\ stage[b][c] \in UnderWay
  BY DEF Invoke, StartCall, StartCancelled, CallRunner, RunnerEnds, RunnerStopped, Invoking, UnderWay
<1>2. CASE StartCall(b, c)
  <2>1. Persist(b, c, "started", "started") /\ UNCHANGED vouched /\ "started" \in Records
    BY <1>2 DEF StartCall, LoopFrame, humanVars, Records
  <2>2. QED BY <1>1, <2>1, PersistSteps
<1>3. CASE StartCancelled(b, c)
  <2>1. StepsOn(b, c, "started", IF b = "main" THEN "started" ELSE "idle")
    BY <1>3, RaiseSteps DEF StartCancelled, LoopFrame, humanVars, Records
  <2>2. QED BY <1>1, <2>1 DEF Records, Batches
<1>4. CASE CallRunner(b, c)
  <2>1. StepsOn(b, c, "started", "running")
    BY <1>4 DEF CallRunner, StepsOn, GoesOn, humanVars
  <2>2. QED BY <1>1, <2>1 DEF Records
<1>5. ASSUME NEW r \in Records, RunnerEnds(b, c, r)
      PROVE  \E label \in {"ended", "idle"} : (b = "main" => label # "idle") /\ StepsOn(b, c, r, label)
  <2> DEFINE label == IF b = "main" THEN "ended" ELSE "idle"
  <2>1. Persist(b, c, r, label) /\ UNCHANGED vouched
    BY <1>5 DEF RunnerEnds, LoopFrame, humanVars
  <2> HIDE DEF label
  <2>2. \E l \in {label, "idle"} : StepsOn(b, c, r, l) /\ (b = "main" => l = label)
    BY <2>1, PersistSteps DEF label
  <2>3. QED BY <2>2 DEF label, Batches
<1>6. CASE RunnerStopped(b, c)
  <2>1. PICK s \in {cache[b], WithRecord(b, c, "failed")} : Raise(b, c, s)
    BY <1>6 DEF RunnerStopped, RecordFails
  <2>2. disk' \in {disk, WithRecord(b, c, "failed")} /\ UNCHANGED vouched
    BY <1>6 DEF RunnerStopped, RecordFails, LoopFrame, humanVars
  <2>3. StepsOn(b, c, "failed", IF b = "main" THEN "ended" ELSE "idle")
    BY <2>1, <2>2, RaiseSteps DEF Records
  <2>4. QED BY <1>1, <2>3 DEF Records, Batches
<1>7. QED
  BY <1>1, <1>2, <1>3, <1>4, <1>5, <1>6 DEF Invoke

\* A call that is prepared is answered from its record, answered without one, held for
\* an approval, or made ready.
LEMMA PrepareSteps ==
  ASSUME TypeInv, NEW c \in Calls, Prepare(c)
  PROVE  /\ pc = "batch" /\ stage.main[c] = "new" /\ mem \in LoopStates /\ cache.main \in LoopStates
         /\ UNCHANGED vouched
         /\ \/ /\ ~MayPrepare(c)
               /\ StepsOn("main", c, IF Settled(mem.rec[c]) THEN mem.rec[c] ELSE "unknown", "answered")
            \/ \E label \in {"answered", "approval"} :
                  /\ stage' = [stage EXCEPT !.main[c] = label]
                  /\ UNCHANGED <<pc, mem, disk, cache, chunk>>
            \/ MayPrepare(c) /\ StepsOn("main", c, "prepared", "ready")
<1>1. /\ pc = "batch" /\ stage.main[c] = "new" /\ mem \in LoopStates /\ cache.main \in LoopStates
      /\ UNCHANGED vouched
  BY DEF Prepare, PrepareRecorded, PrepareRefused, PrepareGated, PrepareReady, Preparing, In,
         TypeInv, Shape, Batches, LoopFrame, humanVars
<1>2. CASE PrepareRecorded(c)
  <2> DEFINE r == IF Settled(mem.rec[c]) THEN mem.rec[c] ELSE "unknown"
  <2>1. ~MayPrepare(c) /\ Persist("main", c, r, "answered")
    BY <1>2 DEF PrepareRecorded
  <2>2. r \in Records
    BY <1>1 DEF LoopStates, Records
  <2> HIDE DEF r
  <2>3. StepsOn("main", c, r, "answered")
    BY <1>1, <2>1, <2>2, PersistSteps DEF Batches
  <2>4. QED BY <1>1, <2>1, <2>3 DEF r
<1>3. CASE PrepareRefused(c)
  BY <1>1, <1>3 DEF PrepareRefused, Answer
<1>4. CASE PrepareGated(c)
  BY <1>1, <1>4 DEF PrepareGated, Answer
<1>5. CASE PrepareReady(c)
  <2>1. MayPrepare(c) /\ Persist("main", c, "prepared", "ready") /\ "prepared" \in Records
    BY <1>5 DEF PrepareReady, Records
  <2>2. StepsOn("main", c, "prepared", "ready")
    BY <1>1, <2>1, PersistSteps DEF Batches
  <2>3. QED BY <1>1, <2>1, <2>2
<1>6. QED BY <1>2, <1>3, <1>4, <1>5 DEF Prepare

-----------------------------------------------------------------------------
(* EveryCallAnswered: a call the model made is pending until it is told.   *)

\* In a LoopState, a call that is scheduled is pending or told, and no other is.
Covered(s) ==
    /\ \A c \in Calls : c > s.sched => s.told[c] = 0 /\ c \notin s.pending
    /\ \A c \in Calls : c <= s.sched => c \in s.pending \/ s.told[c] >= 1

\* It is so in the checkpoint, in the loop and in every store's cached state.
StatesCovered ==
    /\ Covered(disk)
    /\ mem # NoLoop => Covered(mem)
    /\ \A b \in Batches : cache[b] # NoLoop => Covered(cache[b])

\* What the loop has in hand is what its store has cached; in a batch the calls that
\* have a stage are the pending ones.
InHand ==
    /\ pc \in {"loop", "asking"} => cache.main = mem
    /\ pc = "batch" =>
         /\ cache.main.pending = mem.pending /\ cache.main.told = mem.told
         /\ cache.main.sched = mem.sched
         /\ \A c \in Calls : stage.main[c] # "idle" <=> c \in mem.pending
    /\ pc = "ended" => mem # NoLoop /\ (mem.status = "completed" => mem.pending = {})

CoverInv == TypeInv /\ StatesCovered /\ InHand

\* A record leaves the rest of a LoopState as it was.
LEMMA RecordAlone ==
  ASSUME TypeInv, NEW b \in Batches, NEW c \in Calls, NEW r \in Records, cache[b] # NoLoop
  PROVE  /\ WithRecord(b, c, r) \in LoopStates
         /\ \A d \in Calls : WithRecord(b, c, r).rec[d] = IF d = c THEN r ELSE cache[b].rec[d]
         /\ WithRecord(b, c, r).pending = cache[b].pending
         /\ WithRecord(b, c, r).told = cache[b].told
         /\ WithRecord(b, c, r).sched = cache[b].sched
         /\ WithRecord(b, c, r).req = cache[b].req
         /\ WithRecord(b, c, r).status = cache[b].status
<1>1. cache[b] \in LoopStates
  BY DEF TypeInv, Shape
<1>2. QED
  BY <1>1 DEF WithRecord, LoopStates

\* The cached states after a call has gone on.
LEMMA GoesOnCaches ==
  ASSUME TypeInv, NEW b \in Batches, NEW c \in Calls, NEW r \in Records, cache[b] # NoLoop,
         cache' \in {cache, [cache EXCEPT ![b] = WithRecord(b, c, r)]}
  PROVE  /\ cache'[b] \in {cache[b], WithRecord(b, c, r)} /\ cache'[b] # NoLoop
         /\ \A a \in Batches : a # b => cache'[a] = cache[a]
<1>1. WithRecord(b, c, r) # NoLoop
  BY RecordAlone, NoLoopIsNone
<1>2. QED
  BY <1>1 DEF TypeInv, Shape

\* A step of a call keeps every scheduled call pending or told.
LEMMA StepsCover ==
  ASSUME CoverInv, TypeInv', NEW b \in Batches, NEW c \in Calls, NEW r \in Records,
         NEW label \in Stages, StepsOn(b, c, r, label), cache[b] # NoLoop,
         b = "main" => pc = "batch" /\ stage.main[c] # "idle" /\ label # "idle"
  PROVE  CoverInv'
<1> USE DEF CoverInv
<1>1. Covered(cache[b]) /\ Covered(WithRecord(b, c, r))
  BY RecordAlone DEF StatesCovered, Covered
<1>2. CASE GoesOn(b, c, r, label)
  <2>1. /\ disk' \in {disk, WithRecord(b, c, r)}
        /\ cache' \in {cache, [cache EXCEPT ![b] = WithRecord(b, c, r)]}
        /\ stage' = [stage EXCEPT ![b][c] = label]
        /\ UNCHANGED <<pc, mem, chunk, vouched>>
    BY <1>2 DEF GoesOn
  <2>2. /\ cache'[b] \in {cache[b], WithRecord(b, c, r)}
        /\ \A a \in Batches : a # b => cache'[a] = cache[a]
    BY <2>1, GoesOnCaches
  <2>3. StatesCovered'
    <3>1. Covered(disk)' /\ (mem # NoLoop => Covered(mem))'
      BY <1>1, <2>1 DEF StatesCovered, Covered
    <3>2. ASSUME NEW a \in Batches, cache'[a] # NoLoop PROVE Covered(cache[a])'
      <4>1. (cache'[a] = cache[a] /\ cache[a] # NoLoop) \/ cache'[a] = cache[b] \/ cache'[a] = WithRecord(b, c, r)
        BY <2>2, <3>2
      <4>2. Covered(cache'[a])
        BY <1>1, <4>1 DEF StatesCovered
      <4>3. QED BY <4>2 DEF Covered
    <3>3. QED BY <3>1, <3>2 DEF StatesCovered
  <2>4. InHand'
    <3>1. CASE b = "left"
      <4>1. cache'.main = cache.main /\ stage'.main = stage.main
        BY <2>1, <2>2, <3>1 DEF Batches, TypeInv, Shape
      <4>2. QED BY <2>1, <4>1 DEF InHand
    <3>2. CASE b = "main"
      <4>1. cache'.main \in {cache.main, WithRecord("main", c, r)}
        BY <2>2, <3>2
      <4>2. \A d \in Calls : stage'.main[d] = IF d = c THEN label ELSE stage.main[d]
        BY <2>1, <3>2 DEF TypeInv, Shape, Batches
      <4>3. /\ WithRecord("main", c, r).pending = cache.main.pending
            /\ WithRecord("main", c, r).told = cache.main.told
            /\ WithRecord("main", c, r).sched = cache.main.sched
        BY <3>2, RecordAlone
      <4>4. QED BY <2>1, <3>2, <4>1, <4>2, <4>3 DEF InHand
    <3>3. QED BY <3>1, <3>2 DEF Batches
  <2>5. QED BY <2>3, <2>4
<1>3. CASE b = "main" /\ FallsDown(c, r)
  <2>1. /\ disk' \in {disk, WithRecord("main", c, r)}
        /\ pc' = "down" /\ mem' = NoLoop /\ cache'.main = NoLoop
        /\ cache'.left \in {cache.left, cache.main, WithRecord("main", c, r)}
    BY <1>3 DEF FallsDown
  <2>2. Covered(disk)'
    BY <1>1, <1>3, <2>1 DEF StatesCovered, Covered
  <2>3. ASSUME NEW a \in Batches, cache'[a] # NoLoop PROVE Covered(cache[a])'
    <3>1. a = "left" /\ cache'[a] \in {cache.left, cache.main, WithRecord("main", c, r)}
      BY <2>1, <2>3 DEF Batches
    <3>2. Covered(cache'[a])
      BY <1>1, <1>3, <2>3, <3>1 DEF StatesCovered
    <3>3. QED BY <3>2 DEF Covered
  <2>4. QED BY <2>1, <2>2, <2>3 DEF StatesCovered, InHand
<1>4. QED BY <1>2, <1>3 DEF StepsOn

\* Saving a LoopState in which every scheduled call is pending or told.
LEMMA SaveCovers ==
  ASSUME CoverInv, TypeInv', pc # "batch", NEW s \in LoopStates, Save(s), Covered(s),
         \/ pc' \in {"loop", "asking"}
         \/ pc' = "ended" /\ (s.status = "completed" => s.pending = {})
  PROVE  CoverInv'
<1> USE NoLoopIsNone DEF CoverInv
<1>1. /\ mem' = s /\ disk' = s
      /\ cache'.main = s /\ cache'.left = cache.left
  BY DEF Save, TypeInv, Shape, Batches
<1>2. StatesCovered'
  <2>1. Covered(disk)' /\ Covered(mem)'
    BY <1>1 DEF Covered
  <2>2. ASSUME NEW a \in Batches, cache'[a] # NoLoop PROVE Covered(cache[a])'
    <3>1. cache'[a] = s \/ (cache'[a] = cache[a] /\ cache[a] # NoLoop)
      BY <1>1, <2>2 DEF Batches
    <3>2. Covered(cache'[a])
      BY <3>1 DEF StatesCovered
    <3>3. QED BY <3>2 DEF Covered
  <2>3. QED BY <2>1, <2>2 DEF StatesCovered
<1>3. InHand'
  BY <1>1 DEF InHand
<1>4. QED BY <1>2, <1>3

\* A loop that is gone has nothing in hand.
LEMMA GoneCovers ==
  ASSUME CoverInv, TypeInv', pc' = "down", mem' = NoLoop, disk' = disk,
         \A b \in Batches : cache'[b] \in {cache[b], NoLoop}
  PROVE  CoverInv'
<1> USE DEF CoverInv
<1>1. StatesCovered'
  <2>1. Covered(disk)'
    BY DEF StatesCovered, Covered
  <2>2. ASSUME NEW a \in Batches, cache'[a] # NoLoop PROVE Covered(cache[a])'
    <3>1. Covered(cache'[a])
      BY <2>2 DEF StatesCovered
    <3>2. QED BY <3>1 DEF Covered
  <2>3. QED BY <2>1, <2>2 DEF StatesCovered
<1>2. QED BY <1>1 DEF InHand

\* The results of a batch make s of the loop, and a pause for request r if a call has
\* to be asked about.
MergesTo(s, r) ==
    /\ s \in LoopStates /\ mem \in LoopStates /\ cache.main \in LoopStates
    /\ s.rec = cache.main.rec /\ s.pending = StillPending
    /\ s.sched = mem.sched /\ s.status = mem.status /\ s.req = mem.req
    /\ \A c \in Calls : s.told[c] = IF c \in Results THEN mem.told[c] + 1 ELSE mem.told[c]
    /\ Doubtful \subseteq Results /\ Results \subseteq Calls
    /\ StillPending = Asking \cup (IF Doubtful = {} THEN {} ELSE {Min(Doubtful)})
    /\ Doubtful # {} => Min(Doubtful) \in Doubtful
    /\ \A c \in Calls : stage.main[c] = "approval" <=> c \in Asking
    /\ \A c \in Calls : stage.main[c] \in {"answered", "ended"} <=> c \in Results
    /\ \A c \in Calls : stage.main[c] \in {"idle", "approval", "answered", "ended"}
    /\ \/ disk' = s /\ Asking = {} /\ Doubtful = {}
       \/ /\ disk' = [s EXCEPT !.status = "paused", !.req = r]
          /\ r \in Requests /\ r # NoRequest
          /\ \A c \in Calls : r = Reconciliation(c) => c \in Doubtful
    /\ pc' = IF disk'.status = "paused" THEN "paused" ELSE "loop"
    /\ mem' = IF disk'.status = "paused" THEN NoLoop ELSE s
    /\ cache'.main = mem' /\ cache'.left = cache.left
    /\ pc = "batch"
    /\ stage'.main = Resting /\ chunk'.main = {} /\ chunk'.left = chunk.left
    /\ UNCHANGED vouched

\* So do the results that are merged: every call of the batch is told, or stays pending.
LEMMA MergeEffect ==
  ASSUME TypeInv, Merge
  PROVE  \E s, r : MergesTo(s, r)
<1> USE ToolAssumption, NoLoopIsNone
<1> DEFINE s == [mem EXCEPT !.rec = cache.main.rec, !.pending = StillPending,
                     !.told = [c \in Calls |-> IF c \in Results THEN @[c] + 1 ELSE @[c]]]
           asked == Approval(NextGate(Unresolved(Min(Asking))))
           doubt == Reconciliation(Min(Doubtful))
           Pause(r) == [s EXCEPT !.status = "paused", !.req = r]
<1>1. /\ pc = "batch"
      /\ In("main", {"new"} \cup UnderWay) = {}
      /\ disk' = IF Asking # {} THEN Pause(asked)
                 ELSE IF Doubtful # {} THEN Pause(doubt) ELSE s
      /\ pc' = IF disk'.status = "paused" THEN "paused" ELSE "loop"
      /\ mem' = IF disk'.status = "paused" THEN NoLoop ELSE s
      /\ cache' = [cache EXCEPT !.main = mem']
      /\ Clear /\ LoopFrame
  BY DEF Merge
<1>2. mem \in LoopStates /\ cache.main \in LoopStates
  BY <1>1 DEF TypeInv, Shape, Batches
<1>3. Asking \subseteq Calls /\ Results \subseteq Calls /\ Doubtful \subseteq Results /\ Calls \subseteq Nat
  BY DEF Asking, Results, Doubtful, In, Calls
<1>4. Doubtful # {} => Min(Doubtful) \in Doubtful
  BY <1>3, MinIn
<1>5. StillPending \subseteq Calls
  BY <1>3, <1>4 DEF StillPending
<1>6. /\ s \in LoopStates /\ s.rec = cache.main.rec /\ s.pending = StillPending
      /\ s.sched = mem.sched /\ s.status = mem.status /\ s.req = mem.req
      /\ \A c \in Calls : s.told[c] = IF c \in Results THEN mem.told[c] + 1 ELSE mem.told[c]
  <2> DEFINE told == [c \in Calls |-> IF c \in Results THEN mem.told[c] + 1 ELSE mem.told[c]]
  <2>1. told \in [Calls -> Nat]
    BY <1>2 DEF LoopStates
  <2>2. cache.main.rec \in [Calls -> Records]
    BY <1>2 DEF LoopStates
  <2>3. s = [mem EXCEPT !.rec = cache.main.rec, !.pending = StillPending, !.told = told]
    OBVIOUS
  <2>4. \A c \in Calls : told[c] = IF c \in Results THEN mem.told[c] + 1 ELSE mem.told[c]
    OBVIOUS
  <2> HIDE DEF told, s
  <2>5. s.told = told
    BY <1>2, <2>3 DEF LoopStates
  <2>6. QED BY <1>2, <1>5, <2>1, <2>2, <2>3, <2>4, <2>5 DEF LoopStates
<1>7. Asking # {} => asked \in Requests
  <2>1. SUFFICES ASSUME Asking # {} PROVE asked \in Requests
    OBVIOUS
  <2>2. Min(Asking) \in Asking
    BY <1>3, <2>1, MinIn
  <2>3. Unresolved(Min(Asking)) # {} /\ Unresolved(Min(Asking)) \subseteq Gates
    BY <2>2 DEF Asking, In, TypeInv, Shape, Unresolved, GatesOf
  <2>4. NextGate(Unresolved(Min(Asking))) \in Gates
    BY <2>3, NextGateIn
  <2>5. QED BY <2>4 DEF Requests
<1>8. Doubtful # {} => doubt \in Requests
  BY <1>3, <1>4 DEF Requests
<1>9. \E r : \/ disk' = s /\ Asking = {} /\ Doubtful = {}
             \/ /\ disk' = [s EXCEPT !.status = "paused", !.req = r]
                /\ r \in Requests /\ r # NoRequest
                /\ \A c \in Calls : r = Reconciliation(c) => c \in Doubtful
  <2>1. CASE Asking # {}
    <3>1. disk' = [s EXCEPT !.status = "paused", !.req = asked]
      BY <1>1, <2>1
    <3>2. asked # NoRequest /\ \A c \in Calls : asked # Reconciliation(c)
      BY DEF NoRequest, Approval, Reconciliation
    <3>3. asked \in Requests
      BY <1>7, <2>1
    <3> HIDE DEF s, asked
    <3>4. QED BY <3>1, <3>2, <3>3
  <2>2. CASE Asking = {} /\ Doubtful # {}
    <3>1. disk' = [s EXCEPT !.status = "paused", !.req = doubt]
      BY <1>1, <2>2
    <3>2. doubt # NoRequest /\ \A c \in Calls : doubt = Reconciliation(c) => c = Min(Doubtful)
      BY DEF NoRequest, Reconciliation
    <3>3. \A c \in Calls : doubt = Reconciliation(c) => c \in Doubtful
      BY <1>4, <2>2, <3>2
    <3>4. doubt \in Requests
      BY <1>8, <2>2
    <3> HIDE DEF s, doubt
    <3>5. QED BY <3>1, <3>2, <3>3, <3>4
  <2>3. CASE Asking = {} /\ Doubtful = {}
    BY <1>1, <2>3
  <2>4. QED BY <2>1, <2>2, <2>3
<1>10. /\ \A c \in Calls : stage.main[c] = "approval" <=> c \in Asking
       /\ \A c \in Calls : stage.main[c] \in {"answered", "ended"} <=> c \in Results
       /\ \A c \in Calls : stage.main[c] \in {"idle", "approval", "answered", "ended"}
  BY <1>1 DEF In, UnderWay, Asking, Results, TypeInv, Shape, Stages, Batches
<1>11. /\ cache'.main = mem' /\ cache'.left = cache.left
       /\ stage'.main = Resting /\ chunk'.main = {} /\ chunk'.left = chunk.left
       /\ UNCHANGED vouched
  BY <1>1 DEF Clear, LoopFrame, humanVars, TypeInv, Shape, Batches
<1>12. pc' = (IF disk'.status = "paused" THEN "paused" ELSE "loop") /\ mem' = IF disk'.status = "paused" THEN NoLoop ELSE s
  BY <1>1
<1>13. StillPending = Asking \cup (IF Doubtful = {} THEN {} ELSE {Min(Doubtful)})
  BY DEF StillPending
<1> HIDE DEF s
<1>14. PICK r : \/ disk' = s /\ Asking = {} /\ Doubtful = {}
                \/ /\ disk' = [s EXCEPT !.status = "paused", !.req = r]
                   /\ r \in Requests /\ r # NoRequest
                   /\ \A c \in Calls : r = Reconciliation(c) => c \in Doubtful
  BY <1>9
<1>15. MergesTo(s, r)
  BY <1>1, <1>2, <1>3, <1>4, <1>6, <1>10, <1>11, <1>12, <1>13, <1>14 DEF MergesTo
<1>16. QED BY <1>15

\* The results of a batch are told.
LEMMA MergeCovers ==
  ASSUME CoverInv, TypeInv', Merge
  PROVE  CoverInv'
<1> USE NoLoopIsNone DEF CoverInv
<1>1. PICK s, r : MergesTo(s, r)
  BY MergeEffect
<1>2. Covered(mem) /\ \A c \in Calls : stage.main[c] # "idle" <=> c \in mem.pending
  BY <1>1 DEF MergesTo, StatesCovered, InHand
<1>3. Covered(s)
  <2>1. ASSUME NEW c \in Calls, c > s.sched PROVE s.told[c] = 0 /\ c \notin s.pending
    <3>1. mem.told[c] = 0 /\ c \notin mem.pending
      BY <1>1, <1>2, <2>1 DEF MergesTo, Covered
    <3>2. c \notin Results /\ c \notin Asking
      BY <1>1, <1>2, <3>1 DEF MergesTo
    <3>3. c \notin StillPending
      BY <1>1, <3>2 DEF MergesTo
    <3>4. QED BY <1>1, <3>1, <3>2, <3>3 DEF MergesTo
  <2>2. ASSUME NEW c \in Calls, c <= s.sched PROVE c \in s.pending \/ s.told[c] >= 1
    <3>1. mem.told[c] \in Nat
      BY <1>1 DEF MergesTo, LoopStates
    <3>2. CASE c \in Results
      BY <1>1, <3>1, <3>2 DEF MergesTo
    <3>3. CASE c \in Asking
      BY <1>1, <3>3 DEF MergesTo
    <3>4. CASE stage.main[c] = "idle"
      BY <1>1, <1>2, <2>2, <3>4 DEF MergesTo, Covered
    <3>5. QED BY <1>1, <3>2, <3>3, <3>4 DEF MergesTo
  <2>3. QED BY <2>1, <2>2 DEF Covered
<1>4. disk' \in LoopStates /\ disk'.sched = s.sched /\ disk'.told = s.told /\ disk'.pending = s.pending
  <2>1. CASE disk' = s
    BY <1>1, <2>1 DEF MergesTo
  <2>2. CASE disk' = [s EXCEPT !.status = "paused", !.req = r] /\ r \in Requests
    <3>1. s \in LoopStates
      BY <1>1 DEF MergesTo
    <3>2. QED BY <2>2, <3>1 DEF LoopStates
  <2>3. QED BY <1>1, <2>1, <2>2 DEF MergesTo
<1>5. StatesCovered'
  <2>1. Covered(disk)'
    BY <1>3, <1>4 DEF Covered
  <2>2. (mem # NoLoop => Covered(mem))'
    BY <1>1, <1>3 DEF MergesTo, Covered
  <2>3. ASSUME NEW a \in Batches, cache'[a] # NoLoop PROVE Covered(cache[a])'
    <3>1. cache'[a] = s \/ (cache'[a] = cache[a] /\ cache[a] # NoLoop)
      BY <1>1, <2>3 DEF MergesTo, Batches
    <3>2. Covered(cache'[a])
      BY <1>3, <3>1 DEF StatesCovered
    <3>3. QED BY <3>2 DEF Covered
  <2>4. QED BY <2>1, <2>2, <2>3 DEF StatesCovered
<1>6. InHand'
  BY <1>1 DEF MergesTo, InHand
<1>7. QED BY <1>5, <1>6

\* A call of a batch that is prepared or run keeps every scheduled call pending or told.
LEMMA CallCovers ==
  ASSUME CoverInv, TypeInv', NEW b \in Batches, NEW c \in Calls,
         Invoke(b, c) \/ (b = "main" /\ Prepare(c))
  PROVE  CoverInv'
<1> USE NoLoopIsNone
<1>1. TypeInv /\ "main" \in Batches
  BY DEF CoverInv, Batches
<1>2. CASE Invoke(b, c)
  <2>1. PICK r \in Records, label \in {"started", "running", "ended", "idle"} :
           (b = "main" => label # "idle") /\ StepsOn(b, c, r, label)
    BY <1>1, <1>2, InvokeSteps
  <2>2. stage[b][c] \in UnderWay
    BY <1>1, <1>2, InvokeSteps
  <2>3. cache[b] # NoLoop /\ (b = "main" => pc = "batch")
    BY <1>1, <2>2, UnderWayTypes
  <2>4. QED
    BY <2>1, <2>2, <2>3, StepsCover DEF Stages, UnderWay
<1>3. CASE b = "main" /\ Prepare(c)
  <2>1. pc = "batch" /\ stage.main[c] = "new" /\ mem \in LoopStates /\ cache["main"] # NoLoop
    BY <1>1, <1>3, PrepareSteps
  <2>2. ASSUME NEW r \in Records, NEW label \in Stages \ {"idle"}, StepsOn("main", c, r, label)
        PROVE  CoverInv'
    BY <1>1, <2>1, <2>2, StepsCover
  <2>3. CASE StepsOn("main", c, IF Settled(mem.rec[c]) THEN mem.rec[c] ELSE "unknown", "answered")
    <3>1. mem.rec[c] \in Records
      BY <2>1 DEF LoopStates
    <3>2. QED BY <2>2, <2>3, <3>1 DEF Records, Stages
  <2>4. CASE StepsOn("main", c, "prepared", "ready")
    BY <2>2, <2>4 DEF Records, Stages
  <2>5. ASSUME NEW label \in {"answered", "approval"}, stage' = [stage EXCEPT !.main[c] = label],
               UNCHANGED <<pc, mem, disk, cache, chunk>>
        PROVE  CoverInv'
    <3>1. \A d \in Calls : stage'.main[d] # "idle" <=> stage.main[d] # "idle"
      BY <2>1, <2>5 DEF CoverInv, TypeInv, Shape, Batches
    <3>2. QED BY <2>5, <3>1 DEF CoverInv, StatesCovered, Covered, InHand
  <2>6. QED BY <1>1, <1>3, <2>3, <2>4, <2>5, PrepareSteps
<1>4. QED BY <1>2, <1>3

\* Every step keeps every scheduled call pending or told.
LEMMA CoverStep ==
  ASSUME CoverInv, [Next]_vars
  PROVE  CoverInv'
<1> USE ToolAssumption, NoLoopIsNone
<1>1. TypeInv /\ TypeInv'
  BY TypeStep DEF CoverInv
<1>2. \A s, t \in LoopStates :
         Covered(s) /\ t.sched = s.sched /\ t.told = s.told /\ t.pending = s.pending => Covered(t)
  BY DEF Covered
<1>3. ASSUME NEW k \in 1..N, Schedule(k) PROVE CoverInv'
  <2> DEFINE s == [mem EXCEPT !.sched = @ + k, !.pending = (mem.sched + 1)..(mem.sched + k)]
  <2>1. mem \in LoopStates /\ pc = "loop" /\ Covered(mem) /\ mem.pending = {}
    BY <1>1, <1>3 DEF Schedule, Running, TypeInv, Shape, CoverInv, StatesCovered
  <2>2. (mem.sched + 1)..(mem.sched + k) \subseteq Calls /\ mem.sched + k \in 0..N /\ mem.sched \in Nat
    BY <1>3, <2>1 DEF Schedule, LoopStates, Calls
  <2>3. s \in LoopStates /\ s.sched = mem.sched + k /\ s.told = mem.told
        /\ s.pending = (mem.sched + 1)..(mem.sched + k)
    BY <2>1, <2>2 DEF LoopStates
  <2>4. Save(s) /\ pc' = "loop"
    BY <1>3, <2>1 DEF Schedule
  <2> HIDE DEF s
  <2>5. Covered(s)
    <3>1. ASSUME NEW c \in Calls, c > s.sched PROVE s.told[c] = 0 /\ c \notin s.pending
      BY <2>1, <2>2, <2>3, <3>1 DEF Covered, Calls
    <3>2. ASSUME NEW c \in Calls, c <= s.sched PROVE c \in s.pending \/ s.told[c] >= 1
      <4>1. CASE c <= mem.sched
        BY <2>1, <2>3, <4>1 DEF Covered
      <4>2. CASE c > mem.sched
        BY <2>2, <2>3, <3>2, <4>2 DEF Calls
      <4>3. QED BY <4>1, <4>2, <2>2 DEF Calls
    <3>3. QED BY <3>1, <3>2 DEF Covered
  <2>6. QED BY <1>1, <2>1, <2>3, <2>4, <2>5, SaveCovers
<1>4. ASSUME NEW v \in {"completed", "failed"}, EndTurn(v) PROVE CoverInv'
  <2>1. mem \in LoopStates /\ pc = "loop" /\ Covered(mem) /\ mem.pending = {}
    BY <1>1, <1>4 DEF EndTurn, Running, TypeInv, Shape, CoverInv, StatesCovered
  <2>2. PICK s : s = [mem EXCEPT !.status = v]
    OBVIOUS
  <2>3. s \in LoopStates /\ s.sched = mem.sched /\ s.told = mem.told /\ s.pending = mem.pending
    BY <2>1, <2>2 DEF LoopStates
  <2>4. Save(s) /\ pc' = "ended"
    BY <1>4, <2>2 DEF EndTurn
  <2>5. QED BY <1>1, <1>2, <2>1, <2>3, <2>4, SaveCovers
<1>5. ASSUME NEW held \in SUBSET Calls, BeginBatch(held) PROVE CoverInv'
  <2>1. /\ pc = "loop" /\ pc' = "batch" /\ UNCHANGED <<mem, disk, cache>>
        /\ held \subseteq mem.pending
    BY <1>5 DEF BeginBatch
  <2>2. \A c \in Calls : stage'.main[c] = IF c \in held THEN "answered"
                                         ELSE IF c \in mem.pending THEN "new" ELSE "idle"
    BY <1>1, <1>5 DEF BeginBatch, TypeInv, Shape, Batches
  <2>3. cache.main = mem
    BY <2>1 DEF CoverInv, InHand
  <2>4. StatesCovered'
    BY <2>1 DEF CoverInv, StatesCovered, Covered
  <2>5. InHand'
    BY <2>1, <2>2, <2>3 DEF InHand
  <2>6. QED BY <1>1, <2>4, <2>5 DEF CoverInv
<1>6. ASSUME UNCHANGED <<pc, mem, disk, cache, stage>> PROVE CoverInv'
  BY <1>1, <1>6 DEF CoverInv, StatesCovered, Covered, InHand
<1>7. ASSUME NEW k \in SUBSET Calls, Launch(k) PROVE CoverInv'
  BY <1>6, <1>7 DEF Launch
<1>8. CASE Cancel
  BY <1>6, <1>8 DEF Cancel
<1>9. CASE Interrupt \/ AnswerRejected
  <2>1. pc' = "down" /\ mem' = NoLoop /\ disk' = disk /\ cache' = [cache EXCEPT !.main = NoLoop]
    BY <1>9 DEF Interrupt, AnswerRejected
  <2>2. \A b \in Batches : cache'[b] \in {cache[b], NoLoop}
    BY <1>1, <2>1 DEF TypeInv, Shape
  <2>3. QED BY <1>1, <2>1, <2>2, GoneCovers
<1>10. CASE Crash
  <2>1. /\ disk' = disk /\ \A b \in Batches : cache'[b] = NoLoop
        /\ pc' = IF pc \in {"paused", "ended"} THEN pc ELSE "down"
        /\ mem' = IF pc = "ended" THEN mem ELSE NoLoop
    BY <1>10 DEF Crash
  <2>2. StatesCovered'
    BY <2>1 DEF CoverInv, StatesCovered, Covered
  <2>3. InHand'
    BY <2>1 DEF CoverInv, InHand
  <2>4. QED BY <1>1, <2>2, <2>3 DEF CoverInv
<1>11. CASE Load
  <2>1. pc' = "asking" /\ pc # "batch" /\ disk \in LoopStates /\ Covered(disk)
    BY <1>1, <1>11 DEF Load, TypeInv, Tallies, CoverInv, StatesCovered
  <2>2. CASE mem' = disk /\ cache' = [cache EXCEPT !.main = disk] /\ disk' = disk
    <3>1. cache'.main = disk /\ cache'.left = cache.left
      BY <1>1, <2>2 DEF TypeInv, Shape, Batches
    <3>2. \A b \in Batches : cache'[b] # NoLoop => Covered(cache'[b])
      BY <2>1, <3>1 DEF CoverInv, StatesCovered, Batches
    <3>3. StatesCovered'
      BY <2>1, <2>2, <3>2 DEF StatesCovered, Covered
    <3>4. InHand'
      BY <2>1, <2>2, <3>1 DEF InHand
    <3>5. QED BY <1>1, <3>3, <3>4 DEF CoverInv
  <2>3. CASE \E c \in Calls, rec \in [Calls -> Records] :
                Save([disk EXCEPT !.rec = rec, !.status = "paused", !.req = Reconciliation(c)])
    <3>1. PICK c \in Calls, rec \in [Calls -> Records] :
                Save([disk EXCEPT !.rec = rec, !.status = "paused", !.req = Reconciliation(c)])
      BY <2>3
    <3>2. PICK s : s = [disk EXCEPT !.rec = rec, !.status = "paused", !.req = Reconciliation(c)]
      OBVIOUS
    <3>3. Reconciliation(c) \in Requests
      BY DEF Requests
    <3>4. s \in LoopStates /\ s.sched = disk.sched /\ s.told = disk.told /\ s.pending = disk.pending
      BY <2>1, <3>2, <3>3 DEF LoopStates
    <3>5. QED BY <1>1, <1>2, <2>1, <3>1, <3>2, <3>4, SaveCovers
  <2>4. ASSUME NEW c \in Calls, NEW U \in SUBSET Calls
        PROVE  [d \in Calls |-> IF d \in U THEN "unknown" ELSE disk.rec[d]] \in [Calls -> Records]
    BY <2>1 DEF LoopStates, Records
  <2>5. QED BY <1>11, <2>2, <2>3, <2>4 DEF Load
<1>12. ASSUME NEW s \in LoopStates, Covered(s), pc = "asking", Resume(s) PROVE CoverInv'
  <2>1. PICK t : t = [s EXCEPT !.status = "running", !.req = NoRequest]
    OBVIOUS
  <2>2. t \in LoopStates /\ t.sched = s.sched /\ t.told = s.told /\ t.pending = s.pending
    BY <2>1 DEF LoopStates, Requests
  <2>3. Save(t) /\ pc' = "loop"
    BY <1>12, <2>1 DEF Resume
  <2>4. QED BY <1>1, <1>2, <1>12, <2>2, <2>3, SaveCovers
<1>13. pc = "asking" => mem \in LoopStates /\ Covered(mem)
  BY <1>1 DEF TypeInv, Shape, CoverInv, StatesCovered
<1>14. disk \in LoopStates /\ Covered(disk)
  BY <1>1 DEF TypeInv, Tallies, CoverInv, StatesCovered
<1>15. CASE Continue
  BY <1>12, <1>13, <1>15 DEF Continue
<1>16. ASSUME NEW g \in Gates, Allow(g) \/ Deny(g) PROVE CoverInv'
  <2>1. PICK s : /\ s = [disk EXCEPT !.approved = @ \cup {g}] \/ s = [disk EXCEPT !.denied = @ \cup {g}]
                 /\ Resume(s)
    BY <1>16 DEF Allow, Deny
  <2>2. s \in LoopStates /\ s.sched = disk.sched /\ s.told = disk.told /\ s.pending = disk.pending
    BY <1>14, <2>1 DEF LoopStates
  <2>3. QED BY <1>2, <1>12, <1>14, <1>16, <2>1, <2>2 DEF Allow, Deny, Asked
<1>17. ASSUME NEW c \in Calls, NEW r \in {"completed", "failed"}, Mark(c, r) PROVE CoverInv'
  <2>1. PICK s : s = [disk EXCEPT !.rec[c] = r] /\ Resume(s)
    BY <1>17 DEF Mark
  <2>2. s \in LoopStates /\ s.sched = disk.sched /\ s.told = disk.told /\ s.pending = disk.pending
    BY <1>14, <2>1 DEF LoopStates, Records
  <2>3. QED BY <1>2, <1>12, <1>14, <1>17, <2>1, <2>2 DEF Mark, Asked
<1>18. CASE Abort
  <2>1. PICK s : s = [mem EXCEPT !.status = "failed", !.req = NoRequest] /\ Save(s)
    BY <1>18 DEF Abort
  <2>2. /\ s \in LoopStates /\ s.sched = mem.sched /\ s.told = mem.told /\ s.pending = mem.pending
        /\ s.status = "failed"
    BY <1>13, <1>18, <2>1 DEF Abort, LoopStates, Requests
  <2>3. QED BY <1>1, <1>2, <1>13, <1>18, <2>1, <2>2, SaveCovers DEF Abort
<1>19. CASE UNCHANGED vars
  BY <1>6, <1>19 DEF vars, batchVars
<1>20. CASE BatchStep
  BY <1>1, <1>7, <1>20, CallCovers, MergeCovers DEF BatchStep, Batches
<1>21. CASE \E c \in Calls : Invoke("left", c)
  BY <1>1, <1>21, CallCovers DEF Batches
<1>22. CASE Human
  BY <1>9, <1>15, <1>16, <1>17, <1>18, <1>22 DEF Human
<1>23. QED
  BY <1>3, <1>4, <1>5, <1>8, <1>9, <1>10, <1>11, <1>19, <1>20, <1>21, <1>22 DEF Next

\* At first no call is scheduled.
LEMMA InitCovers == Init => CoverInv
<1> SUFFICES ASSUME Init PROVE CoverInv
  OBVIOUS
<1>1. pc = "loop" /\ mem = FirstLoop /\ disk = FirstLoop /\ cache.main = FirstLoop /\ cache.left = NoLoop
  BY DEF Init
<1>2. Covered(FirstLoop)
  BY ToolAssumption DEF Covered, FirstLoop, Calls
<1>3. QED
  BY <1>1, <1>2, InitTypes DEF CoverInv, StatesCovered, InHand, Batches

\* EveryCallAnswered: a turn that completes has told the model a result of every call
\* it made, whatever the tools, the approvals, the crashes, the cancellations and the
\* calls left behind.
THEOREM CompletedTurnsAnswerEveryCall == Spec => []EveryCallAnswered
<1>1. CoverInv => EveryCallAnswered
  <2> SUFFICES ASSUME CoverInv, pc = "ended", mem.status = "completed", NEW c \in 1..mem.sched
               PROVE  mem.told[c] >= 1
    BY DEF EveryCallAnswered
  <2>1. mem \in LoopStates /\ mem.pending = {} /\ Covered(mem)
    BY DEF CoverInv, TypeInv, Shape, InHand, StatesCovered
  <2>2. c \in Calls /\ c <= mem.sched
    BY <2>1, ToolAssumption DEF Calls, LoopStates
  <2>3. QED BY <2>1, <2>2 DEF Covered
<1>2. QED
  BY <1>1, InitCovers, CoverStep, PTL DEF Spec

-----------------------------------------------------------------------------
(* OneResultPerCall and ReconciledBeforeEnd, if doubts come one at a time.  *)

\* At most one call at a time has an outcome that a human has to settle.
OneDoubt ==
    \A c, d \in Calls : Unsure(c, disk.rec[c]) /\ Unsure(d, disk.rec[d]) => c = d

\* A LoopState without a doubt.
Sure(s) == \A c \in Calls : ~Unsure(c, s.rec[c])

\* In a LoopState, a call is told a second time only if a human has settled it, and a
\* call that is pending although it was told is in doubt, or its settled outcome is still
\* to be told.
ToldOnce(s) ==
    /\ \A c \in Calls : s.told[c] <= 2 /\ (s.told[c] = 2 => c \in vouched /\ c \notin s.pending)
    /\ \A c \in s.pending :
          s.told[c] = 1 => Unsure(c, s.rec[c]) \/ (c \in vouched /\ Settled(s.rec[c]))
    /\ \A c \in Calls : s.req = Reconciliation(c) => Unsure(c, s.rec[c])

StatesToldOnce ==
    /\ ToldOnce(disk)
    /\ mem # NoLoop => ToldOnce(mem)
    /\ \A b \in Batches : cache[b] # NoLoop => ToldOnce(cache[b])

\* Only calls that may be replayed run beside others, and are left behind.
GuardedAlone ==
    /\ vouched \subseteq Guarded /\ chunk.left \subseteq Idempotent
    /\ \A c \in chunk.main \cap Guarded : chunk.main = {c}
    /\ In("main", {"new"}) # {} => chunk.main = {}
    /\ pc # "batch" => chunk.main = {}
    /\ cache.left # NoLoop => cache.left.req = NoRequest

\* The loop runs, and completes, without a doubt; what a batch has not run, the store has
\* as the loop knows it.
LoopSure ==
    /\ pc \in {"loop", "batch"} => Sure(mem) /\ mem.req = NoRequest
    /\ pc = "ended" /\ mem.status = "completed" => Sure(mem)
    /\ pc = "batch" =>
         /\ cache.main.req = NoRequest
         /\ \A c \in Calls : stage.main[c] \in {"idle", "new", "answered", "approval"} =>
               cache.main.rec[c] = mem.rec[c]
         /\ \A c \in Calls : stage.main[c] \in UnderWay \cup {"ended"} => ~Settled(mem.rec[c])
    /\ pc = "asking" =>
         /\ disk = mem \/ disk.req = NoRequest
         /\ (\A c \in Calls : mem.req # Reconciliation(c)) => Sure(mem)

DoubtInv == CoverInv /\ StatesToldOnce /\ GuardedAlone /\ LoopSure

\* A record that explains why a call is pending leaves a LoopState told once.
LEMMA RecordToldOnce ==
  ASSUME TypeInv, NEW b \in Batches, NEW c \in Calls, NEW r \in Records, cache[b] # NoLoop,
         ToldOnce(cache[b]), cache[b].req = NoRequest,
         c \in cache[b].pending /\ cache[b].told[c] = 1 =>
            Unsure(c, r) \/ (c \in vouched /\ Settled(r))
  PROVE  ToldOnce(WithRecord(b, c, r))
<1> DEFINE w == WithRecord(b, c, r)
<1>1. /\ w \in LoopStates /\ \A d \in Calls : w.rec[d] = IF d = c THEN r ELSE cache[b].rec[d]
      /\ w.pending = cache[b].pending /\ w.told = cache[b].told /\ w.req = NoRequest
  BY RecordAlone
<1>2. \A d \in Calls : w.req # Reconciliation(d)
  BY <1>1 DEF NoRequest, Reconciliation
<1>3. w.pending \subseteq Calls
  BY <1>1 DEF LoopStates
<1> HIDE DEF w
<1>4. ToldOnce(w)
  BY <1>1, <1>2, <1>3 DEF ToldOnce
<1>5. QED BY <1>4 DEF w

\* ToldOnce is about the records, the results, the pending calls, the request and the
\* calls a human has settled.
LEMMA SameToldOnce ==
  ASSUME NEW s \in LoopStates, ToldOnce(s), vouched \subseteq vouched'
  PROVE  ToldOnce(s)'
BY DEF ToldOnce, LoopStates

\* A step of a call keeps the calls told once.
LEMMA StepsToldOnce ==
  ASSUME DoubtInv, TypeInv', NEW b \in Batches, NEW c \in Calls, NEW r \in Records, NEW label,
         StepsOn(b, c, r, label), cache[b] # NoLoop, cache[b].req = NoRequest,
         c \in cache[b].pending /\ cache[b].told[c] = 1 =>
            Unsure(c, r) \/ (c \in vouched /\ Settled(r))
  PROVE  StatesToldOnce'
<1> DEFINE w == WithRecord(b, c, r)
<1>1. TypeInv /\ StatesToldOnce
  BY DEF DoubtInv, CoverInv
<1>2. ToldOnce(w) /\ w \in LoopStates /\ ToldOnce(cache[b]) /\ cache[b] \in LoopStates
  BY <1>1, RecordToldOnce, RecordAlone DEF StatesToldOnce, TypeInv, Shape
<1>3. vouched' = vouched /\ disk' \in {disk, w} /\ (mem' # NoLoop => mem' = mem)
  BY DEF StepsOn, GoesOn, FallsDown
<1>4. ASSUME NEW a \in Batches, cache'[a] # NoLoop
      PROVE  cache'[a] \in {cache[b], w} \/ (cache'[a] = cache[a] /\ cache[a] # NoLoop)
  <2>1. CASE GoesOn(b, c, r, label)
    BY <1>1, <1>4, <2>1, GoesOnCaches DEF GoesOn
  <2>2. CASE b = "main" /\ FallsDown(c, r)
    BY <1>4, <2>2 DEF FallsDown, Batches
  <2>3. QED BY <2>1, <2>2 DEF StepsOn
<1> HIDE DEF w
<1>5. \A s : ToldOnce(s) => ToldOnce(s)'
  BY <1>3 DEF ToldOnce
<1>6. ToldOnce(disk')
  BY <1>1, <1>2, <1>3 DEF StatesToldOnce
<1>7. mem' # NoLoop => ToldOnce(mem')
  BY <1>1, <1>3 DEF StatesToldOnce
<1>8. \A a \in Batches : cache'[a] # NoLoop => ToldOnce(cache'[a])
  BY <1>1, <1>2, <1>4 DEF StatesToldOnce
<1>9. QED
  BY <1>3, <1>6, <1>7, <1>8 DEF StatesToldOnce, ToldOnce

\* A step of a call leaves only calls behind that may be replayed.
LEMMA StepsAlone ==
  ASSUME DoubtInv, NEW b \in Batches, NEW c \in Calls, NEW r \in Records, NEW label,
         StepsOn(b, c, r, label), cache[b] # NoLoop, cache[b].req = NoRequest,
         b = "main" => pc = "batch" /\ label # "new" /\ (stage.main[c] = "new" \/ c \in chunk.main)
  PROVE  GuardedAlone'
<1>1. TypeInv /\ GuardedAlone
  BY DEF DoubtInv, CoverInv
<1>2. WithRecord(b, c, r).req = NoRequest
  BY <1>1, RecordAlone
<1>3. CASE GoesOn(b, c, r, label)
  <2>1. UNCHANGED <<pc, chunk, vouched>> /\ stage' = [stage EXCEPT ![b][c] = label]
    BY <1>3 DEF GoesOn
  <2>2. \A d \in Calls : stage'.main[d] = "new" => stage.main[d] = "new"
    BY <1>1, <2>1 DEF TypeInv, Shape, Batches
  <2>3. In("main", {"new"})' \subseteq In("main", {"new"})
    BY <2>2 DEF In
  <2>4. cache'.left # NoLoop => cache'.left.req = NoRequest
    <3>1. /\ cache'[b] \in {cache[b], WithRecord(b, c, r)}
          /\ \A a \in Batches : a # b => cache'[a] = cache[a]
      BY <1>1, <1>3, GoesOnCaches DEF GoesOn
    <3>2. QED BY <1>1, <1>2, <3>1 DEF GuardedAlone, Batches
  <2>5. QED BY <1>1, <2>1, <2>3, <2>4 DEF GuardedAlone
<1>4. CASE b = "main" /\ FallsDown(c, r)
  <2>1. /\ chunk'.main = {} /\ vouched' = vouched
        /\ \/ cache'.left = cache.left /\ chunk'.left = chunk.left
           \/ /\ cache'.left \in {cache.main, WithRecord("main", c, r)}
              /\ chunk'.left \subseteq chunk.main \ {c}
    BY <1>4 DEF FallsDown
  <2>2. cache'.left # NoLoop => cache'.left.req = NoRequest
    BY <1>1, <1>2, <1>4, <2>1 DEF GuardedAlone
  <2>3. chunk.main \ {c} \subseteq Idempotent
    <3>1. SUFFICES ASSUME NEW d \in chunk.main \ {c}, d \notin Idempotent PROVE FALSE
      OBVIOUS
    <3>2. d \in Guarded
      BY <1>1, <3>1 DEF TypeInv, Shape, Batches, Guarded
    <3>3. chunk.main = {d}
      BY <1>1, <3>1, <3>2 DEF GuardedAlone
    <3>4. c \in In("main", {"new"})
      BY <1>4, <3>3 DEF In
    <3>5. QED BY <1>1, <3>3, <3>4 DEF GuardedAlone
  <2>4. QED BY <1>1, <2>1, <2>2, <2>3 DEF GuardedAlone
<1>5. QED BY <1>3, <1>4 DEF StepsOn

\* A step of a call keeps the loop sure of what its calls have done.
LEMMA StepsSure ==
  ASSUME DoubtInv, NEW b \in Batches, NEW c \in Calls, NEW r \in Records, NEW label,
         StepsOn(b, c, r, label), cache[b] # NoLoop, cache[b].req = NoRequest,
         b = "main" =>
            /\ pc = "batch"
            /\ \/ label = "answered" /\ stage.main[c] = "new" /\ r = mem.rec[c]
               \/ label \in UnderWay \cup {"ended"} /\ ~Settled(mem.rec[c])
  PROVE  LoopSure'
<1>1. TypeInv /\ LoopSure
  BY DEF DoubtInv, CoverInv
<1>2. /\ WithRecord(b, c, r).req = NoRequest
      /\ \A d \in Calls : WithRecord(b, c, r).rec[d] = IF d = c THEN r ELSE cache[b].rec[d]
  BY <1>1, RecordAlone
<1>3. CASE GoesOn(b, c, r, label)
  <2>1. /\ UNCHANGED <<pc, mem>> /\ stage' = [stage EXCEPT ![b][c] = label]
        /\ disk' \in {disk, WithRecord(b, c, r)}
    BY <1>3 DEF GoesOn
  <2>2. /\ cache'[b] \in {cache[b], WithRecord(b, c, r)}
        /\ \A a \in Batches : a # b => cache'[a] = cache[a]
    BY <1>1, <1>3, GoesOnCaches DEF GoesOn
  <2>3. pc = "asking" => disk' = mem \/ disk'.req = NoRequest
    BY <1>1, <1>2, <2>1 DEF LoopSure
  <2>4. pc = "batch" =>
          /\ cache'.main.req = NoRequest
          /\ \A d \in Calls : stage'.main[d] \in {"idle", "new", "answered", "approval"} =>
                cache'.main.rec[d] = mem.rec[d]
          /\ \A d \in Calls : stage'.main[d] \in UnderWay \cup {"ended"} => ~Settled(mem.rec[d])
    <3>1. CASE b = "left"
      <4>1. cache'.main = cache.main /\ stage'.main = stage.main
        BY <1>1, <2>1, <2>2, <3>1 DEF Batches, TypeInv, Shape
      <4>2. QED BY <1>1, <4>1 DEF LoopSure
    <3>2. CASE b = "main"
      <4>1. \A d \in Calls : stage'.main[d] = IF d = c THEN label ELSE stage.main[d]
        BY <1>1, <2>1, <3>2 DEF TypeInv, Shape, Batches
      <4>2. cache'.main.req = NoRequest
        BY <1>2, <2>2, <3>2
      <4>3. \A d \in Calls : d # c => cache'.main.rec[d] = cache.main.rec[d]
        BY <1>2, <2>2, <3>2
      <4>4. CASE label = "answered" /\ stage.main[c] = "new" /\ r = mem.rec[c]
        <5>1. cache'.main.rec[c] = mem.rec[c]
          BY <1>1, <1>2, <2>2, <3>2, <4>4 DEF LoopSure
        <5>2. QED BY <1>1, <3>2, <4>1, <4>2, <4>3, <4>4, <5>1 DEF LoopSure, UnderWay
      <4>5. CASE label \in UnderWay \cup {"ended"} /\ ~Settled(mem.rec[c])
        BY <1>1, <3>2, <4>1, <4>2, <4>3, <4>5 DEF LoopSure, UnderWay
      <4>6. QED BY <3>2, <4>4, <4>5
    <3>3. QED BY <3>1, <3>2 DEF Batches
  <2>5. (Sure(mem) => Sure(mem)')
    BY <2>1 DEF Sure
  <2>6. QED BY <1>1, <2>1, <2>3, <2>4, <2>5 DEF LoopSure
<1>4. CASE b = "main" /\ FallsDown(c, r)
  BY <1>4 DEF FallsDown, LoopSure
<1>5. QED BY <1>3, <1>4 DEF StepsOn

\* A step of a call under way, or left behind, is one of these.
LEMMA InvokeDoubts ==
  ASSUME DoubtInv, NEW b \in Batches, NEW c \in Calls, Invoke(b, c)
  PROVE  DoubtInv'
<1>1. TypeInv /\ TypeInv' /\ CoverInv' /\ CoverInv
  <2>1. [Next]_vars
    BY DEF Batches, BatchStep, Next
  <2>2. QED BY <2>1, TypeStep, CoverStep DEF DoubtInv, CoverInv
<1>2. c \in chunk[b] /\ stage[b][c] \in UnderWay
  BY <1>1, InvokeSteps
<1>3. PICK r \in Records, label \in {"started", "running", "ended", "idle"} :
         (b = "main" => label # "idle") /\ StepsOn(b, c, r, label)
  BY <1>1, InvokeSteps
<1>4. cache[b] # NoLoop /\ cache[b] \in LoopStates /\ (b = "main" => pc = "batch")
  BY <1>1, <1>2, UnderWayTypes, NoLoopIsNone
<1>5. cache[b].req = NoRequest
  BY <1>4 DEF DoubtInv, LoopSure, GuardedAlone, Batches
<1>6. ~(c \in cache[b].pending /\ cache[b].told[c] = 1)
  <2>1. SUFFICES ASSUME c \in cache[b].pending, cache[b].told[c] = 1 PROVE FALSE
    OBVIOUS
  <2>2. CASE b = "left"
    <3>1. c \in Idempotent /\ c \notin vouched
      BY <1>2, <2>2 DEF DoubtInv, GuardedAlone, Guarded
    <3>2. Unsure(c, cache[b].rec[c]) \/ c \in vouched
      BY <1>4, <2>1 DEF DoubtInv, StatesToldOnce, ToldOnce
    <3>3. QED BY <3>1, <3>2 DEF Unsure
  <2>3. CASE b = "main"
    <3>1. c \in mem.pending /\ mem.told[c] = 1 /\ mem # NoLoop
      BY <1>1, <1>4, <2>1, <2>3 DEF CoverInv, InHand, TypeInv, Shape
    <3>2. Unsure(c, mem.rec[c]) \/ Settled(mem.rec[c])
      BY <3>1 DEF DoubtInv, StatesToldOnce, ToldOnce
    <3>3. ~Unsure(c, mem.rec[c]) /\ ~Settled(mem.rec[c])
      BY <1>2, <1>4, <2>3 DEF DoubtInv, LoopSure, Sure
    <3>4. QED BY <3>2, <3>3
  <2>4. QED BY <2>2, <2>3 DEF Batches
<1>7. StatesToldOnce'
  BY <1>1, <1>3, <1>4, <1>5, <1>6, StepsToldOnce
<1>8. GuardedAlone'
  BY <1>2, <1>3, <1>4, <1>5, StepsAlone
<1>9. b = "main" => ~Settled(mem.rec[c])
  BY <1>2, <1>4 DEF DoubtInv, LoopSure
<1>10. LoopSure'
  BY <1>3, <1>4, <1>5, <1>9, StepsSure DEF UnderWay
<1>11. QED BY <1>1, <1>7, <1>8, <1>10 DEF DoubtInv

\* So is a step of a call that is prepared.
LEMMA PrepareDoubts ==
  ASSUME DoubtInv, NEW c \in Calls, Prepare(c)
  PROVE  DoubtInv'
<1>1. TypeInv /\ TypeInv' /\ CoverInv' /\ CoverInv
  <2>1. [Next]_vars
    BY DEF BatchStep, Next
  <2>2. QED BY <2>1, TypeStep, CoverStep DEF DoubtInv, CoverInv
<1>2. /\ pc = "batch" /\ stage.main[c] = "new" /\ mem \in LoopStates /\ cache.main \in LoopStates
      /\ UNCHANGED vouched /\ "main" \in Batches
  BY <1>1, PrepareSteps DEF Batches
<1>3. /\ cache["main"] # NoLoop /\ cache["main"].req = NoRequest /\ ~Unsure(c, mem.rec[c])
      /\ cache.main.rec[c] = mem.rec[c]
  BY <1>2, NoLoopIsNone DEF DoubtInv, LoopSure, Sure
<1>4. cache.main.pending = mem.pending /\ cache.main.told = mem.told
  BY <1>1, <1>2 DEF CoverInv, InHand
<1>5. c \in mem.pending /\ mem.told[c] = 1 => c \in vouched /\ Settled(mem.rec[c])
  BY <1>2, <1>3, NoLoopIsNone DEF DoubtInv, StatesToldOnce, ToldOnce
<1>6. CASE /\ ~MayPrepare(c)
           /\ StepsOn("main", c, IF Settled(mem.rec[c]) THEN mem.rec[c] ELSE "unknown", "answered")
  <2>1. Settled(mem.rec[c]) /\ StepsOn("main", c, mem.rec[c], "answered") /\ mem.rec[c] \in Records
    BY <1>2, <1>3, <1>6 DEF MayPrepare, LoopStates
  <2>2. StatesToldOnce'
    BY <1>1, <1>2, <1>3, <1>4, <1>5, <2>1, StepsToldOnce
  <2>3. GuardedAlone'
    BY <1>2, <1>3, <2>1, StepsAlone
  <2>4. LoopSure'
    BY <1>2, <1>3, <2>1, StepsSure
  <2>5. QED BY <1>1, <2>2, <2>3, <2>4 DEF DoubtInv
<1>7. CASE MayPrepare(c) /\ StepsOn("main", c, "prepared", "ready")
  <2>1. ~Settled(mem.rec[c]) /\ "prepared" \in Records
    BY <1>7 DEF MayPrepare, Records
  <2>2. StatesToldOnce'
    BY <1>1, <1>2, <1>3, <1>4, <1>5, <1>7, <2>1, StepsToldOnce
  <2>3. GuardedAlone'
    BY <1>2, <1>3, <1>7, <2>1, StepsAlone
  <2>4. LoopSure'
    BY <1>2, <1>3, <1>7, <2>1, StepsSure DEF UnderWay
  <2>5. QED BY <1>1, <2>2, <2>3, <2>4 DEF DoubtInv
<1>8. ASSUME NEW label \in {"answered", "approval"}, stage' = [stage EXCEPT !.main[c] = label],
             UNCHANGED <<pc, mem, disk, cache, chunk>>
      PROVE  DoubtInv'
  <2>1. \A d \in Calls : stage'.main[d] = IF d = c THEN label ELSE stage.main[d]
    BY <1>1, <1>8 DEF TypeInv, Shape, Batches
  <2>2. In("main", {"new"})' \subseteq In("main", {"new"})
    BY <2>1 DEF In
  <2>3. StatesToldOnce'
    BY <1>2, <1>8 DEF DoubtInv, StatesToldOnce, ToldOnce
  <2>4. GuardedAlone'
    BY <1>2, <1>8, <2>2 DEF DoubtInv, GuardedAlone
  <2>5. LoopSure'
    BY <1>2, <1>3, <1>8, <2>1 DEF DoubtInv, LoopSure, UnderWay, Sure
  <2>6. QED BY <1>1, <2>3, <2>4, <2>5 DEF DoubtInv
<1>9. QED BY <1>1, <1>6, <1>7, <1>8, PrepareSteps

\* Saving a LoopState that is told once.
LEMMA SaveDoubts ==
  ASSUME DoubtInv, CoverInv', pc # "batch", NEW s \in LoopStates, Save(s),
         UNCHANGED batchVars, vouched \subseteq vouched', vouched' \subseteq Guarded,
         ToldOnce(s)',
         \/ pc' = "loop" /\ Sure(s) /\ s.req = NoRequest
         \/ pc' = "asking" /\ \E c \in Calls : s.req = Reconciliation(c)
         \/ pc' = "ended" /\ (s.status = "completed" => Sure(s))
  PROVE  DoubtInv'
<1>1. TypeInv
  BY DEF DoubtInv, CoverInv
<1>2. /\ mem' = s /\ disk' = s /\ cache'.main = s /\ cache'.left = cache.left
      /\ stage' = stage /\ chunk' = chunk
  BY <1>1 DEF Save, TypeInv, Shape, Batches, batchVars
<1>3. StatesToldOnce'
  <2>1. ToldOnce(disk)' /\ ToldOnce(mem)'
    BY <1>2 DEF ToldOnce
  <2>2. ASSUME NEW a \in Batches, cache'[a] # NoLoop PROVE ToldOnce(cache[a])'
    <3>1. CASE a = "main"
      BY <1>2, <3>1 DEF ToldOnce
    <3>2. CASE a = "left"
      <4>1. cache'[a] = cache[a] /\ cache[a] \in LoopStates /\ ToldOnce(cache[a])
        BY <1>1, <1>2, <2>2, <3>2 DEF DoubtInv, StatesToldOnce, TypeInv, Shape
      <4>2. QED BY <4>1 DEF ToldOnce, LoopStates
    <3>3. QED BY <3>1, <3>2 DEF Batches
  <2>3. QED BY <2>1, <2>2 DEF StatesToldOnce
<1>4. GuardedAlone'
  BY <1>2 DEF DoubtInv, GuardedAlone, In
<1>5. LoopSure'
  BY <1>2 DEF LoopSure, Sure
<1>6. QED BY <1>3, <1>4, <1>5 DEF DoubtInv

\* A loop that is gone has no doubt.
LEMMA GoneDoubts ==
  ASSUME DoubtInv, CoverInv', pc # "batch", pc' = "down", mem' = NoLoop, disk' = disk,
         cache' = [cache EXCEPT !.main = NoLoop], UNCHANGED batchVars, vouched' = vouched
  PROVE  DoubtInv'
<1>1. TypeInv
  BY DEF DoubtInv, CoverInv
<1>2. cache'.main = NoLoop /\ cache'.left = cache.left /\ stage' = stage /\ chunk' = chunk
  BY <1>1 DEF TypeInv, Shape, Batches, batchVars
<1>3. StatesToldOnce'
  <2>1. ToldOnce(disk)'
    BY DEF DoubtInv, StatesToldOnce, ToldOnce
  <2>2. ASSUME NEW a \in Batches, cache'[a] # NoLoop PROVE ToldOnce(cache[a])'
    <3>1. cache'[a] = cache[a] /\ ToldOnce(cache[a])
      BY <1>2, <2>2 DEF DoubtInv, StatesToldOnce, Batches
    <3>2. QED BY <3>1 DEF ToldOnce
  <2>3. QED BY <2>1, <2>2 DEF StatesToldOnce
<1>4. GuardedAlone'
  BY <1>2 DEF DoubtInv, GuardedAlone, In
<1>5. QED BY <1>3, <1>4 DEF DoubtInv, LoopSure

\* A call that must not be replayed is launched alone.
LEMMA LaunchDoubts ==
  ASSUME DoubtInv, CoverInv', NEW k \in SUBSET Calls, Launch(k)
  PROVE  DoubtInv'
<1>1. TypeInv
  BY DEF DoubtInv, CoverInv
<1>2. /\ pc = "batch" /\ In("main", {"new"}) = {} /\ k \subseteq In("main", {"ready"}) /\ k # {}
      /\ Cardinality(k) = Min({Width, Cardinality(In("main", {"ready"}))})
      /\ chunk' = [chunk EXCEPT !.main = k]
      /\ UNCHANGED <<pc, mem, disk, cache, stage, vouched>>
  BY DEF Launch, LoopFrame, humanVars
<1>3. chunk'.main = k /\ chunk'.left = chunk.left
  BY <1>1, <1>2 DEF TypeInv, Shape, Batches
<1>4. \A c \in k \cap Guarded : k = {c}
  BY GuardedLaunchedAlone
<1>5. GuardedAlone'
  BY <1>2, <1>3, <1>4 DEF DoubtInv, GuardedAlone, In
<1>6. StatesToldOnce' /\ LoopSure'
  BY <1>2 DEF DoubtInv, StatesToldOnce, ToldOnce, LoopSure, Sure
<1>7. QED BY <1>5, <1>6 DEF DoubtInv

\* The results of a batch are told once, and a doubt among them is asked about.
LEMMA MergeDoubts ==
  ASSUME DoubtInv, TypeInv', CoverInv', Merge
  PROVE  DoubtInv'
<1> USE NoLoopIsNone
<1>1. TypeInv /\ CoverInv
  BY DEF DoubtInv, CoverInv
<1>2. PICK s, r : MergesTo(s, r)
  BY <1>1, MergeEffect
<1>3. ToldOnce(mem) /\ Sure(mem) /\ mem.req = NoRequest /\ mem \in LoopStates /\ s \in LoopStates
  BY <1>2 DEF MergesTo, DoubtInv, StatesToldOnce, LoopSure
<1>4. \A c \in Calls : stage.main[c] # "ended" => s.rec[c] = mem.rec[c]
  BY <1>2 DEF MergesTo, DoubtInv, LoopSure
<1>5. \A c \in Calls : stage.main[c] = "ended" => ~Settled(mem.rec[c])
  BY <1>2 DEF MergesTo, DoubtInv, LoopSure
<1>6. \A c \in Calls : stage.main[c] # "idle" <=> c \in mem.pending
  BY <1>1, <1>2 DEF MergesTo, CoverInv, InHand
<1>7. \A c \in Calls : c \in Doubtful <=> c \in Results /\ Unsure(c, s.rec[c])
  BY <1>2 DEF MergesTo, Doubtful
<1>8. \A c \in mem.pending : mem.told[c] = 1 => c \in vouched /\ Settled(mem.rec[c])
  BY <1>3 DEF ToldOnce, Sure, LoopStates
<1>9. ASSUME NEW c \in Calls PROVE s.told[c] <= 2 /\ (s.told[c] = 2 => c \in vouched /\ c \notin s.pending)
  <2>0. mem.told[c] \in Nat /\ mem.told[c] <= 2 /\ (mem.told[c] = 2 => c \in vouched /\ c \notin mem.pending)
    BY <1>3 DEF ToldOnce, LoopStates
  <2>1. CASE c \in Results
    <3>1. c \in mem.pending /\ c \notin Asking /\ s.told[c] = mem.told[c] + 1
      BY <1>2, <1>6, <2>1 DEF MergesTo
    <3>2. mem.told[c] # 2
      BY <2>0, <3>1
    <3>3. CASE mem.told[c] = 0
      BY <3>1, <3>3
    <3>4. CASE mem.told[c] = 1
      <4>1. c \in vouched /\ Settled(mem.rec[c])
        BY <1>8, <3>1, <3>4
      <4>2. s.rec[c] = mem.rec[c]
        BY <1>4, <1>5, <4>1
      <4>3. c \notin Doubtful
        BY <1>7, <4>1, <4>2 DEF Unsure, Settled
      <4>4. c \notin s.pending
        BY <1>2, <3>1, <4>3 DEF MergesTo
      <4>5. QED BY <3>1, <3>4, <4>1, <4>4
    <3>5. QED BY <2>0, <3>2, <3>3, <3>4
  <2>2. CASE c \notin Results
    <3>1. s.told[c] = mem.told[c] /\ c \notin Doubtful
      BY <1>2, <1>7, <2>2 DEF MergesTo
    <3>2. c \in s.pending => c \in Asking
      BY <1>2, <3>1 DEF MergesTo
    <3>3. c \in Asking => c \in mem.pending
      BY <1>2, <1>6 DEF MergesTo
    <3>4. QED BY <2>0, <3>1, <3>2, <3>3
  <2>3. QED BY <2>1, <2>2
<1>10. ASSUME NEW c \in s.pending, s.told[c] = 1
       PROVE  Unsure(c, s.rec[c]) \/ (c \in vouched /\ Settled(s.rec[c]))
  <2>1. c \in Calls
    BY <1>3 DEF LoopStates
  <2>2. CASE c \in Doubtful
    BY <1>7, <2>1, <2>2
  <2>3. CASE c \notin Doubtful
    <3>1. c \in Asking
      BY <1>2, <2>3 DEF MergesTo
    <3>2. stage.main[c] = "approval"
      BY <1>2, <2>1, <3>1 DEF MergesTo
    <3>3. c \in mem.pending /\ mem.told[c] = 1 /\ s.rec[c] = mem.rec[c]
      BY <1>2, <1>4, <1>6, <1>10, <2>1, <3>2 DEF MergesTo
    <3>4. QED BY <1>8, <3>3
  <2>4. QED BY <2>2, <2>3
<1>11. ToldOnce(s)
  <2>1. \A c \in Calls : s.req # Reconciliation(c)
    BY <1>2, <1>3 DEF MergesTo, NoRequest, Reconciliation
  <2>2. QED BY <1>9, <1>10, <2>1 DEF ToldOnce
<1>12. ToldOnce(disk')
  <2>1. CASE disk' = s
    BY <1>11, <2>1
  <2>2. CASE /\ disk' = [s EXCEPT !.status = "paused", !.req = r]
             /\ r \in Requests
             /\ \A c \in Calls : r = Reconciliation(c) => c \in Doubtful
    <3>1. disk'.told = s.told /\ disk'.pending = s.pending /\ disk'.rec = s.rec /\ disk'.req = r
      BY <1>3, <2>2 DEF LoopStates
    <3>2. \A c \in Calls : disk'.req = Reconciliation(c) => Unsure(c, disk'.rec[c])
      BY <1>7, <2>2, <3>1
    <3>3. QED BY <1>11, <3>1, <3>2 DEF ToldOnce
  <2>3. QED BY <1>2, <2>1, <2>2 DEF MergesTo
<1>13. mem' \in {s, NoLoop} /\ cache'.main \in {s, NoLoop} /\ cache'.left = cache.left /\ vouched' = vouched
  BY <1>2 DEF MergesTo
<1>14. StatesToldOnce'
  <2>1. \A t : ToldOnce(t) => ToldOnce(t)'
    BY <1>13 DEF ToldOnce
  <2>2. mem' # NoLoop => ToldOnce(mem')
    BY <1>11, <1>13
  <2>3. \A a \in Batches : cache'[a] # NoLoop => ToldOnce(cache'[a])
    BY <1>11, <1>13 DEF Batches, DoubtInv, StatesToldOnce
  <2>4. QED BY <1>12, <1>13, <2>2, <2>3 DEF StatesToldOnce, ToldOnce
<1>15. GuardedAlone'
  <2>1. chunk'.main = {} /\ chunk'.left = chunk.left
    BY <1>2 DEF MergesTo
  <2>2. QED BY <1>13, <2>1 DEF DoubtInv, GuardedAlone
<1>16. LoopSure'
  <2>1. SUFFICES ASSUME pc' = "loop" PROVE Sure(mem)' /\ mem'.req = NoRequest
    BY <1>2 DEF MergesTo, LoopSure
  <2>2. disk'.status # "paused" /\ mem' = s
    BY <1>2, <2>1 DEF MergesTo
  <2>3. Asking = {} /\ Doubtful = {}
    <3>1. CASE disk' = [s EXCEPT !.status = "paused", !.req = r]
      BY <1>3, <2>2, <3>1 DEF LoopStates
    <3>2. QED BY <1>2, <3>1 DEF MergesTo
  <2>4. Sure(s)
    <3>1. SUFFICES ASSUME NEW c \in Calls, Unsure(c, s.rec[c]) PROVE FALSE
      BY DEF Sure
    <3>2. c \notin Results
      BY <1>7, <2>3, <3>1
    <3>3. stage.main[c] # "ended"
      BY <1>2, <3>2 DEF MergesTo
    <3>4. QED BY <1>3, <1>4, <3>1, <3>3 DEF Sure
  <2>5. QED BY <1>2, <1>3, <2>2, <2>4 DEF MergesTo, Sure
<1>17. QED BY <1>14, <1>15, <1>16 DEF DoubtInv

\* While at most one call is in doubt, every step keeps the calls told once, and the loop
\* sure of what its calls have done.
LEMMA DoubtStep ==
  ASSUME DoubtInv, OneDoubt, [Next]_vars
  PROVE  DoubtInv'
<1> USE ToolAssumption, NoLoopIsNone
<1>1. TypeInv /\ TypeInv' /\ CoverInv /\ CoverInv'
  BY TypeStep, CoverStep DEF DoubtInv, CoverInv
<1>2. \A s : ToldOnce(s) /\ vouched' = vouched => ToldOnce(s)'
  BY DEF ToldOnce
<1>3. vouched \subseteq Guarded
  BY DEF DoubtInv, GuardedAlone
<1>4. disk \in LoopStates /\ ToldOnce(disk)
  BY <1>1 DEF TypeInv, Tallies, DoubtInv, StatesToldOnce
<1>5. pc \in {"loop", "asking"} => mem \in LoopStates /\ ToldOnce(mem)
  BY <1>1 DEF TypeInv, Shape, DoubtInv, StatesToldOnce
<1>6. \A c \in Calls : NoRequest # Reconciliation(c)
  BY DEF NoRequest, Reconciliation
<1>7. ASSUME NEW k \in 1..N, Schedule(k) PROVE DoubtInv'
  <2> DEFINE new == (mem.sched + 1)..(mem.sched + k)
  <2>1. PICK s : s = [mem EXCEPT !.sched = @ + k, !.pending = new] /\ Save(s)
    BY <1>7 DEF Schedule
  <2>2. mem \in LoopStates /\ pc = "loop" /\ ToldOnce(mem) /\ Covered(mem) /\ Sure(mem) /\ mem.req = NoRequest
    BY <1>1, <1>5, <1>7 DEF Schedule, Running, DoubtInv, LoopSure, CoverInv, StatesCovered
  <2>3. s.pending = new /\ s.told = mem.told /\ s.rec = mem.rec /\ s.req = mem.req
    BY <2>1, <2>2 DEF LoopStates
  <2>4. new \subseteq Calls /\ \A c \in new : c > mem.sched
    BY <1>7, <2>2 DEF Schedule, LoopStates, Calls
  <2>5. \A c \in s.pending : s.told[c] = 0
    BY <2>2, <2>3, <2>4 DEF Covered
  <2>6. ToldOnce(s)
    BY <1>6, <2>2, <2>3, <2>4, <2>5 DEF ToldOnce
  <2>7. Sure(s) /\ s.req = NoRequest
    BY <2>2, <2>3 DEF Sure
  <2>8. s \in LoopStates
    <3>1. mem.sched + k \in 0..N
      BY <1>7, <2>2 DEF LoopStates, Schedule
    <3> HIDE DEF new
    <3>2. QED BY <2>1, <2>2, <2>4, <3>1 DEF LoopStates
  <2>9. vouched' = vouched /\ pc' = "loop" /\ UNCHANGED batchVars
    BY <1>7, <2>2 DEF Schedule, LoopFrame, humanVars
  <2>10. QED BY <1>1, <1>2, <1>3, <2>1, <2>2, <2>6, <2>7, <2>8, <2>9, SaveDoubts
<1>8. ASSUME NEW v \in {"completed", "failed"}, EndTurn(v) PROVE DoubtInv'
  <2>1. PICK s : s = [mem EXCEPT !.status = v] /\ Save(s)
    BY <1>8 DEF EndTurn
  <2>2. mem \in LoopStates /\ pc = "loop" /\ ToldOnce(mem) /\ Sure(mem)
    BY <1>5, <1>8 DEF EndTurn, Running, DoubtInv, LoopSure
  <2>3. /\ s \in LoopStates /\ s.pending = mem.pending /\ s.told = mem.told /\ s.rec = mem.rec
        /\ s.req = mem.req
    BY <2>1, <2>2 DEF LoopStates
  <2>4. ToldOnce(s) /\ Sure(s)
    BY <2>2, <2>3 DEF ToldOnce, Sure
  <2>5. vouched' = vouched /\ pc' = "ended" /\ UNCHANGED batchVars
    BY <1>8 DEF EndTurn, LoopFrame, humanVars
  <2>6. QED BY <1>1, <1>2, <1>3, <2>1, <2>2, <2>3, <2>4, <2>5, SaveDoubts
<1>9. ASSUME NEW held \in SUBSET Calls, BeginBatch(held) PROVE DoubtInv'
  <2>1. /\ pc = "loop" /\ pc' = "batch" /\ UNCHANGED <<mem, disk, cache, chunk, vouched>>
    BY <1>9 DEF BeginBatch, LoopFrame, humanVars
  <2>2. \A c \in Calls : stage'.main[c] \in {"answered", "new", "idle"}
    BY <1>1, <1>9 DEF BeginBatch, TypeInv, Shape, Batches
  <2>3. cache.main = mem
    BY <1>1, <2>1 DEF CoverInv, InHand
  <2>4. StatesToldOnce'
    BY <2>1 DEF DoubtInv, StatesToldOnce, ToldOnce
  <2>5. GuardedAlone'
    BY <2>1 DEF DoubtInv, GuardedAlone
  <2>6. LoopSure'
    BY <2>1, <2>2, <2>3 DEF DoubtInv, LoopSure, UnderWay, Sure
  <2>7. QED BY <1>1, <2>4, <2>5, <2>6 DEF DoubtInv
<1>10. ASSUME UNCHANGED <<pc, mem, disk, cache, stage, chunk, vouched>> PROVE DoubtInv'
  BY <1>1, <1>10 DEF DoubtInv, StatesToldOnce, ToldOnce, GuardedAlone, LoopSure, Sure, In
<1>11. CASE Cancel
  BY <1>10, <1>11 DEF Cancel, LoopFrame, humanVars
<1>12. CASE Interrupt \/ AnswerRejected
  BY <1>1, <1>12, GoneDoubts DEF Interrupt, AnswerRejected, LoopFrame, humanVars
<1>13. CASE Crash
  <2>1. /\ disk' = disk /\ vouched' = vouched /\ \A b \in Batches : cache'[b] = NoLoop
        /\ chunk'.main = {} /\ chunk'.left = {}
        /\ pc' = IF pc \in {"paused", "ended"} THEN pc ELSE "down"
        /\ mem' = IF pc = "ended" THEN mem ELSE NoLoop
    BY <1>13 DEF Crash, LoopFrame, humanVars, Batches
  <2>2. StatesToldOnce'
    BY <2>1 DEF DoubtInv, StatesToldOnce, ToldOnce
  <2>3. GuardedAlone'
    BY <2>1 DEF DoubtInv, GuardedAlone, Batches
  <2>4. LoopSure'
    BY <2>1 DEF DoubtInv, LoopSure, Sure
  <2>5. QED BY <1>1, <2>2, <2>3, <2>4 DEF DoubtInv
<1>14. CASE Load
  <2> DEFINE unsure == {c \in Calls : Unsure(c, disk.rec[c])}
  <2>1. pc' = "asking" /\ pc \in {"paused", "down"} /\ UNCHANGED batchVars /\ vouched' = vouched
    BY <1>14 DEF Load, LoopFrame, humanVars
  <2>2. CASE unsure = {} /\ mem' = disk /\ cache' = [cache EXCEPT !.main = disk] /\ disk' = disk
    <3>1. cache'.main = disk /\ cache'.left = cache.left
      BY <1>1, <2>2 DEF TypeInv, Shape, Batches
    <3>2. \A b \in Batches : cache'[b] # NoLoop => ToldOnce(cache'[b])
      BY <1>4, <3>1 DEF DoubtInv, StatesToldOnce, Batches
    <3>3. StatesToldOnce'
      BY <1>4, <2>1, <2>2, <3>2 DEF StatesToldOnce, ToldOnce
    <3>4. GuardedAlone'
      BY <2>1, <3>1 DEF DoubtInv, GuardedAlone, batchVars, In
    <3>5. LoopSure'
      BY <2>1, <2>2 DEF LoopSure, Sure
    <3>6. QED BY <1>1, <3>3, <3>4, <3>5 DEF DoubtInv
  <2>3. CASE \E c \in unsure :
                Save([disk EXCEPT !.rec = [d \in Calls |-> IF d \in unsure THEN "unknown" ELSE @[d]],
                                  !.status = "paused", !.req = Reconciliation(c)])
    <3>1. PICK c \in unsure :
                Save([disk EXCEPT !.rec = [d \in Calls |-> IF d \in unsure THEN "unknown" ELSE @[d]],
                                  !.status = "paused", !.req = Reconciliation(c)])
      BY <2>3
    <3>2. PICK rec : rec = [d \in Calls |-> IF d \in unsure THEN "unknown" ELSE disk.rec[d]]
      OBVIOUS
    <3>3. rec \in [Calls -> Records] /\ \A d \in Calls : rec[d] = IF d \in unsure THEN "unknown" ELSE disk.rec[d]
      BY <1>4, <3>2 DEF LoopStates, Records
    <3>4. PICK s : s = [disk EXCEPT !.rec = rec, !.status = "paused", !.req = Reconciliation(c)]
      OBVIOUS
    <3>5. Save(s)
      BY <3>1, <3>2, <3>4
    <3>6. /\ s \in LoopStates /\ s.pending = disk.pending /\ s.told = disk.told /\ s.rec = rec
          /\ s.req = Reconciliation(c)
      BY <1>4, <3>3, <3>4 DEF LoopStates, Requests
    <3>7. \A d \in Calls : s.req = Reconciliation(d) => d = c
      BY <3>6 DEF Reconciliation
    <3>8. \A d \in Calls : d \in unsure => Unsure(d, s.rec[d])
      BY <3>3, <3>6 DEF Unsure
    <3>9. \A d \in Calls : d \notin unsure => s.rec[d] = disk.rec[d]
      BY <3>3, <3>6
    <3>10. \A d \in Calls : d \in unsure <=> Unsure(d, disk.rec[d])
      OBVIOUS
    <3>11. s.pending \subseteq Calls /\ c \in Calls /\ c \in unsure
      BY <3>6 DEF LoopStates
    <3> HIDE DEF unsure
    <3>12. ToldOnce(s)
      BY <1>4, <3>6, <3>7, <3>8, <3>9, <3>10, <3>11 DEF ToldOnce
    <3>13. QED BY <1>1, <1>2, <1>3, <2>1, <3>5, <3>6, <3>11, <3>12, SaveDoubts
  <2>4. QED BY <1>14, <2>2, <2>3 DEF Load
<1>15. ASSUME NEW s \in LoopStates, Resume(s), pc = "asking", Sure(s),
              vouched \subseteq vouched', vouched' \subseteq Guarded,
              \A c \in Calls : s.told[c] <= 2 /\ (s.told[c] = 2 => c \in vouched' /\ c \notin s.pending),
              \A c \in s.pending : s.told[c] = 1 => c \in vouched' /\ Settled(s.rec[c])
       PROVE  DoubtInv'
  <2>1. PICK t : t = [s EXCEPT !.status = "running", !.req = NoRequest] /\ Save(t)
    BY <1>15 DEF Resume
  <2>2. /\ t \in LoopStates /\ t.pending = s.pending /\ t.told = s.told /\ t.rec = s.rec
        /\ t.req = NoRequest
    BY <2>1 DEF LoopStates, Requests
  <2>3. ToldOnce(t)'
    BY <1>6, <1>15, <2>2 DEF ToldOnce
  <2>4. Sure(t)
    BY <1>15, <2>2 DEF Sure
  <2>5. pc' = "loop" /\ UNCHANGED batchVars
    BY <1>15 DEF Resume
  <2>6. QED BY <1>1, <1>15, <2>1, <2>2, <2>3, <2>4, <2>5, SaveDoubts
<1>16. ASSUME NEW s \in LoopStates, ToldOnce(s), Sure(s), Resume(s), pc = "asking", vouched' = vouched
       PROVE  DoubtInv'
  <2>1. \A c \in s.pending : s.told[c] = 1 => c \in vouched /\ Settled(s.rec[c])
    BY <1>16 DEF ToldOnce, Sure, LoopStates
  <2>2. QED BY <1>3, <1>15, <1>16, <2>1 DEF ToldOnce
<1>17. CASE Continue
  <2>1. Sure(mem) /\ pc = "asking" /\ vouched' = vouched /\ Resume(mem)
    BY <1>6, <1>17 DEF Continue, DoubtInv, LoopSure, humanVars
  <2>2. QED BY <1>5, <1>16, <2>1
<1>18. ASSUME NEW r \in Requests, Asked(r), r # NoRequest
       PROVE  pc = "asking" /\ disk = mem /\ mem.req = r
  BY <1>18 DEF Asked, DoubtInv, LoopSure
<1>19. ASSUME NEW g \in Gates, Allow(g) \/ Deny(g) PROVE DoubtInv'
  <2>1. /\ Approval(g) \in Requests /\ Approval(g) # NoRequest
        /\ \A c \in Calls : Approval(g) # Reconciliation(c)
    BY DEF Requests, Approval, NoRequest, Reconciliation
  <2>2. pc = "asking" /\ disk = mem /\ mem.req = Approval(g) /\ vouched' = vouched
    BY <1>18, <1>19, <2>1 DEF Allow, Deny
  <2>3. Sure(disk)
    BY <2>1, <2>2 DEF DoubtInv, LoopSure
  <2>4. PICK s : /\ s = [disk EXCEPT !.approved = @ \cup {g}] \/ s = [disk EXCEPT !.denied = @ \cup {g}]
                 /\ Resume(s)
    BY <1>19 DEF Allow, Deny
  <2>5. /\ s \in LoopStates /\ s.pending = disk.pending /\ s.told = disk.told /\ s.rec = disk.rec
        /\ s.req = disk.req
    BY <1>4, <2>4 DEF LoopStates
  <2>6. ToldOnce(s) /\ Sure(s)
    BY <1>4, <2>3, <2>5 DEF ToldOnce, Sure
  <2>7. QED BY <1>16, <2>2, <2>4, <2>5, <2>6
<1>20. ASSUME NEW c \in Calls, NEW r \in {"completed", "failed"}, Mark(c, r) PROVE DoubtInv'
  <2>1. Reconciliation(c) \in Requests /\ Reconciliation(c) # NoRequest
    BY <1>6 DEF Requests
  <2>2. pc = "asking" /\ disk = mem /\ disk.req = Reconciliation(c) /\ vouched' = vouched \cup {c}
    BY <1>18, <1>20, <2>1 DEF Mark
  <2>3. Unsure(c, disk.rec[c])
    BY <1>4, <2>2 DEF ToldOnce
  <2>4. \A d \in Calls : d # c => ~Unsure(d, disk.rec[d])
    BY <2>3 DEF OneDoubt
  <2>5. PICK s : s = [disk EXCEPT !.rec[c] = r] /\ Resume(s)
    BY <1>20 DEF Mark
  <2>6. /\ s \in LoopStates /\ s.pending = disk.pending /\ s.told = disk.told
        /\ \A d \in Calls : s.rec[d] = IF d = c THEN r ELSE disk.rec[d]
    BY <1>4, <2>5 DEF LoopStates, Records
  <2>7. Sure(s)
    BY <2>4, <2>6 DEF Sure, Unsure
  <2>8. vouched \subseteq vouched' /\ vouched' \subseteq Guarded
    BY <1>3, <2>2, <2>3 DEF Guarded, Unsure
  <2>9. \A d \in Calls : s.told[d] <= 2 /\ (s.told[d] = 2 => d \in vouched' /\ d \notin s.pending)
    BY <1>4, <2>6, <2>8 DEF ToldOnce
  <2>10. ASSUME NEW d \in s.pending, s.told[d] = 1 PROVE d \in vouched' /\ Settled(s.rec[d])
    <3>1. d \in Calls /\ d \in disk.pending /\ disk.told[d] = 1
      BY <2>6, <2>10 DEF LoopStates
    <3>2. CASE d = c
      BY <2>2, <2>6, <3>2 DEF Settled
    <3>3. CASE d # c
      <4>1. d \in vouched /\ Settled(disk.rec[d])
        BY <1>4, <2>4, <3>1, <3>3 DEF ToldOnce
      <4>2. QED BY <2>6, <2>8, <3>1, <3>3, <4>1
    <3>4. QED BY <3>2, <3>3
  <2>11. QED BY <1>15, <2>2, <2>5, <2>6, <2>7, <2>8, <2>9, <2>10
<1>21. CASE Abort
  <2>1. PICK s : s = [mem EXCEPT !.status = "failed", !.req = NoRequest] /\ Save(s)
    BY <1>21 DEF Abort
  <2>2. mem \in LoopStates /\ ToldOnce(mem) /\ NoRequest \in Requests
    BY <1>5, <1>21 DEF Abort, Requests
  <2>3. /\ s \in LoopStates /\ s.pending = mem.pending /\ s.told = mem.told /\ s.rec = mem.rec
        /\ s.req = NoRequest /\ s.status = "failed" /\ ToldOnce(mem)
    BY <2>1, <2>2 DEF LoopStates
  <2>4. ToldOnce(s)
    BY <1>6, <2>3 DEF ToldOnce
  <2>5. pc = "asking" /\ pc' = "ended" /\ vouched' = vouched /\ UNCHANGED batchVars
    BY <1>21 DEF Abort, LoopFrame, humanVars
  <2>6. QED BY <1>1, <1>2, <1>3, <2>1, <2>3, <2>4, <2>5, SaveDoubts
<1>22. CASE UNCHANGED vars
  BY <1>10, <1>22 DEF vars, batchVars, humanVars
<1>23. CASE BatchStep
  BY <1>1, <1>23, PrepareDoubts, InvokeDoubts, LaunchDoubts, MergeDoubts DEF BatchStep, Batches
<1>24. CASE \E c \in Calls : Invoke("left", c)
  BY <1>24, InvokeDoubts DEF Batches
<1>25. CASE Human
  BY <1>12, <1>17, <1>19, <1>20, <1>21, <1>25 DEF Human
<1>26. QED
  BY <1>7, <1>8, <1>9, <1>11, <1>12, <1>13, <1>14, <1>22, <1>23, <1>24, <1>25 DEF Next

\* At first there is no doubt.
LEMMA InitDoubts == Init => DoubtInv
<1> SUFFICES ASSUME Init PROVE DoubtInv
  OBVIOUS
<1>1. /\ pc = "loop" /\ mem = FirstLoop /\ disk = FirstLoop /\ cache.main = FirstLoop
      /\ cache.left = NoLoop /\ chunk.main = {} /\ chunk.left = {} /\ vouched = {}
  BY DEF Init, Batches
<1>2. ToldOnce(FirstLoop) /\ Sure(FirstLoop)
  BY <1>1 DEF ToldOnce, Sure, FirstLoop, Unsure, NoRequest, Reconciliation
<1>3. StatesToldOnce
  BY <1>1, <1>2 DEF StatesToldOnce, Batches
<1>4. GuardedAlone /\ LoopSure
  BY <1>1, <1>2 DEF GuardedAlone, LoopSure, FirstLoop
<1>5. QED BY <1>3, <1>4, InitCovers DEF DoubtInv

\* DoubtInv is an invariant of turns in which doubts come one at a time.
LEMMA Undoubted == Spec /\ []OneDoubt => []DoubtInv
<1>1. DoubtInv /\ OneDoubt /\ [Next]_vars => DoubtInv'
  BY DoubtStep
<1>2. QED
  BY <1>1, InitDoubts, PTL DEF Spec

\* CallsAnswered: a turn in which doubts come one at a time tells the model a result of
\* every call it made before it completes, and a second result only of a call whose
\* outcome a human has settled.
THEOREM CallsToldOnce == Spec /\ []OneDoubt => []CallsAnswered
<1>1. DoubtInv => OneResultPerCall
  <2> SUFFICES ASSUME DoubtInv, mem # NoLoop, NEW c \in Calls
               PROVE  mem.told[c] <= (IF c \in vouched THEN 2 ELSE 1)
    BY DEF OneResultPerCall
  <2>1. mem.told[c] \in Nat /\ ToldOnce(mem)
    BY DEF DoubtInv, StatesToldOnce, CoverInv, TypeInv, Shape, LoopStates
  <2>2. mem.told[c] <= 2 /\ (mem.told[c] = 2 => c \in vouched)
    BY <2>1 DEF ToldOnce
  <2>3. QED BY <2>1, <2>2
<1>2. EveryCallAnswered /\ OneResultPerCall => CallsAnswered
  BY DEF CallsAnswered
<1>3. QED
  BY <1>1, <1>2, Undoubted, CompletedTurnsAnswerEveryCall, PTL

\* ReconciledBeforeEnd: a turn in which doubts come one at a time does not complete while
\* the outcome of a call that must not be replayed is unknown, whatever is cancelled, lost
\* in a crash or left behind.
THEOREM DoubtsAreReconciled == Spec /\ []OneDoubt => []ReconciledBeforeEnd
<1>1. DoubtInv => ReconciledBeforeEnd
  BY DEF DoubtInv, LoopSure, Sure, Unsure, ReconciledBeforeEnd
<1>2. QED
  BY <1>1, Undoubted, PTL

-----------------------------------------------------------------------------
(* The durable records of ToolExecution implement CallLedger, if the calls   *)
(* left behind by a raise have ended when the turn is resumed.               *)


-----------------------------------------------------------------------------
(* What IInv does not say of the requests and of the calls with a result.    *)

\* A reconciliation is asked for only of a call that is recorded as unknown, and no
\* call with a result is still recorded as started.
RequestInv ==
    /\ pc \in {"loop", "batch"} => disk.req = NoRequest
    /\ \A c \in Calls : disk.req = Reconciliation(c) => c \in Guarded /\ disk.rec[c] = "unknown"
    /\ \A c \in Guarded : stage.main[c] \in {"answered", "ended"} => disk.rec[c] # "started"

LedgerInv == IInv /\ RequestInv

\* The variables of CallLedger, and a step of it or a stutter.
ledgerBar == [c \in Guarded |-> disk.rec[c]]
actedBar == [c \in Guarded |-> runs[c]]
LedgerStep == Ledger!LedgerNext \/ UNCHANGED <<ledgerBar, actedBar>>

\* The changes of a record that CallLedger has a step for.
MayFollow(old, new) ==
    \/ new = old
    \/ old = "none" /\ new = "prepared"
    \/ old = "prepared" /\ new = "started"
    \/ old = "started" /\ new \in {"completed", "failed", "unknown"}
    \/ old = "unknown" /\ new \in {"completed", "failed"}

\* One call at most has another record, which may follow the one it had.
LEMMA OneNote ==
  ASSUME NEW c \in Calls, NEW r, c \in Guarded => MayFollow(disk.rec[c], r),
         \A d \in Calls : disk'.rec[d] = disk.rec[d] \/ (d = c /\ disk'.rec[d] = r),
         \A d \in Guarded : runs'[d] = runs[d]
  PROVE  LedgerStep
<1>1. actedBar' = actedBar
  BY DEF actedBar
<1>2. CASE \A d \in Guarded : disk'.rec[d] = disk.rec[d]
  BY <1>1, <1>2 DEF LedgerStep, ledgerBar
<1>3. CASE \E d \in Guarded : disk'.rec[d] # disk.rec[d]
  <2>1. /\ c \in Guarded /\ disk'.rec[c] = r /\ r # disk.rec[c] /\ MayFollow(disk.rec[c], r)
        /\ \A d \in Guarded : d # c => disk'.rec[d] = disk.rec[d]
    BY <1>3 DEF Guarded
  <2>2. ledgerBar' = [ledgerBar EXCEPT ![c] = r] /\ ledgerBar[c] = disk.rec[c]
    BY <2>1 DEF ledgerBar
  <2>3. ASSUME NEW from, disk.rec[c] \in from PROVE Ledger!Note(c, from, r)
    BY <1>1, <2>2, <2>3 DEF Ledger!Note, ledgerBar, actedBar, Guarded
  <2>4. Ledger!Intend(c) \/ Ledger!Begin(c) \/ Ledger!Conclude(c) \/ Ledger!Settle(c)
    <3>1. CASE disk.rec[c] = "none" /\ r = "prepared"
      BY <2>3, <3>1 DEF Ledger!Intend
    <3>2. CASE disk.rec[c] = "prepared" /\ r = "started"
      BY <2>3, <3>2 DEF Ledger!Begin
    <3>3. CASE disk.rec[c] = "started" /\ r \in {"completed", "failed", "unknown"}
      BY <2>3, <3>3 DEF Ledger!Conclude, Ledger!Known
    <3>4. CASE disk.rec[c] = "unknown" /\ r \in {"completed", "failed"}
      BY <2>3, <3>4 DEF Ledger!Settle, Ledger!Known
    <3>5. QED BY <2>1, <3>1, <3>2, <3>3, <3>4 DEF MayFollow
  <2>5. QED BY <2>1, <2>4 DEF LedgerStep, Ledger!LedgerNext, Guarded
<1>4. QED
  BY <1>2, <1>3

\* Saving, or failing to save, a record of the loop's batch.
LEMMA PersistWrites ==
  ASSUME IInv, pc = "batch", NEW c \in Calls, NEW r \in Records, NEW label \in Stages,
         Persist("main", c, r, label)
  PROVE  /\ disk'.req = disk.req
         /\ \A d \in Calls : disk'.rec[d] = disk.rec[d] \/ (d = c /\ disk'.rec[d] = r)
         /\ \/ /\ disk'.rec[c] = r
               /\ \A d \in Calls : stage'.main[d] = IF d = c THEN label ELSE stage.main[d]
            \/ pc' = "down" /\ \A d \in Calls : stage'.main[d] = "idle"
<1>1. cache.main = disk /\ disk \in LoopStates
  BY DEF IInv, LoopInv, TypeInv, Tallies
<1> DEFINE w == WithRecord("main", c, r)
<1>2. w.req = disk.req /\ \A d \in Calls : w.rec[d] = IF d = c THEN r ELSE disk.rec[d]
  <2>1. w = [disk EXCEPT !.rec[c] = r]
    BY <1>1 DEF WithRecord
  <2> HIDE DEF w
  <2>2. QED BY <1>1, <2>1 DEF LoopStates
<1>3. CASE Record("main", c, r, label)
  <2>1. disk' = w /\ stage' = [stage EXCEPT !.main[c] = label]
    BY <1>3 DEF Record
  <2>2. \A d \in Calls : stage'.main[d] = IF d = c THEN label ELSE stage.main[d]
    BY <2>1 DEF IInv, TypeInv, Shape, Batches
  <2> HIDE DEF w
  <2>3. QED BY <1>2, <2>1, <2>2
<1>4. CASE RecordFails("main", c, r)
  <2>1. PICK s : disk' \in {disk, w} /\ Raise("main", c, s)
    BY <1>4 DEF RecordFails
  <2>2. pc' = "down" /\ \A d \in Calls : stage'.main[d] = "idle"
    BY <2>1 DEF Raise, Clear, IInv, TypeInv, Shape, Batches, Resting
  <2> HIDE DEF w
  <2>3. QED BY <1>2, <2>1, <2>2
<1>5. QED
  BY <1>3, <1>4 DEF Persist

\* A call of the loop's batch takes record r and stage label, or raises.
LEMMA BatchNote ==
  ASSUME IInv, RequestInv, pc = "batch", NEW c \in Calls, NEW r \in Records,
         c \in Guarded => MayFollow(disk.rec[c], r), \A d \in Guarded : runs'[d] = runs[d],
         disk'.req = disk.req,
         \A d \in Calls : disk'.rec[d] = disk.rec[d] \/ (d = c /\ disk'.rec[d] = r),
         NEW label \in Stages, label \in {"answered", "ended"} => r # "started",
         \/ /\ disk'.rec[c] = r
            /\ \A d \in Calls : stage'.main[d] = IF d = c THEN label ELSE stage.main[d]
         \/ pc' = "down" /\ \A d \in Calls : stage'.main[d] = "idle"
  PROVE  LedgerStep /\ RequestInv'
<1>1. LedgerStep
  BY OneNote
<1>2. disk'.req = NoRequest /\ \A d \in Calls : disk'.req # Reconciliation(d)
  BY DEF RequestInv, NoRequest, Reconciliation
<1>3. \A d \in Guarded : stage'.main[d] \in {"answered", "ended"} => disk'.rec[d] # "started"
  BY DEF RequestInv, Guarded
<1>4. QED
  BY <1>1, <1>2, <1>3 DEF RequestInv

\* Preparing a call is a step of the ledger, or none.
LEMMA PrepareNotes ==
  ASSUME IInv, RequestInv, NEW c \in Calls, Prepare(c)
  PROVE  LedgerStep /\ RequestInv'
<1>1. /\ pc = "batch" /\ stage.main[c] = "new"
      /\ mem.rec[c] = disk.rec[c] /\ disk.rec[c] \in Records /\ LoopFrame
  BY DEF Prepare, PrepareRecorded, PrepareRefused, PrepareGated, PrepareReady, Preparing, In,
         IInv, LoopInv, TypeInv, Tallies, LoopStates
<1>2. \A d \in Guarded : runs'[d] = runs[d]
  BY <1>1 DEF LoopFrame
<1>3. ASSUME NEW label \in Stages, Answer(c, label), MayPrepare(c) PROVE LedgerStep /\ RequestInv'
  <2>1. /\ disk' = disk /\ MayFollow(disk.rec[c], disk.rec[c])
        /\ \A d \in Calls : stage'.main[d] = IF d = c THEN label ELSE stage.main[d]
    BY <1>3 DEF Answer, MayFollow, IInv, TypeInv, Shape, Batches
  <2>2. c \in Guarded => disk.rec[c] # "started"
    BY <1>1, <1>3 DEF MayPrepare, Unsure, Guarded
  <2>3. LedgerStep
    BY <1>2, <2>1, OneNote
  <2>4. \A d \in Guarded : stage'.main[d] \in {"answered", "ended"} => disk'.rec[d] # "started"
    BY <2>1, <2>2 DEF RequestInv, Guarded
  <2>5. QED BY <1>1, <2>1, <2>3, <2>4 DEF RequestInv
<1>4. CASE PrepareRecorded(c)
  <2> DEFINE r == IF Settled(mem.rec[c]) THEN mem.rec[c] ELSE "unknown"
  <2>1. r \in Records /\ r # "started" /\ (c \in Guarded => MayFollow(disk.rec[c], r))
    BY <1>1, <1>4 DEF PrepareRecorded, MayPrepare, Unsure, Settled, MayFollow, Records
  <2>2. Persist("main", c, r, "answered") /\ "answered" \in Stages
    BY <1>4 DEF PrepareRecorded, Stages
  <2> HIDE DEF r
  <2>3. QED BY <1>1, <1>2, <2>1, <2>2, PersistWrites, BatchNote
<1>5. CASE PrepareReady(c)
  <2>1. c \in Guarded => MayFollow(disk.rec[c], "prepared")
    BY <1>1, <1>5 DEF PrepareReady, MayPrepare, Unsure, Settled, MayFollow, Records, Guarded
  <2>2. Persist("main", c, "prepared", "ready") /\ "ready" \in Stages /\ "prepared" \in Records
    BY <1>5 DEF PrepareReady, Stages, Records
  <2>3. QED BY <1>1, <1>2, <2>1, <2>2, PersistWrites, BatchNote
<1>6. CASE PrepareRefused(c) \/ PrepareGated(c)
  BY <1>3, <1>6 DEF PrepareRefused, PrepareGated, Stages
<1>7. QED
  BY <1>4, <1>5, <1>6 DEF Prepare

\* So is each step of a call of the batch that is under way.
LEMMA InvokeNotes ==
  ASSUME IInv, RequestInv, NEW c \in Calls, Invoke("main", c)
  PROVE  LedgerStep /\ RequestInv'
<1>1. stage.main[c] \in UnderWay
  BY DEF Invoke, StartCall, StartCancelled, CallRunner, RunnerEnds, RunnerStopped, Invoking, UnderWay
<1>2. pc = "batch"
  BY <1>1 DEF IInv, TypeInv, Shape, Resting, UnderWay
<1>3. disk.rec[c] = RecordAt(stage.main[c]) /\ cache.main = disk /\ disk \in LoopStates
  BY <1>1, <1>2 DEF IInv, RecordInv, LoopInv, TypeInv, Tallies
<1>4. CASE StartCall("main", c)
  <2>1. Persist("main", c, "started", "started") /\ stage.main[c] = "ready" /\ runs' = runs
    BY <1>4 DEF StartCall, Invoking, LoopFrame
  <2>2. MayFollow(disk.rec[c], "started") /\ "started" \in Records /\ "started" \in Stages
    BY <1>3, <2>1 DEF RecordAt, MayFollow, Records, Stages
  <2>3. QED BY <1>2, <2>1, <2>2, PersistWrites, BatchNote
<1>5. ASSUME NEW r \in Records, MayFollow(disk.rec[c], r), NEW s, Raise("main", c, s),
             disk' \in {disk, WithRecord("main", c, r)}, runs' = runs
      PROVE  LedgerStep /\ RequestInv'
  <2> DEFINE w == WithRecord("main", c, r)
  <2>1. w.req = disk.req /\ \A d \in Calls : w.rec[d] = IF d = c THEN r ELSE disk.rec[d]
    <3>1. w = [disk EXCEPT !.rec[c] = r]
      BY <1>3 DEF WithRecord
    <3> HIDE DEF w
    <3>2. QED BY <1>3, <3>1 DEF LoopStates
  <2>2. disk' \in {disk, w}
    BY <1>5
  <2> HIDE DEF w
  <2>3. /\ disk'.req = disk.req
        /\ \A d \in Calls : disk'.rec[d] = disk.rec[d] \/ (d = c /\ disk'.rec[d] = r)
    BY <2>1, <2>2
  <2>4. pc' = "down" /\ \A d \in Calls : stage'.main[d] = "idle"
    BY <1>5 DEF Raise, Clear, IInv, TypeInv, Shape, Batches, Resting
  <2>5. "idle" \in Stages
    BY DEF Stages
  <2>6. QED BY <1>2, <1>5, <2>3, <2>4, <2>5, BatchNote
<1>6. CASE StartCancelled("main", c)
  <2>1. stage.main[c] = "ready" /\ runs' = runs
    BY <1>6 DEF StartCancelled, Invoking, LoopFrame
  <2>2. MayFollow(disk.rec[c], "started") /\ "started" \in Records
    BY <1>3, <2>1 DEF RecordAt, MayFollow, Records
  <2>3. QED BY <1>5, <1>6, <2>1, <2>2 DEF StartCancelled
<1>7. CASE CallRunner("main", c)
  <2>1. /\ disk' = disk /\ stage.main[c] = "started" /\ pc' = pc
        /\ stage' = [stage EXCEPT !["main"][c] = "running"]
        /\ runs' = [runs EXCEPT ![c] = @ + 1]
    BY <1>7 DEF CallRunner, Invoking
  <2>2. \A d \in Calls : stage'.main[d] = IF d = c THEN "running" ELSE stage.main[d]
    BY <2>1 DEF IInv, TypeInv, Shape, Batches
  <2>3. RequestInv'
    BY <2>1, <2>2 DEF RequestInv, Guarded
  <2>4. CASE c \in Guarded
    <3>1. disk.rec[c] = "started" /\ runs[c] = 0
      BY <1>1, <1>3, <2>1, <2>4 DEF RecordAt, IInv, RecordInv
    <3>2. actedBar' = [actedBar EXCEPT ![c] = 1] /\ ledgerBar' = ledgerBar
      <4>1. \A d \in Guarded : runs'[d] = IF d = c THEN 1 ELSE runs[d]
        BY <2>1, <3>1 DEF IInv, TypeInv, Tallies, Guarded
      <4>2. QED BY <2>1, <4>1 DEF actedBar, ledgerBar
    <3>3. Ledger!Act(c)
      BY <2>4, <3>1, <3>2 DEF Ledger!Act, actedBar, ledgerBar, Guarded
    <3>4. QED BY <2>3, <2>4, <3>3 DEF LedgerStep, Ledger!LedgerNext, Guarded
  <2>5. CASE c \notin Guarded
    <3>1. actedBar' = actedBar /\ ledgerBar' = ledgerBar
      BY <2>1, <2>5 DEF actedBar, ledgerBar, IInv, TypeInv, Tallies, Guarded
    <3>2. QED BY <2>3, <3>1 DEF LedgerStep
  <2>6. QED BY <2>4, <2>5
<1>8. ASSUME NEW r \in Records, RunnerEnds("main", c, r) PROVE LedgerStep /\ RequestInv'
  <2>1. /\ Persist("main", c, r, "ended") /\ stage.main[c] = "running" /\ runs' = runs
        /\ r \in {"completed", "failed", "unknown"}
    BY <1>8 DEF RunnerEnds, Invoking, LoopFrame
  <2>2. MayFollow(disk.rec[c], r) /\ "ended" \in Stages
    BY <1>3, <2>1 DEF RecordAt, MayFollow, Stages
  <2>3. QED BY <1>2, <2>1, <2>2, PersistWrites, BatchNote
<1>9. CASE RunnerStopped("main", c)
  <2>1. stage.main[c] \in {"started", "running"} /\ runs' = runs /\ "failed" \in Records
    BY <1>9 DEF RunnerStopped, LoopFrame, Records
  <2>2. MayFollow(disk.rec[c], "failed")
    BY <1>3, <2>1 DEF RecordAt, MayFollow
  <2>3. \E s : Raise("main", c, s) /\ disk' \in {disk, WithRecord("main", c, "failed")}
    BY <1>9 DEF RunnerStopped, RecordFails
  <2>4. QED BY <1>5, <2>1, <2>2, <2>3
<1>10. QED
  BY <1>4, <1>6, <1>7, <1>8, <1>9 DEF Invoke

\* The calls left behind may be replayed: they are no concern of the ledger.
LEMMA LeftNotes ==
  ASSUME IInv, RequestInv, NEW c \in Calls, Invoke("left", c)
  PROVE  LedgerStep /\ RequestInv'
<1>1. stage["left"][c] \in UnderWay
  BY DEF Invoke, StartCall, StartCancelled, CallRunner, RunnerEnds, RunnerStopped, Invoking, UnderWay
<1>2. /\ c \in Left /\ pc = "down" /\ c \notin Guarded
      /\ cache.left \in LoopStates /\ cache.left.req = disk.req
      /\ \A d \in Guarded : cache.left.rec[d] = disk.rec[d]
      /\ stage.main = Resting
  <2>1. c \in Left
    BY <1>1 DEF Left, In
  <2>2. QED BY <2>1 DEF IInv, LeftInv, ChunkInv, LoopInv, TypeInv, Shape, Guarded, Batches
<1>3. ASSUME NEW r \in Records
      PROVE  /\ WithRecord("left", c, r).req = disk.req
             /\ \A d \in Guarded : WithRecord("left", c, r).rec[d] = disk.rec[d]
  <2> DEFINE w == WithRecord("left", c, r)
  <2>1. w = [cache.left EXCEPT !.rec[c] = r]
    BY DEF WithRecord
  <2> HIDE DEF w
  <2>2. w.req = disk.req /\ \A d \in Guarded : w.rec[d] = disk.rec[d]
    BY <1>2, <2>1 DEF LoopStates, Guarded
  <2>3. QED BY <2>2 DEF w
<1>4. ASSUME NEW r \in Records, disk' \in {disk, WithRecord("left", c, r)}, pc' = "down",
             stage'.main = stage.main, \A d \in Guarded : runs'[d] = runs[d]
      PROVE  LedgerStep /\ RequestInv'
  <2>1. disk'.req = disk.req /\ \A d \in Guarded : disk'.rec[d] = disk.rec[d]
    BY <1>3, <1>4
  <2>2. LedgerStep
    BY <1>4, <2>1 DEF LedgerStep, ledgerBar, actedBar
  <2>3. RequestInv'
    BY <1>4, <2>1 DEF RequestInv, Guarded
  <2>4. QED BY <2>2, <2>3
<1>5. ASSUME NEW s, Raise("left", c, s) PROVE pc' = "down" /\ stage'.main = stage.main
  BY <1>2, <1>5 DEF Raise, IInv, TypeInv, Shape, Batches
<1>6. ASSUME NEW r \in Records, NEW label, Persist("left", c, r, label), LoopFrame
      PROVE  LedgerStep /\ RequestInv'
  <2>1. disk' \in {disk, WithRecord("left", c, r)}
    BY <1>6 DEF Persist, Record, RecordFails
  <2>2. CASE Record("left", c, r, label)
    <3>1. pc' = "down" /\ stage'.main = stage.main
      BY <1>2, <2>2 DEF Record, IInv, TypeInv, Shape, Batches
    <3>2. QED BY <1>4, <1>6, <2>1, <3>1 DEF LoopFrame
  <2>3. CASE RecordFails("left", c, r)
    <3>1. pc' = "down" /\ stage'.main = stage.main
      BY <1>5, <2>3 DEF RecordFails
    <3>2. QED BY <1>4, <1>6, <2>1, <3>1 DEF LoopFrame
  <2>4. QED BY <1>6, <2>2, <2>3 DEF Persist
<1>7. CASE StartCall("left", c) \/ \E r \in Records : RunnerEnds("left", c, r)
  BY <1>6, <1>7 DEF StartCall, RunnerEnds, Records
<1>8. CASE StartCancelled("left", c)
  BY <1>4, <1>5, <1>8 DEF StartCancelled, LoopFrame, Records
<1>9. CASE CallRunner("left", c)
  <2>1. /\ disk' = disk /\ pc' = "down" /\ stage'.main = stage.main /\ "started" \in Records
    BY <1>2, <1>9 DEF CallRunner, IInv, TypeInv, Shape, Batches, Records
  <2>2. \A d \in Guarded : runs'[d] = runs[d]
    BY <1>2, <1>9 DEF CallRunner, IInv, TypeInv, Tallies, Guarded
  <2>3. QED BY <1>4, <2>1, <2>2
<1>10. CASE RunnerStopped("left", c)
  <2>1. \E s : Raise("left", c, s) /\ disk' \in {disk, WithRecord("left", c, "failed")}
    BY <1>10 DEF RunnerStopped, RecordFails
  <2>2. QED BY <1>4, <1>5, <1>10, <2>1 DEF RunnerStopped, LoopFrame, Records
<1>11. QED
  BY <1>7, <1>8, <1>9, <1>10 DEF Invoke

\* The results of a batch change no record.
LEMMA MergeNotes ==
  ASSUME IInv, RequestInv, Merge
  PROVE  LedgerStep /\ RequestInv'
<1> DEFINE s == [mem EXCEPT !.rec = cache.main.rec, !.pending = StillPending,
                     !.told = [c \in Calls |-> IF c \in Results THEN @[c] + 1 ELSE @[c]]]
           asked == Approval(NextGate(Unresolved(Min(Asking))))
           Pause(r) == [s EXCEPT !.status = "paused", !.req = r]
<1>1. /\ pc = "batch"
      /\ disk' = IF Asking # {} THEN Pause(asked)
                 ELSE IF Doubtful # {} THEN Pause(Reconciliation(Min(Doubtful))) ELSE s
      /\ runs' = runs /\ Clear
  BY DEF Merge, LoopFrame
<1>2. mem \in LoopStates /\ cache.main = disk /\ disk \in LoopStates /\ mem.req = NoRequest
  BY <1>1 DEF IInv, LoopInv, RequestInv, TypeInv, Shape, Tallies
<1>3. s.rec = disk.rec /\ s.req = NoRequest
  BY <1>2 DEF LoopStates
<1>4. \A r : Pause(r).rec = disk.rec /\ Pause(r).req = r
  BY <1>2 DEF LoopStates
<1>5. \A c \in Calls : stage'.main[c] = "idle"
  BY <1>1 DEF Clear, IInv, TypeInv, Shape, Batches, Resting
<1> HIDE DEF s, Pause
<1>6. disk'.rec = disk.rec
  BY <1>1, <1>3, <1>4
<1>7. LedgerStep
  BY <1>1, <1>6 DEF LedgerStep, ledgerBar, actedBar
<1>8. ASSUME NEW c \in Calls, disk'.req = Reconciliation(c)
      PROVE  c \in Guarded /\ disk'.rec[c] = "unknown"
  <2>1. asked # Reconciliation(c) /\ NoRequest # Reconciliation(c)
    BY DEF Approval, Reconciliation, NoRequest
  <2>2. Asking = {} /\ Doubtful # {} /\ disk'.req = Reconciliation(Min(Doubtful))
    BY <1>1, <1>3, <1>4, <1>8, <2>1
  <2>3. c = Min(Doubtful)
    BY <1>8, <2>2 DEF Reconciliation
  <2>4. Doubtful \in SUBSET Nat
    BY ToolAssumption DEF Doubtful, Results, In, Calls
  <2>5. c \in Doubtful
    BY <2>2, <2>3, <2>4, MinIn
  <2>6. c \in Guarded /\ disk.rec[c] \in {"started", "unknown"} /\ stage.main[c] \in {"answered", "ended"}
    BY <1>2, <2>5 DEF Doubtful, Results, In, Unsure, Guarded
  <2>7. QED BY <1>6, <2>6 DEF RequestInv
<1>9. (pc' = "paused" \/ disk'.req = NoRequest) /\ pc' # "batch"
  <2>1. disk'.status = "paused" \/ disk' = s
    BY <1>1, <1>2 DEF Pause, s, LoopStates
  <2>2. QED BY <1>3, <2>1 DEF Merge
<1>10. QED
  BY <1>5, <1>6, <1>7, <1>8, <1>9 DEF RequestInv, Guarded

\* A step that saves a state of the loop, with no call in a batch.
LEMMA SaveNotes ==
  ASSUME NEW c \in Calls, NEW r, c \in Guarded => MayFollow(disk.rec[c], r),
         \A d \in Calls : disk'.rec[d] = disk.rec[d] \/ (d = c /\ disk'.rec[d] = r),
         runs' = runs, disk'.req = NoRequest, \A d \in Calls : stage'.main[d] = "idle"
  PROVE  LedgerStep /\ RequestInv'
<1>1. LedgerStep
  BY OneNote
<1>2. \A d \in Calls : NoRequest # Reconciliation(d)
  BY DEF NoRequest, Reconciliation
<1>3. QED
  BY <1>1, <1>2 DEF RequestInv, Guarded

\* A step that changes no record and no request.
LEMMA QuietNotes ==
  ASSUME RequestInv, runs' = runs, disk'.rec = disk.rec, disk'.req = disk.req,
         pc' \in {"loop", "batch"} => disk'.req = NoRequest,
         \A c \in Calls : stage'.main[c] \in {"answered", "ended"} =>
                              stage'.main[c] = stage.main[c] \/ disk.rec[c] # "started"
  PROVE  LedgerStep /\ RequestInv'
<1>1. LedgerStep
  BY DEF LedgerStep, ledgerBar, actedBar
<1>2. RequestInv'
  BY DEF RequestInv, Guarded
<1>3. QED
  BY <1>1, <1>2

\* Every step is a step of the ledger, or none.
LEMMA RefinementStep ==
  ASSUME LeftCallsEnd, LedgerInv, [Next]_vars
  PROVE  LedgerStep /\ RequestInv'
<1> USE DEF LedgerInv
<1>1. /\ disk \in LoopStates /\ (pc \in {"loop", "asking"} => mem = disk)
      /\ (pc # "batch" => stage.main = Resting /\ \A c \in Calls : stage.main[c] = "idle")
  BY DEF IInv, TypeInv, Tallies, LoopInv, Resting
<1>2. \A c \in Calls : MayFollow(disk.rec[c], disk.rec[c])
  BY DEF MayFollow
<1>3. ASSUME NEW k \in 1..N, Schedule(k) PROVE LedgerStep /\ RequestInv'
  <2> DEFINE s == [mem EXCEPT !.sched = @ + k, !.pending = (mem.sched + 1)..(mem.sched + k)]
  <2>1. disk' = s /\ runs' = runs /\ stage' = stage /\ pc = "loop" /\ pc' = pc
    BY <1>3 DEF Schedule, Running, Save, LoopFrame, batchVars
  <2>2. s.rec = disk.rec /\ s.req = disk.req
    BY <1>1, <2>1 DEF LoopStates
  <2> HIDE DEF s
  <2>3. QED BY <2>1, <2>2, QuietNotes DEF RequestInv
<1>4. ASSUME NEW v \in {"completed", "failed"}, EndTurn(v) PROVE LedgerStep /\ RequestInv'
  <2> DEFINE s == [mem EXCEPT !.status = v]
  <2>1. disk' = s /\ runs' = runs /\ stage' = stage /\ pc = "loop" /\ pc' = "ended"
    BY <1>4 DEF EndTurn, Running, Save, LoopFrame, batchVars
  <2>2. s.rec = disk.rec /\ s.req = disk.req
    BY <1>1, <2>1 DEF LoopStates
  <2> HIDE DEF s
  <2>3. QED BY <2>1, <2>2, QuietNotes
<1>5. ASSUME NEW held \in SUBSET Calls, BeginBatch(held) PROVE LedgerStep /\ RequestInv'
  <2>1. disk' = disk /\ runs' = runs /\ pc = "loop" /\ \A c \in held : disk.rec[c] = "none"
    BY <1>1, <1>5 DEF BeginBatch, LoopFrame
  <2>2. \A c \in Calls : stage'.main[c] \in {"answered", "ended"} => c \in held
    BY <1>5 DEF BeginBatch, IInv, TypeInv, Shape, Batches
  <2>3. QED BY <2>1, <2>2, QuietNotes DEF RequestInv
<1>6. ASSUME UNCHANGED <<pc, disk, stage, runs>> PROVE LedgerStep /\ RequestInv'
  BY <1>6, QuietNotes DEF RequestInv
<1>7. ASSUME UNCHANGED <<disk, runs>>, pc' \notin {"loop", "batch"},
             \A c \in Calls : stage'.main[c] = "idle"
      PROVE  LedgerStep /\ RequestInv'
  BY <1>7, QuietNotes
<1>8. CASE Cancel \/ UNCHANGED vars \/ \E k \in SUBSET Calls : Launch(k)
  BY <1>6, <1>8 DEF Cancel, Launch, vars, LoopFrame, batchVars
<1>9. CASE Interrupt \/ AnswerRejected
  BY <1>1, <1>7, <1>9 DEF Interrupt, AnswerRejected, LoopFrame, batchVars
<1>10. CASE Crash
  <2>1. \A c \in Calls : stage'.main[c] = "idle"
    BY <1>10 DEF Crash, Batches, Resting
  <2>2. QED BY <1>7, <1>10, <2>1 DEF Crash, LoopFrame, IInv, TypeInv, Shape
<1>11. CASE Load
  <2>1. /\ pc \in {"paused", "down"} /\ pc' = "asking" /\ runs' = runs /\ stage' = stage
    BY <1>11 DEF Load, LoopFrame, batchVars
  <2>2. CASE disk' = disk
    BY <1>1, <1>7, <2>1, <2>2
  <2>3. ASSUME NEW c \in Calls, Unsure(c, disk.rec[c]), NEW U, U = {d \in Calls : Unsure(d, disk.rec[d])},
               NEW s, s = [disk EXCEPT !.rec = [d \in Calls |-> IF d \in U THEN "unknown" ELSE @[d]],
                                       !.status = "paused", !.req = Reconciliation(c)],
               Save(s)
        PROVE  LedgerStep /\ RequestInv'
    <3>1. /\ s.req = Reconciliation(c)
          /\ \A d \in Calls : s.rec[d] = IF d \in U THEN "unknown" ELSE disk.rec[d]
      BY <1>1, <2>3 DEF LoopStates
    <3>2. disk' = s
      BY <2>3 DEF Save
    <3>3. \A d \in Guarded : disk'.rec[d] = IF disk.rec[d] = "started" THEN "unknown" ELSE disk.rec[d]
      BY <2>3, <3>1, <3>2 DEF Unsure, Guarded
    <3>4. Ledger!Doubt
      BY <2>1, <3>3 DEF Ledger!Doubt, ledgerBar, actedBar, Guarded
    <3>5. \A d \in Calls : disk'.req = Reconciliation(d) => d = c
      BY <3>1, <3>2 DEF Reconciliation
    <3>6. c \in Guarded /\ disk'.rec[c] = "unknown"
      BY <2>3, <3>1, <3>2 DEF Unsure, Guarded
    <3>7. RequestInv'
      BY <1>1, <2>1, <3>5, <3>6 DEF RequestInv, Guarded
    <3>8. QED BY <3>4, <3>7 DEF LedgerStep, Ledger!LedgerNext
  <2>4. QED BY <1>11, <2>2, <2>3 DEF Load
<1>12. ASSUME NEW c \in Calls, NEW r, c \in Guarded => MayFollow(disk.rec[c], r),
              NEW s \in LoopStates, Resume(s), pc = "asking",
              \A d \in Calls : s.rec[d] = disk.rec[d] \/ (d = c /\ s.rec[d] = r)
       PROVE  LedgerStep /\ RequestInv'
  <2> DEFINE t == [s EXCEPT !.status = "running", !.req = NoRequest]
  <2>1. disk' = t /\ runs' = runs /\ stage' = stage
    BY <1>12 DEF Resume, Save, batchVars
  <2>2. t.rec = s.rec /\ t.req = NoRequest
    BY DEF LoopStates
  <2> HIDE DEF t
  <2>3. QED BY <1>1, <1>12, <2>1, <2>2, SaveNotes
<1>13. CASE \E g \in Gates : Allow(g) \/ Deny(g)
  <2>1. PICK s \in LoopStates : Resume(s) /\ pc = "asking" /\ s.rec = disk.rec
    <3>1. PICK g \in Gates : Allow(g) \/ Deny(g)
      BY <1>13
    <3>2. /\ [disk EXCEPT !.approved = @ \cup {g}] \in LoopStates
          /\ [disk EXCEPT !.approved = @ \cup {g}].rec = disk.rec
          /\ [disk EXCEPT !.denied = @ \cup {g}] \in LoopStates
          /\ [disk EXCEPT !.denied = @ \cup {g}].rec = disk.rec
      BY <1>1 DEF LoopStates
    <3>3. QED BY <3>1, <3>2 DEF Allow, Deny, Asked
  <2>2. \E c \in Calls : TRUE
    BY <1>13, ToolAssumption DEF Gates
  <2>3. QED BY <1>2, <1>12, <2>1, <2>2
<1>14. ASSUME NEW c \in Calls, NEW r \in {"completed", "failed"}, Mark(c, r)
       PROVE  LedgerStep /\ RequestInv'
  <2> DEFINE s == [disk EXCEPT !.rec[c] = r]
  <2>1. Resume(s) /\ pc = "asking" /\ disk.rec[c] = "unknown"
    BY <1>14 DEF Mark, Asked, RequestInv
  <2>2. s \in LoopStates /\ \A d \in Calls : s.rec[d] = disk.rec[d] \/ (d = c /\ s.rec[d] = r)
    <3>1. r \in Records
      BY DEF Records
    <3>2. s = [disk EXCEPT !.rec[c] = r]
      OBVIOUS
    <3> HIDE DEF s
    <3>3. QED BY <1>1, <3>1, <3>2 DEF LoopStates
  <2> HIDE DEF s
  <2>3. MayFollow(disk.rec[c], r)
    BY <2>1 DEF MayFollow
  <2>4. QED BY <1>12, <2>1, <2>2, <2>3
<1>15. CASE Continue
  <2>1. Resume(disk) /\ pc = "asking" /\ disk.req = NoRequest
    BY <1>1, <1>15 DEF Continue
  <2> DEFINE t == [disk EXCEPT !.status = "running", !.req = NoRequest]
  <2>2. disk' = t /\ runs' = runs /\ stage' = stage
    BY <2>1 DEF Resume, Save, batchVars
  <2>3. t.rec = disk.rec /\ t.req = NoRequest
    BY <1>1 DEF LoopStates
  <2> HIDE DEF t
  <2>4. QED BY <2>1, <2>2, <2>3, QuietNotes
<1>16. CASE Abort
  <2> DEFINE s == [mem EXCEPT !.status = "failed", !.req = NoRequest]
  <2>1. disk' = s /\ runs' = runs /\ stage' = stage /\ pc = "asking" /\ pc' = "ended"
    BY <1>16 DEF Abort, Save, LoopFrame, batchVars
  <2>2. s.rec = disk.rec /\ s.req = NoRequest
    BY <1>1, <2>1 DEF LoopStates
  <2> HIDE DEF s
  <2>3. LedgerStep
    BY <2>1, <2>2 DEF LedgerStep, ledgerBar, actedBar
  <2>4. \A c \in Calls : NoRequest # Reconciliation(c)
    BY DEF NoRequest, Reconciliation
  <2>5. QED BY <1>1, <2>1, <2>2, <2>3, <2>4 DEF RequestInv, Guarded
<1>17. CASE BatchStep
  BY <1>8, <1>17, PrepareNotes, InvokeNotes, MergeNotes DEF BatchStep
<1>18. CASE \E c \in Calls : Invoke("left", c)
  BY <1>18, LeftNotes
<1>19. CASE Human
  BY <1>9, <1>13, <1>14, <1>15, <1>16, <1>19 DEF Human
<1>20. QED
  BY <1>3, <1>4, <1>5, <1>8, <1>9, <1>10, <1>11, <1>17, <1>18, <1>19 DEF Next

\* The durable records implement CallLedger: if the calls left behind by a raise have
\* ended when the turn is resumed, a call that must not be replayed acts once at most
\* and under a recorded start, and no known outcome of one is forgotten.
THEOREM RecordsKeepLedger ==
  ASSUME LeftCallsEnd
  PROVE  Spec => KeepsLedger
<1>1. Init => LedgerInv
  <2> SUFFICES ASSUME Init PROVE LedgerInv
    OBVIOUS
  <2>1. disk = FirstLoop /\ \A c \in Calls : stage.main[c] = "idle"
    BY DEF Init, Batches, Resting
  <2>2. QED BY <2>1, InitIInv DEF LedgerInv, RequestInv, FirstLoop, NoRequest, Reconciliation, Guarded
<1>2. LedgerInv /\ [Next]_vars => LedgerInv'
  BY InductiveStep, RefinementStep DEF LedgerInv
<1>3. Init => Ledger!LedgerInit
  BY DEF Init, FirstLoop, Ledger!LedgerInit
<1>4. LedgerInv /\ [Next]_vars =>
          [Ledger!LedgerNext]_<<[c \in Calls \ Idempotent |-> disk.rec[c]],
                                [c \in Calls \ Idempotent |-> runs[c]]>>
  BY RefinementStep DEF LedgerStep, ledgerBar, actedBar, Guarded
<1>5. QED
  BY <1>1, <1>2, <1>3, <1>4, PTL DEF Spec, KeepsLedger, Ledger!LedgerSpec
=============================================================================
