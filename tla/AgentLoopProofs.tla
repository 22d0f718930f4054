-------------------------- MODULE AgentLoopProofs --------------------------
(* Proofs about AgentLoop, for every set of invocations and batches, every  *)
(* limit and any number of crashes.                                         *)
EXTENDS AgentLoop, ModelGateway, NatFacts, FiniteSetTheorems, SequenceTheorems, TLAPS

-----------------------------------------------------------------------------
(* The inductive invariant.  A state of the loop is well formed when what it *)
(* knows of single calls is about calls of its batch, and its request is     *)
(* about one it can be answered for.                                         *)

OfItsBatch(s) ==
    /\ s.pending \cup s.rec \cup s.approved \cup s.denied \subseteq DOMAIN s.batch
    /\ s.sure \subseteq s.unsure /\ s.unsure \subseteq s.rec

Answerable(s) ==
    /\ s.status = "running" => s.req = NoRequest
    /\ s.req.kind = "approval" => s.req.at \in DOMAIN s.batch
    /\ s.req.kind = "reconciliation" => s.req.at \in s.unsure

WellFormed(s) ==
    /\ s \in LoopStates
    /\ s.status \in {"running", "paused"} => s.blocks < MaxBlocks
    /\ OfItsBatch(s)
    /\ Answerable(s)

\* What may be in memory and not yet in the checkpoint: the iteration of a model call
\* under way, and that the prompt has been compacted after an overflow.
Lag ==
    /\ mem.batch = disk.batch /\ mem.told = disk.told
    /\ mem.iteration = disk.iteration + (IF pc = "model" THEN 1 ELSE 0)
    /\ disk.overflowed => mem.overflowed
    /\ pc \in {"exit", "down"} => mem = disk

Shape ==
    /\ pc \in Live \cup {"exit", "down"}
    /\ WellFormed(mem) /\ WellFormed(disk)
    /\ pc \in Live => mem.status = "running"
    /\ Lag
    /\ running \subseteq mem.pending
    /\ pc # "tools" => running = {}

Tallies ==
    /\ retries \in 0..MaxRetries
    /\ verdict \in {"none", "paused", "failed"}
    /\ asked \in 0..AskedLimit + 1 /\ crashes \in 0..MaxCrashes
    /\ looked \in Nat /\ let \subseteq Positions /\ pain \in [Invocations -> 0..2]

TypeInv == Shape /\ Tallies

\* The circuit is closed to an invocation no later than it has failed too often.
FailuresKnown ==
    \A v \in Invocations :
       /\ pain[v] # 0 => mem.told.fails[v] # "none"
       /\ pain[v] = 2 => mem.told.fails[v] \in {"shut", "open"}

-----------------------------------------------------------------------------
(* Facts about the operators. *)

\* The positions of a batch are small numbers, and each holds an invocation.
LEMMA BatchFacts ==
  ASSUME NEW s \in LoopStates
  PROVE  /\ DOMAIN s.batch \subseteq Positions
         /\ \A i \in DOMAIN s.batch : s.batch[i] \in Invocations
<1>1. CASE s.batch = <<>>
  BY <1>1
<1>2. CASE s.batch \in Batches
  <2>1. s.batch \in Seq(Invocations) /\ Len(s.batch) \in 1..MaxBatch
    BY <1>2, LoopAssumption
  <2>2. QED BY <2>1, LoopAssumption DEF Positions
<1>3. QED BY <1>1, <1>2 DEF LoopStates

\* A set of positions is finite, and so has a size.
LEMMA PositionsFinite ==
  ASSUME NEW S \in SUBSET Positions
  PROVE  IsFiniteSet(S) /\ Cardinality(S) \in Nat
<1>1. IsFiniteSet(Positions)
  BY LoopAssumption, FS_Interval DEF Positions
<1>2. QED BY <1>1, FS_Subset, FS_CardinalityType

\* The limits are numbers.
LEMMA LimitTypes == AskedLimit \in Nat /\ MaxTurns \in Nat /\ MaxCrashes \in Nat
BY LoopAssumption DEF AskedLimit

Requests == [kind : {"none", "input", "approval", "reconciliation"}, at : 0..MaxBatch]

\* Two states know the same of the same calls.
SameCalls(w, s) ==
    /\ w.batch = s.batch /\ w.pending = s.pending /\ w.rec = s.rec
    /\ w.approved = s.approved /\ w.denied = s.denied
    /\ w.unsure = s.unsure /\ w.sure = s.sure

-----------------------------------------------------------------------------
(* Saving a snapshot. *)

\* A well formed state that is saved with nothing under way keeps the shape.
LEMMA SaveShape ==
  ASSUME NEW s, WellFormed(s), NEW label \in {"head", "hook", "end", "exit"},
         Save(s, label), running' = {}, label # "exit" => s.status = "running"
  PROVE  Shape'
<1>1. mem' = s /\ disk' = s /\ pc' = label
  BY DEF Save
<1>2. s \in LoopStates
  BY DEF WellFormed
<1>3. Lag'
  BY <1>1, <1>2 DEF Lag, LoopStates
<1>4. WellFormed(mem)' /\ WellFormed(disk)'
  BY <1>1 DEF WellFormed, OfItsBatch, Answerable
<1>5. QED
  BY <1>1, <1>3, <1>4 DEF Shape, Live

\* The ends of a turn are well formed.
LEMMA EndsWellFormed ==
  ASSUME NEW s, WellFormed(s), s.status = "running"
  PROVE  /\ WellFormed(Failed(s)) /\ WellFormed(Completed(s))
         /\ WellFormed(Paused(s, [kind |-> "input", at |-> 0]))
<1>1. \A w \in {Failed(s), Completed(s)} :
         w \in LoopStates /\ w = [s EXCEPT !.status = w.status] /\ w.status \in {"failed", "completed"}
  BY DEF WellFormed, LoopStates, Failed, Completed
<1>2. \A w \in {Failed(s), Completed(s)} : WellFormed(w)
  BY <1>1 DEF WellFormed, OfItsBatch, Answerable, LoopStates, NoRequest
<1>3. WellFormed(Paused(s, [kind |-> "input", at |-> 0]))
  <2>1. [kind |-> "input", at |-> 0] \in Requests
    BY LoopAssumption DEF Requests
  <2>2. PICK w : w = Paused(s, [kind |-> "input", at |-> 0])
    OBVIOUS
  <2>3. /\ w \in LoopStates /\ w.status = "paused" /\ w.req = [kind |-> "input", at |-> 0]
        /\ w.blocks = s.blocks /\ SameCalls(w, s)
    BY <2>1, <2>2 DEF WellFormed, Paused, LoopStates, Requests, SameCalls
  <2>4. QED
    BY <2>2, <2>3 DEF WellFormed, OfItsBatch, Answerable, SameCalls
<1>4. QED
  BY <1>2, <1>3

\* So is a turn that an answer sets going again.
LEMMA ResumeShape ==
  ASSUME TypeInv, NEW s, WellFormed(s), Resume(s), s.status = disk.status,
         NEW r, r = [s EXCEPT !.status = "running", !.req = NoRequest]
  PROVE  TypeInv'
<1>1. WellFormed(r) /\ r.status = "running"
  <2>1. NoRequest \in Requests
    BY LoopAssumption DEF NoRequest, Requests
  <2>2. /\ r \in LoopStates /\ r.status = "running" /\ r.req = NoRequest
        /\ r.blocks = s.blocks /\ SameCalls(r, s)
    BY <2>1 DEF WellFormed, LoopStates, Requests, SameCalls
  <2>3. QED
    BY <2>2 DEF WellFormed, OfItsBatch, Answerable, SameCalls, NoRequest, Resume
<1>2. running' = {}
  BY DEF TypeInv, Shape, Resume
<1>3. Shape'
  BY <1>1, <1>2, SaveShape DEF Resume
<1>4. Tallies'
  BY LoopAssumption DEF TypeInv, Tallies, Resume, history
<1>5. QED
  BY <1>3, <1>4 DEF TypeInv

-----------------------------------------------------------------------------
(* Types, action by action. *)

LEMMA InitTypes == Init => TypeInv
<1> SUFFICES ASSUME Init PROVE TypeInv
  OBVIOUS
<1>1. NoResults \in [looks : Nat, control : BOOLEAN, planned : BOOLEAN, again : SUBSET Positions,
                     fails : [Invocations -> {"none", "once", "shut", "open"}], erred : BOOLEAN]
  BY DEF NoResults, NoFailures
<1>2. FreshState \in LoopStates
  BY <1>1, LoopAssumption DEF FreshState, LoopStates, NoRequest
<1>3. WellFormed(FreshState)
  BY <1>2, LoopAssumption DEF WellFormed, OfItsBatch, Answerable, FreshState, NoRequest
<1>4. Shape
  BY <1>3 DEF Init, Shape, Lag, Live, FreshState
<1>5. Tallies
  BY LimitTypes, LoopAssumption DEF Init, Tallies
<1>6. QED
  BY <1>4, <1>5 DEF TypeInv

\* A step that saves a well formed state and counts nothing.
LEMMA SaveTypes ==
  ASSUME TypeInv, pc # "tools", NEW s, WellFormed(s), NEW label \in {"head", "hook", "end", "exit"},
         Save(s, label), label # "exit" => s.status = "running", running' = running,
         retries' \in 0..MaxRetries, verdict' \in {"none", "paused", "failed"}, UNCHANGED history
  PROVE  TypeInv'
<1>1. Shape'
  BY SaveShape DEF TypeInv, Shape
<1>2. Tallies'
  BY DEF TypeInv, Tallies, history
<1>3. QED
  BY <1>1, <1>2 DEF TypeInv

\* The ways out of the loop that need no more than the state at hand.
LEMMA ExitTypes ==
  ASSUME TypeInv, \/ TurnsUsedUp \/ CompactionFails \/ HooksAccept \/ HooksHalt \/ End
                  \/ ToolErrorEnds \/ RetriesUsedUp
  PROVE  TypeInv'
<1>1. WellFormed(mem) /\ mem.status = "running" /\ pc # "tools"
  BY DEF TypeInv, Shape, Live, TurnsUsedUp, CompactionFails, HooksAccept, HooksHalt, End,
         ToolErrorEnds, RetriesUsedUp
<1>2. PICK s \in {Failed(mem), Completed(mem), Paused(mem, [kind |-> "input", at |-> 0])} :
         Save(s, "exit")
  BY DEF TurnsUsedUp, CompactionFails, HooksAccept, HooksHalt, End, ToolErrorEnds, RetriesUsedUp
<1>3. WellFormed(s)
  BY <1>1, <1>2, EndsWellFormed
<1>4. /\ running' = running /\ UNCHANGED history
      /\ retries' = retries /\ verdict' \in {verdict, "none"}
  BY DEF TurnsUsedUp, CompactionFails, HooksAccept, HooksHalt, End, ToolErrorEnds, RetriesUsedUp,
         ModelFrame, history
<1>5. retries' \in 0..MaxRetries /\ verdict' \in {"none", "paused", "failed"}
  BY <1>4 DEF TypeInv, Tallies
<1>6. QED
  BY <1>1, <1>2, <1>3, <1>4, <1>5, SaveTypes

\* A change of what is counted in memory keeps a running state well formed.
LEMMA CountedWellFormed ==
  ASSUME NEW s, WellFormed(s), NEW n \in 0..MaxTurns, NEW o \in BOOLEAN,
         NEW w, w = [s EXCEPT !.iteration = n, !.overflowed = o]
  PROVE  WellFormed(w)
BY DEF WellFormed, OfItsBatch, Answerable, LoopStates

LEMMA CallModelTypes ==
  ASSUME TypeInv, CallModel
  PROVE  TypeInv'
<1>1. mem' = [mem EXCEPT !.iteration = mem.iteration + 1, !.overflowed = mem.overflowed]
  BY DEF CallModel, TypeInv, Shape, WellFormed, LoopStates
<1>2. mem.iteration + 1 \in 0..MaxTurns /\ mem.overflowed \in BOOLEAN
  BY LimitTypes DEF CallModel, TypeInv, Shape, WellFormed, LoopStates
<1>3. WellFormed(mem')
  BY <1>1, <1>2, CountedWellFormed DEF TypeInv, Shape
<1>4. /\ mem'.iteration = mem.iteration + 1 /\ mem'.overflowed = mem.overflowed
      /\ mem'.batch = mem.batch /\ mem'.told = mem.told /\ mem'.pending = mem.pending
      /\ mem'.status = mem.status
  BY <1>1 DEF TypeInv, Shape, WellFormed, LoopStates
<1>5. WellFormed(mem)' /\ WellFormed(disk)'
  BY <1>3 DEF TypeInv, Shape, CallModel, WellFormed, OfItsBatch, Answerable
<1>6. Shape'
  <2>1. Lag'
    BY <1>4 DEF TypeInv, Shape, CallModel, Lag, WellFormed, LoopStates
  <2>2. pc' = "model" /\ running' = {} /\ mem.status = "running"
    BY DEF TypeInv, Shape, CallModel, Live
  <2>3. QED
    BY <1>4, <1>5, <2>1, <2>2 DEF Shape, Live
<1>7. Tallies'
  BY LimitTypes DEF TypeInv, Tallies, CallModel
<1>8. QED
  BY <1>6, <1>7 DEF TypeInv

LEMMA OverflowRecoveredTypes ==
  ASSUME TypeInv, OverflowRecovered
  PROVE  TypeInv'
<1>1. mem' = [mem EXCEPT !.iteration = mem.iteration - 1, !.overflowed = TRUE]
  BY DEF OverflowRecovered, TypeInv, Shape, WellFormed, LoopStates
<1>2. mem.iteration - 1 = disk.iteration /\ mem.iteration - 1 \in 0..MaxTurns
  BY LimitTypes DEF OverflowRecovered, TypeInv, Shape, Lag, WellFormed, LoopStates
<1>3. WellFormed(mem')
  BY <1>1, <1>2, CountedWellFormed DEF TypeInv, Shape
<1>4. /\ mem'.iteration = mem.iteration - 1 /\ mem'.overflowed = TRUE
      /\ mem'.batch = mem.batch /\ mem'.told = mem.told /\ mem'.pending = mem.pending
      /\ mem'.status = mem.status
  BY <1>1 DEF TypeInv, Shape, WellFormed, LoopStates
<1>5. WellFormed(mem)' /\ WellFormed(disk)'
  BY <1>3 DEF TypeInv, Shape, OverflowRecovered, WellFormed, OfItsBatch, Answerable
<1>6. Shape'
  BY <1>2, <1>4, <1>5 DEF TypeInv, Shape, OverflowRecovered, ModelFrame, Lag, Live, WellFormed, LoopStates
<1>7. Tallies'
  BY DEF TypeInv, Tallies, OverflowRecovered, ModelFrame, history
<1>8. QED
  BY <1>6, <1>7 DEF TypeInv

LEMMA OverflowFailsTypes ==
  ASSUME TypeInv, OverflowFails
  PROVE  TypeInv'
<1>1. pc = "model" /\ WellFormed(mem) /\ mem.status = "running"
  BY DEF OverflowFails, TypeInv, Shape, Live
<1>2. PICK s : s \in {mem, [mem EXCEPT !.overflowed = TRUE]} /\ Save(Failed(s), "exit")
  BY DEF OverflowFails
<1>3. WellFormed(s) /\ s.status = "running"
  <2>1. /\ s \in LoopStates /\ s.status = "running" /\ s.blocks = mem.blocks
        /\ s.req = mem.req /\ SameCalls(s, mem)
    <3>1. CASE s = mem
      BY <1>1, <3>1 DEF WellFormed, SameCalls
    <3>2. CASE s = [mem EXCEPT !.overflowed = TRUE]
      BY <1>1, <3>2 DEF WellFormed, LoopStates, SameCalls
    <3>3. QED
      BY <1>2, <3>1, <3>2
  <2>2. QED
    BY <1>1, <2>1 DEF WellFormed, OfItsBatch, Answerable, SameCalls
<1>4. WellFormed(Failed(s))
  BY <1>3, EndsWellFormed
<1>5. running' = running /\ UNCHANGED history /\ retries' = retries /\ verdict' = verdict
  BY DEF OverflowFails, ModelFrame, history
<1>6. retries' \in 0..MaxRetries /\ verdict' \in {"none", "paused", "failed"}
  BY <1>5 DEF TypeInv, Tallies
<1>7. QED
  BY <1>1, <1>2, <1>4, <1>5, <1>6, SaveTypes

LEMMA AnswerTypes ==
  ASSUME TypeInv, ModelRetry \/ ModelPauses \/ ModelFinishes
  PROVE  TypeInv'
<1>1. pc = "model" /\ WellFormed(mem) /\ mem.status = "running"
  BY DEF ModelRetry, ModelPauses, ModelFinishes, TypeInv, Shape, Live
<1>2. PICK label \in {"head", "end", "hook"} : Save(mem, label)
  BY DEF ModelRetry, ModelPauses, ModelFinishes
<1>3. /\ running' = running /\ UNCHANGED history
      /\ retries' \in 0..MaxRetries /\ verdict' \in {"none", "paused", "failed"}
  BY LoopAssumption DEF ModelRetry, ModelPauses, ModelFinishes, ModelFrame, history, TypeInv, Tallies
<1>4. QED
  BY <1>1, <1>2, <1>3, SaveTypes

LEMMA HookBlocksTypes ==
  ASSUME TypeInv, HookBlocks
  PROVE  TypeInv'
<1>1. pc = "hook" /\ WellFormed(mem) /\ mem.status = "running" /\ mem.blocks < MaxBlocks
  BY DEF HookBlocks, TypeInv, Shape, Live, WellFormed
<1>2. PICK blocked :
         /\ blocked = [mem EXCEPT !.blocks = mem.blocks + 1]
         /\ IF blocked.blocks >= MaxBlocks THEN Save(Failed(blocked), "exit")
                                           ELSE Save(blocked, "head")
  BY DEF HookBlocks, TypeInv, Shape, WellFormed, LoopStates
<1>3. /\ blocked.blocks = mem.blocks + 1 /\ blocked.blocks \in 0..MaxBlocks
      /\ blocked.status = "running" /\ blocked.req = mem.req /\ SameCalls(blocked, mem)
  BY <1>1, <1>2, LoopAssumption DEF WellFormed, LoopStates, SameCalls
<1>4. blocked \in LoopStates
  BY <1>1, <1>2, <1>3 DEF WellFormed, LoopStates
<1>5. running' = running /\ UNCHANGED history /\ retries' = retries /\ verdict' = verdict
  BY DEF HookBlocks, history
<1>6. retries' \in 0..MaxRetries /\ verdict' \in {"none", "paused", "failed"}
  BY <1>5 DEF TypeInv, Tallies
<1>7. CASE blocked.blocks < MaxBlocks
  <2>1. WellFormed(blocked)
    BY <1>1, <1>3, <1>4, <1>7 DEF WellFormed, OfItsBatch, Answerable, SameCalls
  <2>2. Save(blocked, "head")
    BY <1>2, <1>3, <1>7, LoopAssumption
  <2>3. QED
    BY <1>1, <1>3, <1>5, <1>6, <2>1, <2>2, SaveTypes
<1>8. CASE blocked.blocks >= MaxBlocks
  <2>1. /\ Failed(blocked) \in LoopStates /\ Failed(blocked).status = "failed"
        /\ Failed(blocked).req = mem.req /\ SameCalls(Failed(blocked), mem)
    BY <1>3, <1>4 DEF Failed, LoopStates, SameCalls
  <2>2. WellFormed(Failed(blocked))
    BY <1>1, <2>1 DEF WellFormed, OfItsBatch, Answerable, SameCalls, NoRequest
  <2>3. Save(Failed(blocked), "exit")
    BY <1>2, <1>8
  <2>4. QED
    BY <1>1, <1>5, <1>6, <2>2, <2>3, SaveTypes
<1>9. QED
  BY <1>3, <1>7, <1>8, LoopAssumption

\* A new batch: its calls are all pending, and nothing is known of any of them.
LEMMA ScheduleTypes ==
  ASSUME TypeInv, NEW batch \in Batches, Schedule(batch)
  PROVE  TypeInv'
<1>1. pc = "model" /\ WellFormed(mem) /\ mem.status = "running"
  BY DEF Schedule, TypeInv, Shape, Live
<1>2. PICK s : /\ s = [mem EXCEPT !.batch = batch, !.pending = DOMAIN batch, !.rec = {},
                                  !.approved = {}, !.denied = {}, !.unsure = {}, !.sure = {}]
               /\ Save(s, "head")
  BY DEF Schedule
<1>3. DOMAIN batch \subseteq Positions
  BY LoopAssumption DEF Positions
<1>4. /\ s.status = "running" /\ s.blocks = mem.blocks /\ s.req = mem.req
      /\ s.batch = batch /\ s.pending = DOMAIN batch
      /\ s.rec = {} /\ s.approved = {} /\ s.denied = {} /\ s.unsure = {} /\ s.sure = {}
  BY <1>1, <1>2 DEF WellFormed, LoopStates
<1>5. s \in LoopStates
  BY <1>1, <1>2, <1>3 DEF WellFormed, LoopStates
<1>6. WellFormed(s)
  BY <1>1, <1>4, <1>5 DEF WellFormed, OfItsBatch, Answerable, NoRequest
<1>7. running' = {}
  BY DEF Schedule, TypeInv, Shape
<1>8. Shape'
  BY <1>2, <1>4, <1>6, <1>7, SaveShape
<1>9. Tallies'
  BY LoopAssumption DEF Schedule, TypeInv, Tallies
<1>10. QED
  BY <1>8, <1>9 DEF TypeInv

LEMMA ExecuteTypes ==
  ASSUME TypeInv, ExecutePendingTools
  PROVE  TypeInv'
<1>1. WellFormed(mem) /\ mem \in LoopStates
  BY DEF TypeInv, Shape, WellFormed
<1>2. mem.pending \subseteq Positions
  BY <1>1 DEF LoopStates
<1>3. WellFormed(mem)' /\ WellFormed(disk)'
  BY DEF TypeInv, Shape, ExecutePendingTools, WellFormed, OfItsBatch, Answerable
<1>4. Shape'
  <2>1. running' \subseteq mem'.pending /\ mem' = mem /\ disk' = disk /\ pc' = "tools" /\ pc = "head"
    BY DEF ExecutePendingTools, Executable
  <2>2. QED
    BY <1>3, <2>1 DEF TypeInv, Shape, Lag, Live
<1>5. looked' \in Nat /\ let' \subseteq Positions
  <2>1. FreshLooks \subseteq Positions
    BY <1>2 DEF FreshLooks, Fresh
  <2>2. \A S \in SUBSET FreshLooks : Cardinality(S) \in Nat
    BY <2>1, PositionsFinite
  <2> DEFINE looks == {i \in FreshLooks \cap Executable : ~Asks(i) /\ i \notin mem.denied}
             acts == {i \in mem.pending : mem.batch[i] \in Acts}
  <2>3. /\ Cardinality({i \in looks : i > Last(acts)}) \in Nat
        /\ Cardinality(looks \ let) \in Nat
    <3>1. {i \in looks : i > Last(acts)} \in SUBSET FreshLooks /\ looks \ let \in SUBSET FreshLooks
      OBVIOUS
    <3>2. QED BY <2>2, <3>1
  <2>4. /\ looked' \in {Cardinality({i \in looks : i > Last(acts)}), looked + Cardinality(looks \ let)}
        /\ let' = let \cup looks
    BY DEF ExecutePendingTools
  <2> HIDE DEF looks, acts
  <2>5. looks \subseteq FreshLooks
    BY DEF looks
  <2>6. QED
    BY <2>1, <2>3, <2>4, <2>5 DEF TypeInv, Tallies
<1>6. Tallies'
  BY <1>5 DEF ExecutePendingTools, TypeInv, Tallies
<1>7. QED
  BY <1>4, <1>6 DEF TypeInv

\* What ran belongs to the batch of the checkpoint too.
LEMMA CrashTypes ==
  ASSUME TypeInv, Crash
  PROVE  TypeInv'
<1>1. PICK started \in SUBSET running :
         disk' = [disk EXCEPT !.rec = disk.rec \cup started] /\ mem' = disk'
  BY DEF Crash, TypeInv, Shape, WellFormed, LoopStates
<1>2. started \subseteq DOMAIN disk.batch /\ started \subseteq Positions
  BY <1>1, BatchFacts DEF TypeInv, Shape, Lag, WellFormed, OfItsBatch
<1>3. /\ disk'.rec = disk.rec \cup started /\ disk'.status = disk.status
      /\ disk'.blocks = disk.blocks /\ disk'.batch = disk.batch /\ disk'.pending = disk.pending
      /\ disk'.approved = disk.approved /\ disk'.denied = disk.denied /\ disk'.req = disk.req
      /\ disk'.unsure = disk.unsure /\ disk'.sure = disk.sure
      /\ disk'.iteration = disk.iteration
  BY <1>1 DEF TypeInv, Shape, WellFormed, LoopStates
<1>4. disk' \in LoopStates
  BY <1>1, <1>2 DEF TypeInv, Shape, WellFormed, LoopStates
<1>5. WellFormed(disk')
  BY <1>2, <1>3, <1>4 DEF TypeInv, Shape, WellFormed, OfItsBatch, Answerable
<1>6. WellFormed(disk)' /\ WellFormed(mem)'
  BY <1>1, <1>5 DEF WellFormed, OfItsBatch, Answerable
<1>7. pc' = "down" /\ running' = {}
  BY DEF Crash
<1>8. Shape'
  BY <1>1, <1>4, <1>6, <1>7 DEF Shape, Lag, Live, LoopStates
<1>9. Tallies'
  BY LimitTypes DEF Crash, TypeInv, Tallies
<1>10. QED
  BY <1>8, <1>9 DEF TypeInv

\* An answer is kept for the call it is about.
LEMMA ResumeTypes ==
  ASSUME TypeInv, Continue \/ Allow \/ Deny \/ Reconcile
  PROVE  TypeInv'
<1>1. WellFormed(disk) /\ disk \in LoopStates
  BY DEF TypeInv, Shape, WellFormed
<1>2. CASE Continue
  BY <1>1, <1>2, ResumeShape DEF Continue
<1>3. CASE Allow
  <2>1. PICK s : s = [disk EXCEPT !.approved = disk.approved \cup {disk.req.at}] /\ Resume(s)
    BY <1>1, <1>3 DEF Allow, LoopStates
  <2>2. disk.req.at \in DOMAIN disk.batch /\ disk.req.at \in Positions
    BY <1>1, <1>3, BatchFacts DEF Allow, WellFormed, Answerable
  <2>3. s \in LoopStates
    BY <1>1, <2>1, <2>2 DEF LoopStates
  <2>4. /\ s.approved = disk.approved \cup {disk.req.at} /\ s.status = disk.status
        /\ s.blocks = disk.blocks /\ s.batch = disk.batch /\ s.pending = disk.pending
        /\ s.rec = disk.rec /\ s.denied = disk.denied /\ s.req = disk.req
        /\ s.unsure = disk.unsure /\ s.sure = disk.sure
    BY <1>1, <2>1 DEF LoopStates
  <2>5. WellFormed(s)
    BY <1>1, <2>2, <2>3, <2>4 DEF WellFormed, OfItsBatch, Answerable
  <2>6. QED
    BY <2>1, <2>4, <2>5, ResumeShape
<1>4. CASE Deny
  <2>1. PICK s : s = [disk EXCEPT !.denied = disk.denied \cup {disk.req.at}] /\ Resume(s)
    BY <1>1, <1>4 DEF Deny, LoopStates
  <2>2. disk.req.at \in DOMAIN disk.batch /\ disk.req.at \in Positions
    BY <1>1, <1>4, BatchFacts DEF Deny, WellFormed, Answerable
  <2>3. s \in LoopStates
    BY <1>1, <2>1, <2>2 DEF LoopStates
  <2>4. /\ s.denied = disk.denied \cup {disk.req.at} /\ s.status = disk.status
        /\ s.blocks = disk.blocks /\ s.batch = disk.batch /\ s.pending = disk.pending
        /\ s.rec = disk.rec /\ s.approved = disk.approved /\ s.req = disk.req
        /\ s.unsure = disk.unsure /\ s.sure = disk.sure
    BY <1>1, <2>1 DEF LoopStates
  <2>5. WellFormed(s)
    BY <1>1, <2>2, <2>3, <2>4 DEF WellFormed, OfItsBatch, Answerable
  <2>6. QED
    BY <2>1, <2>4, <2>5, ResumeShape
<1>5. CASE Reconcile
  <2>1. PICK s : s = [disk EXCEPT !.sure = disk.sure \cup {disk.req.at}] /\ Resume(s)
    BY <1>1, <1>5 DEF Reconcile, LoopStates
  <2>2. disk.req.at \in disk.unsure /\ disk.req.at \in Positions
    BY <1>1, <1>5 DEF Reconcile, WellFormed, Answerable, LoopStates
  <2>3. s \in LoopStates
    BY <1>1, <2>1, <2>2 DEF LoopStates
  <2>4. /\ s.sure = disk.sure \cup {disk.req.at} /\ s.status = disk.status
        /\ s.blocks = disk.blocks /\ s.batch = disk.batch /\ s.pending = disk.pending
        /\ s.rec = disk.rec /\ s.approved = disk.approved /\ s.denied = disk.denied
        /\ s.req = disk.req /\ s.unsure = disk.unsure
    BY <1>1, <2>1 DEF LoopStates
  <2>5. WellFormed(s)
    BY <1>1, <2>2, <2>3, <2>4 DEF WellFormed, OfItsBatch, Answerable
  <2>6. QED
    BY <2>1, <2>4, <2>5, ResumeShape
<1>6. QED
  BY <1>2, <1>3, <1>4, <1>5

-----------------------------------------------------------------------------
(* The results of a batch. *)

\* Every set of results is finite.
LEMMA ResultsFinite ==
  ASSUME TypeInv, NEW res \in [mem.pending -> Endings], NEW S \in SUBSET Told(res)
  PROVE  IsFiniteSet(S) /\ Cardinality(S) \in Nat
<1>1. S \subseteq Positions
  BY DEF Told, TypeInv, Shape, WellFormed, LoopStates
<1>2. QED BY <1>1, PositionsFinite

\* What the loop reads of its results keeps its type.
LEMMA ToldTypes ==
  ASSUME TypeInv, NEW res \in [mem.pending -> Endings]
  PROVE  ToldAfter(res) \in [looks : Nat, control : BOOLEAN, planned : BOOLEAN,
                             again : SUBSET Positions,
                             fails : [Invocations -> {"none", "once", "shut", "open"}], erred : BOOLEAN]
<1>1. /\ mem.told.looks \in Nat /\ mem.told.control \in BOOLEAN /\ mem.told.planned \in BOOLEAN
      /\ mem.told.erred \in BOOLEAN
      /\ mem.told.fails \in [Invocations -> {"none", "once", "shut", "open"}]
  BY DEF TypeInv, Shape, WellFormed, LoopStates
<1>2. FailsAfter(res) \in [Invocations -> {"none", "once", "shut", "open"}]
  <2> SUFFICES ASSUME NEW v \in Invocations
               PROVE  FailsAfter(res)[v] \in {"none", "once", "shut", "open"}
    BY DEF FailsAfter
  <2>1. FailsAfter(res)[v] \in
            {IF LastSuccess(res) = 0 THEN mem.told.fails[v] ELSE "none", "open", "once", "shut"}
    BY DEF FailsAfter
  <2>2. QED
    BY <1>1, <2>1
<1>3. /\ CycleAfter(res).looks \in Nat /\ CycleAfter(res).again \subseteq Positions
      /\ CycleAfter(res).control \in BOOLEAN /\ CycleAfter(res).planned \in BOOLEAN
  <2> DEFINE lastAct == Last({i \in Told(res) : mem.batch[i] \in Acts})
             seen == {i \in {j \in Told(res) : j > lastAct} :
                         mem.batch[i] \in Looks /\ res[i] # "control"}
             again == {i \in seen : res[i] = "doubt"}
  <2>1. Cardinality(seen \ again) \in Nat
    <3>1. seen \ again \in SUBSET Told(res)
      OBVIOUS
    <3>2. QED BY <3>1, ResultsFinite
  <2>2. /\ CycleAfter(res).looks =
              (IF lastAct = 0 THEN mem.told.looks ELSE 0) + Cardinality(seen \ again)
        /\ CycleAfter(res).again = again
    BY DEF CycleAfter
  <2>3. CycleAfter(res).looks \in Nat /\ CycleAfter(res).again \subseteq Positions
    <3>1. again \subseteq Positions
      BY DEF Told, TypeInv, Shape, WellFormed, LoopStates
    <3> HIDE DEF lastAct, seen, again
    <3>2. QED BY <1>1, <2>1, <2>2, <3>1
  <2>4. CycleAfter(res).control \in BOOLEAN /\ CycleAfter(res).planned \in BOOLEAN
    BY <1>1, Zenon DEF CycleAfter
  <2>5. QED
    BY <2>3, <2>4
<1>4. (mem.told.erred \/ \E i \in Told(res) : res[i] \notin {"ok", "doubt"}) \in BOOLEAN
  BY <1>1, Zenon
<1>5. QED
  BY <1>2, <1>3, <1>4 DEF ToldAfter

\* The failures that ran are among the new failures, and are few or many.
LEMMA PainTypes ==
  ASSUME TypeInv, NEW res \in [mem.pending -> Endings]
  PROVE  PainAfter(res) \in [Invocations -> 0..2]
<1> SUFFICES ASSUME NEW v \in Invocations PROVE PainAfter(res)[v] \in 0..2
  BY DEF PainAfter
<1> DEFINE ran == {i \in NewFailures(res, v) : res[i] \in {"failed", "flaky"}}
           old == IF LastSuccess(res) = 0 THEN pain[v] ELSE 0
<1>1. Cardinality(ran) \in Nat
  <2>1. ran \in SUBSET Told(res)
    BY DEF NewFailures
  <2>2. QED BY <2>1, ResultsFinite
<1>2. old \in 0..2
  BY DEF TypeInv, Tallies
<1>3. PainAfter(res)[v] = IF old + Cardinality(ran) > 1 \/ \E i \in ran : res[i] = "failed"
                          THEN 2 ELSE old + Cardinality(ran)
  BY DEF PainAfter
<1> HIDE DEF ran, old
<1>4. QED
  BY <1>1, <1>2, <1>3

LEMMA BatchEndsTypes ==
  ASSUME TypeInv, BatchEnds
  PROVE  TypeInv'
<1>1. PICK res \in [mem.pending -> Endings] : RecordResults(res) /\ pain' = PainAfter(res)
  BY DEF BatchEnds
<1> DEFINE asking == {i \in DOMAIN res : res[i] = "approval"}
           doubtful == {i \in DOMAIN res : res[i] = "doubt"}
<1>2. WellFormed(mem) /\ mem \in LoopStates /\ mem.status = "running"
  BY DEF BatchEnds, TypeInv, Shape, Live, WellFormed
<1>3. PICK after : after = [mem EXCEPT !.pending = asking \cup doubtful, !.told = ToldAfter(res),
                             !.rec = mem.rec \cup doubtful, !.unsure = mem.unsure \cup doubtful]
  OBVIOUS
<1>4. asking \subseteq mem.pending /\ doubtful \subseteq mem.pending
  OBVIOUS
<1>5. mem.pending \subseteq Positions /\ mem.pending \subseteq DOMAIN mem.batch
  BY <1>2 DEF WellFormed, OfItsBatch, LoopStates
<1>6. /\ after.status = "running" /\ after.blocks = mem.blocks /\ after.req = mem.req
      /\ after.batch = mem.batch /\ after.pending = asking \cup doubtful
      /\ after.rec = mem.rec \cup doubtful /\ after.unsure = mem.unsure \cup doubtful
      /\ after.sure = mem.sure /\ after.approved = mem.approved /\ after.denied = mem.denied
  BY <1>2, <1>3 DEF LoopStates
<1>7. after \in LoopStates
  BY <1>2, <1>3, <1>4, <1>5, ToldTypes DEF LoopStates
<1>8. WellFormed(after)
  <2> HIDE DEF asking, doubtful
  <2>1. OfItsBatch(after)
    BY <1>2, <1>4, <1>5, <1>6 DEF WellFormed, OfItsBatch
  <2>2. Answerable(after)
    BY <1>2, <1>6 DEF WellFormed, Answerable, NoRequest
  <2>3. QED
    BY <1>2, <1>6, <1>7, <2>1, <2>2 DEF WellFormed
<1>9. ASSUME NEW set \in {asking, doubtful}, NEW kind \in {"approval", "reconciliation"}, set # {},
             kind = "reconciliation" => set = doubtful
      PROVE  WellFormed(Paused(after, [kind |-> kind, at |-> Min(set)]))
  <2> HIDE DEF asking, doubtful
  <2>1. set \subseteq Positions /\ set \subseteq DOMAIN after.batch
    BY <1>4, <1>5, <1>6
  <2>2. Min(set) \in set
    BY <1>9, <2>1, MinIn, LoopAssumption DEF Positions
  <2>3. PICK rq : rq = [kind |-> kind, at |-> Min(set)]
    OBVIOUS
  <2>4. rq \in Requests /\ rq.kind = kind /\ rq.at = Min(set)
    <3>1. Min(set) \in 0..MaxBatch
      <4>1. Min(set) \in Positions
        BY <2>1, <2>2, Zenon
      <4>2. 1..MaxBatch \subseteq 0..MaxBatch
        BY LoopAssumption
      <4>3. QED BY <4>1, <4>2, Zenon DEF Positions
    <3>2. kind \in {"none", "input", "approval", "reconciliation"}
      OBVIOUS
    <3>3. QED BY <2>3, <3>1, <3>2 DEF Requests
  <2>5. PICK w : w = Paused(after, rq)
    OBVIOUS
  <2>6. /\ w \in LoopStates /\ w.status = "paused" /\ w.req = rq
        /\ w.blocks = after.blocks /\ SameCalls(w, after)
    BY <1>7, <2>4, <2>5 DEF Paused, LoopStates, Requests, SameCalls
  <2>7. WellFormed(w)
    BY <1>6, <1>8, <1>9, <2>1, <2>2, <2>4, <2>6 DEF WellFormed, OfItsBatch, Answerable, SameCalls
  <2>8. QED
    BY <2>3, <2>5, <2>7
<1>10. /\ \/ /\ asking # {}
             /\ Save(Paused(after, [kind |-> "approval", at |-> Min(asking)]), "exit")
          \/ /\ doubtful # {}
             /\ Save(Paused(after, [kind |-> "reconciliation", at |-> Min(doubtful)]), "exit")
          \/ Save(after, "end")
          \/ Save(after, "head")
       /\ verdict' \in {verdict, "failed"}
  BY <1>1, <1>3 DEF RecordResults
<1>11. running' = {}
  BY DEF BatchEnds
<1> HIDE DEF asking, doubtful
<1>12. Shape'
  BY <1>6, <1>8, <1>9, <1>10, <1>11, SaveShape
<1>13. Tallies'
  BY <1>1, <1>10, PainTypes DEF BatchEnds, TypeInv, Tallies
<1>14. QED
  BY <1>12, <1>13 DEF TypeInv

-----------------------------------------------------------------------------
(* The type invariant. *)

LEMMA NextTypes ==
  ASSUME TypeInv, [Next]_vars
  PROVE  TypeInv'
<1>1. CASE UNCHANGED vars
  BY <1>1 DEF vars, history, TypeInv, Shape, Tallies, Lag, WellFormed, OfItsBatch, Answerable
<1>2. CASE TurnsUsedUp \/ CompactionFails \/ HooksAccept \/ HooksHalt \/ End
  BY <1>2, ExitTypes
<1>3. CASE CallModel
  BY <1>3, CallModelTypes
<1>4. CASE ModelAnswers
  <2>1. CASE OverflowRecovered BY <2>1, OverflowRecoveredTypes
  <2>2. CASE OverflowFails BY <2>2, OverflowFailsTypes
  <2>3. CASE ToolErrorEnds \/ RetriesUsedUp BY <2>3, ExitTypes
  <2>4. CASE ModelRetry \/ ModelPauses \/ ModelFinishes BY <2>4, AnswerTypes
  <2>5. ASSUME NEW batch \in Batches, Schedule(batch) PROVE TypeInv'
    BY <2>5, ScheduleTypes
  <2>6. QED BY <1>4, <2>1, <2>2, <2>3, <2>4, <2>5 DEF ModelAnswers
<1>5. CASE HookBlocks
  BY <1>5, HookBlocksTypes
<1>6. CASE ExecutePendingTools
  BY <1>6, ExecuteTypes
<1>7. CASE BatchEnds
  BY <1>7, BatchEndsTypes
<1>8. CASE Crash
  BY <1>8, CrashTypes
<1>9. CASE Continue \/ Allow \/ Deny \/ Reconcile
  BY <1>9, ResumeTypes
<1>10. QED
  BY <1>1, <1>2, <1>3, <1>4, <1>5, <1>6, <1>7, <1>8, <1>9 DEF Next, LoopStep

\* Whatever the invocations, the batches and the limits are, and however often the process
\* dies, the loop stays in a state its code knows, in memory and in its checkpoint, and what
\* it holds of approvals, denials, doubts and records is about calls of the batch at hand.
THEOREM LoopTyping == Spec => []LoopTypeOK
<1>1. Init => TypeInv
  BY InitTypes
<1>2. TypeInv /\ [Next]_vars => TypeInv'
  BY NextTypes
<1>3. TypeInv => LoopTypeOK
  BY DEF TypeInv, Shape, Tallies, WellFormed, OfItsBatch, LoopTypeOK
<1>4. QED
  BY <1>1, <1>2, <1>3, PTL DEF Spec

-----------------------------------------------------------------------------
(* The number of model calls.  Only CallModel makes one; every other step      *)
(* keeps the count it has to stay under, or loses no more of it than a crash   *)
(* may: one iteration and one overflow.                                        *)

\* What a turn has counted of its model calls.
Counted(s) == s.iteration + (IF s.overflowed THEN 1 ELSE 0)

LEMMA CountKept ==
  ASSUME TypeInv, [Next]_vars, ~CallModel, ~Crash
  PROVE  Counted(mem)' >= Counted(mem) /\ asked' = asked /\ crashes' = crashes
<1>1. mem \in LoopStates /\ disk \in LoopStates /\ (pc \in {"exit", "down"} => disk = mem)
  BY DEF TypeInv, Shape, Lag, WellFormed
<1>2. CASE UNCHANGED vars
  BY <1>1, <1>2 DEF vars, history, Counted, LoopStates
<1>3. CASE TurnsUsedUp \/ CompactionFails \/ HooksAccept \/ HooksHalt \/ End
           \/ ToolErrorEnds \/ RetriesUsedUp \/ OverflowFails
  <2>1. PICK s \in {mem, [mem EXCEPT !.overflowed = TRUE]} :
           \/ mem' = Failed(s) \/ mem' = Completed(s)
           \/ mem' = Paused(s, [kind |-> "input", at |-> 0])
    BY <1>3 DEF TurnsUsedUp, CompactionFails, HooksAccept, HooksHalt, End, ToolErrorEnds,
                RetriesUsedUp, OverflowFails, Save
  <2>2. s \in LoopStates /\ Counted(s) >= Counted(mem)
    <3>1. CASE s = mem
      BY <1>1, <3>1 DEF LoopStates, Counted
    <3>2. CASE s = [mem EXCEPT !.overflowed = TRUE]
      <4>1. s \in LoopStates /\ s.overflowed = TRUE /\ s.iteration = mem.iteration
        BY <1>1, <3>2 DEF LoopStates
      <4>2. QED BY <1>1, <4>1 DEF LoopStates, Counted
    <3>3. QED BY <2>1, <3>1, <3>2
  <2>3. mem'.iteration = s.iteration /\ mem'.overflowed = s.overflowed
    BY <2>1, <2>2 DEF LoopStates, Failed, Completed, Paused
  <2>4. QED
    BY <1>3, <2>2, <2>3 DEF Counted, TurnsUsedUp, CompactionFails, HooksAccept, HooksHalt, End,
         ToolErrorEnds, RetriesUsedUp, OverflowFails, ModelFrame, history
<1>4. CASE OverflowRecovered
  BY <1>1, <1>4 DEF OverflowRecovered, ModelFrame, history, Counted, LoopStates
<1>5. CASE ModelRetry \/ ModelPauses \/ ModelFinishes
  BY <1>1, <1>5 DEF ModelRetry, ModelPauses, ModelFinishes, ModelFrame, Save, history, Counted, LoopStates
<1>6. ASSUME NEW batch \in Batches, Schedule(batch)
      PROVE  Counted(mem)' >= Counted(mem) /\ asked' = asked /\ crashes' = crashes
  BY <1>1, <1>6 DEF Schedule, Save, Counted, LoopStates
<1>7. CASE HookBlocks
  <2>1. mem'.iteration = mem.iteration /\ mem'.overflowed = mem.overflowed
    BY <1>1, <1>7 DEF HookBlocks, Save, Failed, LoopStates
  <2>2. QED BY <1>1, <1>7, <2>1 DEF HookBlocks, history, Counted, LoopStates
<1>8. CASE ExecutePendingTools
  BY <1>1, <1>8 DEF ExecutePendingTools, Counted, LoopStates
<1>9. CASE BatchEnds
  <2>1. mem'.iteration = mem.iteration /\ mem'.overflowed = mem.overflowed
    <3>1. PICK res \in [mem.pending -> Endings] : RecordResults(res)
      BY <1>9 DEF BatchEnds
    <3> DEFINE held == {i \in DOMAIN res : res[i] = "approval"}
               doubtful == {i \in DOMAIN res : res[i] = "doubt"}
    <3>2. PICK after : after = [mem EXCEPT !.pending = held \cup doubtful, !.told = ToldAfter(res),
                                  !.rec = @ \cup doubtful, !.unsure = @ \cup doubtful]
      OBVIOUS
    <3>3. mem' = after \/ \E rq : mem' = Paused(after, rq)
      BY <3>1, <3>2 DEF RecordResults, Save
    <3> HIDE DEF held, doubtful
    <3>4. /\ after.iteration = mem.iteration /\ after.overflowed = mem.overflowed
          /\ DOMAIN after = DOMAIN mem
      BY <1>1, <3>2 DEF LoopStates
    <3>5. \A rq : /\ Paused(after, rq).iteration = mem.iteration
                  /\ Paused(after, rq).overflowed = mem.overflowed
      BY <1>1, <3>4 DEF Paused, LoopStates
    <3>6. QED BY <3>3, <3>4, <3>5
  <2>2. QED BY <1>1, <1>9, <2>1 DEF BatchEnds, Counted, LoopStates
<1>10. CASE Continue \/ Allow \/ Deny \/ Reconcile
  <2>1. PICK s : /\ Resume(s) /\ DOMAIN s = DOMAIN disk
                 /\ s.iteration = disk.iteration /\ s.overflowed = disk.overflowed
    BY <1>1, <1>10 DEF Continue, Allow, Deny, Reconcile, LoopStates
  <2>2. mem'.iteration = mem.iteration /\ mem'.overflowed = mem.overflowed
    BY <1>1, <2>1 DEF Resume, Save, LoopStates
  <2>3. QED BY <1>1, <2>1, <2>2 DEF Resume, history, Counted, LoopStates
<1>11. QED
  BY <1>2, <1>3, <1>4, <1>5, <1>6, <1>7, <1>8, <1>9, <1>10
     DEF Next, LoopStep, ModelAnswers

LEMMA CallsCounted ==
  ASSUME TypeInv, ModelCallsBounded, [Next]_vars
  PROVE  ModelCallsBounded'
<1>1. /\ mem \in LoopStates /\ disk \in LoopStates /\ mem' \in LoopStates
      /\ asked \in Nat /\ crashes \in Nat
  BY NextTypes, LimitTypes DEF TypeInv, Shape, Tallies, WellFormed
<1>2. /\ asked <= Counted(mem) + 2 * crashes
      /\ asked' <= Counted(mem)' + 2 * crashes' => ModelCallsBounded'
  BY DEF ModelCallsBounded, Counted
<1>3. Counted(mem) \in Nat /\ Counted(mem)' \in Nat /\ Counted(disk) \in Nat
  <2>1. ASSUME NEW s \in LoopStates PROVE Counted(s) \in Nat
    <3>1. s.iteration \in Nat
      BY DEF LoopStates
    <3>2. QED BY <3>1 DEF Counted
  <2>2. Counted(mem)' = Counted(mem')
    BY DEF Counted
  <2>3. QED BY <1>1, <2>1, <2>2
<1>4. CASE CallModel
  <2>1. /\ mem'.iteration = mem.iteration + 1 /\ mem'.overflowed = mem.overflowed
    BY <1>1, <1>4 DEF CallModel, LoopStates
  <2>2. Counted(mem)' = Counted(mem) + 1
    BY <1>1, <2>1 DEF Counted, LoopStates
  <2>3. asked' <= asked + 1 /\ crashes' = crashes
    BY <1>1, <1>4 DEF CallModel
  <2>4. asked' \in Nat
    BY <1>1, <1>4 DEF CallModel
  <2>5. QED BY <1>1, <1>2, <1>3, <2>2, <2>3, <2>4
<1>5. CASE Crash
  <2>1. mem'.iteration = disk.iteration /\ mem'.overflowed = disk.overflowed
    BY <1>1, <1>5 DEF Crash, LoopStates
  <2>2. Counted(mem)' >= Counted(mem) - 2
    <3>1. mem.iteration \in Nat /\ disk.iteration \in Nat
      BY <1>1 DEF LoopStates
    <3>2. mem.iteration <= disk.iteration + 1
      BY <3>1 DEF TypeInv, Shape, Lag
    <3>3. QED BY <2>1, <3>1, <3>2 DEF Counted
  <2>3. asked' = asked /\ crashes' = crashes + 1
    BY <1>5 DEF Crash
  <2>4. QED BY <1>1, <1>2, <1>3, <2>2, <2>3
<1>6. CASE ~CallModel /\ ~Crash
  <2>1. Counted(mem)' >= Counted(mem) /\ asked' = asked /\ crashes' = crashes
    BY <1>6, CountKept
  <2>2. QED BY <1>1, <1>2, <1>3, <2>1
<1>7. QED
  BY <1>4, <1>5, <1>6

\* A turn asks its model no more often than its limit, the one overflow and the crashes
\* allow, however its retries, pauses, resumptions and blocked finishes are mixed.
THEOREM LoopCallsBounded == Spec => []ModelCallsBounded
<1>1. Init => TypeInv /\ ModelCallsBounded
  <2>1. Init => ModelCallsBounded
    BY DEF Init, ModelCallsBounded, FreshState
  <2>2. QED BY <2>1, InitTypes
<1>2. TypeInv /\ ModelCallsBounded /\ [Next]_vars => (TypeInv /\ ModelCallsBounded)'
  BY NextTypes, CallsCounted
<1>3. QED
  BY <1>1, <1>2, PTL DEF Spec

-----------------------------------------------------------------------------
(* The failure circuit.  What is known of failures is only ever changed by    *)
(* the end of a batch, and saved in the same step.                            *)

LEMMA ToldKept ==
  ASSUME TypeInv, [Next]_vars, ~BatchEnds
  PROVE  mem'.told = mem.told /\ pain' = pain
<1>1. mem \in LoopStates /\ disk \in LoopStates /\ disk.told = mem.told
  BY DEF TypeInv, Shape, Lag, WellFormed
<1>2. CASE UNCHANGED vars
  BY <1>2 DEF vars, history
<1>3. CASE TurnsUsedUp \/ CompactionFails \/ HooksAccept \/ HooksHalt \/ End
           \/ ToolErrorEnds \/ RetriesUsedUp \/ OverflowFails
  <2>1. PICK s \in {mem, [mem EXCEPT !.overflowed = TRUE]} :
           \/ mem' = Failed(s) \/ mem' = Completed(s)
           \/ mem' = Paused(s, [kind |-> "input", at |-> 0])
    BY <1>3 DEF TurnsUsedUp, CompactionFails, HooksAccept, HooksHalt, End, ToolErrorEnds,
                RetriesUsedUp, OverflowFails, Save
  <2>2. s \in LoopStates /\ s.told = mem.told
    <3>1. CASE s = mem
      BY <1>1, <3>1
    <3>2. CASE s = [mem EXCEPT !.overflowed = TRUE]
      BY <1>1, <3>2 DEF LoopStates
    <3>3. QED BY <2>1, <3>1, <3>2
  <2>3. mem'.told = s.told
    BY <2>1, <2>2 DEF LoopStates, Failed, Completed, Paused
  <2>4. QED
    BY <1>3, <2>2, <2>3 DEF TurnsUsedUp, CompactionFails, HooksAccept, HooksHalt, End,
         ToolErrorEnds, RetriesUsedUp, OverflowFails, ModelFrame, history
<1>4. CASE OverflowRecovered \/ CallModel
  BY <1>1, <1>4 DEF OverflowRecovered, CallModel, ModelFrame, history, LoopStates
<1>5. CASE ModelRetry \/ ModelPauses \/ ModelFinishes
  BY <1>5 DEF ModelRetry, ModelPauses, ModelFinishes, ModelFrame, Save, history
<1>6. ASSUME NEW batch \in Batches, Schedule(batch)
      PROVE  mem'.told = mem.told /\ pain' = pain
  BY <1>1, <1>6 DEF Schedule, Save, LoopStates
<1>7. CASE HookBlocks
  BY <1>1, <1>7 DEF HookBlocks, Save, Failed, history, LoopStates
<1>8. CASE ExecutePendingTools
  BY <1>8 DEF ExecutePendingTools
<1>9. CASE Crash
  BY <1>1, <1>9 DEF Crash, LoopStates
<1>10. CASE Continue \/ Allow \/ Deny \/ Reconcile
  <2>1. PICK s : Resume(s) /\ DOMAIN s = DOMAIN disk /\ s.told = disk.told
    BY <1>1, <1>10 DEF Continue, Allow, Deny, Reconcile, LoopStates
  <2>2. QED BY <1>1, <2>1 DEF Resume, Save, history, LoopStates
<1>11. QED
  BY <1>2, <1>3, <1>4, <1>5, <1>6, <1>7, <1>8, <1>9, <1>10
     DEF Next, LoopStep, ModelAnswers

\* One failure that may be retried is not yet too many; what opens the circuit is a
\* failure for good, or one more.
LEMMA BatchFailuresKnown ==
  ASSUME TypeInv, FailuresKnown, NEW res \in [mem.pending -> Endings], NEW v \in Invocations
  PROVE  /\ PainAfter(res)[v] # 0 => FailsAfter(res)[v] # "none"
         /\ PainAfter(res)[v] = 2 => FailsAfter(res)[v] \in {"shut", "open"}
<1> DEFINE new == NewFailures(res, v)
           ran == {i \in new : res[i] \in {"failed", "flaky"}}
           told == IF LastSuccess(res) = 0 THEN mem.told.fails[v] ELSE "none"
           felt == IF LastSuccess(res) = 0 THEN pain[v] ELSE 0
<1>1. PainAfter(res)[v] = IF felt + Cardinality(ran) > 1 \/ \E i \in ran : res[i] = "failed"
                          THEN 2 ELSE felt + Cardinality(ran)
  BY DEF PainAfter
<1>2. FailsAfter(res)[v] =
         IF new = {} THEN told
         ELSE IF told = "open" \/ \E i \in new : res[i] = "circuit" THEN "open"
         ELSE IF told = "none" /\ Cardinality(new) = 1 /\ \A i \in new : res[i] = "flaky"
         THEN "once" ELSE "shut"
  BY DEF FailsAfter
<1>3. felt \in 0..2 /\ (felt # 0 => told # "none") /\ (felt = 2 => told \in {"shut", "open"})
  BY DEF FailuresKnown, TypeInv, Tallies
<1>4. ran \subseteq new /\ IsFiniteSet(new) /\ Cardinality(new) \in Nat
  <2>1. new \in SUBSET Told(res)
    BY DEF NewFailures
  <2>2. QED BY <2>1, ResultsFinite
<1>5. \A i \in ran : res[i] \in {"failed", "flaky"}
  OBVIOUS
<1> HIDE DEF new, ran, told, felt
<1>6. Cardinality(ran) \in Nat /\ Cardinality(ran) <= Cardinality(new)
  BY <1>4, FS_Subset, FS_CardinalityType
<1>7. CASE new = {}
  <2>1. Cardinality(ran) = 0 /\ ran = {}
    BY <1>4, <1>7, FS_EmptySet
  <2>2. QED BY <1>1, <1>2, <1>3, <1>7, <2>1
<1>8. CASE new # {}
  <2>1. FailsAfter(res)[v] \in {"open", "once", "shut"}
    BY <1>2, <1>8
  <2>2. ASSUME FailsAfter(res)[v] = "once" PROVE PainAfter(res)[v] # 2
    <3>1. told = "none" /\ Cardinality(new) = 1 /\ \A i \in new : res[i] = "flaky"
      BY <1>2, <1>8, <2>2
    <3>2. felt = 0 /\ Cardinality(ran) <= 1 /\ \A i \in ran : res[i] # "failed"
      BY <1>3, <1>4, <1>6, <3>1
    <3>3. QED BY <1>1, <1>6, <3>2
  <2>3. QED BY <2>1, <2>2
<1>9. QED
  BY <1>7, <1>8

LEMMA FailuresStayKnown ==
  ASSUME TypeInv, FailuresKnown, [Next]_vars
  PROVE  FailuresKnown'
<1>1. CASE BatchEnds
  <2>1. PICK res \in [mem.pending -> Endings] : RecordResults(res) /\ pain' = PainAfter(res)
    BY <1>1 DEF BatchEnds
  <2>2. mem \in LoopStates
    BY DEF TypeInv, Shape, WellFormed
  <2>3. mem'.told.fails = FailsAfter(res)
    <3> DEFINE held == {i \in DOMAIN res : res[i] = "approval"}
               doubtful == {i \in DOMAIN res : res[i] = "doubt"}
    <3>1. PICK after : after = [mem EXCEPT !.pending = held \cup doubtful, !.told = ToldAfter(res),
                                  !.rec = @ \cup doubtful, !.unsure = @ \cup doubtful]
      OBVIOUS
    <3>2. mem' = after \/ \E rq : mem' = Paused(after, rq)
      BY <2>1, <3>1 DEF RecordResults, Save
    <3> HIDE DEF held, doubtful
    <3>3. after.told = ToldAfter(res) /\ DOMAIN after = DOMAIN mem
      BY <2>2, <3>1 DEF LoopStates
    <3>4. \A rq : Paused(after, rq).told = ToldAfter(res)
      BY <2>2, <3>3 DEF Paused, LoopStates
    <3>5. ToldAfter(res).fails = FailsAfter(res)
      BY DEF ToldAfter
    <3>6. QED BY <3>2, <3>3, <3>4, <3>5
  <2>4. QED BY <2>1, <2>3, BatchFailuresKnown DEF FailuresKnown
<1>2. CASE ~BatchEnds
  BY <1>2, ToldKept DEF FailuresKnown
<1>3. QED
  BY <1>1, <1>2

\* Only the guards' choice is ever given to the executor.
LEMMA ExecuteNoRepeat ==
  ASSUME TypeInv, FailuresKnown, NoBlindRepeat, [Next]_vars
  PROVE  NoBlindRepeat'
<1>1. CASE ExecutePendingTools
  <2> SUFFICES ASSUME NEW i \in running' \ mem'.rec PROVE pain'[mem'.batch[i]] < 2
    BY DEF NoBlindRepeat
  <2>1. mem' = mem /\ pain' = pain /\ running' = Executable
    BY <1>1 DEF ExecutePendingTools
  <2>2. i \in Fresh \ Stalled /\ ~Refused(i)
    BY <2>1 DEF Executable, Fresh, Broken
  <2>3. mem.batch[i] \in Invocations
    BY <2>1, BatchFacts DEF Executable, TypeInv, Shape, WellFormed, OfItsBatch
  <2>4. pain[mem.batch[i]] # 2 /\ pain[mem.batch[i]] \in 0..2
    BY <2>2, <2>3 DEF Refused, FailuresKnown, TypeInv, Tallies
  <2>5. QED BY <2>1, <2>4
<1>2. CASE ~ExecutePendingTools
  <2>1. CASE UNCHANGED vars
    BY <2>1 DEF vars, history, NoBlindRepeat
  <2>2. CASE ~UNCHANGED vars
    <3>1. pc' # "tools"
      BY <1>2, <2>2 DEF Next, LoopStep, ModelAnswers, TurnsUsedUp, CompactionFails, CallModel,
         OverflowRecovered, OverflowFails, ToolErrorEnds, ModelRetry, RetriesUsedUp, Schedule,
         ModelPauses, ModelFinishes, HooksAccept, HooksHalt, HookBlocks, BatchEnds, RecordResults,
         End, Crash, Continue, Allow, Deny, Reconcile, Resume, Save
    <3>2. QED BY <3>1 DEF NoBlindRepeat
  <2>3. QED BY <2>1, <2>2
<1>3. QED
  BY <1>1, <1>2

\* A call identical to one that has failed for good, or twice, since the last success is
\* never given to the executor, whatever the batches, crashes and resumptions in between.
THEOREM LoopNoBlindRepeat == Spec => []NoBlindRepeat
<1>1. Init => TypeInv /\ FailuresKnown /\ NoBlindRepeat
  <2>1. Init => FailuresKnown /\ NoBlindRepeat
    BY DEF Init, FailuresKnown, NoBlindRepeat
  <2>2. QED BY <2>1, InitTypes
<1>2. TypeInv /\ FailuresKnown /\ NoBlindRepeat /\ [Next]_vars
         => (TypeInv /\ FailuresKnown /\ NoBlindRepeat)'
  BY NextTypes, FailuresStayKnown, ExecuteNoRepeat
<1>3. QED
  BY <1>1, <1>2, PTL DEF Spec

-----------------------------------------------------------------------------
(* The exploration guard.  The model has been told of every inspection of    *)
(* the cycle, except of those of the batch under way.                        *)

\* Positions are counted from 1.
LEMMA PositionFacts ==
  MaxBatch \in Nat /\ \A i \in Positions : i \in Nat /\ i # 0 /\ i <= MaxBatch
<1>1. MaxBatch \in Nat
  BY LoopAssumption
<1>2. QED
  BY <1>1 DEF Positions

\* A set of positions has a last one.
LEMMA MaxIn ==
  ASSUME NEW S \in SUBSET Positions, S # {}
  PROVE  Max(S) \in S /\ \A n \in S : n <= Max(S)
<1> DEFINE T == {MaxBatch - n : n \in S}
<1>1. T \in SUBSET Nat /\ T # {}
  BY PositionFacts
<1>2. Min(T) \in T /\ \A n \in T : Min(T) <= n
  BY <1>1, MinIn
<1>3. PICK m \in S : \A n \in S : m >= n
  <2>1. PICK m \in S : Min(T) = MaxBatch - m
    BY <1>2
  <2>2. \A n \in S : MaxBatch - m <= MaxBatch - n
    BY <1>2, <2>1
  <2>3. QED BY <2>2, PositionFacts
<1>4. Max(S) \in S /\ \A n \in S : Max(S) >= n
  BY <1>3 DEF Max
<1>5. QED
  BY <1>4, PositionFacts

\* Last is 0 when there is none, and the last position otherwise.
LEMMA LastFacts ==
  ASSUME NEW S \in SUBSET Positions
  PROVE  /\ Last(S) \in Nat /\ (Last(S) = 0 <=> S = {})
         /\ \A n \in S : n <= Last(S)
         /\ S # {} => Last(S) \in S
<1>1. CASE S = {}
  BY <1>1 DEF Last
<1>2. CASE S # {}
  <2>1. Last(S) \in S /\ \A n \in S : n <= Last(S)
    BY <1>2, MaxIn DEF Last
  <2>2. QED BY <1>2, <2>1, PositionFacts
<1>3. QED
  BY <1>1, <1>2

\* When each of some positions has fewer than r of a set before it, they are at most r.
LEMMA FirstFew ==
  ASSUME NEW X \in SUBSET Positions, NEW S \in SUBSET X, NEW r \in Nat,
         \A i \in S : Cardinality({j \in X : j < i}) < r
  PROVE  Cardinality(S) <= r
<1>1. CASE S = {}
  BY <1>1, FS_EmptySet
<1>2. CASE S # {}
  <2>1. PICK m \in S : \A n \in S : n <= m
    BY <1>2, MaxIn
  <2>2. S \ {m} \subseteq {j \in X : j < m}
    BY <2>1, PositionFacts
  <2>3. IsFiniteSet({j \in X : j < m}) /\ IsFiniteSet(S) /\ Cardinality(S) \in Nat
    <3>1. {j \in X : j < m} \in SUBSET Positions /\ S \in SUBSET Positions
      OBVIOUS
    <3>2. QED BY <3>1, PositionsFinite
  <2>4. Cardinality(S \ {m}) = Cardinality(S) - 1
    BY <2>1, <2>3, FS_RemoveElement
  <2>5. /\ Cardinality(S \ {m}) <= Cardinality({j \in X : j < m})
        /\ Cardinality({j \in X : j < m}) \in Nat
    BY <2>2, <2>3, FS_Subset, FS_CardinalityType
  <2>6. QED BY <2>1, <2>3, <2>4, <2>5
<1>3. QED
  BY <1>1, <1>2

\* The limits of the guard are numbers.
LEMMA ExplorationTypes ==
  /\ Limit \in Nat /\ Extension \in Nat
  /\ Limit + Extension \in Nat /\ Limit <= Limit + Extension
<1>1. Limit \in Nat /\ Extension \in Nat
  BY LoopAssumption
<1>2. QED
  BY <1>1

\* What the guard counts of a cycle, and the room it leaves in it.
RoomLeft == IF CycleLimit > Seen THEN CycleLimit - Seen ELSE 0

\* Both are numbers, and neither is larger than the limit with its extension.
LEMMA GuardTypes ==
  ASSUME TypeInv
  PROVE  /\ Seen \in Nat /\ CycleLimit \in Nat /\ CycleLimit <= Limit + Extension
         /\ RoomLeft \in Nat /\ RoomLeft <= Limit + Extension
         /\ mem.pending \subseteq Positions /\ FreshLooks \subseteq mem.pending
         /\ FreshActs \subseteq mem.pending
<1>1. /\ mem.told.looks \in Nat /\ mem.told.again \in SUBSET Positions
      /\ mem.pending \subseteq Positions
  BY DEF TypeInv, Shape, WellFormed, LoopStates
<1>2. Seen \in Nat
  BY <1>1, PositionsFinite DEF Seen
<1>3. CycleLimit \in Nat /\ CycleLimit <= Limit + Extension
  BY ExplorationTypes DEF CycleLimit
<1>4. RoomLeft \in Nat /\ RoomLeft <= Limit + Extension
  BY <1>2, <1>3, ExplorationTypes DEF RoomLeft
<1>5. QED
  BY <1>1, <1>2, <1>3, <1>4 DEF FreshLooks, FreshActs, Fresh

\* After the last act of a batch the guard lets no more inspections through than there is
\* room for.
LEMMA GuardBounds ==
  ASSUME TypeInv, NEW S \in SUBSET FreshLooks,
         \A i \in S : LetThrough(i) /\ i > Last(FreshActs)
  PROVE  /\ Cardinality(S) <= Limit + Extension
         /\ FreshActs = {} => Cardinality(S) <= RoomLeft
<1> DEFINE last == Last(FreshActs)
           X == {j \in FreshLooks : last < j}
           r == IF last # 0 THEN Limit ELSE RoomLeft
<1>1. FreshLooks \subseteq Positions /\ FreshActs \in SUBSET Positions
  BY GuardTypes
<1>2. last \in Nat /\ (last = 0 <=> FreshActs = {}) /\ \A n \in FreshActs : n <= last
  BY <1>1, LastFacts
<1>3. r \in Nat /\ r <= Limit + Extension
  <2>1. r \in {Limit, RoomLeft}
    OBVIOUS
  <2> HIDE DEF r
  <2>2. QED BY <2>1, GuardTypes, ExplorationTypes
<1>4. ASSUME NEW i \in S PROVE Cardinality({j \in X : j < i}) < r
  <2>1. i \in Positions /\ i > last
    BY <1>1
  <2>2. {j \in FreshActs : j < i} = FreshActs
    <3>1. \A j \in FreshActs : j < i
      BY <1>1, <1>2, <2>1, PositionFacts
    <3>2. QED BY <3>1
  <2>3. LastBefore(FreshActs, i) = last
    BY <2>2 DEF LastBefore
  <2>4. Room(i) = r
    BY <2>3 DEF Room, RoomLeft
  <2>5. {j \in FreshLooks : last < j /\ j < i} = {j \in X : j < i}
    OBVIOUS
  <2>6. LetThrough(i) /\ i \in FreshLooks
    OBVIOUS
  <2> HIDE DEF last, X, r
  <2>7. QED BY <2>3, <2>4, <2>5, <2>6 DEF LetThrough
<1>5. S \in SUBSET X /\ X \in SUBSET Positions
  BY <1>1
<1> HIDE DEF X, r
<1>6. Cardinality(S) <= r
  BY <1>3, <1>4, <1>5, FirstFew
<1>7. Cardinality(S) \in Nat
  BY <1>5, PositionsFinite
<1>8. QED
  <2>1. FreshActs = {} => r = RoomLeft
    BY <1>2 DEF r
  <2>2. Limit + Extension \in Nat
    BY ExplorationTypes
  <2> HIDE DEF last
  <2>3. QED BY <1>3, <1>6, <1>7, <2>1, <2>2

\* The calls of the batch under way: its acts, the inspections among them that are counted and
\* not told yet, and those that the executor would run now.
PendingActs == {i \in mem.pending : mem.batch[i] \in Acts}
Untold == (let \cap mem.pending) \ mem.unsure
Inspections == {i \in FreshLooks \cap Executable : ~Asks(i) /\ i \notin mem.denied}

\* Inspections that crashes may have added.
Excused == crashes * (MaxBatch - 1)

CallsSaved == SameCalls(mem, disk) /\ (pc = "model" => mem.pending = {})

\* A doubtful inspection that is told again is still pending.
AgainPending ==
    \A i \in mem.told.again : i \in mem.pending \cap mem.unsure /\ mem.batch[i] \in Looks

\* What is counted is an inspection that no one is asked about.
CountedLooks == \A i \in let \cap mem.pending : mem.batch[i] \in Looks /\ ~Asks(i)

\* Without an act in the batch, what was let through stays let through, and every
\* inspection of the cycle has been told or will be.
StillLetThrough == PendingActs = {} => \A i \in Untold \ mem.rec : LetThrough(i)
LooksTold ==
    PendingActs = {} =>
       looked + (IF Untold \cap mem.rec = {} THEN 0 ELSE MaxBatch - 1)
          <= Seen + Cardinality(Untold) + Excused

\* With one, the inspections after the last act are those that run.
LooksAfterActs ==
    pc = "tools" /\ PendingActs # {} =>
       looked = Cardinality({i \in Inspections : i > Last(PendingActs)})

LooksKnown ==
    /\ CallsSaved /\ AgainPending /\ CountedLooks /\ StillLetThrough
    /\ LooksTold /\ LooksAfterActs /\ InspectionsBounded

\* The counts of this argument are numbers.
LEMMA ExcusedTypes ==
  ASSUME TypeInv
  PROVE  Excused \in Nat /\ MaxBatch - 1 \in Nat /\ looked \in Nat /\ crashes \in Nat
<1>1. crashes \in Nat /\ looked \in Nat /\ MaxBatch - 1 \in Nat
  <2>1. MaxBatch \in Nat \ {0}
    BY LoopAssumption
  <2>2. QED BY <2>1, LimitTypes DEF TypeInv, Tallies
<1>2. \A a, b \in Nat : a * b \in Nat
  OBVIOUS
<1>3. QED
  BY <1>1, <1>2 DEF Excused

\* A step that schedules and records nothing: a snapshot, an answer to a question, or a crash
\* that leaves records of what ran.
LEMMA LooksKept ==
  ASSUME TypeInv, TypeInv', LooksKnown,
         mem'.batch = mem.batch, mem'.pending = mem.pending, mem'.unsure = mem.unsure,
         mem'.told = mem.told, mem.rec \subseteq mem'.rec, mem.approved \subseteq mem'.approved,
         mem.denied \subseteq mem'.denied, SameCalls(mem, disk)', looked' = looked, let' = let,
         pc' # "tools", pc' = "model" => mem.pending = {},
         \/ mem'.rec = mem.rec /\ crashes' = crashes
         \/ crashes' = crashes + 1
  PROVE  LooksKnown'
<1>1. CallsSaved'
  BY DEF CallsSaved
<1>2. AgainPending'
  BY DEF LooksKnown, AgainPending
<1>3. CountedLooks'
  BY DEF LooksKnown, CountedLooks, Asks
<1>4. PendingActs' = PendingActs /\ Untold' = Untold /\ Seen' = Seen /\ CycleLimit' = CycleLimit
  BY DEF PendingActs, Untold, Seen, CycleLimit
<1>5. /\ Untold \subseteq mem.pending /\ IsFiniteSet(Untold) /\ Cardinality(Untold) \in Nat
      /\ Seen \in Nat
  <2>1. Untold \subseteq mem.pending /\ mem.pending \subseteq Positions /\ Seen \in Nat
    BY GuardTypes DEF Untold
  <2>2. Untold \in SUBSET Positions
    BY <2>1
  <2>3. QED BY <2>1, <2>2, PositionsFinite
<1>6. StillLetThrough'
  <2> SUFFICES ASSUME PendingActs = {}, NEW i \in Untold \ mem'.rec PROVE LetThrough(i)'
    BY <1>4 DEF StillLetThrough
  <2>1. FreshActs = {} /\ FreshActs' = {}
    BY DEF PendingActs, FreshActs, Fresh
  <2>2. LastBefore(FreshActs, i) = 0 /\ LastBefore(FreshActs, i)' = 0
    <3>1. {j \in FreshActs : j < i} = {} /\ {j \in FreshActs' : j < i} = {}
      BY <2>1
    <3>2. QED BY <3>1 DEF LastBefore, Last
  <2>3. Room(i)' = Room(i)
    BY <1>4, <2>2 DEF Room
  <2>4. LetThrough(i)
    BY DEF LooksKnown, StillLetThrough
  <2>5. FreshLooks' \subseteq FreshLooks /\ FreshLooks \subseteq Positions
    BY GuardTypes DEF FreshLooks, Fresh
  <2> DEFINE before == {j \in FreshLooks : LastBefore(FreshActs, i) < j /\ j < i}
             later == {j \in FreshLooks' : LastBefore(FreshActs, i)' < j /\ j < i}
  <2>6. later \subseteq before /\ before \in SUBSET Positions
    BY <2>2, <2>5
  <2>7. Cardinality(later) <= Cardinality(before) /\ Cardinality(later) \in Nat
        /\ Cardinality(before) \in Nat
    BY <2>6, PositionsFinite, FS_Subset
  <2>8. Room(i) \in Nat
    BY <2>2, GuardTypes DEF Room, RoomLeft
  <2>9. i \in FreshLooks' => Cardinality(before) < Room(i)
    BY <2>4, <2>5 DEF LetThrough
  <2>10. LetThrough(i)' <=> (i \in FreshLooks' => Cardinality(later) < Room(i)')
    BY DEF LetThrough
  <2> HIDE DEF before, later
  <2>11. QED BY <2>3, <2>7, <2>8, <2>9, <2>10
<1>7. /\ Excused' \in Nat /\ Excused' >= Excused
      /\ mem'.rec # mem.rec => Excused' = Excused + (MaxBatch - 1)
  <2>1. \A a, b \in Nat : (a + 1) * b = a * b + b
    OBVIOUS
  <2>2. crashes' = crashes + 1 => Excused' = Excused + (MaxBatch - 1)
    BY <2>1, ExcusedTypes DEF Excused
  <2>3. crashes' = crashes => Excused' = Excused
    BY DEF Excused
  <2>4. QED BY <2>2, <2>3, ExcusedTypes
<1>8. LooksTold'
  <2> SUFFICES ASSUME PendingActs = {}
               PROVE  looked + (IF Untold \cap mem'.rec = {} THEN 0 ELSE MaxBatch - 1)
                        <= Seen + Cardinality(Untold) + Excused'
    BY <1>4 DEF LooksTold
  <2>1. looked + (IF Untold \cap mem.rec = {} THEN 0 ELSE MaxBatch - 1)
          <= Seen + Cardinality(Untold) + Excused
    BY DEF LooksKnown, LooksTold
  <2>2. CASE mem'.rec = mem.rec
    BY <1>5, <1>7, <2>1, <2>2, ExcusedTypes
  <2>3. CASE mem'.rec # mem.rec
    BY <1>5, <1>7, <2>1, <2>3, ExcusedTypes
  <2>4. QED BY <2>2, <2>3
<1>9. LooksAfterActs'
  BY DEF LooksAfterActs
<1>10. InspectionsBounded'
  <2>1. looked <= Limit + Extension + Excused
    BY DEF LooksKnown, InspectionsBounded, Excused
  <2>2. looked <= Limit + Extension + Excused'
    <3>1. Limit + Extension \in Nat
      BY ExplorationTypes
    <3>2. QED BY <1>7, <2>1, <3>1, ExcusedTypes
  <2>3. QED BY <2>2 DEF InspectionsBounded, Excused
<1>11. QED
  BY <1>1, <1>2, <1>3, <1>6, <1>8, <1>9, <1>10 DEF LooksKnown

\* The steps that do so.
LEMMA LooksQuiet ==
  ASSUME TypeInv, LooksKnown, [Next]_vars,
         ~ExecutePendingTools, ~BatchEnds, \A batch \in Batches : ~Schedule(batch)
  PROVE  LooksKnown'
<1>1. /\ mem \in LoopStates /\ disk \in LoopStates /\ disk.told = mem.told
      /\ SameCalls(mem, disk)
  BY DEF TypeInv, Shape, Lag, WellFormed, LooksKnown, CallsSaved
<1>2. TypeInv'
  BY NextTypes
<1> DEFINE Kept(s) == SameCalls(s, mem) /\ s.told = mem.told
           Still == looked' = looked /\ let' = let /\ crashes' = crashes
<1>3. CASE UNCHANGED vars
  <2>1. /\ pc' = pc /\ mem' = mem /\ disk' = disk
        /\ looked' = looked /\ let' = let /\ crashes' = crashes
    BY <1>3 DEF vars, history
  <2>2. pc' # "tools" => LooksKnown'
    <3>1. Kept(mem') /\ SameCalls(mem, disk)' /\ Still /\ (pc' = "model" => mem.pending = {})
      BY <1>1, <2>1 DEF SameCalls, LooksKnown, CallsSaved
    <3>2. QED BY <1>2, <2>1, <3>1, LooksKept DEF SameCalls
  <2>3. CASE pc' = "tools"
    <3>1. CallsSaved' /\ AgainPending' /\ CountedLooks' /\ InspectionsBounded'
      BY <2>1 DEF LooksKnown, CallsSaved, SameCalls, AgainPending, CountedLooks, Asks,
           InspectionsBounded
    <3>2. /\ PendingActs' = PendingActs /\ Untold' = Untold /\ Seen' = Seen /\ Excused' = Excused
          /\ FreshLooks' = FreshLooks /\ FreshActs' = FreshActs /\ Fresh' = Fresh
          /\ CycleLimit' = CycleLimit
      BY <2>1 DEF PendingActs, Untold, Seen, Excused, FreshLooks, FreshActs, Fresh, CycleLimit
    <3>3. \A i : LetThrough(i)' <=> LetThrough(i)
      BY <3>2, Zenon DEF LetThrough, LastBefore, Last, Room
    <3>4. StillLetThrough' /\ LooksTold'
      BY <2>1, <3>2, <3>3 DEF LooksKnown, StillLetThrough, LooksTold
    <3>5. Inspections' = Inspections
      <4>1. Stalled' = Stalled
        BY <3>2, <3>3 DEF Stalled
      <4>2. Broken' = Broken
        BY <2>1, <3>2, <4>1 DEF Broken, Refused
      <4>3. QED BY <2>1, <3>2, <4>1, <4>2 DEF Inspections, Executable, Asks
    <3>6. LooksAfterActs'
      BY <2>1, <3>2, <3>5 DEF LooksKnown, LooksAfterActs, Last
    <3>7. QED BY <3>1, <3>4, <3>6 DEF LooksKnown
  <2>4. QED BY <2>2, <2>3
<1>4. ASSUME Kept(mem'), SameCalls(mem, disk)', Still, pc' # "tools",
             pc' = "model" => mem.pending = {}
      PROVE  LooksKnown'
  BY <1>2, <1>4, LooksKept DEF SameCalls
<1>5. ASSUME NEW s, Kept(s), mem' = s, disk' = s, Still, pc' \notin {"tools", "model"}
      PROVE  LooksKnown'
  BY <1>4, <1>5 DEF SameCalls
<1>6. CASE TurnsUsedUp \/ CompactionFails \/ HooksAccept \/ HooksHalt \/ End
           \/ ToolErrorEnds \/ RetriesUsedUp \/ OverflowFails
  <2>1. PICK s \in {mem, [mem EXCEPT !.overflowed = TRUE]} :
           \E w \in {Failed(s), Completed(s), Paused(s, [kind |-> "input", at |-> 0])} :
              Save(w, "exit")
    BY <1>6 DEF TurnsUsedUp, CompactionFails, HooksAccept, HooksHalt, End, ToolErrorEnds,
                RetriesUsedUp, OverflowFails
  <2>2. PICK w \in {Failed(s), Completed(s), Paused(s, [kind |-> "input", at |-> 0])} :
           Save(w, "exit")
    BY <2>1
  <2>3. s \in LoopStates /\ Kept(s)
    <3>1. CASE s = mem
      BY <1>1, <3>1 DEF SameCalls
    <3>2. CASE s = [mem EXCEPT !.overflowed = TRUE]
      BY <1>1, <3>2 DEF LoopStates, SameCalls
    <3>3. QED BY <2>1, <3>1, <3>2
  <2>4. Kept(w)
    <3> DEFINE quick == [kind |-> "input", at |-> 0]
    <3>1. \A x \in {Failed(s), Completed(s), Paused(s, quick)} : SameCalls(x, s) /\ x.told = s.told
      <4>1. SameCalls(Failed(s), s) /\ Failed(s).told = s.told
        BY <2>3 DEF LoopStates, Failed, SameCalls
      <4>2. SameCalls(Completed(s), s) /\ Completed(s).told = s.told
        BY <2>3 DEF LoopStates, Completed, SameCalls
      <4>3. SameCalls(Paused(s, quick), s) /\ Paused(s, quick).told = s.told
        BY <2>3 DEF LoopStates, Paused, SameCalls
      <4>4. QED BY <4>1, <4>2, <4>3
    <3>2. SameCalls(w, s) /\ w.told = s.told
      BY <2>2, <3>1
    <3>3. QED BY <2>3, <3>2 DEF SameCalls
  <2>5. Still
    BY <1>6 DEF TurnsUsedUp, CompactionFails, HooksAccept, HooksHalt, End, ToolErrorEnds,
                RetriesUsedUp, OverflowFails, ModelFrame, history
  <2> HIDE DEF Kept, Still
  <2>6. mem' = w /\ disk' = w /\ pc' = "exit"
    BY <2>2 DEF Save
  <2>7. QED BY <1>5, <2>4, <2>5, <2>6
<1>7. CASE OverflowRecovered \/ CallModel
  <2>1. Kept(mem') /\ disk' = disk
    BY <1>1, <1>7 DEF OverflowRecovered, CallModel, LoopStates, SameCalls
  <2>2. SameCalls(mem, disk)'
    BY <1>1, <2>1 DEF SameCalls
  <2>3. Still /\ pc' # "tools" /\ (pc' = "model" => mem.pending = {})
    BY <1>7 DEF OverflowRecovered, CallModel, ModelFrame, history
  <2>4. QED BY <1>4, <2>1, <2>2, <2>3
<1>8. CASE ModelRetry \/ ModelPauses \/ ModelFinishes
  <2>1. mem' = mem /\ disk' = mem /\ pc' \notin {"tools", "model"} /\ Still
    BY <1>8 DEF ModelRetry, ModelPauses, ModelFinishes, ModelFrame, Save, history
  <2>2. Kept(mem)
    BY DEF SameCalls
  <2>3. QED BY <1>5, <2>1, <2>2
<1>9. CASE HookBlocks
  <2>1. Still
    BY <1>9 DEF HookBlocks, history
  <2>2. PICK b : /\ b = [mem EXCEPT !.blocks = mem.blocks + 1]
                 /\ Save(b, "head") \/ Save(Failed(b), "exit")
    BY <1>1, <1>9 DEF HookBlocks, LoopStates
  <2>3. Kept(b) /\ Kept(Failed(b))
    BY <1>1, <2>2 DEF LoopStates, Failed, SameCalls
  <2> HIDE DEF Kept, Still
  <2>4. QED BY <1>5, <2>1, <2>2, <2>3 DEF Save
<1>10. CASE Continue \/ Allow \/ Deny \/ Reconcile
  <2>1. PICK s : /\ Resume(s) /\ DOMAIN s = DOMAIN disk /\ s.told = disk.told
                 /\ s.batch = disk.batch /\ s.pending = disk.pending /\ s.rec = disk.rec
                 /\ s.unsure = disk.unsure
                 /\ disk.approved \subseteq s.approved /\ disk.denied \subseteq s.denied
    BY <1>1, <1>10 DEF Continue, Allow, Deny, Reconcile, LoopStates
  <2>2. /\ mem' = disk' /\ mem'.told = disk.told /\ mem'.batch = disk.batch
        /\ mem'.pending = disk.pending /\ mem'.rec = disk.rec /\ mem'.unsure = disk.unsure
        /\ disk.approved \subseteq mem'.approved /\ disk.denied \subseteq mem'.denied
    BY <1>1, <2>1 DEF Resume, Save, LoopStates
  <2>3. Still /\ pc' = "head"
    BY <2>1 DEF Resume, Save, history
  <2>4. SameCalls(mem, disk)'
    BY <2>2 DEF SameCalls
  <2>5. QED
    BY <1>1, <1>2, <2>2, <2>3, <2>4, LooksKept DEF SameCalls
<1>11. CASE Crash
  <2>1. PICK started : disk' = [disk EXCEPT !.rec = disk.rec \cup started] /\ mem' = disk'
    BY <1>1, <1>11 DEF Crash, LoopStates
  <2>2. /\ mem'.told = disk.told /\ mem'.batch = disk.batch /\ mem'.pending = disk.pending
        /\ disk.rec \subseteq mem'.rec /\ mem'.unsure = disk.unsure
        /\ mem'.approved = disk.approved /\ mem'.denied = disk.denied
    BY <1>1, <2>1 DEF LoopStates
  <2>3. looked' = looked /\ let' = let /\ crashes' = crashes + 1 /\ pc' = "down"
    BY <1>11 DEF Crash
  <2>4. SameCalls(mem, disk)'
    BY <2>1 DEF SameCalls
  <2>5. QED
    BY <1>1, <1>2, <2>2, <2>3, <2>4, LooksKept DEF SameCalls
<1>12. QED
  BY <1>3, <1>6, <1>7, <1>8, <1>9, <1>10, <1>11 DEF Next, LoopStep, ModelAnswers

\* A new batch begins with all of the cycle told.
LEMMA ScheduleLooks ==
  ASSUME TypeInv, LooksKnown, NEW batch \in Batches, Schedule(batch)
  PROVE  LooksKnown'
<1>1. /\ mem \in LoopStates /\ pc = "model" /\ mem.pending = {}
  BY DEF TypeInv, Shape, WellFormed, LooksKnown, CallsSaved, Schedule
<1>2. /\ mem' = disk' /\ mem'.told = mem.told /\ pc' = "head"
      /\ let' = {} /\ looked' = looked /\ crashes' = crashes
  BY <1>1 DEF Schedule, Save, LoopStates
<1>3. mem.told.again = {} /\ PendingActs = {} /\ Untold = {}
  BY <1>1 DEF LooksKnown, AgainPending, PendingActs, Untold
<1>4. Untold' = {} /\ Seen' = Seen /\ Excused' = Excused
  BY <1>2 DEF Untold, Seen, Excused
<1>5. CallsSaved' /\ AgainPending' /\ CountedLooks' /\ StillLetThrough' /\ LooksAfterActs'
  BY <1>2, <1>3, <1>4 DEF CallsSaved, SameCalls, AgainPending, CountedLooks, StillLetThrough,
     LooksAfterActs
<1>6. LooksTold'
  <2>1. looked + (IF Untold \cap mem.rec = {} THEN 0 ELSE MaxBatch - 1)
          <= Seen + Cardinality(Untold) + Excused
    BY <1>3 DEF LooksKnown, LooksTold
  <2>2. looked <= Seen + Cardinality({}) + Excused
    BY <1>3, <2>1, ExcusedTypes
  <2>3. QED BY <1>2, <1>4, <2>2, ExcusedTypes, GuardTypes, FS_EmptySet DEF LooksTold
<1>7. InspectionsBounded'
  BY <1>2 DEF LooksKnown, InspectionsBounded
<1>8. QED
  BY <1>5, <1>6, <1>7 DEF LooksKnown

\* The inspections that run have been let through, and each is a call of its own.
LEMMA InspectionFacts ==
  ASSUME TypeInv
  PROVE  /\ Inspections \subseteq FreshLooks /\ Inspections \subseteq Positions
         /\ \A i \in Inspections : LetThrough(i) /\ ~Asks(i) /\ i \notin mem.rec \cup mem.unsure
<1>1. FreshLooks \subseteq mem.pending /\ mem.pending \subseteq Positions
  BY GuardTypes
<1>2. mem.unsure \subseteq mem.rec
  BY DEF TypeInv, Shape, WellFormed, OfItsBatch
<1>3. \A i \in Inspections : i \in Fresh /\ i \notin Stalled
  BY DEF Inspections, Executable, FreshLooks
<1>4. QED
  BY <1>1, <1>2, <1>3 DEF Inspections, Stalled, Fresh

\* Executing a batch counts what is now untold; the guard has left no more than there was
\* room for, apart from what crashes have recorded.
LEMMA ExecuteLooks ==
  ASSUME TypeInv, LooksKnown, ExecutePendingTools
  PROVE  LooksKnown'
<1>1. /\ pc' = "tools" /\ mem' = mem /\ disk' = disk /\ crashes' = crashes
      /\ let' = let \cup Inspections
      /\ looked' = IF PendingActs # {} THEN Cardinality({i \in Inspections : i > Last(PendingActs)})
                   ELSE looked + Cardinality(Inspections \ let)
  BY DEF ExecutePendingTools, Inspections, PendingActs
<1>2. /\ Inspections \subseteq FreshLooks /\ Inspections \subseteq mem.pending
      /\ mem.pending \subseteq Positions /\ FreshLooks \subseteq mem.pending
      /\ \A i \in FreshLooks : mem.batch[i] \in Looks
  BY InspectionFacts, GuardTypes DEF FreshLooks
<1>3. CallsSaved' /\ AgainPending'
  BY <1>1 DEF LooksKnown, CallsSaved, SameCalls, AgainPending
<1>4. CountedLooks'
  BY <1>1, <1>2, InspectionFacts DEF LooksKnown, CountedLooks, Asks
<1>5. /\ PendingActs' = PendingActs /\ Seen' = Seen /\ Excused' = Excused
      /\ Untold' = Untold \cup Inspections
  BY <1>1, <1>2, InspectionFacts DEF PendingActs, Seen, Excused, Untold
<1>6. \A i : LetThrough(i)' <=> LetThrough(i)
  <2>1. FreshLooks' = FreshLooks /\ FreshActs' = FreshActs /\ CycleLimit' = CycleLimit
    BY <1>1 DEF FreshLooks, FreshActs, Fresh, CycleLimit
  <2>2. QED
    BY <1>5, <2>1, Zenon DEF LetThrough, LastBefore, Last, Room
<1>7. StillLetThrough'
  BY <1>1, <1>5, <1>6, InspectionFacts DEF LooksKnown, StillLetThrough
<1>8. Inspections' = Inspections
  <2>1. Fresh' = Fresh /\ FreshLooks' = FreshLooks
    BY <1>1 DEF FreshLooks, Fresh
  <2>2. Stalled' = Stalled
    BY <1>6, <2>1 DEF Stalled
  <2>3. Broken' = Broken
    BY <1>1, <2>1, <2>2 DEF Broken, Refused
  <2>4. QED BY <1>1, <2>1, <2>2, <2>3 DEF Inspections, Executable, Asks
<1>9. LooksAfterActs'
  BY <1>1, <1>5, <1>8 DEF LooksAfterActs, Last
<1> DEFINE more == Inspections \ Untold
           after == Untold \cup Inspections
<1>10. Inspections \ let = more
  BY <1>2, InspectionFacts DEF Untold
<1>11. after \in SUBSET Positions /\ more \in SUBSET Positions /\ Untold \in SUBSET Positions
  BY <1>2 DEF Untold
<1>12. Cardinality(after) = Cardinality(Untold) + Cardinality(more)
  <2>1. after = Untold \cup more /\ Untold \cap more = {}
    OBVIOUS
  <2>2. IsFiniteSet(Untold) /\ IsFiniteSet(more)
    BY <1>11, PositionsFinite
  <2> HIDE DEF after, more
  <2>3. Cardinality(after) = Cardinality(Untold) + Cardinality(more) - Cardinality({})
    BY <2>1, <2>2, FS_Union
  <2>4. QED BY <1>11, <2>3, PositionsFinite, FS_EmptySet
<1>13. after \cap mem.rec = Untold \cap mem.rec
  BY InspectionFacts
<1>14. /\ Cardinality(after) \in Nat /\ Cardinality(more) \in Nat /\ Cardinality(Untold) \in Nat
  BY <1>11, PositionsFinite
<1>15. PendingActs = {} =>
          looked' + (IF after \cap mem.rec = {} THEN 0 ELSE MaxBatch - 1)
             <= Seen + Cardinality(after) + Excused
  <2> SUFFICES ASSUME PendingActs = {}
               PROVE  looked' + (IF after \cap mem.rec = {} THEN 0 ELSE MaxBatch - 1)
                         <= Seen + Cardinality(after) + Excused
    OBVIOUS
  <2>1. looked + (IF Untold \cap mem.rec = {} THEN 0 ELSE MaxBatch - 1)
          <= Seen + Cardinality(Untold) + Excused
    BY DEF LooksKnown, LooksTold
  <2>2. looked' = looked + Cardinality(more)
    BY <1>1, <1>10
  <2> HIDE DEF after, more
  <2>3. QED BY <1>12, <1>13, <1>14, <2>1, <2>2, ExcusedTypes, GuardTypes
<1>16. LooksTold'
  BY <1>1, <1>5, <1>15 DEF LooksTold
<1>17. InspectionsBounded'
  <2>1. looked' <= Limit + Extension + Excused
    <3>1. CASE PendingActs # {}
      <4> DEFINE S == {i \in Inspections : i > Last(PendingActs)}
      <4>1. FreshActs \subseteq PendingActs /\ PendingActs \in SUBSET Positions
        BY <1>2 DEF FreshActs, PendingActs, Fresh
      <4>2. /\ Last(FreshActs) \in Nat /\ Last(PendingActs) \in Nat
            /\ Last(FreshActs) <= Last(PendingActs)
        <5>1. FreshActs \in SUBSET Positions
          BY <4>1
        <5>2. QED BY <4>1, <5>1, LastFacts
      <4>3. \A i \in S : i > Last(FreshActs) /\ LetThrough(i)
        BY <1>2, <4>2, InspectionFacts, PositionFacts
      <4>4. S \in SUBSET FreshLooks
        BY <1>2
      <4>5. looked' = Cardinality(S)
        BY <1>1, <3>1
      <4>6. Cardinality(S) \in Nat
        BY <1>2, <4>4, PositionsFinite
      <4> HIDE DEF S
      <4>7. Cardinality(S) <= Limit + Extension
        BY <4>3, <4>4, GuardBounds
      <4>8. Limit + Extension \in Nat
        BY ExplorationTypes
      <4>9. QED BY <4>5, <4>6, <4>7, <4>8, ExcusedTypes
    <3>2. CASE PendingActs = {} /\ more = {}
      <4>1. looked' = looked
        BY <1>1, <1>10, <3>2, FS_EmptySet, ExcusedTypes
      <4>2. QED BY <4>1 DEF LooksKnown, InspectionsBounded, Excused
    <3>3. CASE PendingActs = {} /\ more # {}
      <4> DEFINE fresh == after \ mem.rec
                 old == after \cap mem.rec
      <4>1. FreshActs = {} /\ Last(FreshActs) = 0
        BY <3>3 DEF FreshActs, PendingActs, Fresh, Last
      <4>2. fresh \in SUBSET FreshLooks /\ \A i \in fresh : LetThrough(i) /\ i > Last(FreshActs)
        <5>1. \A i \in Untold : i \in mem.pending /\ mem.batch[i] \in Looks
          BY DEF Untold, LooksKnown, CountedLooks
        <5>2. \A i \in Untold \ mem.rec : LetThrough(i)
          BY <3>3 DEF LooksKnown, StillLetThrough
        <5>3. fresh \in SUBSET FreshLooks /\ \A i \in fresh : LetThrough(i)
          BY <1>2, <5>1, <5>2, InspectionFacts DEF FreshLooks, Fresh
        <5>4. QED BY <1>11, <4>1, <5>3, PositionFacts
      <4>3. Cardinality(fresh) <= RoomLeft /\ fresh # {}
        <5>1. fresh # {}
          BY <3>3, InspectionFacts
        <5> HIDE DEF fresh
        <5>2. QED BY <4>1, <4>2, <5>1, GuardBounds
      <4>4. fresh \in SUBSET Positions /\ old \in SUBSET Positions
        BY <1>11
      <4>5. Cardinality(fresh) \in Nat /\ Cardinality(fresh) # 0 /\ Cardinality(old) \in Nat
        <5> HIDE DEF fresh, old
        <5>1. QED BY <4>3, <4>4, PositionsFinite, FS_EmptySet
      <4>6. Cardinality(after) = Cardinality(fresh) + Cardinality(old)
        <5> HIDE DEF after
        <5>1. Cardinality(fresh) = Cardinality(after) - Cardinality(old)
          BY <1>11, PositionsFinite, FS_Difference
        <5> HIDE DEF fresh, old
        <5>2. QED BY <1>14, <4>5, <5>1
      <4>7. Cardinality(old) <= (IF old = {} THEN 0 ELSE MaxBatch - 1)
        <5>1. CASE old = {}
          BY <5>1, FS_EmptySet
        <5>2. CASE old # {}
          <6>1. PICK i \in fresh : TRUE
            BY <4>3
          <6>2. old \subseteq Positions \ {i} /\ i \in Positions
            BY <1>11, <6>1
          <6>3. IsFiniteSet(Positions) /\ Cardinality(Positions) = MaxBatch
            BY PositionFacts, FS_Interval DEF Positions
          <6>4. /\ IsFiniteSet(Positions \ {i})
                /\ Cardinality(Positions \ {i}) = MaxBatch - 1
            BY <6>2, <6>3, FS_RemoveElement
          <6> HIDE DEF old
          <6>5. Cardinality(old) <= MaxBatch - 1
            BY <6>2, <6>4, FS_Subset
          <6>6. QED BY <5>2, <6>5
        <5>3. QED BY <5>1, <5>2
      <4>8. looked' + (IF old = {} THEN 0 ELSE MaxBatch - 1) <= Seen + Cardinality(after) + Excused
        BY <1>15, <3>3
      <4>9. Seen + Cardinality(fresh) <= Limit + Extension
        <5> HIDE DEF fresh
        <5>1. RoomLeft # 0 /\ RoomLeft \in Nat /\ Seen \in Nat /\ CycleLimit \in Nat
          BY <4>3, <4>5, GuardTypes
        <5>2. RoomLeft = CycleLimit - Seen
          BY <5>1 DEF RoomLeft
        <5>3. Limit + Extension \in Nat /\ CycleLimit <= Limit + Extension
          BY GuardTypes, ExplorationTypes
        <5>4. QED BY <4>3, <4>5, <5>1, <5>2, <5>3
      <4>10. looked' \in Nat
        BY <1>1, <1>10, <1>14, <3>3, ExcusedTypes
      <4>11. Limit + Extension \in Nat
        BY ExplorationTypes
      <4> HIDE DEF fresh, old, after, more
      <4>12. QED
        BY <4>5, <4>6, <4>7, <4>8, <4>9, <4>10, <4>11, ExcusedTypes, GuardTypes
    <3>4. QED BY <3>1, <3>2, <3>3
  <2>2. QED BY <1>1, <1>5, <2>1 DEF InspectionsBounded, Excused
<1>18. QED
  BY <1>3, <1>4, <1>7, <1>9, <1>16, <1>17 DEF LooksKnown

\* What the end of a batch leaves of it.
LEMMA BatchEndsLeaves ==
  ASSUME TypeInv, NEW res \in [mem.pending -> Endings], RecordResults(res),
         NEW asking, asking = {i \in DOMAIN res : res[i] = "approval"},
         NEW doubtful, doubtful = {i \in DOMAIN res : res[i] = "doubt"}
  PROVE  /\ mem' = disk' /\ pc' \in {"exit", "end", "head"}
         /\ mem'.batch = mem.batch /\ mem'.pending = asking \cup doubtful
         /\ mem'.rec = mem.rec \cup doubtful /\ mem'.unsure = mem.unsure \cup doubtful
         /\ mem'.told = ToldAfter(res)
<1>1. mem \in LoopStates
  BY DEF TypeInv, Shape, WellFormed
<1>2. PICK after : after = [mem EXCEPT !.pending = asking \cup doubtful, !.told = ToldAfter(res),
                                       !.rec = @ \cup doubtful, !.unsure = @ \cup doubtful]
  OBVIOUS
<1>3. \E s : (s = after \/ \E rq : s = Paused(after, rq)) /\ mem' = s /\ disk' = s
             /\ pc' \in {"exit", "end", "head"}
  BY <1>2 DEF RecordResults, Save
<1>4. /\ after.batch = mem.batch /\ after.pending = asking \cup doubtful
      /\ after.rec = mem.rec \cup doubtful /\ after.unsure = mem.unsure \cup doubtful
      /\ after.told = ToldAfter(res) /\ DOMAIN after = DOMAIN mem
  BY <1>1, <1>2 DEF LoopStates
<1>5. \A rq : /\ SameCalls(Paused(after, rq), after) /\ Paused(after, rq).told = after.told
  BY <1>1, <1>4 DEF Paused, LoopStates, SameCalls
<1>6. QED
  BY <1>3, <1>4, <1>5 DEF SameCalls

\* How the calls that are counted end: with a result that the guard will count.
LEMMA CountedEnd ==
  ASSUME TypeInv, NEW res \in [mem.pending -> Endings], NEW i \in mem.pending,
         Ends(res, i), ~Asks(i), i \notin Stalled
  PROVE  i \in Told(res) /\ res[i] # "control"
<1>1. /\ Outcomes(i) \subseteq {"ok", "failed", "flaky", "doubt"}
  BY DEF Outcomes
<1>2. res[i] \notin {"approval", "control"}
  BY <1>1 DEF Ends
<1>3. QED
  BY <1>2 DEF Told

\* What the guard counts of the cycle afterwards.
LEMMA SeenAfter ==
  ASSUME TypeInv, NEW res \in [mem.pending -> Endings], mem'.told = ToldAfter(res),
         NEW last, last = Last({i \in Told(res) : mem.batch[i] \in Acts}),
         NEW seen,
         seen = {i \in Told(res) : i > last /\ mem.batch[i] \in Looks /\ res[i] # "control"}
  PROVE  /\ Seen' = (IF last = 0 THEN mem.told.looks ELSE 0) + Cardinality(seen)
         /\ mem'.told.again = {i \in seen : res[i] = "doubt"}
<1> DEFINE again == {i \in seen : res[i] = "doubt"}
<1>1. seen = {i \in {j \in Told(res) : j > last} : mem.batch[i] \in Looks /\ res[i] # "control"}
  OBVIOUS
<1>2. /\ mem'.told.looks = (IF last = 0 THEN mem.told.looks ELSE 0) + Cardinality(seen \ again)
      /\ mem'.told.again = again
  <2> DEFINE lastAct == Last({i \in Told(res) : mem.batch[i] \in Acts})
             looks == {i \in {j \in Told(res) : j > lastAct} :
                         mem.batch[i] \in Looks /\ res[i] # "control"}
             doubts == {i \in looks : res[i] = "doubt"}
  <2>1. /\ CycleAfter(res).looks =
              (IF lastAct = 0 THEN mem.told.looks ELSE 0) + Cardinality(looks \ doubts)
        /\ CycleAfter(res).again = doubts
    BY DEF CycleAfter
  <2>2. lastAct = last /\ looks = seen /\ doubts = again
    BY <1>1
  <2>3. mem'.told.looks = CycleAfter(res).looks /\ mem'.told.again = CycleAfter(res).again
    BY DEF ToldAfter
  <2> HIDE DEF lastAct, looks, doubts, again
  <2>4. QED BY <2>1, <2>2, <2>3
<1>3. /\ IsFiniteSet(seen) /\ Cardinality(seen) \in Nat
      /\ Cardinality(again) \in Nat /\ Cardinality(seen \ again) \in Nat
  <2>1. seen \in SUBSET Told(res) /\ again \in SUBSET Told(res) /\ seen \ again \in SUBSET Told(res)
    OBVIOUS
  <2>2. QED BY <2>1, ResultsFinite
<1>4. mem.told.looks \in Nat
  BY DEF TypeInv, Shape, WellFormed, LoopStates
<1>5. seen \cap again = again
  OBVIOUS
<1> HIDE DEF again
<1>6. Cardinality(seen \ again) = Cardinality(seen) - Cardinality(again)
  <2>1. Cardinality(seen \ again) = Cardinality(seen) - Cardinality(seen \cap again)
    BY <1>3, FS_Difference, Zenon
  <2>2. QED BY <1>5, <2>1
<1>7. Seen' = (IF last = 0 THEN mem.told.looks ELSE 0) + Cardinality(seen)
  BY <1>2, <1>3, <1>4, <1>6 DEF Seen
<1>8. QED
  BY <1>2, <1>7 DEF again

\* The end of a batch tells all that was counted: nothing is left untold.
LEMMA BatchEndsLooks ==
  ASSUME TypeInv, LooksKnown, BatchEnds
  PROVE  LooksKnown'
<1>1. PICK res \in [mem.pending -> Endings] :
         RecordResults(res) /\ \A i \in mem.pending : Ends(res, i)
  BY DEF BatchEnds
<1>2. looked' = looked /\ let' = let /\ crashes' = crashes /\ pc = "tools"
  BY DEF BatchEnds
<1> DEFINE asking == {i \in DOMAIN res : res[i] = "approval"}
           doubtful == {i \in DOMAIN res : res[i] = "doubt"}
           acts == {i \in Told(res) : mem.batch[i] \in Acts}
           last == Last(acts)
           seen == {i \in Told(res) : i > last /\ mem.batch[i] \in Looks /\ res[i] # "control"}
<1>3. /\ mem' = disk' /\ pc' \in {"exit", "end", "head"}
      /\ mem'.batch = mem.batch /\ mem'.pending = asking \cup doubtful
      /\ mem'.rec = mem.rec \cup doubtful /\ mem'.unsure = mem.unsure \cup doubtful
      /\ mem'.told = ToldAfter(res)
  BY <1>1, BatchEndsLeaves
<1>4. /\ Seen' = (IF last = 0 THEN mem.told.looks ELSE 0) + Cardinality(seen)
      /\ mem'.told.again = {i \in seen : res[i] = "doubt"}
  <2>1. /\ last = Last({i \in Told(res) : mem.batch[i] \in Acts})
        /\ seen = {i \in Told(res) : i > last /\ mem.batch[i] \in Looks /\ res[i] # "control"}
    OBVIOUS
  <2> HIDE DEF last, seen
  <2>2. QED BY <1>3, <2>1, SeenAfter
<1>5. /\ mem.pending \subseteq Positions /\ mem.unsure \subseteq mem.rec
      /\ mem.told.looks \in Nat
  BY DEF TypeInv, Shape, WellFormed, OfItsBatch, LoopStates
<1>6. /\ Told(res) \subseteq mem.pending
      /\ asking \subseteq mem.pending /\ doubtful \subseteq mem.pending
  BY DEF Told
<1>7. \A i \in let \cap mem.pending : i \notin asking
  <2> SUFFICES ASSUME NEW i \in let \cap mem.pending, res[i] = "approval" PROVE FALSE
    OBVIOUS
  <2>1. ~Asks(i) /\ Ends(res, i)
    BY <1>1 DEF LooksKnown, CountedLooks
  <2>2. Outcomes(i) \subseteq {"ok", "failed", "flaky", "doubt"}
    BY DEF Outcomes
  <2>3. QED BY <2>1, <2>2 DEF Ends
<1>8. CallsSaved'
  BY <1>3 DEF CallsSaved, SameCalls
<1>9. AgainPending'
  BY <1>3, <1>4, <1>6 DEF AgainPending
<1>10. CountedLooks'
  BY <1>2, <1>3, <1>6, <1>7 DEF LooksKnown, CountedLooks, Asks
<1>11. Untold' = {}
  BY <1>2, <1>3, <1>6, <1>7 DEF Untold
<1>12. StillLetThrough' /\ LooksAfterActs'
  BY <1>3, <1>11 DEF StillLetThrough, LooksAfterActs
<1>13. InspectionsBounded'
  BY <1>2 DEF LooksKnown, InspectionsBounded
<1>14. seen \in SUBSET Positions /\ acts \in SUBSET Positions /\ PendingActs \in SUBSET Positions
       /\ acts \subseteq PendingActs
  BY <1>5, <1>6 DEF PendingActs
<1>15. last \in Nat /\ last <= Last(PendingActs)
  <2> HIDE DEF acts
  <2>1. QED BY <1>14, LastFacts
<1>16. looked <= Seen' + Excused
  <2>1. CASE PendingActs = {}
    <3>1. last = 0
      BY <1>14, <2>1 DEF Last
    <3>2. Untold \cup mem.told.again \subseteq seen
      <4> SUFFICES ASSUME NEW i \in Untold \cup mem.told.again PROVE i \in seen
        OBVIOUS
      <4>1. i \in mem.pending /\ mem.batch[i] \in Looks /\ ~Asks(i)
        BY <1>5 DEF Untold, LooksKnown, CountedLooks, AgainPending, Asks
      <4>2. i \notin Stalled
        <5>1. CASE i \in mem.rec
          BY <5>1 DEF Stalled, Fresh
        <5>2. CASE i \notin mem.rec
          <6>1. i \in Untold \ mem.rec
            BY <1>5, <5>2 DEF LooksKnown, AgainPending
          <6>2. QED BY <2>1, <6>1 DEF LooksKnown, StillLetThrough, Stalled
        <5>3. QED BY <5>1, <5>2
      <4>3. i \in Told(res) /\ res[i] # "control"
        BY <1>1, <4>1, <4>2, CountedEnd
      <4>4. i > last
        BY <1>5, <3>1, <4>1, PositionFacts
      <4> HIDE DEF last
      <4>5. QED BY <4>1, <4>3, <4>4
    <3>3. Untold \cap mem.told.again = {}
      BY DEF Untold, LooksKnown, AgainPending
    <3>4. Untold \in SUBSET Positions /\ mem.told.again \in SUBSET Positions
      BY <1>5 DEF Untold, LooksKnown, AgainPending
    <3>5. /\ Cardinality(Untold) \in Nat /\ Cardinality(mem.told.again) \in Nat
          /\ Cardinality(seen) \in Nat
      BY <1>14, <3>4, PositionsFinite
    <3>6. Cardinality(Untold) + Cardinality(mem.told.again) <= Cardinality(seen)
      <4>1. Cardinality(Untold \cup mem.told.again) =
               Cardinality(Untold) + Cardinality(mem.told.again) - Cardinality({})
        BY <3>3, <3>4, PositionsFinite, FS_Union
      <4>2. Cardinality(Untold \cup mem.told.again) <= Cardinality(seen)
        <5> HIDE DEF seen
        <5>1. QED BY <1>14, <3>2, PositionsFinite, FS_Subset
      <4>3. QED BY <3>5, <4>1, <4>2, FS_EmptySet
    <3>7. looked <= Seen + Cardinality(Untold) + Excused
      <4>1. looked + (IF Untold \cap mem.rec = {} THEN 0 ELSE MaxBatch - 1)
              <= Seen + Cardinality(Untold) + Excused
        BY <2>1 DEF LooksKnown, LooksTold
      <4>2. QED BY <3>5, <4>1, ExcusedTypes, GuardTypes
    <3>8. /\ Seen = mem.told.looks + Cardinality(mem.told.again)
          /\ Seen' = mem.told.looks + Cardinality(seen)
      BY <1>4, <3>1 DEF Seen
    <3> HIDE DEF seen
    <3>9. QED BY <1>5, <3>5, <3>6, <3>7, <3>8, ExcusedTypes
  <2>2. CASE PendingActs # {}
    <3> DEFINE S == {i \in Inspections : i > Last(PendingActs)}
    <3>1. looked = Cardinality(S)
      BY <1>2, <2>2 DEF LooksKnown, LooksAfterActs
    <3>2. S \subseteq seen
      <4> SUFFICES ASSUME NEW i \in Inspections, i > Last(PendingActs) PROVE i \in seen
        OBVIOUS
      <4>1. i \in mem.pending /\ mem.batch[i] \in Looks /\ ~Asks(i) /\ i \notin Stalled
        BY DEF Inspections, FreshLooks, Fresh, Executable
      <4>2. i \in Told(res) /\ res[i] # "control"
        BY <1>1, <4>1, CountedEnd
      <4>3. i > last
        BY <1>5, <1>14, <1>15, <4>1, LastFacts, PositionFacts
      <4> HIDE DEF last
      <4>4. QED BY <4>1, <4>2, <4>3
    <3>3. Cardinality(S) <= Cardinality(seen) /\ Cardinality(S) \in Nat /\ Cardinality(seen) \in Nat
      <4> HIDE DEF S, seen
      <4>1. QED BY <1>14, <3>2, PositionsFinite, FS_Subset, FS_CardinalityType
    <3> HIDE DEF S, seen, last
    <3>4. QED BY <1>4, <1>5, <3>1, <3>3, ExcusedTypes
  <2>3. QED BY <2>1, <2>2
<1>17. LooksTold'
  <2>1. Excused' = Excused /\ Seen' \in Nat
    <3>1. Excused' = Excused
      BY <1>2 DEF Excused
    <3>2. Cardinality(seen) \in Nat
      BY <1>14, PositionsFinite
    <3> HIDE DEF seen, last
    <3>3. QED BY <1>4, <1>5, <3>1, <3>2
  <2>2. looked' + 0 <= Seen' + Cardinality({}) + Excused'
    BY <1>2, <1>16, <2>1, ExcusedTypes, FS_EmptySet
  <2>3. QED BY <1>11, <2>2 DEF LooksTold
<1>18. QED
  BY <1>8, <1>9, <1>10, <1>12, <1>13, <1>17 DEF LooksKnown

\* At the start nothing has been counted.
LEMMA InitLooks == Init => LooksKnown
<1> SUFFICES ASSUME Init PROVE LooksKnown
  OBVIOUS
<1>1. mem = FreshState /\ disk = FreshState /\ looked = 0 /\ let = {} /\ crashes = 0 /\ pc = "head"
  BY DEF Init
<1>2. mem.told.again = {} /\ mem.told.looks = 0
  BY <1>1 DEF FreshState, NoResults
<1>3. Untold = {} /\ Seen = 0
  BY <1>1, <1>2, FS_EmptySet DEF Untold, Seen
<1>4. TypeInv
  BY InitTypes
<1>5. LooksTold
  BY <1>1, <1>3, <1>4, ExcusedTypes, FS_EmptySet DEF LooksTold
<1>6. InspectionsBounded
  <2>1. Limit + Extension \in Nat
    BY ExplorationTypes
  <2>2. QED BY <1>1, <1>4, <2>1, ExcusedTypes DEF InspectionsBounded, Excused
<1>7. QED
  BY <1>1, <1>2, <1>3, <1>5, <1>6 DEF LooksKnown, CallsSaved, SameCalls, AgainPending,
     CountedLooks, StillLetThrough, LooksAfterActs

\* Between two acts no more inspections run than the limit, its one extension and the crashes
\* allow, however the model spreads them over batches, plans, approvals and resumptions.
THEOREM LoopInspectionsBounded == Spec => []InspectionsBounded
<1>1. Init => TypeInv /\ LooksKnown
  BY InitTypes, InitLooks
<1>2. TypeInv /\ LooksKnown /\ [Next]_vars => (TypeInv /\ LooksKnown)'
  BY NextTypes, LooksQuiet, ScheduleLooks, ExecuteLooks, BatchEndsLooks
<1>3. LooksKnown => InspectionsBounded
  BY DEF LooksKnown
<1>4. QED
  BY <1>1, <1>2, <1>3, PTL DEF Spec
-----------------------------------------------------------------------------
(***************************************************************************)
(* ModelGateway: the ledger and the calls that share it, for every number of *)
(* calls, every total and every count of tokens.                            *)
(***************************************************************************)

\* The fields of a call, whatever it sends and gets.
CallFields ==
  {"kind", "at", "attempt", "input", "used", "script", "put", "taken", "thread", "block", "tools"}
CallTyped(k) == k = [f \in CallFields |-> k[f]] /\ k.used \in Nat /\ k.input \in Nat

Holding == Active \cup Leaks
Succeeded == {c \in Calls : IsAt(c, "ok")}
UsedBy == [c \in Calls |-> call[c].used]

\* The ledger is a ledger: finitely many leases, none of them negative.
LedgerTyped ==
  /\ committed \in Nat /\ overrun \in Nat /\ TotalTokens \in Nat
  /\ IsFiniteSet(DOMAIN reserved) /\ \A l \in DOMAIN reserved : reserved[l] \in Nat

BudgetInv ==
  /\ LedgerTyped
  /\ call = [c \in Calls |-> call[c]] /\ \A c \in Calls : CallTyped(call[c])
  /\ committed + Reserved <= TotalTokens + overrun
  /\ \A c \in Calls : c \in DOMAIN reserved <=> call[c].at \in Holding
  /\ IsFiniteSet(Succeeded) /\ committed = SumFunctionOnSet(UsedBy, Succeeded)

\* What is reserved is a sum of natural numbers.
LEMMA ReservedIn ==
  ASSUME LedgerTyped
  PROVE  Reserved = SumFunctionOnSet(reserved, DOMAIN reserved) /\ Reserved \in Nat
<1>1. Reserved = SumFunctionOnSet(reserved, DOMAIN reserved)
  BY DEF Reserved, SumFunction
<1> QED
  BY <1>1, SumNat DEF LedgerTyped

\* What the methods of the ledger do to what is reserved.
LEMMA ReserveAdds ==
  ASSUME LedgerTyped, NEW l, NEW amount \in Nat, l \notin DOMAIN reserved, Reserve(l, amount)
  PROVE  /\ LedgerTyped' /\ Reserved' = amount + Reserved
         /\ DOMAIN reserved' = DOMAIN reserved \cup {l}
<1> DEFINE D == DOMAIN reserved
           E == DOMAIN reserved'
<1>1. /\ E = D \cup {l} /\ reserved'[l] = amount /\ l \notin D
      /\ \A k \in D : reserved'[k] = reserved[k]
  BY DEF Reserve
<1>2. IsFiniteSet(D) /\ IsFiniteSet(E)
  BY <1>1, FS_AddElement DEF LedgerTyped
<1>3. \A k \in E : reserved'[k] \in Nat
  BY <1>1 DEF LedgerTyped
<1>4. LedgerTyped'
  BY <1>2, <1>3 DEF LedgerTyped, Reserve
<1>5. Reserved = SumFunctionOnSet(reserved, D) /\ Reserved' = SumFunctionOnSet(reserved', E)
  BY DEF Reserved, SumFunction
<1> HIDE DEF D, E
<1>6. SumFunctionOnSet(reserved', E) = amount + SumFunctionOnSet(reserved', D)
  BY <1>1, <1>2, <1>3, SumWith
<1>7. SumFunctionOnSet(reserved', D) = SumFunctionOnSet(reserved, D)
  BY <1>1, <1>2, SumSame
<1> QED
  BY <1>1, <1>4, <1>5, <1>6, <1>7 DEF D, E

LEMMA ReleaseTakes ==
  ASSUME LedgerTyped, NEW l \in DOMAIN reserved, Released(l), committed' \in Nat, overrun' \in Nat
  PROVE  /\ LedgerTyped' /\ Reserved = reserved[l] + Reserved' /\ Reserved' \in Nat
         /\ DOMAIN reserved' = DOMAIN reserved \ {l}
<1> DEFINE D == DOMAIN reserved
           E == DOMAIN reserved'
<1>1. E = D \ {l} /\ \A k \in E : reserved'[k] = reserved[k]
  BY DEF Released
<1>2. IsFiniteSet(D) /\ IsFiniteSet(E) /\ \A k \in D : reserved[k] \in Nat
  BY <1>1, FS_RemoveElement DEF LedgerTyped
<1>3. LedgerTyped'
  BY <1>1, <1>2 DEF LedgerTyped
<1>4. Reserved = SumFunctionOnSet(reserved, D) /\ Reserved' = SumFunctionOnSet(reserved', E)
  BY DEF Reserved, SumFunction
<1>5. l \in D
  OBVIOUS
<1> HIDE DEF D, E
<1>6. SumFunctionOnSet(reserved, D) = reserved[l] + SumFunctionOnSet(reserved, E)
  BY <1>1, <1>2, <1>5, SumWithout
<1>7. SumFunctionOnSet(reserved', E) = SumFunctionOnSet(reserved, E)
  BY <1>1, <1>2, SumSame
<1>8. SumFunctionOnSet(reserved', E) \in Nat
  BY <1>1, <1>2, SumNat
<1> QED
  BY <1>1, <1>3, <1>4, <1>6, <1>7, <1>8 DEF D, E

\* A step that brings no call to success adds nothing to what was used.
LEMMA UsedStays ==
  ASSUME BudgetInv, NEW c \in Calls, NEW r, call' = [call EXCEPT ![c] = r], CallTyped(r),
         IsAt(c, "ok") <=> r.at = "ok", IsAt(c, "ok") => r.used = call[c].used, committed' = committed
  PROVE  /\ call' = [d \in Calls |-> call'[d]] /\ \A d \in Calls : CallTyped(call'[d])
         /\ IsFiniteSet(Succeeded') /\ committed' = SumFunctionOnSet(UsedBy', Succeeded')
         /\ call'[c] = r /\ \A d \in Calls : d # c => call'[d] = call[d]
<1>1. call'[c] = r /\ \A d \in Calls : d # c => call'[d] = call[d]
  BY DEF BudgetInv
<1>2. call' = [d \in Calls |-> call'[d]] /\ \A d \in Calls : CallTyped(call'[d])
  BY <1>1 DEF BudgetInv
<1>3. Succeeded' = Succeeded
  BY <1>1 DEF Succeeded, IsAt
<1>4. \A d \in Succeeded : UsedBy'[d] = UsedBy[d]
  BY <1>1 DEF Succeeded, UsedBy, IsAt
<1>5. SumFunctionOnSet(UsedBy', Succeeded) = SumFunctionOnSet(UsedBy, Succeeded)
  BY <1>4, SumSame DEF BudgetInv
<1> QED
  BY <1>1, <1>2, <1>3, <1>5 DEF BudgetInv

\* What fits with more held fits with less; what is used beyond what was held is reported.
LEMMA RestFits ==
  ASSUME NEW done \in Nat, NEW held \in Nat, NEW rest \in Nat, NEW total \in Nat, NEW over \in Nat,
         done + (held + rest) <= total + over
  PROVE  done + rest <= total + over
  OBVIOUS

LEMMA SettledFits ==
  ASSUME NEW done \in Nat, NEW held \in Nat, NEW rest \in Nat, NEW total \in Nat, NEW over \in Nat,
         NEW used \in Nat, done + (held + rest) <= total + over
  PROVE  (done + used) + rest <= total + (over + (IF used > held THEN used - held ELSE 0))
  OBVIOUS

\* A call goes on with what it holds, or without holding anything.
LEMMA LedgerStays ==
  ASSUME BudgetInv, NEW c \in Calls, NEW r, call' = [call EXCEPT ![c] = r], CallTyped(r),
         LedgerUnchanged, IsAt(c, "ok") <=> r.at = "ok", IsAt(c, "ok") => r.used = call[c].used,
         r.at \in Holding <=> call[c].at \in Holding
  PROVE  BudgetInv'
<1>1. committed' = committed /\ reserved' = reserved /\ overrun' = overrun
  BY DEF LedgerUnchanged
<1>2. LedgerTyped' /\ Reserved' = Reserved
  BY <1>1 DEF LedgerTyped, Reserved, BudgetInv
<1>3. \A d \in Calls : d \in DOMAIN reserved' <=> call'[d].at \in Holding
  BY <1>1, UsedStays DEF BudgetInv
<1> QED
  BY <1>1, <1>2, <1>3, UsedStays DEF BudgetInv

\* A call begins, and reserves what fits.
LEMMA LedgerReserves ==
  ASSUME BudgetInv, NEW c \in Calls, NEW r, call' = [call EXCEPT ![c] = r], CallTyped(r),
         ~IsAt(c, "ok"), r.at # "ok", r.at \in Holding, call[c].at \notin Holding,
         NEW amount \in Nat, Fits(amount), Reserve(c, amount)
  PROVE  BudgetInv'
<1>1. committed' = committed /\ overrun' = overrun
  BY DEF Reserve
<1>2. /\ LedgerTyped' /\ Reserved' = amount + Reserved /\ DOMAIN reserved' = DOMAIN reserved \cup {c}
  BY ReserveAdds DEF BudgetInv
<1>3. committed' + Reserved' <= TotalTokens + overrun'
  <2>1. committed + Reserved + amount <= TotalTokens
    BY DEF Fits
  <2>2. committed \in Nat /\ Reserved \in Nat /\ overrun \in Nat /\ TotalTokens \in Nat
    BY ReservedIn DEF BudgetInv, LedgerTyped
  <2> QED
    BY <1>1, <1>2, <2>1, <2>2
<1>4. \A d \in Calls : d \in DOMAIN reserved' <=> call'[d].at \in Holding
  BY <1>1, <1>2, UsedStays DEF BudgetInv
<1> QED
  BY <1>1, <1>2, <1>3, <1>4, UsedStays DEF BudgetInv

\* A call gives back what it holds.
LEMMA LedgerRefunds ==
  ASSUME BudgetInv, NEW c \in Calls, NEW r, call' = [call EXCEPT ![c] = r], CallTyped(r),
         ~IsAt(c, "ok"), r.at # "ok", r.at \notin Holding, call[c].at \in Holding, Refund(c)
  PROVE  BudgetInv'
<1>1. committed' = committed /\ overrun' = overrun /\ Released(c) /\ c \in DOMAIN reserved
  BY DEF Refund, BudgetInv
<1>2. /\ LedgerTyped' /\ Reserved = reserved[c] + Reserved' /\ Reserved' \in Nat
      /\ DOMAIN reserved' = DOMAIN reserved \ {c}
  BY <1>1, ReleaseTakes DEF BudgetInv, LedgerTyped
<1>3. committed' + Reserved' <= TotalTokens + overrun'
  <2>1. committed + Reserved <= TotalTokens + overrun
    BY DEF BudgetInv
  <2>2. committed \in Nat /\ overrun \in Nat /\ TotalTokens \in Nat /\ reserved[c] \in Nat
    BY <1>1 DEF BudgetInv, LedgerTyped
  <2>3. committed + (reserved[c] + Reserved') <= TotalTokens + overrun
    BY <1>2, <2>1
  <2> QED
    BY <1>1, <1>2, <2>2, <2>3, RestFits
<1>4. \A d \in Calls : d \in DOMAIN reserved' <=> call'[d].at \in Holding
  BY <1>1, <1>2, UsedStays DEF BudgetInv
<1> QED
  BY <1>1, <1>2, <1>3, <1>4, UsedStays DEF BudgetInv

\* A call succeeds: what it used is counted, and what that is beyond what it had reserved is reported.
LEMMA LedgerCommits ==
  ASSUME BudgetInv, NEW c \in Calls, NEW used \in Nat, call[c].at \in Active, Settle(c, used)
  PROVE  BudgetInv'
<1> DEFINE r == [call[c] EXCEPT !.at = "ok", !.used = used, !.thread = "done"]
<1>1. /\ call' = [call EXCEPT ![c] = r]
      /\ r = [f \in CallFields |-> r[f]] /\ r.at = "ok" /\ r.used = used /\ r.input = call[c].input
  BY DEF Settle, BudgetInv, CallTyped, CallFields
<1>2. CallTyped(r)
  BY <1>1 DEF BudgetInv, CallTyped
<1> HIDE DEF r
<1>3. call'[c] = r /\ \A d \in Calls : d # c => call'[d] = call[d]
  BY <1>1 DEF BudgetInv
<1>4. call' = [d \in Calls |-> call'[d]] /\ \A d \in Calls : CallTyped(call'[d])
  BY <1>1, <1>2, <1>3 DEF BudgetInv
<1>5. c \in DOMAIN reserved /\ reserved[c] \in Nat /\ ~IsAt(c, "ok")
  BY DEF BudgetInv, LedgerTyped, Holding, Active, IsAt
<1>6. /\ Released(c) /\ committed' = committed + used
      /\ overrun' = overrun + (IF used > reserved[c] THEN used - reserved[c] ELSE 0)
  BY <1>5 DEF Settle, Commit
<1>7. committed' \in Nat /\ overrun' \in Nat
  BY <1>5, <1>6 DEF BudgetInv, LedgerTyped
<1>8. /\ LedgerTyped' /\ Reserved = reserved[c] + Reserved' /\ Reserved' \in Nat
      /\ DOMAIN reserved' = DOMAIN reserved \ {c}
  BY <1>5, <1>6, <1>7, ReleaseTakes DEF BudgetInv
<1>9. committed' + Reserved' <= TotalTokens + overrun'
  <2>1. committed \in Nat /\ overrun \in Nat /\ TotalTokens \in Nat
    BY DEF BudgetInv, LedgerTyped
  <2>2. committed + Reserved <= TotalTokens + overrun
    BY DEF BudgetInv
  <2>3. committed + (reserved[c] + Reserved') <= TotalTokens + overrun
    BY <1>8, <2>2
  <2> QED
    BY <1>5, <1>6, <1>8, <2>1, <2>3, SettledFits
<1>10. \A d \in Calls : d \in DOMAIN reserved' <=> call'[d].at \in Holding
  BY <1>1, <1>3, <1>8 DEF BudgetInv, Holding, Active, Leaks
<1>11. Succeeded' = Succeeded \cup {c} /\ c \notin Succeeded
  BY <1>1, <1>3, <1>5 DEF Succeeded, IsAt
<1>12. IsFiniteSet(Succeeded) /\ IsFiniteSet(Succeeded')
  BY <1>11, FS_AddElement DEF BudgetInv
<1>13. \A d \in Succeeded \cup {c} : UsedBy'[d] \in Nat
  BY <1>4 DEF Succeeded, UsedBy, CallTyped
<1>14. SumFunctionOnSet(UsedBy', Succeeded \cup {c}) = UsedBy'[c] + SumFunctionOnSet(UsedBy', Succeeded)
  BY <1>11, <1>12, <1>13, SumWith
<1>15. SumFunctionOnSet(UsedBy', Succeeded) = SumFunctionOnSet(UsedBy, Succeeded)
  <2>1. \A d \in Succeeded : UsedBy'[d] = UsedBy[d]
    BY <1>3, <1>11 DEF Succeeded, UsedBy
  <2> QED
    BY <1>12, <2>1, SumSame
<1>16. committed' = SumFunctionOnSet(UsedBy', Succeeded')
  <2>1. UsedBy'[c] = used
    BY <1>1, <1>3 DEF UsedBy
  <2>2. SumFunctionOnSet(UsedBy, Succeeded) = committed /\ committed \in Nat
    BY DEF BudgetInv, LedgerTyped
  <2>3. committed + used = used + committed
    BY <2>2
  <2> QED
    BY <1>6, <1>11, <1>14, <1>15, <2>1, <2>2, <2>3
<1> QED
  BY <1>4, <1>8, <1>9, <1>10, <1>12, <1>16 DEF BudgetInv

LEMMA BudgetStart ==
  ASSUME GatewayConstants, GatewayInit
  PROVE  BudgetInv
<1>1. DOMAIN reserved = {}
  BY DEF GatewayInit
<1>2. Succeeded = {} /\ \A c \in Calls : call[c] = NoCall
  BY DEF GatewayInit, Succeeded, IsAt, NoCall
<1>3. CallTyped(NoCall) /\ NoCall.at = "idle"
  BY DEF CallTyped, NoCall, CallFields
<1>4. Reserved = 0 /\ SumFunctionOnSet(UsedBy, Succeeded) = 0
  BY <1>1, <1>2, SumEmpty DEF Reserved, SumFunction
<1>5. LedgerTyped
  BY <1>1, FS_EmptySet DEF GatewayInit, LedgerTyped, GatewayConstants
<1>6. \A c \in Calls : c \in DOMAIN reserved <=> call[c].at \in Holding
  BY <1>1, <1>2, <1>3 DEF Holding, Active, Leaks
<1>7. committed + Reserved <= TotalTokens + overrun
  BY <1>4 DEF GatewayInit, GatewayConstants
<1>8. IsFiniteSet(Succeeded) /\ committed = SumFunctionOnSet(UsedBy, Succeeded)
  BY <1>2, <1>4, FS_EmptySet DEF GatewayInit
<1> QED
  BY <1>2, <1>3, <1>5, <1>6, <1>7, <1>8 DEF BudgetInv, GatewayInit

\* What a call reserves is a natural number.
LEMMA ReservationIn ==
  ASSUME GatewayConstants, NEW input \in Prompts, NEW requested \in Requested
  PROVE  input \in Nat /\ Reservation(input, requested) \in Nat
<1>1. input \in Nat /\ requested \in Nat /\ StageBudget.output \in Nat
  BY DEF GatewayConstants
<1> QED
  BY <1>1 DEF Reservation, MaxOutput, Least

-----------------------------------------------------------------------------
(* The steps. *)

\* What some fields of a call are set to leaves the others.
LEMMA AtMoves ==
  ASSUME NEW k, CallTyped(k), NEW at
  PROVE  CallTyped([k EXCEPT !.at = at]) /\ [k EXCEPT !.at = at].at = at
  BY DEF CallTyped, CallFields

LEMMA AtAndThreadMove ==
  ASSUME NEW k, CallTyped(k), NEW at, NEW thread
  PROVE  /\ CallTyped([k EXCEPT !.at = at, !.thread = thread])
         /\ [k EXCEPT !.at = at, !.thread = thread].at = at
  BY DEF CallTyped, CallFields

LEMMA ThreadMoves ==
  ASSUME NEW k, CallTyped(k), NEW thread
  PROVE  /\ CallTyped([k EXCEPT !.thread = thread])
         /\ [k EXCEPT !.thread = thread].at = k.at /\ [k EXCEPT !.thread = thread].used = k.used
  BY DEF CallTyped, CallFields

LEMMA PutMoves ==
  ASSUME NEW k, CallTyped(k), NEW put
  PROVE  /\ CallTyped([k EXCEPT !.put = put])
         /\ [k EXCEPT !.put = put].at = k.at /\ [k EXCEPT !.put = put].used = k.used
  BY DEF CallTyped, CallFields

\* A chunk changes neither where the call is nor what it used.
LEMMA TakenStays ==
  ASSUME NEW k, CallTyped(k), NEW chunk, NEW u, u = [Taken(k, chunk) EXCEPT !.taken = @ + 1]
  PROVE  CallTyped(u) /\ u.at = k.at
<1> DEFINE t == Taken(k, chunk)
<1>1. k = [f \in CallFields |-> k[f]] /\ k.used \in Nat /\ k.input \in Nat
  BY DEF CallTyped
<1>2. CallTyped(t) /\ t.at = k.at
  <2>1. ASSUME NEW b PROVE CallTyped([k EXCEPT !.block = b]) /\ [k EXCEPT !.block = b].at = k.at
    BY <1>1 DEF CallTyped, CallFields
  <2>2. CallTyped([k EXCEPT !.block.args = @ + 1]) /\ [k EXCEPT !.block.args = @ + 1].at = k.at
    BY <1>1 DEF CallTyped, CallFields
  <2>3. ASSUME NEW s, NEW b
        PROVE  /\ CallTyped([k EXCEPT !.tools = s, !.block = b])
               /\ [k EXCEPT !.tools = s, !.block = b].at = k.at
    BY <1>1 DEF CallTyped, CallFields
  <2>4. [k EXCEPT !.tools = Append(@, k.block), !.block = NoBlock] =
          [k EXCEPT !.tools = Append(k.tools, k.block), !.block = NoBlock]
    OBVIOUS
  <2>5. CASE chunk.type = "tool_use_start"
    BY <2>1, <2>5 DEF Taken
  <2>6. CASE chunk.type # "tool_use_start" /\ chunk.type = "tool_input_delta"
    BY <2>2, <2>6 DEF Taken
  <2>7. CASE /\ chunk.type # "tool_use_start" /\ chunk.type # "tool_input_delta"
             /\ chunk.type = "content_block_stop" /\ k.block.tool # "none"
    BY <2>3, <2>4, <2>7 DEF Taken
  <2>8. CASE /\ chunk.type # "tool_use_start" /\ chunk.type # "tool_input_delta"
             /\ ~(chunk.type = "content_block_stop" /\ k.block.tool # "none")
    BY <2>8 DEF Taken
  <2> QED
    BY <2>5, <2>6, <2>7, <2>8
<1>3. u = [t EXCEPT !.taken = t.taken + 1]
  OBVIOUS
<1> HIDE DEF t
<1>4. CallTyped(u) /\ u.at = t.at
  BY <1>2, <1>3 DEF CallTyped, CallFields
<1> QED
  BY <1>2, <1>4

\* Begin: nothing is held unless the worst case fits.
LEMMA BeginHolds ==
  ASSUME GatewayConstants, BudgetInv, NEW c \in Calls, NEW kind, NEW input \in Prompts,
         NEW requested \in Requested, NEW script, Begin(c, kind, input, requested, script)
  PROVE  BudgetInv'
<1> DEFINE refused == \/ MaxInput(requested) = 0
                      \/ input > MaxInput(requested)
                      \/ ~Fits(Reservation(input, requested))
           r == [NoCall EXCEPT !.kind = kind, !.input = input, !.script = script,
                               !.attempt = call[c].attempt + 1,
                               !.thread = IF refused THEN "none" ELSE "running",
                               !.at = IF refused THEN "refused"
                                      ELSE IF kind = "stream" THEN "streaming" ELSE "awaiting"]
<1>1. /\ call' = [call EXCEPT ![c] = r] /\ call[c].at \in {"idle", "retry"}
      /\ IF refused THEN LedgerUnchanged ELSE Reserve(c, Reservation(input, requested))
  BY DEF Begin
<1>2. input \in Nat /\ Reservation(input, requested) \in Nat
  BY ReservationIn
<1>3. /\ r.at = IF refused THEN "refused" ELSE IF kind = "stream" THEN "streaming" ELSE "awaiting"
      /\ CallTyped(r)
  <2> HIDE DEF refused
  <2>1. r.at = IF refused THEN "refused" ELSE IF kind = "stream" THEN "streaming" ELSE "awaiting"
    BY DEF NoCall
  <2>2. r = [f \in CallFields |-> r[f]] /\ r.used = 0 /\ r.input = input
    BY DEF NoCall, CallFields
  <2> QED
    BY <1>2, <2>1, <2>2 DEF CallTyped
<1>4. ~IsAt(c, "ok") /\ call[c].at \notin Holding
  BY <1>1 DEF IsAt, Holding, Active, Leaks
<1>5. ~refused => Fits(Reservation(input, requested))
  OBVIOUS
<1> HIDE DEF r, refused
<1>6. CASE refused
  <2>1. r.at # "ok" /\ r.at \notin Holding
    BY <1>3, <1>6 DEF Holding, Active, Leaks
  <2> QED
    BY <1>1, <1>3, <1>4, <1>6, <2>1, LedgerStays
<1>7. CASE ~refused
  <2>1. r.at # "ok" /\ r.at \in Holding
    BY <1>3, <1>7 DEF Holding, Active, Leaks
  <2> QED
    BY <1>1, <1>2, <1>3, <1>4, <1>5, <1>7, <2>1, LedgerReserves
<1> QED
  BY <1>6, <1>7

\* The answers of a provider, whatever the kind of the call.
LEMMA AnswersHold ==
  ASSUME GatewayConstants, BudgetInv, NEW c \in Calls, NEW answer \in AnswerTokens,
         \/ TextReturns(c, answer) \/ StructuredReturns(c, answer) \/ ToolsReturn(c, answer)
         \/ CanonicalReturns(c, answer)
  PROVE  BudgetInv'
<1>1. answer \in Nat /\ CallTyped(call[c]) /\ call[c].input \in Nat
  BY DEF GatewayConstants, BudgetInv, CallTyped
<1>2. IsAt(c, "awaiting") /\ call[c].at \in Active /\ call[c].at \in Holding /\ ~IsAt(c, "ok")
  BY DEF TextReturns, StructuredReturns, ToolsReturn, CanonicalReturns, IsAt, Active, Holding
<1>3. call[c].input + answer \in Nat /\ call[c].input + 0 \in Nat
  BY <1>1
<1>4. CASE TextReturns(c, answer) \/ StructuredReturns(c, answer)
  BY <1>2, <1>3, <1>4, LedgerCommits DEF TextReturns, StructuredReturns
<1>5. CASE ToolsReturn(c, answer)
  <2>1. PICK reported \in BOOLEAN : Settle(c, call[c].input + IF reported THEN answer ELSE 0)
    BY <1>5 DEF ToolsReturn
  <2>2. (call[c].input + IF reported THEN answer ELSE 0) \in Nat
    BY <1>1
  <2> QED
    BY <1>2, <2>1, <2>2, LedgerCommits
<1>6. CASE CanonicalReturns(c, answer)
  <2>1. CASE Settle(c, call[c].input + answer)
    BY <1>2, <1>3, <2>1, LedgerCommits
  <2>2. CASE call' = [call EXCEPT ![c].at = "unparsed", ![c].thread = "done"] /\ LedgerUnchanged
    <3> DEFINE r == [call[c] EXCEPT !.at = "unparsed", !.thread = "done"]
    <3>1. call' = [call EXCEPT ![c] = r]
      BY <2>2 DEF BudgetInv
    <3>2. CallTyped(r) /\ r.at = "unparsed"
      BY <1>1, AtAndThreadMove
    <3> HIDE DEF r
    <3>3. r.at # "ok" /\ r.at \in Holding
      BY <3>2 DEF Holding, Leaks
    <3> QED
      BY <1>2, <2>2, <3>1, <3>2, <3>3, LedgerStays
  <2> QED
    BY <1>6, <2>1, <2>2 DEF CanonicalReturns
<1> QED
  BY <1>4, <1>5, <1>6

\* Only the field that says where a call is changes, and its reservation goes or stays.
LEMMA MovesHold ==
  ASSUME BudgetInv, NEW c \in Calls, NEW how, Leaves(c, how), ~IsAt(c, "ok"), how # "ok",
         \/ LedgerUnchanged /\ (how \in Holding <=> call[c].at \in Holding)
         \/ Refund(c) /\ call[c].at \in Holding /\ how \notin Holding
  PROVE  BudgetInv'
<1> DEFINE r == [call[c] EXCEPT !.at = how]
<1>1. call' = [call EXCEPT ![c] = r]
  BY DEF Leaves, BudgetInv
<1>2. CallTyped(r) /\ r.at = how
  BY AtMoves DEF BudgetInv
<1> HIDE DEF r
<1>3. CASE LedgerUnchanged /\ (how \in Holding <=> call[c].at \in Holding)
  BY <1>1, <1>2, <1>3, LedgerStays
<1>4. CASE Refund(c) /\ call[c].at \in Holding /\ how \notin Holding
  BY <1>1, <1>2, <1>4, LedgerRefunds
<1> QED
  BY <1>3, <1>4

\* A thread that raised, a consumer that took: the steps that change several fields.
LEMMA RaisesHold ==
  ASSUME BudgetInv, NEW c \in Calls, CallRaises(c)
  PROVE  BudgetInv'
<1> DEFINE at == IF call[c].kind = "structured" /\ call[c].attempt < MaxAttempts
                 THEN "retry" ELSE "failed"
           r == [call[c] EXCEPT !.thread = "raised", !.at = at]
<1>1. call' = [call EXCEPT ![c] = r] /\ IsAt(c, "awaiting") /\ Refund(c)
  BY DEF CallRaises, BudgetInv
<1>2. at \in {"retry", "failed"}
  OBVIOUS
<1> HIDE DEF at
<1>3. CallTyped(r) /\ r.at = at
  BY DEF BudgetInv, CallTyped, CallFields
<1> HIDE DEF r
<1>4. /\ ~IsAt(c, "ok") /\ r.at # "ok" /\ call[c].at \in Holding /\ r.at \notin Holding
  BY <1>1, <1>2, <1>3 DEF IsAt, Holding, Active, Leaks
<1> QED
  BY <1>1, <1>3, <1>4, LedgerRefunds

LEMMA ProducerHolds ==
  ASSUME BudgetInv, NEW c \in Calls, ProducerPuts(c) \/ ProducerEnds(c)
  PROVE  BudgetInv'
<1>1. /\ LedgerUnchanged /\ CallTyped(call[c])
  BY DEF ProducerPuts, ProducerEnds, BudgetInv
<1>2. \E r : /\ call' = [call EXCEPT ![c] = r] /\ CallTyped(r)
            /\ r.at = call[c].at /\ r.used = call[c].used
  <2>1. CASE ProducerPuts(c)
    <3> DEFINE r == [call[c] EXCEPT !.put = call[c].put + 1]
    <3>1. call' = [call EXCEPT ![c] = r]
      BY <2>1 DEF ProducerPuts, BudgetInv
    <3>2. CallTyped(r) /\ r.at = call[c].at /\ r.used = call[c].used
      BY <1>1, PutMoves
    <3> HIDE DEF r
    <3> QED
      BY <3>1, <3>2
  <2>2. CASE ProducerEnds(c)
    <3>1. PICK how \in {"done", "raised"} : call' = [call EXCEPT ![c].thread = how]
      BY <2>2 DEF ProducerEnds
    <3> DEFINE r == [call[c] EXCEPT !.thread = how]
    <3>2. call' = [call EXCEPT ![c] = r]
      BY <3>1 DEF BudgetInv
    <3>3. CallTyped(r) /\ r.at = call[c].at /\ r.used = call[c].used
      BY <1>1, ThreadMoves
    <3> HIDE DEF r
    <3> QED
      BY <3>2, <3>3
  <2> QED
    BY <2>1, <2>2
<1>3. PICK r : /\ call' = [call EXCEPT ![c] = r] /\ CallTyped(r)
               /\ r.at = call[c].at /\ r.used = call[c].used
  BY <1>2
<1>4. IsAt(c, "ok") <=> r.at = "ok"
  BY <1>3 DEF IsAt
<1> QED
  BY <1>1, <1>3, <1>4, LedgerStays

LEMMA ConsumeHolds ==
  ASSUME BudgetInv, NEW c \in Calls, Consume(c)
  PROVE  BudgetInv'
<1> DEFINE chunk == call[c].script[call[c].taken + 1]
           taken == [Taken(call[c], chunk) EXCEPT !.taken = @ + 1]
           left == [taken EXCEPT !.at = "dropped"]
<1>1. /\ IsAt(c, "streaming") /\ LedgerUnchanged
      /\ call' = [call EXCEPT ![c] = taken] \/ call' = [call EXCEPT ![c] = left]
  BY DEF Consume
<1>2. CallTyped(call[c])
  BY DEF BudgetInv
<1> HIDE DEF chunk
<1>3. taken = [Taken(call[c], chunk) EXCEPT !.taken = @ + 1]
  OBVIOUS
<1> HIDE DEF taken
<1>4. CallTyped(taken) /\ taken.at = call[c].at
  BY <1>2, <1>3, TakenStays
<1>5. CallTyped(taken) /\ taken.at = call[c].at /\ CallTyped(left) /\ left.at = "dropped"
  BY <1>4, AtMoves
<1> HIDE DEF left
<1>6. /\ ~IsAt(c, "ok") /\ taken.at # "ok" /\ left.at # "ok"
      /\ call[c].at \in Holding /\ taken.at \in Holding /\ left.at \in Holding
  BY <1>1, <1>5 DEF IsAt, Holding, Active
<1>7. CASE call' = [call EXCEPT ![c] = taken]
  BY <1>1, <1>5, <1>6, <1>7, LedgerStays
<1>8. CASE call' = [call EXCEPT ![c] = left]
  BY <1>1, <1>5, <1>6, <1>8, LedgerStays
<1> QED
  BY <1>1, <1>7, <1>8

\* The end of a stream: settled, refunded, or cut off with its reservation left behind.
LEMMA StreamEndHolds ==
  ASSUME GatewayConstants, BudgetInv, NEW c \in Calls, NEW answer \in AnswerTokens, StreamEnds(c, answer)
  PROVE  BudgetInv'
<1>1. /\ IsAt(c, "streaming") /\ ~IsAt(c, "ok")
      /\ call[c].at \in Active /\ call[c].at \in Holding /\ "cut" \in Holding /\ "failed" \notin Holding
  BY DEF StreamEnds, IsAt, Holding, Active, Leaks
<1>2. call[c].input + answer \in Nat
  <2>1. call[c].input \in Nat /\ answer \in Nat
    BY DEF GatewayConstants, BudgetInv, CallTyped
  <2> QED
    BY <2>1
<1>3. CASE Settle(c, call[c].input + answer)
  BY <1>1, <1>2, <1>3, LedgerCommits
<1>4. CASE Refund(c) /\ Leaves(c, "failed")
  BY <1>1, <1>4, MovesHold
<1>5. CASE Leaves(c, "cut") /\ LedgerUnchanged
  BY <1>1, <1>5, MovesHold
<1> QED
  BY <1>3, <1>4, <1>5 DEF StreamEnds

\* A caller that goes away.
LEMMA CancelsHold ==
  ASSUME BudgetInv, NEW c \in Calls,
         CancelCall(c) \/ CancelStream(c) \/ CloseDropped(c) \/ ClosingEnds(c)
  PROVE  BudgetInv'
<1>1. /\ "cancelled" \notin Holding /\ "closing" \notin Holding
      /\ "awaiting" \in Holding /\ "streaming" \in Holding /\ "dropped" \in Holding
  BY DEF Holding, Active, Leaks
<1>2. CASE CancelCall(c)
  <2>1. Leaves(c, "cancelled") /\ Refund(c) /\ call[c].at \in Holding /\ ~IsAt(c, "ok")
    BY <1>1, <1>2 DEF CancelCall, IsAt
  <2> QED
    BY <1>1, <2>1, MovesHold
<1>3. CASE CancelStream(c) \/ CloseDropped(c)
  <2>1. Leaves(c, "closing") /\ Refund(c) /\ call[c].at \in Holding /\ ~IsAt(c, "ok")
    BY <1>1, <1>3 DEF CancelStream, CloseDropped, IsAt
  <2> QED
    BY <1>1, <2>1, MovesHold
<1>4. CASE ClosingEnds(c)
  <2>1. Leaves(c, "cancelled") /\ LedgerUnchanged /\ call[c].at \notin Holding /\ ~IsAt(c, "ok")
    BY <1>1, <1>4 DEF ClosingEnds, IsAt
  <2> QED
    BY <1>1, <2>1, MovesHold
<1> QED
  BY <1>2, <1>3, <1>4

LEMMA BudgetStutters ==
  ASSUME BudgetInv, UNCHANGED gatewayVars
  PROVE  BudgetInv'
  BY DEF BudgetInv, gatewayVars, LedgerTyped, Reserved, Succeeded, UsedBy, IsAt

LEMMA BudgetStep ==
  ASSUME GatewayConstants, BudgetInv, [GatewayNext]_gatewayVars
  PROVE  BudgetInv'
<1>1. CASE UNCHANGED gatewayVars
  BY <1>1, BudgetStutters
<1>2. ASSUME NEW c \in Calls, CallStep(c)
      PROVE  BudgetInv'
  <2>1. CASE ProducerPuts(c) \/ ProducerEnds(c)
    BY <2>1, ProducerHolds
  <2>2. CASE Consume(c)
    BY <2>2, ConsumeHolds
  <2>3. CASE CloseDropped(c) \/ ClosingEnds(c)
    BY <2>3, CancelsHold
  <2>4. CASE CallRaises(c)
    BY <2>4, RaisesHold
  <2>5. ASSUME NEW answer \in AnswerTokens,
               \/ TextReturns(c, answer) \/ StructuredReturns(c, answer) \/ ToolsReturn(c, answer)
               \/ CanonicalReturns(c, answer)
        PROVE  BudgetInv'
    BY <2>5, AnswersHold
  <2>6. ASSUME NEW answer \in AnswerTokens, StreamEnds(c, answer)
        PROVE  BudgetInv'
    BY <2>6, StreamEndHolds
  <2> QED
    BY <1>2, <2>1, <2>2, <2>3, <2>4, <2>5, <2>6 DEF CallStep
<1>3. ASSUME NEW c \in Calls, CancelCall(c) \/ CancelStream(c)
      PROVE  BudgetInv'
  BY <1>3, CancelsHold
<1>4. ASSUME NEW c \in Calls, NEW kind \in Kinds, NEW input \in Prompts, NEW requested \in Requested,
             NEW script \in Scripts \cup {<<>>}, Begin(c, kind, input, requested, script)
      PROVE  BudgetInv'
  BY <1>4, BeginHolds
<1> QED
  BY <1>1, <1>2, <1>3, <1>4 DEF GatewayNext

\* Whatever the calls of a turn do, side by side, abandoned or streamed to the end: what is
\* committed and reserved passes the turn's total by the reported overruns at most, a call
\* holds tokens while it is under way or has leaked them, and what is committed is what the
\* calls that succeeded used.
THEOREM BudgetIsHeld == GatewayConstants => (GatewaySpec => []BudgetHeld)
<1> SUFFICES ASSUME GatewayConstants PROVE GatewaySpec => []BudgetHeld
  OBVIOUS
<1>1. GatewayInit => BudgetInv
  BY BudgetStart
<1>2. BudgetInv /\ [GatewayNext]_gatewayVars => BudgetInv'
  BY BudgetStep
<1>3. BudgetInv => BudgetHeld
  BY DEF BudgetInv, BudgetHeld, UsedBy, Succeeded, Holding
<1> QED
  BY <1>1, <1>2, <1>3, PTL DEF GatewaySpec

-----------------------------------------------------------------------------
(* Streamed answers, for every script a provider may send.                  *)

Blocks == [tool : GatewayTools \cup {"none"}, args : Nat]

\* The block that is open behind the first n chunks.
BlockOpen(s, n, block) ==
  IF block.tool = "none" THEN \A i \in 1..n : ~OpenAt(s, i, n + 1)
  ELSE \E i \in 1..n : OpenAt(s, i, n + 1) /\ block = Sent(s, i, n)

\* One chunk more leaves the block open that was, unless it opens or closes one.
LEMMA OpenStays ==
  ASSUME NEW s, NEW n \in Nat, NEW i \in 1..n
  PROVE  OpenAt(s, i, n + 2) <=>
           OpenAt(s, i, n + 1) /\ s[n + 1].type \notin {"tool_use_start", "content_block_stop"}
<1> DEFINE Breaks(h) == s[h].type \in {"tool_use_start", "content_block_stop"}
<1>1. i + 1 .. (n + 2) - 1 = (i + 1 .. (n + 1) - 1) \cup {n + 1}
  OBVIOUS
<1>2. i < n + 1 /\ i < n + 2
  OBVIOUS
<1>3. (\A h \in i + 1 .. (n + 2) - 1 : ~Breaks(h)) <=> (\A h \in i + 1 .. (n + 1) - 1 : ~Breaks(h)) /\ ~Breaks(n + 1)
  BY <1>1
<1> QED
  BY <1>2, <1>3 DEF OpenAt

\* The chunk itself opens one when it begins a block and names its tool.
LEMMA OpensNow ==
  ASSUME NEW s, NEW n \in Nat
  PROVE  OpenAt(s, n + 1, n + 2) <=> s[n + 1].type = "tool_use_start" /\ s[n + 1].tool # "none"
<1>1. (n + 1) + 1 .. (n + 2) - 1 = {} /\ n + 1 < n + 2
  OBVIOUS
<1> QED
  BY <1>1 DEF OpenAt

\* A chunk meets one block at most.
LEMMA OneOpen ==
  ASSUME NEW s, NEW j \in Nat, NEW i \in Nat, NEW k \in Nat, OpenAt(s, i, j), OpenAt(s, k, j)
  PROVE  i = k
<1>1. i < j /\ k < j /\ s[i].type = "tool_use_start" /\ s[k].type = "tool_use_start"
  BY DEF OpenAt
<1>2. ~(i < k)
  <2> SUFFICES ASSUME i < k PROVE FALSE
    OBVIOUS
  <2>1. k \in i + 1 .. j - 1
    BY <1>1
  <2> QED
    BY <1>1, <2>1 DEF OpenAt
<1>3. ~(k < i)
  <2> SUFFICES ASSUME k < i PROVE FALSE
    OBVIOUS
  <2>1. i \in k + 1 .. j - 1
    BY <1>1
  <2> QED
    BY <1>1, <2>1 DEF OpenAt
<1> QED
  BY <1>2, <1>3

LEMMA ClosedFinite ==
  ASSUME NEW s, NEW n \in Nat
  PROVE  /\ IsFiniteSet(ClosedIn(s, n)) /\ Cardinality(ClosedIn(s, n)) \in Nat
         /\ ClosedIn(s, n) \subseteq 1..n
<1>1. IsFiniteSet(1..n) /\ ClosedIn(s, n) \in SUBSET (1..n)
  BY FS_Interval DEF ClosedIn
<1> QED
  BY <1>1, FS_Subset, FS_CardinalityType

\* What closes a block among n + 1 chunks.
LEMMA ClosedNext ==
  ASSUME NEW s, NEW n \in Nat
  PROVE  ClosedIn(s, n + 1) = ClosedIn(s, n) \cup
           {j \in {n + 1} : s[j].type = "content_block_stop" /\ \E i \in 1..n : OpenAt(s, i, n + 1)}
<1>1. \A i \in 1..n + 1 : \A j \in 1..n + 1 : OpenAt(s, i, j) => i \in 1..n
  BY DEF OpenAt
<1>2. 1..n + 1 = (1..n) \cup {n + 1}
  OBVIOUS
<1>3. \A j \in 1..n + 1 : (\E i \in 1..n + 1 : OpenAt(s, i, j)) <=> (\E i \in 1..n : OpenAt(s, i, j))
  BY <1>1, <1>2
<1> QED
  BY <1>2, <1>3 DEF ClosedIn

\* The n-th of the blocks that are closed has a place in the list.
LEMMA RankIn ==
  ASSUME NEW s, NEW n \in Nat, NEW j \in ClosedIn(s, n)
  PROVE  Cardinality({h \in ClosedIn(s, n) : h <= j}) \in 1..Cardinality(ClosedIn(s, n))
<1> DEFINE C == ClosedIn(s, n)
           R == {h \in C : h <= j}
<1>1. IsFiniteSet(C) /\ Cardinality(C) \in Nat /\ C \subseteq 1..n
  BY ClosedFinite
<1>2. R \in SUBSET C /\ j \in R
  BY <1>1
<1> HIDE DEF C, R
<1>3. IsFiniteSet(R) /\ Cardinality(R) <= Cardinality(C) /\ Cardinality(R) \in Nat
  BY <1>1, <1>2, FS_Subset, FS_CardinalityType
<1>4. Cardinality(R) # 0
  BY <1>2, <1>3, FS_EmptySet
<1>5. Cardinality(R) \in 1..Cardinality(C)
  BY <1>1, <1>3, <1>4
<1> QED
  BY <1>5 DEF C, R

\* The input that a chunk adds.
LEMMA SentNext ==
  ASSUME NEW s, NEW n \in Nat, NEW i \in 1..n
  PROVE  /\ Sent(s, i, n).args \in Nat
         /\ s[n + 1].type # "tool_input_delta" => Sent(s, i, n + 1) = Sent(s, i, n)
         /\ s[n + 1].type = "tool_input_delta" =>
              Sent(s, i, n + 1) = [tool |-> s[i].tool, args |-> Sent(s, i, n).args + 1]
<1> DEFINE D == {h \in i..n : s[h].type = "tool_input_delta"}
           E == {h \in i..n + 1 : s[h].type = "tool_input_delta"}
<1>1. i..n + 1 = (i..n) \cup {n + 1} /\ n + 1 \notin i..n
  OBVIOUS
<1>2. IsFiniteSet(i..n) /\ D \in SUBSET (i..n)
  BY FS_Interval
<1>3. s[n + 1].type # "tool_input_delta" => E = D
  BY <1>1
<1>4. s[n + 1].type = "tool_input_delta" => E = D \cup {n + 1}
  BY <1>1
<1>5. n + 1 \notin D
  BY <1>1
<1>6. Sent(s, i, n) = [tool |-> s[i].tool, args |-> Cardinality(D)]
      /\ Sent(s, i, n + 1) = [tool |-> s[i].tool, args |-> Cardinality(E)]
  BY DEF Sent
<1> HIDE DEF D, E
<1>7. IsFiniteSet(D) /\ Cardinality(D) \in Nat
  BY <1>2, FS_Subset, FS_CardinalityType
<1>8. Cardinality(D \cup {n + 1}) = Cardinality(D) + 1
  BY <1>5, <1>7, FS_AddElement
<1> QED
  BY <1>3, <1>4, <1>6, <1>7, <1>8

\* A chunk that closes no block leaves the calls that were sent.
LEMMA ToolsStay ==
  ASSUME NEW s, NEW n \in Nat, NEW tools, ToolsSent(s, n, tools),
         s[n + 1].type # "content_block_stop" \/ \A i \in 1..n : ~OpenAt(s, i, n + 1)
  PROVE  ToolsSent(s, n + 1, tools)
<1>1. ClosedIn(s, n + 1) = ClosedIn(s, n)
  <2>1. {j \in {n + 1} : s[j].type = "content_block_stop" /\ \E i \in 1..n : OpenAt(s, i, n + 1)} = {}
    OBVIOUS
  <2> QED
    BY <2>1, ClosedNext
<1>2. ASSUME NEW j \in ClosedIn(s, n), NEW i \in 1..n + 1, OpenAt(s, i, j)
      PROVE  i \in 1..n
  <2>1. i < j
    BY <1>2 DEF OpenAt
  <2>2. j \in 1..n
    BY ClosedFinite
  <2> QED
    BY <2>1, <2>2
<1> QED
  BY <1>1, <1>2 DEF ToolsSent

\* A chunk that closes the open block adds it to them.
LEMMA ToolsGrow ==
  ASSUME NEW s, NEW n \in Nat, NEW tools \in Seq(Blocks), ToolsSent(s, n, tools),
         s[n + 1].type = "content_block_stop", NEW i \in 1..n, OpenAt(s, i, n + 1), Sent(s, i, n) \in Blocks
  PROVE  ToolsSent(s, n + 1, Append(tools, Sent(s, i, n)))
<1> DEFINE C == ClosedIn(s, n)
           N == ClosedIn(s, n + 1)
           more == Append(tools, Sent(s, i, n))
<1>1. N = C \cup {n + 1}
  BY ClosedNext
<1>2. IsFiniteSet(C) /\ Cardinality(C) \in Nat /\ C \subseteq 1..n
  BY ClosedFinite
<1>3. n + 1 \notin C
  BY <1>2
<1>4. Cardinality(N) = Cardinality(C) + 1
  BY <1>1, <1>2, <1>3, FS_AddElement
<1>5. /\ Len(tools) = Cardinality(C)
      /\ Len(more) = Len(tools) + 1 /\ more[Len(tools) + 1] = Sent(s, i, n)
      /\ \A k \in 1..Len(tools) : more[k] = tools[k]
  <2>1. ASSUME NEW e \in Blocks
        PROVE  /\ Len(Append(tools, e)) = Len(tools) + 1 /\ Append(tools, e)[Len(tools) + 1] = e
               /\ \A k \in 1..Len(tools) : Append(tools, e)[k] = tools[k]
    BY <2>1, AppendProperties
  <2>2. Len(tools) = Cardinality(C)
    BY DEF ToolsSent
  <2> QED
    BY <2>1, <2>2
<1>6. ASSUME NEW j \in C, NEW k \in 1..n + 1, OpenAt(s, k, j)
      PROVE  more[Cardinality({h \in N : h <= j})] = Sent(s, k, j)
  <2>1. {h \in N : h <= j} = {h \in C : h <= j}
    BY <1>1, <1>2
  <2>2. Cardinality({h \in C : h <= j}) \in 1..Cardinality(C)
    BY RankIn
  <2>3. k \in 1..n
    BY <1>2, <1>6 DEF OpenAt
  <2>4. tools[Cardinality({h \in C : h <= j})] = Sent(s, k, j)
    BY <1>6, <2>3 DEF ToolsSent
  <2> HIDE DEF C, N, more
  <2> QED
    BY <1>5, <2>1, <2>2, <2>4
<1>7. ASSUME NEW k \in 1..n + 1, OpenAt(s, k, n + 1)
      PROVE  more[Cardinality({h \in N : h <= n + 1})] = Sent(s, k, n + 1)
  <2>1. {h \in N : h <= n + 1} = N
    BY <1>1, <1>2
  <2>2. k = i
    BY <1>7, OneOpen
  <2>3. Sent(s, i, n + 1) = Sent(s, i, n)
    BY SentNext
  <2> HIDE DEF C, N, more
  <2> QED
    BY <1>4, <1>5, <2>1, <2>2, <2>3
<1>8. Len(more) = Cardinality(N)
  BY <1>4, <1>5
<1>9. \A j \in N : \A k \in 1..n + 1 : OpenAt(s, k, j) => more[Cardinality({h \in N : h <= j})] = Sent(s, k, j)
  BY <1>1, <1>6, <1>7
<1> QED
  BY <1>8, <1>9 DEF ToolsSent

\* One chunk, as the consumer takes it, keeps the calls that were sent and the block that is open.
LEMMA TakenKeeps ==
  ASSUME NEW k, CallTyped(k), k.script \in Seq(Chunks), k.tools \in Seq(Blocks), k.block \in Blocks,
         k.taken \in Nat, k.taken + 1 \in 1..Len(k.script),
         ToolsSent(k.script, k.taken, k.tools), BlockOpen(k.script, k.taken, k.block),
         NEW t, t = Taken(k, k.script[k.taken + 1])
  PROVE  /\ t.tools \in Seq(Blocks) /\ t.block \in Blocks
         /\ ToolsSent(k.script, k.taken + 1, t.tools) /\ BlockOpen(k.script, k.taken + 1, t.block)
<1> DEFINE s == k.script
           n == k.taken
           x == s[n + 1]
<1>1. /\ k = [f \in CallFields |-> k[f]] /\ s \in Seq(Chunks) /\ n \in Nat /\ n + 1 \in 1..Len(s)
      /\ k.tools \in Seq(Blocks) /\ k.block \in Blocks
      /\ ToolsSent(s, n, k.tools) /\ BlockOpen(s, n, k.block)
  BY DEF CallTyped
<1>2. x \in Chunks
  BY <1>1
<1>3. t = Taken(k, x)
  OBVIOUS
<1> HIDE DEF s, n, x
<1>4. x = s[n + 1] /\ 1..n + 1 = (1..n) \cup {n + 1} /\ (n + 1) + 1 = n + 2
  BY <1>1 DEF x
<1>5. x.tool \in GatewayTools \cup {"none"} /\ NoBlock \in Blocks /\ NoBlock.tool = "none"
  BY <1>2 DEF Chunks, Blocks, NoBlock
<1>6. CASE x.type = "tool_use_start"
  <2> DEFINE b == [tool |-> x.tool, args |-> 0]
  <2>1. t = [k EXCEPT !.block = b]
    BY <1>3, <1>6 DEF Taken
  <2>2. t.tools = k.tools /\ t.block = b /\ b \in Blocks /\ b.tool = x.tool
    BY <1>1, <1>5, <2>1 DEF CallFields, Blocks
  <2>3. ToolsSent(s, n + 1, k.tools)
    BY <1>1, <1>4, <1>6, ToolsStay
  <2>4. ASSUME x.tool = "none" PROVE \A i \in 1..n + 1 : ~OpenAt(s, i, n + 2)
    <3>1. \A i \in 1..n : ~OpenAt(s, i, n + 2)
      BY <1>1, <1>4, <1>6, OpenStays
    <3>2. ~OpenAt(s, n + 1, n + 2)
      BY <1>1, <1>4, <2>4, OpensNow
    <3> QED
      BY <1>4, <3>1, <3>2
  <2>5. ASSUME x.tool # "none" PROVE OpenAt(s, n + 1, n + 2) /\ b = Sent(s, n + 1, n + 1)
    <3>1. OpenAt(s, n + 1, n + 2)
      BY <1>1, <1>4, <1>6, <2>5, OpensNow
    <3>2. {h \in n + 1 .. n + 1 : s[h].type = "tool_input_delta"} = {}
      BY <1>1, <1>4, <1>6
    <3>3. Sent(s, n + 1, n + 1) = [tool |-> x.tool, args |-> 0]
      BY <1>4, <3>2, FS_EmptySet DEF Sent
    <3> QED
      BY <3>1, <3>3
  <2>6. BlockOpen(s, n + 1, b)
    <3> HIDE DEF b
    <3>1. CASE x.tool = "none"
      BY <1>4, <2>2, <2>4, <3>1 DEF BlockOpen
    <3>2. CASE x.tool # "none"
      BY <1>4, <2>2, <2>5, <3>2 DEF BlockOpen
    <3> QED
      BY <3>1, <3>2
  <2> HIDE DEF b
  <2> QED
    BY <1>1, <2>2, <2>3, <2>6 DEF s, n
<1>7. CASE x.type # "tool_use_start" /\ x.type # "content_block_stop"
  <2>1. t.tools = k.tools /\ ToolsSent(s, n + 1, k.tools)
    <3>1. t = [k EXCEPT !.block.args = @ + 1] \/ t = k
      BY <1>3, <1>7 DEF Taken
    <3> QED
      BY <1>1, <1>4, <1>7, <3>1, ToolsStay DEF CallFields
  <2>2. /\ x.type = "tool_input_delta" => t.block = [k.block EXCEPT !.args = @ + 1]
        /\ x.type # "tool_input_delta" => t.block = k.block
    BY <1>1, <1>3, <1>7 DEF Taken, CallFields
  <2>3. t.block \in Blocks /\ t.block.tool = k.block.tool
    <3>1. CASE x.type = "tool_input_delta"
      <4>1. k.block = [tool |-> k.block.tool, args |-> k.block.args]
        BY <1>1 DEF Blocks
      <4>2. t.block = [tool |-> k.block.tool, args |-> k.block.args + 1]
        BY <2>2, <3>1, <4>1
      <4>3. k.block.tool \in GatewayTools \cup {"none"} /\ k.block.args + 1 \in Nat
        BY <1>1 DEF Blocks
      <4> QED
        BY <4>2, <4>3 DEF Blocks
    <3>2. CASE x.type # "tool_input_delta"
      BY <1>1, <2>2, <3>2
    <3> QED
      BY <3>1, <3>2
  <2>4. \A i \in 1..n : OpenAt(s, i, n + 2) <=> OpenAt(s, i, n + 1)
    BY <1>1, <1>4, <1>7, OpenStays
  <2>5. ~OpenAt(s, n + 1, n + 2)
    BY <1>1, <1>4, <1>7, OpensNow
  <2>6. BlockOpen(s, n + 1, t.block)
    <3>1. CASE k.block.tool = "none"
      BY <1>1, <1>4, <2>3, <2>4, <2>5, <3>1 DEF BlockOpen
    <3>2. CASE k.block.tool # "none"
      <4>1. PICK i \in 1..n : OpenAt(s, i, n + 1) /\ k.block = Sent(s, i, n)
        BY <1>1, <3>2 DEF BlockOpen
      <4>2. k.block.tool = s[i].tool
        BY <4>1 DEF Sent
      <4>3. t.block = Sent(s, i, n + 1)
        <5>1. CASE x.type # "tool_input_delta"
          BY <1>1, <1>4, <2>2, <4>1, <5>1, SentNext
        <5>2. CASE x.type = "tool_input_delta"
          <6>1. Sent(s, i, n + 1) = [tool |-> s[i].tool, args |-> Sent(s, i, n).args + 1]
            BY <1>1, <1>4, <5>2, SentNext
          <6>2. t.block = [tool |-> k.block.tool, args |-> k.block.args + 1]
            BY <1>1, <2>2, <5>2 DEF Blocks
          <6> QED
            BY <4>1, <4>2, <6>1, <6>2
        <5> QED
          BY <5>1, <5>2
      <4>4. i \in 1..n + 1 /\ OpenAt(s, i, n + 2)
        BY <1>4, <2>4, <4>1
      <4> QED
        BY <1>4, <2>3, <3>2, <4>3, <4>4 DEF BlockOpen
    <3> QED
      BY <3>1, <3>2
  <2> QED
    BY <1>1, <2>1, <2>3, <2>6 DEF s, n
<1>8. CASE x.type = "content_block_stop"
  <2>1. \A i \in 1..n + 1 : ~OpenAt(s, i, n + 2)
    <3>1. \A i \in 1..n : ~OpenAt(s, i, n + 2)
      BY <1>1, <1>4, <1>8, OpenStays
    <3>2. ~OpenAt(s, n + 1, n + 2)
      BY <1>1, <1>4, <1>8, OpensNow
    <3> QED
      BY <1>4, <3>1, <3>2
  <2>2. CASE k.block.tool = "none"
    <3>1. t = k
      BY <1>3, <1>8, <2>2 DEF Taken
    <3>2. \A i \in 1..n : ~OpenAt(s, i, n + 1)
      BY <1>1, <2>2 DEF BlockOpen
    <3>3. ToolsSent(s, n + 1, k.tools)
      BY <1>1, <3>2, ToolsStay
    <3>4. BlockOpen(s, n + 1, k.block)
      BY <1>4, <2>1, <2>2 DEF BlockOpen
    <3> QED
      BY <1>1, <3>1, <3>3, <3>4 DEF s, n
  <2>3. CASE k.block.tool # "none"
    <3>1. t.tools = Append(k.tools, k.block) /\ t.block = NoBlock
      BY <1>1, <1>3, <1>8, <2>3 DEF Taken, CallFields
    <3>2. PICK i \in 1..n : OpenAt(s, i, n + 1) /\ k.block = Sent(s, i, n)
      BY <1>1, <2>3 DEF BlockOpen
    <3>3. ToolsSent(s, n + 1, Append(k.tools, k.block))
      BY <1>1, <1>4, <1>8, <3>2, ToolsGrow
    <3>4. BlockOpen(s, n + 1, NoBlock)
      BY <1>4, <1>5, <2>1 DEF BlockOpen
    <3>5. Append(k.tools, k.block) \in Seq(Blocks)
      BY <1>1, AppendProperties
    <3> QED
      BY <1>5, <3>1, <3>3, <3>4, <3>5 DEF s, n
  <2> QED
    BY <2>2, <2>3
<1> QED
  BY <1>6, <1>7, <1>8

\* What is put was sent, what is taken was put, and what was put together is what was taken.
Streamed(k) ==
  /\ k.script \in Seq(Chunks) /\ k.put \in 0..Len(k.script) /\ k.taken \in 0..k.put
  /\ k.kind = "stream" /\ k.thread = "done" => k.put = Len(k.script)
  /\ k.kind = "stream" /\ k.at = "ok" => k.thread = "done" /\ k.taken = k.put
  /\ k.tools \in Seq(Blocks) /\ k.block \in Blocks
  /\ ToolsSent(k.script, k.taken, k.tools) /\ BlockOpen(k.script, k.taken, k.block)

StreamInv == \A c \in Calls : Streamed(call[c])

SameStream(r, k) ==
  /\ r.kind = k.kind /\ r.script = k.script /\ r.put = k.put /\ r.taken = k.taken
  /\ r.tools = k.tools /\ r.block = k.block

LEMMA StreamStays ==
  ASSUME BudgetInv, StreamInv, NEW c \in Calls, NEW r, call' = [call EXCEPT ![c] = r], Streamed(r)
  PROVE  StreamInv'
<1>1. call'[c] = r /\ \A d \in Calls : d # c => call'[d] = call[d]
  BY DEF BudgetInv
<1> QED
  BY <1>1 DEF StreamInv

\* Where a call is and what its thread does: the chunks are what they were.
LEMMA StreamMoves ==
  ASSUME BudgetInv, StreamInv, NEW c \in Calls, NEW r, call' = [call EXCEPT ![c] = r],
         SameStream(r, call[c]),
         r.kind = "stream" /\ r.thread = "done" => call[c].thread = "done" \/ r.put = Len(r.script),
         r.kind = "stream" /\ r.at = "ok" => r.thread = "done" /\ r.taken = r.put
  PROVE  StreamInv'
<1>1. Streamed(call[c])
  BY DEF StreamInv
<1>2. r.kind = "stream" /\ r.thread = "done" => r.put = Len(r.script)
  BY <1>1 DEF Streamed, SameStream
<1>3. Streamed(r)
  BY <1>1, <1>2 DEF Streamed, SameStream
<1> QED
  BY <1>3, StreamStays

LEMMA LeavesStream ==
  ASSUME BudgetInv, StreamInv, NEW c \in Calls, NEW how, how # "ok", Leaves(c, how)
  PROVE  StreamInv'
<1> DEFINE r == [call[c] EXCEPT !.at = how]
<1>1. call' = [call EXCEPT ![c] = r]
  BY DEF Leaves, BudgetInv
<1>2. SameStream(r, call[c]) /\ r.at = how /\ r.thread = call[c].thread
  BY DEF BudgetInv, CallTyped, CallFields, SameStream
<1> HIDE DEF r
<1> QED
  BY <1>1, <1>2, StreamMoves

LEMMA SettleStream ==
  ASSUME BudgetInv, StreamInv, NEW c \in Calls, NEW used, Settle(c, used),
         call[c].kind = "stream" => call[c].thread = "done" /\ call[c].taken = call[c].put
  PROVE  StreamInv'
<1> DEFINE r == [call[c] EXCEPT !.at = "ok", !.used = used, !.thread = "done"]
<1>1. call' = [call EXCEPT ![c] = r]
  BY DEF Settle, BudgetInv
<1>2. SameStream(r, call[c]) /\ r.at = "ok" /\ r.thread = "done"
  BY DEF BudgetInv, CallTyped, CallFields, SameStream
<1> HIDE DEF r
<1>3. r.kind = "stream" => call[c].thread = "done" /\ r.taken = r.put
  BY <1>2 DEF SameStream
<1> QED
  BY <1>1, <1>2, <1>3, StreamMoves

LEMMA ThreadStream ==
  ASSUME BudgetInv, StreamInv, NEW c \in Calls, NEW at, at # "ok", NEW thread,
         call' = [call EXCEPT ![c].at = at, ![c].thread = thread],
         call[c].kind = "stream" => thread # "done"
  PROVE  StreamInv'
<1> DEFINE r == [call[c] EXCEPT !.at = at, !.thread = thread]
<1>1. call' = [call EXCEPT ![c] = r]
  BY DEF BudgetInv
<1>2. SameStream(r, call[c]) /\ r.at = at /\ r.thread = thread
  BY DEF BudgetInv, CallTyped, CallFields, SameStream
<1> HIDE DEF r
<1>3. r.kind = "stream" => thread # "done"
  BY <1>2 DEF SameStream
<1> QED
  BY <1>1, <1>2, <1>3, StreamMoves

LEMMA ProducerStream ==
  ASSUME BudgetInv, StreamInv, NEW c \in Calls, ProducerPuts(c) \/ ProducerEnds(c)
  PROVE  StreamInv'
<1>1. call[c].kind = "stream" /\ call[c].thread = "running" /\ Streamed(call[c])
  BY DEF ProducerPuts, ProducerEnds, Produces, StreamInv
<1>2. ~IsAt(c, "ok")
  BY <1>1 DEF Streamed, IsAt
<1>3. CASE ProducerPuts(c)
  <2> DEFINE r == [call[c] EXCEPT !.put = call[c].put + 1]
  <2>1. call' = [call EXCEPT ![c] = r] /\ call[c].put < Len(call[c].script)
    BY <1>3 DEF ProducerPuts, BudgetInv
  <2>2. /\ r.kind = call[c].kind /\ r.script = call[c].script /\ r.put = call[c].put + 1
        /\ r.taken = call[c].taken /\ r.tools = call[c].tools /\ r.block = call[c].block
        /\ r.thread = call[c].thread /\ r.at = call[c].at
    BY DEF BudgetInv, CallTyped, CallFields
  <2>3. Len(call[c].script) \in Nat
    BY <1>1 DEF Streamed
  <2>4. call[c].put + 1 \in 0..Len(call[c].script) /\ call[c].taken \in 0..call[c].put + 1
    BY <1>1, <2>1, <2>3 DEF Streamed
  <2> HIDE DEF r
  <2>5. Streamed(r)
    BY <1>1, <1>2, <2>2, <2>4 DEF Streamed, IsAt
  <2> QED
    BY <2>1, <2>5, StreamStays
<1>4. CASE ProducerEnds(c)
  <2>1. PICK how \in {"done", "raised"} :
          /\ how = "done" => call[c].put = Len(call[c].script)
          /\ call' = [call EXCEPT ![c].thread = how]
    BY <1>4 DEF ProducerEnds
  <2> DEFINE r == [call[c] EXCEPT !.thread = how]
  <2>2. call' = [call EXCEPT ![c] = r]
    BY <2>1 DEF BudgetInv
  <2>3. SameStream(r, call[c]) /\ r.at = call[c].at /\ r.thread = how
    BY DEF BudgetInv, CallTyped, CallFields, SameStream
  <2> HIDE DEF r
  <2>4. r.at # "ok" /\ (r.thread = "done" => r.put = Len(r.script))
    BY <1>2, <2>1, <2>3 DEF SameStream, IsAt
  <2> QED
    BY <2>2, <2>3, <2>4, StreamMoves
<1> QED
  BY <1>3, <1>4

LEMMA ConsumeStream ==
  ASSUME BudgetInv, StreamInv, NEW c \in Calls, Consume(c)
  PROVE  StreamInv'
<1> DEFINE k == call[c]
           t == Taken(k, k.script[k.taken + 1])
           r == [t EXCEPT !.taken = @ + 1]
           left == [r EXCEPT !.at = "dropped"]
<1>1. /\ IsAt(c, "streaming") /\ k.taken < k.put
      /\ call' = [call EXCEPT ![c] = r] \/ call' = [call EXCEPT ![c] = left]
  BY DEF Consume
<1>2. CallTyped(k) /\ Streamed(k) /\ k.at = "streaming"
  BY <1>1 DEF BudgetInv, StreamInv, IsAt
<1>3. k.taken \in Nat /\ k.taken + 1 \in 1..Len(k.script) /\ k.taken + 1 \in 0..k.put
  <2>1. Len(k.script) \in Nat
    BY <1>2 DEF Streamed
  <2> QED
    BY <1>1, <1>2, <2>1 DEF Streamed
<1>4. /\ t.tools \in Seq(Blocks) /\ t.block \in Blocks
      /\ ToolsSent(k.script, k.taken + 1, t.tools) /\ BlockOpen(k.script, k.taken + 1, t.block)
  <2> HIDE DEF k
  <2> QED
    BY <1>2, <1>3, TakenKeeps DEF Streamed
<1>5. /\ t = [f \in CallFields |-> t[f]]
      /\ t.kind = k.kind /\ t.script = k.script /\ t.put = k.put /\ t.taken = k.taken
      /\ t.at = k.at /\ t.thread = k.thread
  <2> HIDE DEF k
  <2> QED
    BY <1>2 DEF CallTyped, CallFields, Taken
<1> HIDE DEF t
<1>6. /\ r = [f \in CallFields |-> r[f]]
      /\ r.kind = k.kind /\ r.script = k.script /\ r.put = k.put /\ r.taken = k.taken + 1
      /\ r.at = "streaming" /\ r.thread = k.thread /\ r.tools = t.tools /\ r.block = t.block
  <2> HIDE DEF k
  <2> QED
    BY <1>2, <1>5 DEF CallFields
<1> HIDE DEF r
<1>7. /\ left.kind = k.kind /\ left.script = k.script /\ left.put = k.put /\ left.taken = k.taken + 1
      /\ left.at = "dropped" /\ left.thread = k.thread /\ left.tools = t.tools /\ left.block = t.block
  BY <1>6 DEF CallFields
<1> HIDE DEF left, k
<1>8. Streamed(r) /\ Streamed(left)
  BY <1>2, <1>3, <1>4, <1>6, <1>7 DEF Streamed
<1>9. CASE call' = [call EXCEPT ![c] = r]
  BY <1>8, <1>9, StreamStays
<1>10. CASE call' = [call EXCEPT ![c] = left]
  BY <1>8, <1>10, StreamStays
<1> QED
  BY <1>1, <1>9, <1>10

\* A call that begins has taken nothing yet.
LEMMA NothingTaken ==
  ASSUME NEW k, k.script \in Seq(Chunks), k.put = 0, k.taken = 0, k.thread # "done", k.at # "ok",
         k.tools = <<>>, k.block = NoBlock
  PROVE  Streamed(k)
<1>1. ClosedIn(k.script, 0) = {} /\ 1..0 = {}
  BY DEF ClosedIn
<1>2. ToolsSent(k.script, 0, <<>>)
  BY <1>1, FS_EmptySet DEF ToolsSent
<1>3. BlockOpen(k.script, 0, NoBlock) /\ NoBlock \in Blocks
  BY <1>1 DEF BlockOpen, NoBlock, Blocks
<1>4. <<>> \in Seq(Blocks) /\ Len(k.script) \in Nat
  OBVIOUS
<1> QED
  BY <1>2, <1>3, <1>4 DEF Streamed

LEMMA BeginStream ==
  ASSUME GatewayConstants, BudgetInv, StreamInv, NEW c \in Calls, NEW kind, NEW input, NEW requested,
         NEW script \in Scripts \cup {<<>>}, Begin(c, kind, input, requested, script)
  PROVE  StreamInv'
<1> DEFINE refused == \/ MaxInput(requested) = 0
                      \/ input > MaxInput(requested)
                      \/ ~Fits(Reservation(input, requested))
           r == [NoCall EXCEPT !.kind = kind, !.input = input, !.script = script,
                               !.attempt = call[c].attempt + 1,
                               !.thread = IF refused THEN "none" ELSE "running",
                               !.at = IF refused THEN "refused"
                                      ELSE IF kind = "stream" THEN "streaming" ELSE "awaiting"]
<1>1. call' = [call EXCEPT ![c] = r]
  BY DEF Begin
<1>2. script \in Seq(Chunks)
  <2>1. <<>> \in Seq(Chunks)
    OBVIOUS
  <2> QED
    BY <2>1 DEF GatewayConstants
<1> HIDE DEF refused
<1>3. /\ r.script = script /\ r.put = 0 /\ r.taken = 0 /\ r.tools = <<>> /\ r.block = NoBlock
      /\ r.thread # "done" /\ r.at # "ok"
  BY DEF NoCall
<1> HIDE DEF r
<1>4. Streamed(r)
  BY <1>2, <1>3, NothingTaken
<1> QED
  BY <1>1, <1>4, StreamStays

LEMMA StreamStart ==
  ASSUME GatewayInit
  PROVE  StreamInv
<1>1. \A c \in Calls : call[c] = NoCall
  BY DEF GatewayInit
<1>2. /\ NoCall.script = <<>> /\ NoCall.put = 0 /\ NoCall.taken = 0 /\ NoCall.thread # "done"
      /\ NoCall.at # "ok" /\ NoCall.tools = <<>> /\ NoCall.block = NoBlock
  BY DEF NoCall
<1>3. NoCall.script \in Seq(Chunks)
  BY <1>2
<1>4. Streamed(NoCall)
  BY <1>2, <1>3, NothingTaken
<1> QED
  BY <1>1, <1>4 DEF StreamInv

LEMMA StreamStep ==
  ASSUME GatewayConstants, BudgetInv, StreamInv, [GatewayNext]_gatewayVars
  PROVE  StreamInv'
<1>1. CASE UNCHANGED gatewayVars
  BY <1>1 DEF StreamInv, gatewayVars
<1>2. ASSUME NEW c \in Calls, CallStep(c) \/ CancelCall(c) \/ CancelStream(c)
      PROVE  StreamInv'
  <2>1. CASE ProducerPuts(c) \/ ProducerEnds(c)
    BY <2>1, ProducerStream
  <2>2. CASE Consume(c)
    BY <2>2, ConsumeStream
  <2>3. CASE CloseDropped(c) \/ ClosingEnds(c) \/ CancelCall(c) \/ CancelStream(c)
    <3>1. Leaves(c, "closing") \/ Leaves(c, "cancelled")
      BY <2>3 DEF CloseDropped, ClosingEnds, CancelCall, CancelStream
    <3> QED
      BY <3>1, LeavesStream
  <2>4. CASE CallRaises(c)
    <3>1. \/ call' = [call EXCEPT ![c].at = "retry", ![c].thread = "raised"]
          \/ call' = [call EXCEPT ![c].at = "failed", ![c].thread = "raised"]
      BY <2>4 DEF CallRaises, BudgetInv, CallTyped, CallFields
    <3> QED
      BY <3>1, ThreadStream
  <2>5. ASSUME NEW answer \in AnswerTokens,
               TextReturns(c, answer) \/ StructuredReturns(c, answer) \/ ToolsReturn(c, answer)
        PROVE  StreamInv'
    <3>1. call[c].kind # "stream" /\ \E used : Settle(c, used)
      BY <2>5 DEF TextReturns, StructuredReturns, ToolsReturn
    <3> QED
      BY <3>1, SettleStream
  <2>6. ASSUME NEW answer \in AnswerTokens, CanonicalReturns(c, answer)
        PROVE  StreamInv'
    <3>1. call[c].kind # "stream"
      BY <2>6 DEF CanonicalReturns
    <3>2. CASE Settle(c, call[c].input + answer)
      BY <3>1, <3>2, SettleStream
    <3>3. CASE call' = [call EXCEPT ![c].at = "unparsed", ![c].thread = "done"]
      BY <3>1, <3>3, ThreadStream
    <3> QED
      BY <2>6, <3>2, <3>3 DEF CanonicalReturns
  <2>7. ASSUME NEW answer \in AnswerTokens, StreamEnds(c, answer)
        PROVE  StreamInv'
    <3>1. CASE call[c].thread = "done" /\ Settle(c, call[c].input + answer)
      BY <2>7, <3>1, SettleStream DEF StreamEnds
    <3>2. CASE Leaves(c, "failed") \/ Leaves(c, "cut")
      BY <3>2, LeavesStream
    <3> QED
      BY <2>7, <3>1, <3>2 DEF StreamEnds
  <2> QED
    BY <1>2, <2>1, <2>2, <2>3, <2>4, <2>5, <2>6, <2>7 DEF CallStep
<1>3. ASSUME NEW c \in Calls, NEW kind \in Kinds, NEW input \in Prompts, NEW requested \in Requested,
             NEW script \in Scripts \cup {<<>>}, Begin(c, kind, input, requested, script)
      PROVE  StreamInv'
  BY <1>3, BeginStream
<1> QED
  BY <1>1, <1>2, <1>3 DEF GatewayNext

\* Whatever chunks a provider sends, and however they come, the tool calls of an answer that
\* was streamed to its end are the blocks that were opened and closed, in order, each with the
\* input sent between the two.
THEOREM StreamsAssemble == GatewayConstants => (GatewaySpec => []StreamAssembled)
<1> SUFFICES ASSUME GatewayConstants PROVE GatewaySpec => []StreamAssembled
  OBVIOUS
<1>1. GatewayInit => BudgetInv /\ StreamInv
  BY BudgetStart, StreamStart
<1>2. BudgetInv /\ StreamInv /\ [GatewayNext]_gatewayVars => BudgetInv' /\ StreamInv'
  BY BudgetStep, StreamStep
<1>3. BudgetInv /\ StreamInv => StreamAssembled
  BY DEF StreamInv, StreamAssembled, Streamed, IsAt
<1> QED
  BY <1>1, <1>2, <1>3, PTL DEF GatewaySpec

\* The gateway keeps both promises.
THEOREM GatewayIsSound == GatewayConstants => (GatewaySpec => []GatewaySound)
<1> SUFFICES ASSUME GatewayConstants PROVE GatewaySpec => []GatewaySound
  OBVIOUS
<1>1. GatewaySpec => []BudgetHeld /\ []StreamAssembled
  BY BudgetIsHeld, StreamsAssemble
<1>2. BudgetHeld /\ StreamAssembled => GatewaySound
  BY DEF GatewaySound
<1> QED
  BY <1>1, <1>2, PTL
=============================================================================
