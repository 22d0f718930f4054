# Verification of the agent runtime and its index

TLA+ models of the private RAG agent (`src/rag`, `src/agent_runtime`), the TLC
runs that check them on small instances, and theorems that TLAPS checks for every
value of the constants.

The program is a local agent. A *session* is a chain of *turns*; a turn is one
user message and the loop of model calls and tool calls it starts. A turn may
pause for a human, be cancelled, or lose its process, and is then resumed in
place from a checkpoint, perhaps by another process. Its tools act on the
world, so the questions that matter are about what is done twice, done without
permission, forgotten, or left half done. Beside the agent runs a document
index whose metadata, vectors and payloads live in different stores and are kept
in step by two retry queues; questions to it pass a rate limiter, a circuit breaker,
a retrieval pipeline and a model before they come back as an answer with footnotes.

Contents: [inventory](#inventory), [modules](#modules), [runs](#runs),
[assumptions and fairness](#assumptions-and-fairness), [proofs](#proofs),
[findings](#findings), [known counterexamples](#known-counterexamples),
[what is left out](#what-is-left-out), [plan](#plan).

    tlc -workers 2 -config MCSession.cfg MCSession         # a run
    tlapm TurnStoreProofs.tla                              # the proofs of a module

## Inventory

Paths are below `src/rag/agent/` unless they start with another directory.

| part | state | operations | hard because |
|---|---|---|---|
| turn store, `turns.py` | `agent_turns`: status, lease owner and expiry, message count, predecessor, runtime binding; `agent_turn_messages` | begin, synchronise messages, mark paused / interrupted / terminal, sweep lapsed leases, claim for resume, renew | several processes share one SQLite file; every operation is a transaction, but a protocol is several of them |
| service, `service.py` | the lease heartbeat and run task of a call | run, stream, resume, answer, inspect, shut down | reads a checkpoint, then claims, then writes; three records of a turn (store, checkpoint, memory) |
| checkpoint store, `core/checkpointing.py` | latest `LoopState`, and a cached copy of it | snapshot, write a record, load for resume, apply an answer, migrate an older version | the cached copy outlives the batch that wrote it |
| executor, `tools/executor.py` | execution records of calls | prepare (validation, permission, approval), start, run, time out, cancel, reconcile | gathered calls, cancellation at each await, records before and after an effect |
| loop, `loop/runtime.py`, `loop/stop_hooks.py` | `LoopState`: iteration, pending calls, results, approvals, requests | model call, dispatch, guards, batch, pause, finish | many ways round the loop; guards that read the history of results |
| model requests, `core/model_request.py`, `core/llm_providers.py`, `src/rag/providers/` | committed and reserved tokens, threads of calls | build a request, reserve, call, time out, commit, refund, parse | a call goes on in its thread after its caller has gone; ids of calls are made from positions |
| transcript and memory, `memory/`, `core/messages.py` | messages in two copies, records and summaries, persistent memory files | append, compact, synchronise, extract, consolidate | drops what other parts read; files without a lock |
| plan, `src/agent_runtime/planning.py` | steps, bindings of calls | replace, progress, replan, end | the model's claims against what calls have earned |
| tools, permissions, skills, `tools/`, `skills/` | registry, exposed and activated tools, a skill catalog | validate, decide, select, activate, evict, load | sets of names that must stay consistent with a request; files that change |
| workspace, `workspace.py`, `file_manifest.py`, `tools/builtins/` | files, process groups | import, read, search, patch, run a command | other editors; processes that fork |
| streaming, `streaming/` | a bounded queue | emit, consume, close | a consumer that goes away |
| public API and CLI, `src/agent_runtime/`, `cli.py` | servers, a shared saver, threads, the chosen model | run, resume, inspect, close, choose | overlapping calls share what each of them closes |
| index, `src/rag/runtime.py`, `src/rag/storage/` | the document row, its one processing-state row, vectors, payload | insert, delete, rebuild, save a summary, query; two queues with leases and backoff | four stores written one after the other; one row shared by all queues |
| ingest, `src/rag/ingest/` | facts of a document, windows, tables | parse, section, cut, summarise, save | failures between writes; two repositories with different transactions |
| retrieval and answers, `src/rag/retrieval/`, `query_pipeline.py`, `src/rag/providers/generation.py` | a circuit breaker and a rate limiter | plan, search, fuse, rerank, ground, answer, cite | guards shared by threads; documents that change under a question |

They interact as follows. The API opens tool servers, builds a service and calls it. The
service opens or claims a turn in the turn store, keeps its lease alive from a background
task, and runs the loop. The loop asks the model through the gateway, saves snapshots through
the checkpoint store, whose snapshot sink synchronises the transcript into the turn store, and
hands batches to the executor, which writes execution records through the same checkpoint
store. A pause ends the call; another call brings the human's answer. Tools may call the RAG
runtime, which pumps its two queues on every insert and query.

What makes each part correct:

- *turn store*: one holder at a time, handover only through a state in which nobody
  holds the turn, an append-only transcript, an acyclic chain of ended predecessors,
  final states that are final;
- *service*: one worker executes a turn; a tool that must not be replayed acts at most once
  across workers; a pause can be resumed; a turn called completed is completed durably;
- *executor*: nothing runs unallowed, or after a denial, or twice; every call gets exactly
  one result; an unknown outcome is settled by a human before the turn completes;
- *loop*: bounded model calls, bounded exploration, no blind repetition, an end;
- *model requests*: the ledger is kept and every call settled; what a model is shown only grows, and
  shows results with their calls; nothing of an answer is lost between wire and record;
- *plan and end*: no step is done that no call has earned; a turn completes with what was asked of it;
- *tools and permissions*: arguments arrive as sent; leave covers all a call does; the model sees the
  tools and skills it may use;
- *memory, files, streams*: nothing vanishes silently, and each comes to rest;
- *public API*: what a call opens is released, and the model that answers is the one chosen;
- *index*: a document that says it is ready can be found; a deletion, once begun, is carried
  through; a queued summary is indexed whatever fails on the way;
- *ingest*: facts on disk belong together; windows cover their section; a table answers as its sheet does;
- *retrieval and answers*: guards hold over threads; retired documents do not reach an answer; evidence
  keeps its order and budget; footnotes point at what they cite.

`PROJECT.json` lists every part with its sources and, under `hazards`, the lines
where each of these can go wrong.

## Modules

The turn and its calls:

| module | models | abstracts |
|---|---|---|
| `TurnLifecycle` | what the turn table promises, without rows or clocks | |
| `TurnStore` | `TurnStore` of `turns.py`, one action per transaction; refines `TurnLifecycle` | message contents, listing, schema |
| `TurnService` (extends `TurnStore`) | `AgentService` over turn table and checkpoints, a step per await and per transaction | the loop is one tool call |
| `CallLedger` | the promise of durable execution records: at most one act, under a recorded start | |
| `ToolExecution` | `ToolExecutor` under `_execute_pending_tools`, `CheckpointStore`, answers of a human; refines `CallLedger` | arguments, outputs, who holds the turn |
| `AgentLoop` | `AgentLoop.run` with guards, retries, overflow, hooks, pauses and crashes | the executor is the results of a batch |

Beside the loop:

| module | models |
|---|---|
| `ModelGateway` | reservations, attempts, timeouts and threads of model calls; the assembly of a streamed answer |
| `ModelWire` | requests and answers in both wire formats, and which calls and records a checkpoint loads again |
| `ModelContext` | the history of a session: two copies of the transcript, requests, compaction, stops and resumptions |
| `WorkingMemory` | snipping, batches, capped results and the records of a workspace |
| `CheckpointMigration` | saving and loading of a checkpoint in the shapes of every version |
| `PlanState`, `FinishCheck` | the plan a turn shows; the hooks and the finaliser that let it end |
| `ToolSurface`, `Skills` | which tools and skills the model is shown over requests, turns and changed definitions |
| `ToolInput`, `Permissions` | what of a call's arguments reaches a tool; which gates stand before it |
| `FileTools`, `ShellCommand`, `InputFiles`, `MemoryFiles` | built-in tools on a file others edit; a command's process group; the files handed to a turn; persistent memories |
| `StreamQueue` | the bounded event queue between loop and consumer |
| `AgentCalls`, `ModelChoice` | calls of the SDK with servers, saver and threads; the chosen model over sessions and turns |

The knowledge side:

| module | models |
|---|---|
| `IndexSync` | the RAG runtime's calls and queues over the rows and vectors of one document, a step per repository call |
| `IngestFacts` | one ingest after another, a step per statement, in both repositories |
| `VectorStores` | the two vector indexes given the same calls: buffers, partitions, refused rows |
| `SectionWindows`, `SheetTables`, `Formulas` | cutting of sections; sheets as tables; values of formulas |
| `QueryGuards` | rate limiter, circuit breaker and the loop of a question under threads |
| `RetrievalPlanning`, `EvidenceFlow` | plan, filters and branches of a question; from hits to evidence |
| `GroundedAnswers` | from evidence to an answer with footnotes, with computations and failing providers |

Instances and theorems:

| module | is |
|---|---|
| `MCServiceRuns` | `TurnService` twice: one worker whose tools change, two workers that overlap; and a theorem about the second |
| `MCAgentLoop` | ten parts: loop, gateway, tools, skills, checkpoints, memories, files, command, stream, wire |
| `MCSession` | twelve parts: store, plan, context, memory, files, inputs, permissions, finish, servers, saver, bindings, catalog |
| `MCKnowledge` | thirteen parts: limits and probes (the guards twice), evidence, index, stores, planning for the two kinds of index, windows, facts and rows (the two repositories), answers, sheets, formulas |
| `MCFootnotes` | `GroundedAnswers` with two sections of one document |
| `TurnStoreProofs`, `TurnServiceProofs`, `ToolExecutionProofs` | theorems about one module each |
| `AgentLoopProofs` | theorems about `AgentLoop` and `ModelGateway` |
| `KnowledgeProofs` | theorems about `QueryGuards` and `IndexSync` |
| `EdgeProofs` | theorems about `ShellCommand`, `StreamQueue`, `Permissions`, `ModelChoice`, `PlanState` and `AgentCalls` |
| `NatFacts` | lemmas they share: `Min` of a set of naturals is its least element; what sums over finite sets come to |

The parts of a composite share no state (where they share a name in the code the module comments say which
of them owns it), so a behaviour of the composite is a behaviour of one part, chosen by its
initial state; one run then checks all of them.

The three agent modules `TurnService`, `ToolExecution` and `AgentLoop` overlap on purpose: the first has
several workers and one call, the second one worker and several calls of one turn, the third several
batches. Each reduces the other two to what they may do at the boundary.

**State and actions.** In `TurnStore` a row is split by column: `status[t]`,
`owner[t]`, `expires[t]`, `history[t]`, `previous[t]`, `runtime[t]`; `now` is the
clock that the transactions read. `Release` is the shared tail of every transaction
that ends a hold. In `TurnService`, `cp[t]` is the latest checkpoint, `wk[w]` a worker
with the label `pc` of its next step, its `LoopState` (`st`), the state its checkpoint
store has cached (`cache`), its heartbeat and a pending cancellation; `effects` and
`granted` are history variables. `Persist` is `_save_snapshot_unlocked`: the write lands and
the snapshot sink is next, or it raises, and what memory already says stays said.

In `ToolExecution`, `mem` is the running loop's `LoopState`, `disk` the latest
checkpoint, `cache` the cached state of the two checkpoint store objects that may be in
use: the loop's (`main`) and that of calls which a raise in the same `gather` has left
running (`left`). `stage[b][c]` is where a call is; `runs`, `allowed`, `refused`, `vouched` and
`settled` are history. Each record write is one step that may fail before or after it lands.

In `AgentLoop`, `mem` and `disk` are again memory and checkpoint, `pc` the next step of the
loop. A pending call is a position of the scheduled batch. Of `tool_results` the model keeps
what the code reads of it, in `told`: the number of inspections of the delivery cycle, the inspections
whose doubtful result will be told a second time when they are reconciled (`again`), whether
the cycle holds a refused inspection and a plan, and for each invocation whether the failure
circuit lets it pass (`none`, `once`), refuses it (`shut`) or has refused it (`open`).

In `QueryGuards`, `windows` holds the deques of the limiter, in the order of their records, as the ages of the stamps in them; `passed` holds
how long ago requests were really let through, for as far back as `Span`. The two differ because `allow` reads the clock before it waits for
the lock (`guard.py:77`): `Arrive` reads it, `Admit` has the lock, and ticks in between make the request late. `breaker` is the breaker's
record, whose methods hold their lock throughout, and `asked` counts the generations let through since it opened.

In `IndexSync`, `doc` and `row` are the two rows, `vectors` the revision the stored vectors were
made from, `job[p]` what a process is doing, with the copies (`held`, `seen`) of a read-modify-write
between its read and its write. The other modules explain their variables at their head.

## Runs

Passing runs. "States" are distinct states; the times are of two workers.

| run | instance | states | shows |
|---|---|---|---|
| `service_turns` | 1 worker, run and stream, changing tool definitions, 3 calls, 2 faults; and 2 workers, 1 turn, 3 calls, 1 fault, inspections at any time | 1.4 M (200 s) | exclusive execution, no replay, action only when allowed, agreement of the two databases |
| `tool_calls` | 3 calls (two idempotent and safe, one that asks at two gates), 2 stops, failing writes | 504 k (130 s) | at most one act, no act unallowed or after a denial, reconciliation before the end, the ledger, settled calls rest, a batch ends |
| `tool_left` | the third call in conflict with the first; calls left by a raise may outlive a resumption | 2.0 M (150 s) | types, and one result for every call |
| `agent_loop` | loop: room for 1 inspection and 1 more, 4 model turns, 1 retry, 2 blocks, 1 crash; two gateway calls; the other parts as `MCAgentLoop.tla` says | 204 k (120 s): loop 57 k, gateway 45 k, tools 44 k, skills 15 k, checkpoints 11 k, files 15 k, wire 10 k, memories 7 k, command and stream 0.4 k each | bounds on model calls and inspections, no blind repetition, the loop ends; no process outlives its command, no event its stream; the parts beside it are sound and come to rest |
| `session` | store: 3 turns, 2 workers, 2 runtimes, 2 messages, clock 0..2 (up to symmetry); the others as `MCSession.tla` says | 323 k (200 s): store and context most of it, bindings 22 k, files 11 k, catalog 10 k, saver 3 k, servers 2 k | leases, transcripts and lineage stay consistent; terminal is final; `TurnStore` implements `TurnLifecycle`; outcomes, history and leave of calls |
| `index_sync` | guards: 2 threads, a window of 2, waits for the lock up to 1; index: 1 process, 4 calls, 3 faults; the others as `MCKnowledge.tla` says | 162 k (55 s): index 47 k, limits 30 k, probes 27 k, evidence 22 k, stores 10 k, rows 8 k, answers 5 k, facts, windows and planning 3 k each, sheets 2 k | the guards hold and the breaker recovers; evidence, index, stores, ingest and answers are sound; the queues drain |

A property of several parts of a run is a conjunction with one named part for each; every part is stated
with its own comment in its module.

| property | is |
|---|---|
| `CallsAnswered` | `EveryCallAnswered`, `OneResultPerCall` |
| `DatabasesAgree` | the service's types, `PausedTurnsResumable`, `CompletedTurnsAgree` |
| `GatewaySound` | `BudgetHeld`, `StreamAssembled` |
| `ShownSound` | `SurfaceWellFormed`, `SkillsSound`, `WireSound` |
| `StoredSound` | `CheckpointsSound`, `MemoriesSound`, `FilesSound` |
| `StreamsSettle` | commands end, streams end |
| `OutcomesHonest` | `PlansHonest`, `FinishSound`, `InputsSound`, `AgentSound` (servers, saver) |
| `HistoryKept` | `ContextSound`, `WorkingMemorySound`, `InputsKept`, `ModelsSound` (bindings, catalog) |
| `PermissionsSound` | `RunsWithLeave`, `AsksWhatMatters`, `NeedsNoLess` |
| `GuardsHold` | `ProbesBounded`, `WindowsHeld` |
| `IndexSound` | the index's types, `ReadyIsSearchable` |
| `KnowledgeSound` | `EvidenceSound`, `RetrievalSound` (two kinds of index), `AnswersSound`, `VectorsSound`, `WindowsSound`, `FactsSound` (two repositories), `TablesSound`, `FormulasSound` |
| `QueuesDrain` | `DeletionCompletes`, `SummariesGetIndexed` |

Why the bounds are enough. `session`: three turns are the least for a cycle
through a non-trivial chain and for two candidates of one predecessor; two workers for every
handover. `service_turns`: the third call meets the resumption of an interrupted first;
more calls repeat this pattern. `tool_calls`: three calls give a gather of two, one behind it, and a
call that is both asked for and non-idempotent; two stops give a crash during recovery from a crash,
or a cancellation followed by a failed write. `agent_loop`: the real limits are 20 inspections and 8
more (`_EXPLORATION_LIMIT`, `_FOCUSED_EXPLORATION_EXTENSION`); the guard counts down and compares,
so 1 and 1 keep each of its branches, and four model turns reach limit, plan, extension and refusal. Each bound
checked is reached in the model. `index_sync`: two faults are the least with which a repair itself fails, and with a third a delete or a rebuild
crashes when it has just taken the row of such a repair; four calls
let insert, summary, delete and insert follow each other. Two threads and a window of two with waits of one let a purge, a
request that waits, a late answer and a probe meet; the limiter has two users and no failing generation, the breaker one user and two failures, because
nothing of one is read by the other. Where a theorem states a property, no bound is left but the theorem's assumptions.

Violation runs show [findings](#findings): `service_inspect`, `service_stream_completion`,
`service_early_stop`, `tool_unreconciled`, `index_delete`, `answer_footnotes`.

Each property of a passing run has a *mutant*: a definition changed the way a plausible mistake
would change the code, under which TLC finds the property violated. The faulty variants are
defined just before what they replace and are used by nothing else.

Deadlock is not checked where the system really stops: a turn that has ended, a budget of calls
spent, a crashed worker. `index_sync` and `index_delete` do check it.

## Assumptions and fairness

Each is a constant, so that a reader can turn it off.

- `TimelyHeartbeats` (`TurnService`): a worker that is alive renews its lease before it lapses.
  The heartbeat period is a fifth of the lease (60 s and 300 s, `service.py:97`), but nothing enforces it: a blocked event loop or a
  suspended machine is enough. See the counterexample below.
- `Overlap` (`TurnService`): which calls may be under way on the same turn before they claim it.
- `Modes`, `Drifts` (`TurnService`): whether calls run or stream, and what may become of a tool's definition between calls.
- `LeftCallsEnd` (`ToolExecution`): a turn is resumed only after the calls a raise has left running
  have ended. True for the synchronous API, which runs each call in an event loop of its own
  and cancels what is left when it closes; not for the asynchronous one.
- `MaxWait`, `Span` (`QueryGuards`): the longest wait for the limiter's lock, and the stretch of time in which requests are counted.
- `LeasesOutlast` (`IndexSync`): a queue task's lease outlives the worker that holds it.
- In `IndexSync`, `save_doc_summary` is called for documents that are active when the call begins; the
  attempt count, priorities and worker names of the queue are left out, as no decision reads them here.
- A database transaction is atomic and durable; a vector-store call happens or raises.

Fairness:

- `ToolExecution`, `WF(BatchStep)`: each runner is bounded by its tool's timeout, and the event loop runs a task that is
  ready. Nothing is assumed of humans, of resumptions or of the absence of crashes.
- `AgentLoop`, `WF(LoopStep)`: model calls, hooks and batches return, each has its timeout. No fairness for
  resumptions: `LoopEnds` is about one execution of the loop.
- `ModelGateway`, `WF(CallStep(c))`: the thread of a call returns, the provider's client has a timeout.
- `ShellCommand`, `WF(CallProceeds)`, `WF(Dies(p))`: the tool's timers fire, and a process that was killed dies. A process
  that is not killed may run for ever.
- `StreamQueue`, `WF(StreamStep)`, `WF(LoopWorks)`, `WF(Closes)`: the event loop runs ready tasks. A consumer may stop taking.
- `QueryGuards`, `WF(Tick)`, `WF(QueryStep(t))`, `WF(Asks(t))`: time passes, a thread gets the lock it waits for and goes on, and
  users go on asking, because only a request moves a breaker from open to half-open.
- `IndexSync`: a call runs on unless its process crashes (`WF(Step(p))`), leases and backoffs pass with time, and somebody
  goes on querying, because queries are what pumps the queues when no worker process does (`WF(CallQuery(p))`).

## Proofs

TLAPS proves the following for all values of the constants that satisfy the modules' named assumptions.

| module | theorems |
|---|---|
| `TurnStoreProofs` | `StoreTyping`, `LineageSafe`, `LineageHasNoCycle`, `StoreImplementsLifecycle`, `LeaseAndTranscriptSafe`, `EndedTurnsRest` |
| `TurnServiceProofs` | `ServiceTyping`, `GrantedCallsRun`, `ServiceLeasesSafe`, `ServiceEndsRest`, `ServiceImplementsLifecycle`, `CallsAreSerial`, `ActsOnce`, `DatabasesInStep` |
| `MCServiceRuns` | `SharedRunsAgree` |
| `ToolExecutionProofs` | `ToolTyping`, `OnlyAllowedCallsRun`, `ActsAtMostOnce`, `DeniedCallsDoNotRun`, `SettledCallsRest`, `CompletedTurnsAnswerEveryCall`, `CallsToldOnce`, `DoubtsAreReconciled`, `RecordsKeepLedger` |
| `AgentLoopProofs` | `LoopTyping`, `LoopCallsBounded`, `LoopNoBlindRepeat`, `LoopInspectionsBounded`, `BudgetIsHeld`, `StreamsAssemble`, `GatewayIsSound` |
| `KnowledgeProofs` | `ProbesAreBounded`, `RequestsAreLimited`, `GuardsNeverExceeded`, `IndexTyping`, `SearchableIsFound`, `OneProcessFinds` |
| `EdgeProofs` | `CommandsAreReaped`, `StreamsAreComplete`, `CallsHaveLeave`, `TurnsKeepTheirModel`, `PlansTellTrue`, `CallsLetGo` |

**`TurnStoreProofs`.** `StoreTyping` is inductive as it stands. `LineageSafe` needs that only
`begin_turn` writes the lineage and that an ended turn stays ended (`RowsAreFixed`): a predecessor is checked
to have ended when the follow-up begins, and nothing un-ends it. `LineageHasNoCycle` follows from a stronger
reading of the same step: a new turn points to an older one and nobody points to a turn that does not exist.
`StoreImplementsLifecycle` maps every transaction to a lifecycle step or a stutter; the sweep of lapsed leases
maps to one step that gives up several turns, which is why `GiveUp` takes a set. The facts about a transaction are stated
of a relation without the bound on transcripts that TLC needs, so that they hold of every user of the table.

**`TurnServiceProofs`.** `TurnService` writes the turn table only by those transactions, so `ServiceLeasesSafe`,
`ServiceEndsRest` and `ServiceImplementsLifecycle` carry the store's theorems over to the service. Four invariants, each built on
the one before:

- `GrantInv`: types, `Rooted` (a worker in a call has a turn and, once it has read one, a checkpoint of it) and `GrantsKnown`
  (every approval in a checkpoint, a memory or a cache is one a caller has given). It proves `GrantedCallsRun` without
  any assumption: stale states hold old grants, never invented ones.
- `HoldInv` adds `Standing`: a worker that has claimed its turn holds it (running, owner, live lease, heartbeat) until it lets go, and
  an inspection does no more than read and save. It proves `CallsAreSerial` under `SerialCalls`: `TimelyHeartbeats`, and no streams. The second is needed because a stream
  that ends on an exception may mark a turn interrupted that is not its own any more.
- `OnceInv` adds `Once`: at most one worker is in a call that may write the turn (`OneWriter`); that worker knows when the call has acted, and is
  about to act only on one that has not and whose start is durable (`Careful`); and a call that has acted did so once and has a record in the checkpoint
  that says it was started (`Acted`). It proves `ActsOnce` under `OneWriterAtATime`: `SerialCalls`, resumes that do not
  overlap before they claim, and no overlapping inspection of a turn whose tools have changed. Each is needed:
  dropping any one gives a counterexample ([below](#known-counterexamples), and the run `service_inspect`).
- `Agreement`, on top of `OnceInv`, is about the two databases. `InStep`: the history in the turn store is a prefix of the transcript in
  the checkpoint; a row that says paused has a paused checkpoint; a row that says completed has a completed one, and its history is all of the
  transcript. That is not inductive without what each writer still intends: a snapshot sink writes no more than the checkpoint says, however late it
  runs (`Quotes`), a worker's own state says what the database says of its turn, and the mark it is about to make is what the checkpoint
  already is (`Faithful`); and a saved state that is in doubt is in doubt about its pending call (`Sane`), or a resumption would end a turn over it.
  It proves `DatabasesInStep`, and `SharedRunsAgree` is the same for the instance of the run. The hypothesis is that of
  `ActsOnce`: TLC violates the agreement with overlapping resumes, and with inspections of a turn whose tools have changed. With streams it
  is false (run `service_stream_completion`). Of `TimelyHeartbeats = FALSE` alone no violation was found in two million states,
  so there the hypothesis may be more than is needed.

**`ToolExecutionProofs`.** Every theorem starts from `TypeInv` (`ToolTyping`).

- `OnlyAllowedCallsRun` uses `AllowedInv`: approvals in memory, on disk and in both caches are
  backed by what a human has said, and a call past preparation has all its gates approved. It needs no assumption
  on calls left behind, because stale caches hold *old* approvals, never invented ones.
- `ActsAtMostOnce`, `DeniedCallsDoNotRun` and `SettledCallsRest` assume `LeftCallsEnd` and use `IInv`, which is needed because
  `ActsOnce` says nothing of the records that enforce it:
  `LoopInv` (memory, cache and disk agree outside a batch, and inside it differ only by the
  records of its calls), `ChunkInv` (a call that must not be replayed never shares a gather),
  `RecordInv` (the durable record of a call under way says so, and a call that has run has a record past `prepared`),
  `LeftInv` (while calls are left behind the turn is down, and what they will write agrees with the disk on everything that
  matters), `GateInv` (approvals and denials are never lost).
  `LeftInv` is where the assumption enters: without it the resumed turn changes the disk under the left calls' cache.
- `CompletedTurnsAnswerEveryCall` has no assumption. `CoverInv` adds to the types that a call with no result is still in hand:
  it is pending in the state (`StatesCovered`), or the batch at work will hand its result over (`InHand`).
- `CallsToldOnce` and `DoubtsAreReconciled` are proved of behaviours in which at most one call that must not be replayed is in doubt at a
  time (`[]OneDoubt`), from `DoubtInv`: `CoverInv`, `StatesToldOnce` (a call with a final result is not pending, one told twice was vouched for),
  `GuardedAlone` and `LoopSure` (in memory a doubt is pending or asked about). Without `OneDoubt` both are false: the
  run `tool_unreconciled` ends with an unreconciled call, and since a resumption asks about the first doubtful record it
  finds (`core/checkpointing.py:711`), not about the call that is pending, a newer doubt may be told several results. In the instances
  that TLC runs with these properties, one call is not idempotent, so `OneDoubt` holds of all their behaviours.

- `RecordsKeepLedger`: the durable records implement `CallLedger`. It adds `RequestInv` (a reconciliation is asked only of an
  unknown call) to `IInv` and maps each step to a ledger step or a stutter; recovery maps to `Doubt`.

**`AgentLoopProofs`, the loop.** Four theorems about any invocations, batches and limits and any number of crashes.

- `LoopTyping` needs `TypeInv`: a state that is saved is `WellFormed` (what it knows of single calls is about calls of its
  batch, and its request can be answered), and memory is ahead of the checkpoint only by `Lag`, the iteration of a model call
  under way and an overflow. Without `Lag` a crash could bring back records of a batch that is no longer there.
- `LoopCallsBounded` is inductive on top of it: only `CallModel` asks, `CountKept` says no other step of a live process
  loses what was counted, and `Lag` says what a crash loses.
- `LoopNoBlindRepeat` needs `FailuresKnown`: the failures the history has counted (`pain`) are known to the circuit that the
  code computes from its results (`told.fails`), and a crash loses neither, because both change in the step that saves.
- `LoopInspectionsBounded` needs `LooksKnown`. The guard computes its room from what it was told of the cycle (`Seen`, in which a doubtful
  inspection that will be told again is counted apart), so the invariant says that the inspections run in a cycle (`looked`) are at
  most those told, those of the batch under way not told yet (`Untold`), and the crashes' share (`LooksTold`). An untold inspection is
  pending, is not held for approval (`CountedLooks`) and, unless a crash has recorded it, is still let through (`StillLetThrough`), so
  the end of the batch tells it. A batch with an act begins the cycle anew, and then the inspections after its last
  act are what counts (`LooksAfterActs`). `GuardBounds` turns the guard's rule for one call (fewer than the room before it) into
  a bound on the set it lets through. A crash breaks the balance by what it records without counting it: at most `MaxBatch - 1`
  calls, because one more inspection must be there to run.

**`AgentLoopProofs`, the gateway.** `GatewayIsSound` is for any number of calls, any window, total and budget, and any scripts a provider may stream.

- `BudgetIsHeld`: `BudgetInv` is the property with the types of the ledger (`LedgerTyped`) and of the calls' counts. Each step is one of four things for
  the ledger (`LedgerStays`, `LedgerReserves`, `LedgerRefunds`, `LedgerCommits`), whatever the kind of the call. What is reserved is a sum over a finite set,
  so the proof needs that such a sum grows and shrinks by the term that comes or goes (`SumWith`, `SumWithout` in `NatFacts`). The
  induction principle of the library cannot be instantiated; a least counterexample does its work: among the finite sets for
  which a fact fails one has the fewest elements (`LeastSubset`), and without its chosen element it does not fail.
- `StreamsAssemble`: `Streamed` says of the chunks taken so far what the property says of all: the calls are the blocks closed among them (`ToolsSent`), and
  the block being built is the one that is open, with the input sent since (`BlockOpen`). `TakenKeeps` is the step of one chunk; an answer counts as
  complete only when the thread is done and everything it put was taken.

**`KnowledgeProofs`, guards.** They hold for any number of threads, users and any limits; `GuardsNeverExceeded` is the two together.

- `ProbesAreBounded`: the probes counted since the breaker opened are those that were let through, late answers of older generations included.
- `RequestsAreLimited` assumes `Span + MaxWait <= Window`. That is needed: a request that waits is remembered by the time it read, so it is forgotten
  a window after it came and not after it was let through ([below](#known-counterexamples)). `LimiterInv`: each deque is at least as long as the history (`Covers`) and
  its stamps are older than what they stand for by no more than the wait, so a purge, whoever makes it and however late, leaves every request of the last
  `Span` in the deque (`PurgeCovers`). Stamps need not be in order: a purge stops at the first young one, and what is behind it stays (`CutLeaves`).

**`KnowledgeProofs`, index.** `IndexTyping` holds for any number of processes that overlap, fail and crash. `SearchableIsFound` says that a document that
is active and ready has vectors, or a queued request to make them, or a row that a delete or a rebuild had just taken when it was cut off. It is proved of
behaviours in which calls do not overlap (`[]Serial`); with two processes the property is false (below).
`OneProcessFinds` drops the hypothesis for one process, as in the run. The property only speaks of states at rest, so `SerialInv` has to say what
holds in the middle of a call:

- `Sound`: the same at every step: vectors are dropped only once the row says who puts them back, or the document is not ready;
- `Dropped`: a request to drop vectors is only in the row of a document that is off, so a repair never drops what a query finds;
- `Stamped`: a copy that a process has just read again is the row still, but for its clocks; this is where overlapping calls break the proof;
- `Knows`: per place of a call, what is known there: its document is off, its task is the one in the row, its vectors are made.

The proof corrected the property. It first asked for vectors or a *queued* request, and the step in which a delete or a rebuild overwrites the row of an interrupted
repair did not preserve it: a crash right there leaves a ready document whose request is gone. Two faults do not reach this, a third does, and TLC
then found it. `ReadyIsSearchable` and `DeletionCompletes` now name that state (`CutOff`), and the run has three faults.

**`EdgeProofs`.** Six small components, each with an invariant of its own.

- `CommandsAreReaped`: `Reaped` ties the place of the clean-up to what it has already done to the group: from the drain on nothing is left alive, and where it is
  given up nothing that was not killed. Any number of forks and cancellations.
- `StreamsAreComplete`: `InOrder` says that, unless the caller has gone, what was put and not read yet is what the queue holds, in order, with the end
  marker behind the events and only then what wakes a reader, and what the reader may conclude at each of its places. The one stream that ends with
  its loop running is that of a caller cancelled twice, which leaves a full queue nobody reads (`LeftFull`, `LeftKept`). Any capacity, any number of events.
- `CallsHaveLeave`: `GatesInTurn` says which gates a call has passed at each place; `MoreNeedsMore` is the lemma that the decision is monotone in the
  effects of a use and in what its caller forbids. It holds for any tools, uses and callers of the right shape (`PermissionConstants`).
- `TurnsKeepTheirModel` (`ModelsSound`, which `session` checks in two instances as a part of `HistoryKept`): for any catalog, processes, switches, crashes and edits of the
  configuration. Its invariant needs that a turn in a command's hands is under way and in nobody else's (`HeldTurns`), that a command at its prompt knows a turn that
  has not ended to be left open, so that it cannot take a new model into it (`AtPrompt`), that the session file is the last choice saved unless it is
  being written (`SavedChoice`), and that while no server stops a local model that works is the one being served (`Served`).
- `PlansTellTrue` (`PlansHonest`, a part of `OutcomesHonest`): while a turn runs, a step that is done and has calls has one that succeeded, and a plan that
  calls itself complete is (`Proven`); the log's revisions have no gap and the last is the plan's (`Logged`). Closing a plan may then mark only what was earned
  after a failure (`FailureShown`), and leaves nothing open after a completion (`CompletionShown`). Plans, decisions and batches of any length.
- `CallsLetGo` (`AgentSound` but for `ToolsOfServers`, a part of `OutcomesHonest`): what a call has started is on its stack, but for the server it is at and
  what was given up (`Stacked`); what it uses belongs to the place it is at (`Placed`); a call that is alone is the only one under way (`Solitary`). So while no
  two have met and no close was given up the saver is the only connection, with a call left to close it (`Owned`), and whoever closes it takes it from
  nobody who is alone (`Connected`). Any number of calls, servers, cancellations and late closes. What the tools of servers are called stays with TLC: it asks for
  what a filtered sequence contains.

What is checked by TLC only, and why:

- liveness (`LoopEnds`, `BatchEnds`, `CallsSettle`, `StreamsSettle`, `BreakerRecovers`, `QueuesDrain`) and whatever needs ENABLED: beyond the prover;
- `StoredSound`, `ShownSound`, `KnowledgeSound`, `HistoryKept` but for its two parts about models, and `OutcomesHonest` but for what `PlansTellTrue` and `CallsLetGo` say of it: algorithms on sequences, sorts and folds of given data, with the data in the instance; several of their
  modules (`Formulas`, `InputFiles`, `ToolInput`) recurse over their data.

## Findings

Each has a run whose counterexample is the scenario, and quotes the line it disagrees with (`PROJECT.json`, `findings`).

1. `service_inspect`: asking a turn for its pending request saves a state without holding the turn
   (`service.py:1191`). A call that ran meanwhile loses its record and runs again on a later resumption.
2. `service_stream_completion`: a stream whose last snapshot fails marks its turn completed from memory (`service.py:441`).
3. `service_early_stop`: a turn interrupted before its first snapshot can be neither resumed nor aborted, and nothing may follow it (`service.py:906`).
4. `tool_unreconciled`: of two unknown outcomes in a batch only the first is asked about; the turn completes with the other unreconciled (`loop/runtime.py:773`).
5. `index_delete`: deletion queues a retry for its vectors and then overwrites the row the retry is in (`src/rag/runtime.py:590`).
6. `answer_footnotes`: a section's key in the database is compared with positions of evidence, so its footnote is that of another section (`src/rag/providers/citation_formatter.py:157`).

## Known counterexamples

Found with other constants, or of properties wider than those the runs check; kept here instead of as runs. Each names the property that TLC finds violated.

| constants | property | what happens |
|---|---|---|
| `service_turns` with `TimelyHeartbeats = FALSE` | `NeverReplayed`, `ExclusiveExecution` | the lease lapses while the worker lives; another recovers the turn (`turns.py:521`) |
| `service_turns` with `Overlap = {"resume"}` | `NeverReplayed` | the resumed state was loaded before the claim (`service.py:934`) |
| `service_turns` with two workers and `Modes = {"stream"}` | `ExclusiveExecution` | a stream's clean-up interrupts the new owner's turn: `_interrupt_turn` names no owner (`service.py:537`) |
| `tool_calls` with `LeftCallsEnd = FALSE` | `ActsOnce`, `RefusedNeverRuns`, `SettledNeverRerun` | a left call's record write puts back older records and approvals from its cached state (`core/checkpointing.py:743`) |
| `tool_unreconciled` | `OneResultPerCall` | a resumption asks about the first doubtful record it finds, not the pending one; the newer doubt is told again (`core/checkpointing.py:711`) |
| `index_sync` with two processes, no faults | `ReadyIsSearchable`, `DeletedHasNoVectors` | whole rows are read, changed and written back (`sqlite_metadata_repo.py:539`) |
| wire of `agent_loop` | `CallsAreNew` | ids are `call_<index>` within an answer, so they repeat in later iterations and are met by old records; `messages.py` says model-provided or generated (`openai_wire.py:162`) |
| tools of `agent_loop` | `ActivationsSurvive` | a resumed surface drops activations of the turn that its design notes keep (`core/checkpointing.py:1054`) |
| guards of `index_sync` with `Span = 2`, the window | `GuardsHold` (`WindowsHeld`) | of a full window the request that waited for the lock is forgotten early, and one more passes (`guard.py:77`) |
| files of `agent_loop` | `PatchKeepsBytes` | a patch reads and writes in text mode: line endings all over the file change with a word (`filesystem.py:505`), though the tool's text at :312 says "exact text replacement" |
| files of `agent_loop` | `LineNumbersAgree` | `search_text` counts lines that end at a form feed or a lone carriage return (`search.py:198`), `read_file` does not, though it asks for the number of the other (`filesystem.py:113`) |
| memory of `session` | `ToolPairsKept` | the kept tail is extended to the calls of its results once, not to those of the results that come in with them (`compactor.py:117`), although the test of it is called `test_tail_expands_to_preserve_tool_call_result_pair` |
| evidence of `index_sync` | `PassagesOnce`, `TextKept` | one passage under two targets; a window that is cut away takes the matching text with it |

Reading the code for the models gave these as well. The models behave like the code, and where a property comes near one of
these it names the case and claims nothing of it.

*Loop and executor.*

- An inspection refused by the exploration guard counts as a failure of that call, so the failure circuit may later refuse, or end the
  turn over, a call that never ran (`loop/runtime.py:1584`). An approved inspection that was held back while others of its batch ran
  may itself be refused when it is resumed.
- A delivery action that fails, is denied or is refused starts a new exploration cycle like one that succeeds
  (`loop/runtime.py:1561`); the design notes ask for a completed delivery.
- `tool_results` is capped (`memory/models.py:40`), so in a long turn the guards forget inspections and failures. `AgentLoop` keeps all.
- The loop's budget check (`loop/runtime.py:265`) cannot fire: the loop's model calls pass no ledger. A parse error after a
  paid provider call keeps its reservation for ever (`llm_gateway.py:366`).
- After a crash, calls with a record bypass the guards without using up room, up to the rest of one batch. `InspectionsBounded` has the term for it.
- A doubtful result is told at once and again when it is reconciled (`loop/runtime.py:763`), so the transcript holds two messages for one call.
- Malformed `evidence` or `citations` in a tool's structured content make the observation extractor raise after the tool has run and
  before its result is merged: the turn fails.

*Model requests and transcript.*

- Two calls with one id in an answer make the save raise; a parse error after a paid call leaves no record; a pause can put a message between
  an assistant's calls and their results; streamed usage counts message contents and tool names only.
- A failed turn leaves calls without results in the history of the next; extending the tail
  to whole exchanges may exceed the limit; `_must_preserve` never holds for results; feedback of hooks is not in requests built by the stable context.
- A legacy checkpoint with a pending call "paused" raises when it is loaded; `decode_legacy_tool_state_v1` has no caller but tests.
- `update_plan` accepts 20 items, keeps 12, and judges completeness on what it kept; a step completes with its first successful call.
- Hook `output_validation_errors` is never filled; malformed `evidence_refs` stop the turn; the cap of 80 results can make a met contract unmet.

*Files, memories, commands, streams.*

- Another editor's save between the read and the replace of a patch is lost. A crash leaves a temporary file.
- A merged memory without its heading is read back as "unnamed", a second one is dropped and both sources are deleted; an existing name is overwritten.
- A second cancellation abandons a command's processes; a process that left the group keeps `communicate` waiting.
- A stream abandoned with a full queue never ends, because the sink is closed before the task is cancelled; `StreamsSettle` names that state.
  A second cancellation there ends it and leaves its loop running (`loop/runtime.py:239`); `StreamComplete` names that one.
- A table whose header is at line *k* of a text file is read with names from line 2*k*-1 (`file_manifest.py:610`). A table of texts
  whose first number is further down than the third row below the header gets a row of data as its header (`file_manifest.py:500`); `HeaderFound` excludes it.

*API and models.*

- Overlapping calls of one `Agent` connect the shared saver twice or close it under each other; a close that is cancelled or exceeds 5 s leaves a
  closed saver in place; a cancelled start leaves a server process; one bad entry refuses the whole server configuration.
- A torn session file falls back to the default model in silence, although the README promises no silent fallback; a saved alias that has left the catalog makes
  every construction fail, `model switch` included; root and continued turns may answer with different models.

*Knowledge side.*

- A crash while a document is being moved to the cold tier after a delete, or between saving a new summary and
  marking the document unready, leaves old vectors (`src/rag/runtime.py:579`, `data_contract_service.py:149`).
- A crashed insert leaves its row "processing", which keeps the lifecycle queue away for ever (`storage_lifecycle_service.py:48`).
- A rebuild takes the row a queued summary request was in; a crash then loses the request (`src/rag/runtime.py:623`).
- The Postgres repository has no transaction around a document's facts and never rolls back: one failing statement makes the later ones fail. A repeated ingest
  whose parse fails overwrites the object key of a ready document. The SQLite repository's transaction depth is shared by threads.
- A vector row the collection refuses stays in the buffer and makes every later read raise; a delete in Milvus with unflushed rows of another process
  is undone by them; the stores filter scopes differently.
- A second data row of text joins the header of a sheet; columns first used after row 30 are unknown to the schema; an all-text sheet is
  all header; a failed conversion stores the sample of three rows. Formulas in a cycle depend on which cell is asked for first; `IFERROR` sees its arguments
  evaluated already.
- Questions about an old version are planned for the active one; filters are applied after the cut to the best hits; clauses are joined without
  parentheses (`planning_graph.py:507`). The exit margin compares rank-fusion scores with 0.03, which they hardly exceed.
- When the breaker is open, the fallback result lacks the fields the renderer reads; answers that arrive late count as probes; the breaker hardly ever sees a
  provider's failure, because `generate` turns it into a result.
- Evidence with blank text shifts the names of the documents behind it; a compute request can become the final answer; the result of a
  computation is inserted as a substitution template.

## What is left out

- Formats, prompts, parsing of documents other than sheets, ranking with floating-point scores, embeddings: data that no property here is about.
- The bodies of tools and the adapters of databases and model providers: they are what a step may return.
- Sessions of several turns in `TurnService`: the lineage is checked in `TurnStore`, where every interleaving of transactions is possible.
- Stop reasons, advice to the model, diagnostics, events and metrics of the loop; sub-agents.
- Parts with status `not_modelled` in `PROJECT.json`, each with its reason. A part is `partly` modelled when one of its operations is left out, even
  one that no caller of the product uses.

## Plan

Order: what acts on the world first. Modelled and, as far as the provers reach, proved: turn store, service, executor, loop, then the
guards and the index, then the edges of a turn. Next:

1. `TurnService` with streams: which of the theorems survive if a stream ends only turns it still holds.
2. `DatabasesInStep` without `TimelyHeartbeats`, of which TLC has found no counterexample.
3. `IndexSync` with two processes under the assumption that would make it safe (a compare-and-set of the row), as a
   specification of what the repository should promise.
