----------------------------- MODULE TurnStore -----------------------------
(***************************************************************************)
(* The durable table of turns (rag/agent/turns.py, class TurnStore) and    *)
(* its transcript table.  A method is one BEGIN IMMEDIATE transaction and  *)
(* so one action; a method that raises rolls back, so the action is not    *)
(* enabled.  A column of agent_turns is a function on turn ids.            *)
(*                                                                         *)
(* The callers are not restricted here: any worker may call any method at  *)
(* any time.  What AgentService does with the store is TurnService.tla.    *)
(***************************************************************************)
EXTENDS Integers, Sequences, SequencesExt

CONSTANTS
    Turns,         \* turn ids
    Workers,       \* lease owners: one uuid for each AgentService object
    Runtimes,      \* RuntimeBinding values
    Messages,      \* canonical history messages
    NoTurn,        \* previous_turn_id IS NULL
    NoWorker,      \* lease_owner IS NULL
    NoRuntime,     \* the runtime of a row that does not exist
    LeaseSeconds,  \* lease_seconds, in ticks of the clock
    MaxNow,        \* bound: the clock stops here
    MaxHistory     \* bound: the longest transcript that is synced

ASSUME StoreAssumption ==
    /\ NoTurn \notin Turns
    /\ NoWorker \notin Workers
    /\ NoRuntime \notin Runtimes
    /\ LeaseSeconds \in Nat \ {0}
    /\ MaxNow \in Nat
    /\ MaxHistory \in Nat

VARIABLES
    now,       \* time.time(), 1 at the start
    status,    \* the status column, "absent" when there is no row
    owner,     \* lease_owner
    expires,   \* lease_expires_at, 0 for NULL: a time before every clock reading
    previous,  \* previous_turn_id
    runtime,   \* runtime_json
    message,   \* user_message, the only entry of the empty sequence when absent
    history    \* payload_json of agent_turn_messages, by message_index

storeVars == <<now, status, owner, expires, previous, runtime, message, history>>
lineageVars == <<previous, runtime, message>>

Terminal == {"completed", "failed"}
Recoverable == {"paused", "interrupted"}
Statuses == {"absent", "running"} \cup Recoverable \cup Terminal

Exists(t) == status[t] # "absent"

\* prepare_turn_for_resume and latest_resumable_turn treat a lease without an
\* owner or an expiry, or whose expiry has been reached, as no lease.
LeaseLive(t) == owner[t] # NoWorker /\ expires[t] > now

StoreInit ==
    /\ now = 1
    /\ status = [t \in Turns |-> "absent"]
    /\ owner = [t \in Turns |-> NoWorker]
    /\ expires = [t \in Turns |-> 0]
    /\ previous = [t \in Turns |-> NoTurn]
    /\ runtime = [t \in Turns |-> NoRuntime]
    /\ message = [t \in Turns |-> << >>]
    /\ history = [t \in Turns |-> << >>]

\* A column written for the turns of S.
Put(column, S, value) == [t \in Turns |-> IF t \in S THEN value ELSE column[t]]

-----------------------------------------------------------------------------
(* Faulty variants of the definitions below. *)

NoPrimaryKey(t) == TRUE
IgnoreLease(t) == FALSE
FollowUpAny(p, r) == p # NoTurn => Exists(p) /\ runtime[p] = r
ClaimableEvenIfEnded(t) == status[t] \in Recoverable \cup Terminal
ExtendsByLength(t, payloads) == Len(payloads) >= Len(history[t])
ReleaseKeepingLease(S, s) ==
    /\ status' = Put(status, S, s)
    /\ UNCHANGED <<now, owner, expires, lineageVars, history>>
MarkPausedAsWaiting(t) ==
    /\ status[t] = "running"
    /\ status' = [status EXCEPT ![t] = "waiting"]
    /\ owner' = [owner EXCEPT ![t] = NoWorker]
    /\ expires' = [expires EXCEPT ![t] = 0]
    /\ UNCHANGED <<now, lineageVars, history>>

-----------------------------------------------------------------------------

\* turn_id is the primary key of agent_turns.
RowFree(t) == ~Exists(t)

\* begin_turn's checks on previous_turn_id.
FollowUpAllowed(p, r) ==
    p # NoTurn => status[p] \in Terminal /\ runtime[p] = r

BeginTurn(t, m, r, p, w) ==
    /\ RowFree(t)
    /\ FollowUpAllowed(p, r)
    /\ status' = [status EXCEPT ![t] = "running"]
    /\ owner' = [owner EXCEPT ![t] = w]
    /\ expires' = [expires EXCEPT ![t] = IF w = NoWorker THEN 0 ELSE now + LeaseSeconds]
    /\ previous' = [previous EXCEPT ![t] = p]
    /\ runtime' = [runtime EXCEPT ![t] = r]
    /\ message' = [message EXCEPT ![t] = <<m>>]
    /\ history' = [history EXCEPT ![t] = <<m>>]
    /\ UNCHANGED now

\* The rows that latest_resumable_turn rewrites.
Lapsed == {t \in Turns : status[t] = "running" /\ ~LeaseLive(t)}

\* The turns of S leave the state "running", or end, and lose their lease.
Release(S, s) ==
    /\ status' = Put(status, S, s)
    /\ owner' = Put(owner, S, NoWorker)
    /\ expires' = Put(expires, S, 0)
    /\ UNCHANGED <<now, lineageVars, history>>

LatestResumableTurn == Lapsed # {} /\ Release(Lapsed, "interrupted")

\* sync_turn_messages's test that the stored transcript is a prefix.
ExtendsHistory(t, payloads) == IsPrefix(history[t], payloads)

SyncTurnMessages(t, payloads) ==
    /\ Exists(t)
    /\ ExtendsHistory(t, payloads)
    /\ history' = [history EXCEPT ![t] = payloads]
    /\ UNCHANGED <<now, status, owner, expires, lineageVars>>

\* _mark_recoverable: from "running" only, whoever asks.
MarkRecoverable(t, s) == status[t] = "running" /\ Release({t}, s)
MarkPaused(t) == MarkRecoverable(t, "paused")
MarkInterrupted(t) == MarkRecoverable(t, "interrupted")

\* mark_terminal: from every state that is not terminal, whoever asks.
MarkTerminal(t, s) == Exists(t) /\ status[t] \notin Terminal /\ Release({t}, s)

Claimable(t) == status[t] \in Recoverable

ClaimForResume(t, w) ==
    /\ Claimable(t)
    /\ status' = [status EXCEPT ![t] = "running"]
    /\ owner' = [owner EXCEPT ![t] = w]
    /\ expires' = [expires EXCEPT ![t] = now + LeaseSeconds]
    /\ UNCHANGED <<now, lineageVars, history>>

\* The branch of prepare_turn_for_resume that raises "still running".
HeldByLiveLease(t) == LeaseLive(t)

PrepareTurnForResume(t) ==
    \/ /\ status[t] \in Recoverable
       /\ UNCHANGED storeVars
    \/ /\ status[t] = "running"
       /\ ~HeldByLiveLease(t)
       /\ Release({t}, "interrupted")

\* renew_lease looks at the status and the owner, not at the expiry.
RenewLease(t, w) ==
    /\ status[t] = "running"
    /\ owner[t] = w
    /\ expires' = [expires EXCEPT ![t] = now + LeaseSeconds]
    /\ UNCHANGED <<now, status, owner, lineageVars, history>>

Tick ==
    /\ now < MaxNow
    /\ now' = now + 1
    /\ UNCHANGED <<status, owner, expires, lineageVars, history>>

Payloads == UNION {[1..n -> Messages] : n \in 1..MaxHistory}

StoreNext ==
    \/ \E t \in Turns, m \in Messages, r \in Runtimes, p \in Turns \cup {NoTurn},
          w \in Workers \cup {NoWorker} : BeginTurn(t, m, r, p, w)
    \/ LatestResumableTurn
    \/ \E t \in Turns, payloads \in Payloads : SyncTurnMessages(t, payloads)
    \/ \E t \in Turns : MarkPaused(t)
    \/ \E t \in Turns : MarkInterrupted(t)
    \/ \E t \in Turns, s \in Terminal : MarkTerminal(t, s)
    \/ \E t \in Turns, w \in Workers : ClaimForResume(t, w)
    \/ \E t \in Turns : PrepareTurnForResume(t)
    \/ \E t \in Turns, w \in Workers : RenewLease(t, w)
    \/ Tick

StoreSpec == StoreInit /\ [][StoreNext]_storeVars

-----------------------------------------------------------------------------
(* Type invariant: the CHECK constraint of the table and the column types. *)
StoreTypeOK ==
    /\ now \in Nat \ {0}
    /\ status \in [Turns -> Statuses]
    /\ owner \in [Turns -> Workers \cup {NoWorker}]
    /\ expires \in [Turns -> Nat]
    /\ previous \in [Turns -> Turns \cup {NoTurn}]
    /\ runtime \in [Turns -> Runtimes \cup {NoRuntime}]
    /\ message \in [Turns -> Seq(Messages)]
    /\ history \in [Turns -> Seq(Messages)]

\* Every predecessor has ended, and the whole lineage of a turn runs under one
\* RuntimeBinding: begin_turn checks this once, and no later call of any worker
\* may undo it, so history_before_turn never replays a turn that can still run.
LineageOK ==
    \A t \in Turns : previous[t] # NoTurn =>
        /\ Exists(t)
        /\ status[previous[t]] \in Terminal
        /\ runtime[previous[t]] = runtime[t]

\* _lineage never meets a turn twice: it raises "Turn lineage contains a cycle".
\* In every non-empty set of turns one has its predecessor outside the set.
LineageAcyclic ==
    \A S \in SUBSET Turns : S # {} => \E t \in S : previous[t] \notin S

\* A turn without a lease owner cannot renew, and a turn that is not running has
\* no lease: whatever the workers do, every transition out of "running" clears it.
\* The transcript of a turn begins with its user message (_hydrate_turn_state
\* raises otherwise), whoever synchronises it.
LeaseAndTranscriptOK ==
    \A t \in Turns :
        /\ owner[t] # NoWorker => status[t] = "running" /\ expires[t] > 0
        /\ Exists(t) => message[t] # << >> /\ IsPrefix(message[t], history[t])

\* A completed or failed turn never runs again and never changes its verdict,
\* whichever workers still hold a reference to it.
TerminalIsFinal ==
    [][\A t \in Turns : status[t] \in Terminal =>
          status'[t] = status[t] /\ owner'[t] = NoWorker]_storeVars

-----------------------------------------------------------------------------
(* The table implements the lifecycle of TurnLifecycle. *)
PhaseOf(s) == CASE s = "absent" -> "unborn"
                [] s = "running" -> "held"
                [] s \in Recoverable -> "waiting"
                [] s \in Terminal -> "ended"

phaseBar == [t \in Turns |-> PhaseOf(status[t])]

Lifecycle == INSTANCE TurnLifecycle WITH phase <- phaseBar, holder <- owner, log <- history

\* Every call is a step of the lifecycle or changes nothing it speaks of: a turn
\* changes hands only through a state in which nobody holds it, ends once, and
\* its transcript only grows, under any interleaving of the workers.
ImplementsLifecycle == Lifecycle!Spec
=============================================================================
