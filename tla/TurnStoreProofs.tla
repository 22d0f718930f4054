-------------------------- MODULE TurnStoreProofs --------------------------
(* Proofs about TurnStore, for every set of turns, workers and messages.   *)
EXTENDS TurnStore, TLAPS

\* A transaction on the store, of a transcript of any length: StoreNext bounds it
\* for TLC, and what follows is proved of this relation, so that it holds of every
\* user of the store.
StoreStep ==
    StoreNext \/ \E t \in Turns, payloads \in Seq(Messages) : SyncTurnMessages(t, payloads)

\* The transactions by name.
LEMMA StoreSteps ==
  ASSUME [StoreStep]_storeVars
  PROVE  \/ \E t \in Turns, m \in Messages, r \in Runtimes, p \in Turns \cup {NoTurn},
               w \in Workers \cup {NoWorker} : BeginTurn(t, m, r, p, w)
         \/ LatestResumableTurn
         \/ \E t \in Turns, payloads \in Seq(Messages) : SyncTurnMessages(t, payloads)
         \/ \E t \in Turns : MarkPaused(t) \/ MarkInterrupted(t)
         \/ \E t \in Turns, s \in Terminal : MarkTerminal(t, s)
         \/ \E t \in Turns, w \in Workers : ClaimForResume(t, w)
         \/ \E t \in Turns : PrepareTurnForResume(t)
         \/ \E t \in Turns, w \in Workers : RenewLease(t, w)
         \/ Tick
         \/ UNCHANGED storeVars
<1>1. Payloads \subseteq Seq(Messages)
  BY DEF Payloads
<1>2. QED
  BY <1>1, Zenon DEF StoreStep, StoreNext

\* Every transaction keeps every column in its type.
LEMMA TypingStep ==
  ASSUME StoreTypeOK, [StoreStep]_storeVars
  PROVE  StoreTypeOK'
<1> USE StoreAssumption DEF StoreTypeOK, lineageVars, Statuses
<1>1. ASSUME NEW t \in Turns, NEW m \in Messages, NEW r \in Runtimes,
             NEW p \in Turns \cup {NoTurn}, NEW w \in Workers \cup {NoWorker},
             BeginTurn(t, m, r, p, w)
      PROVE  StoreTypeOK'
  BY <1>1 DEF BeginTurn
<1>2. ASSUME NEW S \in SUBSET Turns, NEW s \in Statuses, Release(S, s)
      PROVE  StoreTypeOK'
  BY <1>2 DEF Release, Put
<1>3. CASE LatestResumableTurn
  BY <1>2, <1>3 DEF LatestResumableTurn, Lapsed, Recoverable
<1>4. ASSUME NEW t \in Turns, NEW payloads \in Seq(Messages), SyncTurnMessages(t, payloads)
      PROVE  StoreTypeOK'
  BY <1>4 DEF SyncTurnMessages
<1>5. ASSUME NEW t \in Turns, MarkPaused(t) PROVE StoreTypeOK'
  BY <1>2, <1>5 DEF MarkPaused, MarkRecoverable, Recoverable
<1>6. ASSUME NEW t \in Turns, MarkInterrupted(t) PROVE StoreTypeOK'
  BY <1>2, <1>6 DEF MarkInterrupted, MarkRecoverable, Recoverable
<1>7. ASSUME NEW t \in Turns, NEW s \in Terminal, MarkTerminal(t, s) PROVE StoreTypeOK'
  BY <1>2, <1>7 DEF MarkTerminal, Terminal
<1>8. ASSUME NEW t \in Turns, NEW w \in Workers, ClaimForResume(t, w) PROVE StoreTypeOK'
  BY <1>8 DEF ClaimForResume
<1>9. ASSUME NEW t \in Turns, PrepareTurnForResume(t) PROVE StoreTypeOK'
  BY <1>2, <1>9 DEF PrepareTurnForResume, storeVars, Recoverable
<1>10. ASSUME NEW t \in Turns, NEW w \in Workers, RenewLease(t, w) PROVE StoreTypeOK'
  BY <1>10 DEF RenewLease
<1>11. CASE Tick
  BY <1>11 DEF Tick
<1>12. CASE UNCHANGED storeVars
  BY <1>12 DEF storeVars
<1> HIDE DEF StoreTypeOK
<1>13. QED
  BY <1>1, <1>3, <1>4, <1>5, <1>6, <1>7, <1>8, <1>9, <1>10, <1>11, <1>12, StoreSteps

\* The store's methods keep every column in its type.
THEOREM StoreTyping == StoreSpec => []StoreTypeOK
<1> USE StoreAssumption
<1>1. StoreInit => StoreTypeOK
  BY DEF StoreInit, StoreTypeOK, Statuses
<1>2. StoreTypeOK /\ [StoreNext]_storeVars => StoreTypeOK'
  BY TypingStep DEF StoreStep
<1>3. QED
  BY <1>1, <1>2, PTL DEF StoreSpec

-----------------------------------------------------------------------------
(* Facts about one step. *)

\* Only begin_turn writes previous_turn_id and runtime_json, and it does so once
\* for a turn; no call changes the status of a turn that has ended.
LEMMA RowsAreFixed ==
  ASSUME StoreTypeOK, [StoreStep]_storeVars
  PROVE  /\ \A t \in Turns : status[t] \in Terminal => status'[t] = status[t]
         /\ \A t \in Turns : Exists(t) => Exists(t)'
         /\ \/ UNCHANGED lineageVars
            \/ \E t \in Turns, m \in Messages, r \in Runtimes, p \in Turns \cup {NoTurn},
                  w \in Workers \cup {NoWorker} : BeginTurn(t, m, r, p, w)
<1> USE StoreAssumption DEF StoreTypeOK, Exists, Terminal, Recoverable, lineageVars
<1>1. ASSUME NEW S \in SUBSET Turns, NEW s \in Recoverable \cup Terminal, Release(S, s),
             \A t \in S : status[t] \notin Terminal /\ Exists(t)
      PROVE  /\ \A t \in Turns : status[t] \in Terminal => status'[t] = status[t]
             /\ \A t \in Turns : Exists(t) => Exists(t)'
             /\ UNCHANGED lineageVars
  BY <1>1 DEF Release, Put
<1>2. ASSUME NEW t \in Turns, NEW m \in Messages, NEW r \in Runtimes,
             NEW p \in Turns \cup {NoTurn}, NEW w \in Workers \cup {NoWorker},
             BeginTurn(t, m, r, p, w)
      PROVE  /\ \A u \in Turns : status[u] \in Terminal => status'[u] = status[u]
             /\ \A u \in Turns : Exists(u) => Exists(u)'
  BY <1>2 DEF BeginTurn, RowFree
<1>3. CASE LatestResumableTurn
  <2>1. Lapsed \in SUBSET Turns /\ \A t \in Lapsed : status[t] = "running"
    BY DEF Lapsed
  <2>2. Release(Lapsed, "interrupted")
    BY <1>3 DEF LatestResumableTurn
  <2>3. \A t \in Lapsed : status[t] \notin Terminal /\ Exists(t)
    BY <2>1
  <2>4. "interrupted" \in Recoverable \cup Terminal
    OBVIOUS
  <2> HIDE DEF Terminal, Recoverable, Exists, lineageVars, StoreTypeOK
  <2>5. QED
    BY <1>1, <2>1, <2>2, <2>3, <2>4
<1>4. ASSUME NEW t \in Turns, NEW payloads \in Seq(Messages), SyncTurnMessages(t, payloads)
      PROVE  UNCHANGED <<status, lineageVars>>
  BY <1>4 DEF SyncTurnMessages
<1>5. ASSUME NEW t \in Turns, MarkPaused(t) \/ MarkInterrupted(t)
      PROVE  \E s \in Recoverable : Release({t}, s) /\ status[t] = "running"
  BY <1>5 DEF MarkPaused, MarkInterrupted, MarkRecoverable
<1>6. ASSUME NEW t \in Turns, NEW s \in Terminal, MarkTerminal(t, s)
      PROVE  Release({t}, s) /\ status[t] \notin Terminal /\ Exists(t)
  BY <1>6 DEF MarkTerminal
<1>7. ASSUME NEW t \in Turns, NEW w \in Workers, ClaimForResume(t, w)
      PROVE  /\ \A u \in Turns : status[u] \in Terminal => status'[u] = status[u]
             /\ \A u \in Turns : Exists(u) => Exists(u)'
             /\ UNCHANGED lineageVars
  BY <1>7 DEF ClaimForResume, Claimable
<1>8. ASSUME NEW t \in Turns, PrepareTurnForResume(t)
      PROVE  \/ UNCHANGED storeVars
             \/ Release({t}, "interrupted") /\ status[t] = "running"
  BY <1>8 DEF PrepareTurnForResume
<1>9. ASSUME NEW t \in Turns, NEW w \in Workers, RenewLease(t, w)
      PROVE  UNCHANGED <<status, lineageVars>>
  BY <1>9 DEF RenewLease
<1>10. CASE Tick
  BY <1>10 DEF Tick
<1>11. CASE UNCHANGED storeVars
  BY <1>11 DEF storeVars
<1>12. ASSUME NEW t \in Turns, NEW s \in Recoverable \cup Terminal, Release({t}, s),
              status[t] \notin Terminal, Exists(t)
       PROVE  /\ \A u \in Turns : status[u] \in Terminal => status'[u] = status[u]
              /\ \A u \in Turns : Exists(u) => Exists(u)'
              /\ UNCHANGED lineageVars
  BY <1>12 DEF Release, Put
<1>13. CASE \E t \in Turns : MarkPaused(t) \/ MarkInterrupted(t)
  BY <1>5, <1>12, <1>13
<1>14. CASE \E t \in Turns, s \in Terminal : MarkTerminal(t, s)
  BY <1>6, <1>12, <1>14
<1>15. CASE \E t \in Turns : PrepareTurnForResume(t)
  BY <1>8, <1>11, <1>12, <1>15
<1>16. QED
  BY <1>2, <1>3, <1>4, <1>7, <1>9, <1>10, <1>11, <1>13, <1>14, <1>15, StoreSteps

\* Every transaction keeps the lineage of the turns.
LEMMA LineageStep ==
  ASSUME StoreTypeOK, LineageOK, [StoreStep]_storeVars
  PROVE  LineageOK'
<1> USE StoreAssumption DEF StoreTypeOK, LineageOK
<1>1. CASE UNCHANGED lineageVars
  BY <1>1, RowsAreFixed DEF lineageVars
<1>2. ASSUME NEW t \in Turns, NEW m \in Messages, NEW r \in Runtimes,
             NEW p \in Turns \cup {NoTurn}, NEW w \in Workers \cup {NoWorker},
             BeginTurn(t, m, r, p, w)
      PROVE  LineageOK'
  <2>1. p # NoTurn => status[p] \in Terminal /\ runtime[p] = r /\ p # t
    BY <1>2 DEF BeginTurn, FollowUpAllowed, RowFree, Exists, Terminal
  <2>2. \A u \in Turns : previous[u] # NoTurn => u # t /\ previous[u] # t
    BY <1>2 DEF BeginTurn, RowFree, Exists, Terminal
  <2>3. QED
    BY <1>2, <2>1, <2>2 DEF BeginTurn, Exists
<1>3. QED
  BY <1>1, <1>2, RowsAreFixed

-----------------------------------------------------------------------------
(* Prefixes of transcripts. *)

\* A prefix agrees with the longer sequence as far as it goes.
LEMMA PrefixElements ==
  ASSUME NEW S, NEW s \in Seq(S), NEW t \in Seq(S)
  PROVE  IsPrefix(s, t) <=> Len(s) <= Len(t) /\ \A i \in 1..Len(s) : s[i] = t[i]
<1>1. CASE Len(s) <= Len(t)
  <2>1. /\ SubSeq(s, 1, Len(s)) \in Seq(S) /\ SubSeq(t, 1, Len(s)) \in Seq(S)
        /\ Len(SubSeq(s, 1, Len(s))) = Len(s) /\ Len(SubSeq(t, 1, Len(s))) = Len(s)
        /\ \A i \in 1..Len(s) : SubSeq(s, 1, Len(s))[i] = s[i] /\ SubSeq(t, 1, Len(s))[i] = t[i]
    BY <1>1
  <2>2. QED
    BY <1>1, <2>1 DEF IsPrefix
<1>2. CASE ~(Len(s) <= Len(t))
  BY <1>2 DEF IsPrefix
<1>3. QED
  BY <1>1, <1>2

\* A prefix of a prefix is a prefix.
LEMMA PrefixTransitive ==
  ASSUME NEW S, NEW s \in Seq(S), NEW t \in Seq(S), NEW u \in Seq(S),
         IsPrefix(s, t), IsPrefix(t, u)
  PROVE  IsPrefix(s, u)
<1>1. /\ Len(s) <= Len(t) /\ \A i \in 1..Len(s) : s[i] = t[i]
      /\ Len(t) <= Len(u) /\ \A i \in 1..Len(t) : t[i] = u[i]
  BY PrefixElements
<1>2. Len(s) <= Len(u) /\ \A i \in 1..Len(s) : s[i] = u[i]
  BY <1>1
<1>3. QED
  BY <1>2, PrefixElements

-----------------------------------------------------------------------------
(* What the call of a store method does to the lease and the transcript. *)

\* Release takes the lease, and leaves the transcripts alone.
LEMMA ReleaseTakesLease ==
  ASSUME StoreTypeOK, LeaseAndTranscriptOK,
         NEW S \in SUBSET Turns, NEW s \in Recoverable \cup Terminal, Release(S, s),
         \A t \in S : Exists(t)
  PROVE  LeaseAndTranscriptOK'
<1> USE StoreAssumption
<1>1. \A t \in S : owner'[t] = NoWorker
  BY DEF Release, Put
<1>2. \A t \in Turns \ S : status'[t] = status[t] /\ owner'[t] = owner[t] /\ expires'[t] = expires[t]
  BY DEF Release, Put, StoreTypeOK
<1>3. message' = message /\ history' = history /\ \A t \in Turns : Exists(t)' => Exists(t)
  BY <1>2 DEF Release, lineageVars, Exists
<1> HIDE DEF Exists
<1>4. QED
  BY <1>1, <1>2, <1>3, Zenon DEF LeaseAndTranscriptOK

\* Whatever the workers do, a turn that is not running has no lease, a lease has an
\* expiry, and a transcript begins with the user's message.
LEMMA LeaseAndTranscriptStep ==
  ASSUME StoreTypeOK, LeaseAndTranscriptOK, [StoreStep]_storeVars
  PROVE  LeaseAndTranscriptOK'
<1> USE StoreAssumption
<1>1. ASSUME NEW t \in Turns, NEW m \in Messages, NEW r \in Runtimes,
             NEW p \in Turns \cup {NoTurn}, NEW w \in Workers \cup {NoWorker},
             BeginTurn(t, m, r, p, w)
      PROVE  LeaseAndTranscriptOK'
  <2>1. <<m>> # << >> /\ IsPrefix(<<m>>, <<m>>)
    BY DEF IsPrefix
  <2>2. /\ status'[t] = "running" /\ owner'[t] = w /\ message'[t] = <<m>> /\ history'[t] = <<m>>
        /\ expires'[t] = IF w = NoWorker THEN 0 ELSE now + LeaseSeconds
    BY <1>1 DEF BeginTurn, StoreTypeOK
  <2>3. \A u \in Turns \ {t} : /\ status'[u] = status[u] /\ owner'[u] = owner[u] /\ expires'[u] = expires[u]
                               /\ message'[u] = message[u] /\ history'[u] = history[u]
    BY <1>1 DEF BeginTurn, StoreTypeOK
  <2>4. w # NoWorker => expires'[t] > 0
    BY <2>2 DEF StoreTypeOK
  <2>5. QED
    BY <2>1, <2>2, <2>3, <2>4, Zenon DEF LeaseAndTranscriptOK, Exists
<1>2. CASE LatestResumableTurn
  <2>1. Lapsed \in SUBSET Turns /\ \A t \in Lapsed : Exists(t)
    BY DEF Lapsed, Exists
  <2>2. QED
    BY <1>2, <2>1, ReleaseTakesLease DEF LatestResumableTurn, Recoverable
<1>3. ASSUME NEW t \in Turns, NEW payloads \in Seq(Messages), SyncTurnMessages(t, payloads)
      PROVE  LeaseAndTranscriptOK'
  <2>2. Exists(t) /\ IsPrefix(history[t], payloads) /\ history' = [history EXCEPT ![t] = payloads]
        /\ UNCHANGED <<status, owner, expires, message>>
    BY <1>3 DEF SyncTurnMessages, ExtendsHistory, lineageVars
  <2>3. message[t] # << >> /\ IsPrefix(message[t], history[t])
    BY <2>2 DEF LeaseAndTranscriptOK
  <2>4. IsPrefix(message[t], payloads)
    BY <2>2, <2>3, PrefixTransitive DEF StoreTypeOK
  <2>5. history'[t] = payloads /\ \A u \in Turns \ {t} : history'[u] = history[u]
    BY <2>2 DEF StoreTypeOK
  <2>6. QED
    BY <2>2, <2>3, <2>4, <2>5, Zenon DEF LeaseAndTranscriptOK, Exists
<1>4. ASSUME NEW t \in Turns, NEW s \in Recoverable \cup Terminal, Release({t}, s), Exists(t)
      PROVE  LeaseAndTranscriptOK'
  BY <1>4, ReleaseTakesLease
<1>5. ASSUME NEW t \in Turns, MarkPaused(t) \/ MarkInterrupted(t)
      PROVE  LeaseAndTranscriptOK'
  BY <1>4, <1>5 DEF MarkPaused, MarkInterrupted, MarkRecoverable, Recoverable, Exists
<1>6. ASSUME NEW t \in Turns, NEW s \in Terminal, MarkTerminal(t, s)
      PROVE  LeaseAndTranscriptOK'
  BY <1>4, <1>6 DEF MarkTerminal
<1>7. ASSUME NEW t \in Turns, NEW w \in Workers, ClaimForResume(t, w)
      PROVE  LeaseAndTranscriptOK'
  BY <1>7 DEF ClaimForResume, Claimable, Recoverable, Exists, LeaseAndTranscriptOK, StoreTypeOK, lineageVars
<1>8. CASE UNCHANGED storeVars
  BY <1>8 DEF storeVars, LeaseAndTranscriptOK, Exists
<1>9. ASSUME NEW t \in Turns, PrepareTurnForResume(t)
      PROVE  LeaseAndTranscriptOK'
  BY <1>4, <1>8, <1>9 DEF PrepareTurnForResume, Recoverable, Exists
<1>10. ASSUME NEW t \in Turns, NEW w \in Workers, RenewLease(t, w)
       PROVE  LeaseAndTranscriptOK'
  BY <1>10 DEF RenewLease, Exists, LeaseAndTranscriptOK, StoreTypeOK, lineageVars
<1>11. CASE Tick
  BY <1>11 DEF Tick, Exists, LeaseAndTranscriptOK, lineageVars
<1>12. QED
  BY <1>1, <1>2, <1>3, <1>5, <1>6, <1>7, <1>8, <1>9, <1>10, <1>11, StoreSteps

\* Leases are held by running turns only, and transcripts begin with their message.
THEOREM LeaseAndTranscriptSafe == StoreSpec => []LeaseAndTranscriptOK
<1>1. StoreInit => LeaseAndTranscriptOK
  BY DEF StoreInit, LeaseAndTranscriptOK, Exists
<1>2. StoreTypeOK /\ LeaseAndTranscriptOK /\ [StoreNext]_storeVars => LeaseAndTranscriptOK'
  BY LeaseAndTranscriptStep DEF StoreStep
<1>3. QED
  BY <1>1, <1>2, StoreTyping, PTL DEF StoreSpec

\* The status of a turn that has ended is not written, and only a running turn has an
\* owner.
LEMMA EndedStep ==
  ASSUME StoreTypeOK, LeaseAndTranscriptOK, [StoreStep]_storeVars,
         NEW t \in Turns, status[t] \in Terminal
  PROVE  status'[t] = status[t] /\ owner'[t] = NoWorker
<1>1. status'[t] = status[t]
  BY RowsAreFixed
<1>2. LeaseAndTranscriptOK'
  BY LeaseAndTranscriptStep
<1>3. QED
  BY <1>1, <1>2 DEF LeaseAndTranscriptOK, Terminal

\* A turn that has ended keeps its verdict and is never leased again.
THEOREM EndedTurnsRest == StoreSpec => TerminalIsFinal
<1>1. StoreTypeOK /\ LeaseAndTranscriptOK /\ [StoreNext]_storeVars
        => [\A t \in Turns : status[t] \in Terminal => status'[t] = status[t] /\ owner'[t] = NoWorker]_storeVars
  BY EndedStep DEF StoreStep
<1>2. QED
  BY <1>1, StoreTyping, LeaseAndTranscriptSafe, PTL DEF StoreSpec, TerminalIsFinal

-----------------------------------------------------------------------------
\* Every predecessor has ended and shares its successor's runtime binding:
\* begin_turn's check is never undone by a later call.
THEOREM LineageSafe == StoreSpec => []LineageOK
<1>1. StoreInit => LineageOK
  BY DEF StoreInit, LineageOK
<1>2. StoreTypeOK /\ LineageOK /\ [StoreNext]_storeVars => LineageOK'
  BY LineageStep DEF StoreStep
<1>3. QED
  BY <1>1, <1>2, StoreTyping, PTL DEF StoreSpec

\* A new turn has no successor yet, and the rows already there keep theirs.
LEMMA AcyclicStep ==
  ASSUME StoreTypeOK, LineageOK, LineageAcyclic, [StoreStep]_storeVars
  PROVE  LineageAcyclic'
<1> USE StoreAssumption
<1> SUFFICES ASSUME NEW S \in SUBSET Turns, S # {}
             PROVE  \E u \in S : previous'[u] \notin S
  BY DEF LineageAcyclic
<1>1. CASE UNCHANGED lineageVars
  BY <1>1 DEF lineageVars, LineageAcyclic
<1>2. ASSUME NEW t \in Turns, NEW m \in Messages, NEW r \in Runtimes,
             NEW p \in Turns \cup {NoTurn}, NEW w \in Workers \cup {NoWorker},
             BeginTurn(t, m, r, p, w)
      PROVE  \E u \in S : previous'[u] \notin S
  <2>1. \A u \in Turns : u # t => previous'[u] = previous[u]
    BY <1>2 DEF BeginTurn, StoreTypeOK
  <2>2. \A u \in Turns : previous[u] # t
    BY <1>2 DEF BeginTurn, RowFree, Exists, Terminal, LineageOK, StoreTypeOK
  <2>3. previous'[t] # t
    BY <1>2 DEF BeginTurn, FollowUpAllowed, RowFree, Exists, Terminal, StoreTypeOK
  <2>4. CASE S = {t}
    BY <2>3, <2>4
  <2>5. CASE S \ {t} # {}
    <3>1. PICK u \in S \ {t} : previous[u] \notin S \ {t}
      BY <2>5 DEF LineageAcyclic
    <3>2. QED
      BY <3>1, <2>1, <2>2
  <2>6. QED
    BY <2>4, <2>5
<1>3. QED
  BY <1>1, <1>2, RowsAreFixed

\* The predecessor chain of a turn never closes into a cycle, so _lineage ends.
THEOREM LineageHasNoCycle == StoreSpec => []LineageAcyclic
<1>1. StoreInit => LineageAcyclic
  BY StoreAssumption DEF StoreInit, LineageAcyclic
<1>2. StoreTypeOK /\ LineageOK /\ LineageAcyclic /\ [StoreNext]_storeVars => LineageAcyclic'
  BY AcyclicStep DEF StoreStep
<1>3. QED
  BY <1>1, <1>2, StoreTyping, LineageSafe, PTL DEF StoreSpec

-----------------------------------------------------------------------------
\* What Release does to the lifecycle's view of the turns it touches.
LEMMA ReleaseIsGiveUp ==
  ASSUME StoreTypeOK, NEW S \in SUBSET Turns, NEW s \in Recoverable, Release(S, s),
         \A t \in S : status[t] = "running"
  PROVE  Lifecycle!GiveUp(S)
<1> USE DEF StoreTypeOK, Statuses, Recoverable, Terminal, Put, phaseBar, PhaseOf
<1>1. \A t \in S : phaseBar[t] = "held"
  OBVIOUS
<1>2. phaseBar' = [t \in Turns |-> IF t \in S THEN "waiting" ELSE phaseBar[t]]
  BY DEF Release
<1>3. owner' = [t \in Turns |-> IF t \in S THEN NoWorker ELSE owner[t]]
  BY DEF Release
<1> HIDE DEF phaseBar, Put, StoreTypeOK
<1>4. QED
  BY <1>1, <1>2, <1>3 DEF Lifecycle!GiveUp, Release

\* Releasing a turn in a terminal status is the end of its lifecycle.
LEMMA ReleaseIsEnd ==
  ASSUME StoreTypeOK, NEW t \in Turns, NEW s \in Terminal, Release({t}, s), Exists(t),
         status[t] \notin Terminal
  PROVE  Lifecycle!End(t)
<1> USE DEF StoreTypeOK, Statuses, Recoverable, Terminal, Exists, Put, phaseBar, PhaseOf
<1>1. phaseBar[t] \in {"held", "waiting"}
  OBVIOUS
<1>2. phaseBar' = [phaseBar EXCEPT ![t] = "ended"]
  BY DEF Release
<1>3. owner' = [owner EXCEPT ![t] = NoWorker]
  BY DEF Release
<1>4. history' = history
  BY DEF Release
<1> HIDE DEF phaseBar, Put, StoreTypeOK, Terminal, Exists
<1>5. QED
  BY <1>1, <1>2, <1>3, <1>4 DEF Lifecycle!End

\* The step relation of the abstract lifecycle, seen through the refinement mapping.
LifecycleStep == Lifecycle!Next \/ UNCHANGED <<phaseBar, owner, history>>

\* Every transaction is a step of the lifecycle or changes nothing it speaks of.
LEMMA TransactionIsLifecycleStep ==
  ASSUME StoreTypeOK, [StoreStep]_storeVars
  PROVE  LifecycleStep
<1> USE StoreAssumption DEF LifecycleStep
<1>1. ASSUME NEW t \in Turns, NEW m \in Messages, NEW r \in Runtimes,
             NEW p \in Turns \cup {NoTurn}, NEW w \in Workers \cup {NoWorker},
             BeginTurn(t, m, r, p, w)
      PROVE  Lifecycle!Next
  <2>1. phaseBar[t] = "unborn" /\ phaseBar' = [phaseBar EXCEPT ![t] = "held"]
    BY <1>1 DEF BeginTurn, RowFree, Exists, StoreTypeOK, Statuses, phaseBar, PhaseOf,
                Recoverable, Terminal
  <2>2. Lifecycle!Start(t, w, m)
    BY <1>1, <2>1 DEF BeginTurn, Lifecycle!Start
  <2>3. QED
    BY <2>2 DEF Lifecycle!Next
<1>2. CASE LatestResumableTurn
  <2>1. Lapsed \in SUBSET Turns /\ \A t \in Lapsed : status[t] = "running"
    BY DEF Lapsed
  <2>2. Lifecycle!GiveUp(Lapsed)
    BY <1>2, <2>1, ReleaseIsGiveUp DEF LatestResumableTurn, Recoverable
  <2>3. QED
    BY <2>1, <2>2 DEF Lifecycle!Next
<1>3. ASSUME NEW t \in Turns, NEW payloads \in Seq(Messages), SyncTurnMessages(t, payloads)
      PROVE  Lifecycle!Next
  <2>1. phaseBar[t] # "unborn" /\ UNCHANGED <<phaseBar, owner>>
    BY <1>3 DEF SyncTurnMessages, Exists, StoreTypeOK, Statuses, phaseBar, PhaseOf,
                Recoverable, Terminal
  <2>2. history' = [history EXCEPT ![t] = history'[t]] /\ history'[t] = payloads
    BY <1>3 DEF SyncTurnMessages, StoreTypeOK
  <2>3. Lifecycle!Grow(t)
    BY <1>3, <2>1, <2>2 DEF SyncTurnMessages, ExtendsHistory, Lifecycle!Grow, IsPrefix,
          Lifecycle!IsPrefix
  <2>4. QED
    BY <2>3 DEF Lifecycle!Next
<1>4. ASSUME NEW t \in Turns, NEW s \in Recoverable, Release({t}, s), status[t] = "running"
      PROVE  Lifecycle!Next
  <2>1. Lifecycle!GiveUp({t})
    BY <1>4, ReleaseIsGiveUp
  <2>2. QED
    BY <2>1 DEF Lifecycle!Next
<1>5. ASSUME NEW t \in Turns, MarkPaused(t) \/ MarkInterrupted(t)
      PROVE  Lifecycle!Next
  BY <1>4, <1>5 DEF MarkPaused, MarkInterrupted, MarkRecoverable, Recoverable
<1>6. ASSUME NEW t \in Turns, NEW s \in Terminal, MarkTerminal(t, s)
      PROVE  Lifecycle!Next
  <2>1. Lifecycle!End(t)
    BY <1>6, ReleaseIsEnd DEF MarkTerminal
  <2>2. QED
    BY <2>1 DEF Lifecycle!Next
<1>7. ASSUME NEW t \in Turns, NEW w \in Workers, ClaimForResume(t, w)
      PROVE  Lifecycle!Next
  <2>1. phaseBar[t] = "waiting" /\ phaseBar' = [phaseBar EXCEPT ![t] = "held"]
    BY <1>7 DEF ClaimForResume, Claimable, StoreTypeOK, Statuses, phaseBar, PhaseOf,
                Recoverable, Terminal
  <2>2. Lifecycle!Take(t, w)
    BY <1>7, <2>1 DEF ClaimForResume, Lifecycle!Take
  <2>3. QED
    BY <2>2 DEF Lifecycle!Next
<1>8. CASE UNCHANGED storeVars
  BY <1>8 DEF storeVars, phaseBar
<1>9. ASSUME NEW t \in Turns, PrepareTurnForResume(t)
      PROVE  Lifecycle!Next \/ UNCHANGED <<phaseBar, owner, history>>
  BY <1>4, <1>8, <1>9 DEF PrepareTurnForResume, Recoverable
<1>10. ASSUME NEW t \in Turns, NEW w \in Workers, RenewLease(t, w)
       PROVE  UNCHANGED <<phaseBar, owner, history>>
  BY <1>10 DEF RenewLease, phaseBar
<1>11. CASE Tick
  BY <1>11 DEF Tick, phaseBar
<1>12. QED
  BY <1>1, <1>2, <1>3, <1>5, <1>6, <1>7, <1>8, <1>9, <1>10, <1>11, StoreSteps

\* The table implements the abstract lifecycle: initial states map to initial
\* states, and every transaction is a lifecycle step or a stuttering step.
THEOREM StoreImplementsLifecycle == StoreSpec => ImplementsLifecycle
<1>1. StoreInit => Lifecycle!Init
  BY StoreAssumption DEF StoreInit, Lifecycle!Init, phaseBar, PhaseOf, Recoverable, Terminal
<1>2. StoreTypeOK /\ [StoreNext]_storeVars => [Lifecycle!Next]_(Lifecycle!lifecycleVars)
  BY TransactionIsLifecycleStep DEF StoreStep, LifecycleStep, Lifecycle!lifecycleVars
<1>3. QED
  BY <1>1, <1>2, StoreTyping, PTL DEF StoreSpec, ImplementsLifecycle, Lifecycle!Spec
=============================================================================
