--------------------------- MODULE MCServiceRuns ---------------------------
(***************************************************************************)
(* Two instances of TurnService in one run: one worker whose tools change    *)
(* between its calls, and two workers whose inspections overlap with runs    *)
(* and resumes of a tool that cannot be cancelled.                          *)
(***************************************************************************)
EXTENDS TurnServiceProofs

CONSTANTS
    user,       \* the message of the user that a turn begins with
    other       \* the worker that is idle while tools change

MCMessages == {user} \cup {"call", "result", "reply", "input"} \X Workers

VARIABLE part
allVars == <<part, serviceVars>>

Drift == INSTANCE TurnService WITH
    RemoteTool <- FALSE, Overlap <- {}, Modes <- {"run", "stream"},
    Drifts <- {"match", "revision", "changed", "removed"}

MCInit == part \in {"drift", "shared"} /\ ServiceInit

\* Bounds: of one worker three calls and two faults, of two workers three and one.
MCNext ==
    \/ part = "drift" /\ Drift!ServiceNext /\ UNCHANGED <<part, wk[other]>>
    \/ part = "shared" /\ ServiceNext /\ faults' <= 1 /\ UNCHANGED part

MCSpec == MCInit /\ [][MCNext]_allVars

\* One instance, as a cfg sets it.
OneSpec == (part = "shared" /\ ServiceInit) /\ [][ServiceNext /\ UNCHANGED part]_allVars

\* service.py: what the two databases say of a paused or a completed turn is the same turn; a
\* stream, which says completed before its last checkpoint, is another matter.
DatabasesAgree ==
    /\ ServiceTypeOK
    /\ part = "shared" => PausedTurnsResumable /\ CompletedTurnsAgree

\* In the instance without streams the databases agree for every value of the constants
\* under which a turn has one writer at a time: any turns, workers, calls and faults.
THEOREM SharedRunsAgree == OneWriterAtATime => (OneSpec => []DatabasesAgree)
<1> SUFFICES ASSUME OneWriterAtATime PROVE OneSpec => []DatabasesAgree
  OBVIOUS
<1>1. ServiceInit => OnceInv /\ Agreement
  BY OnceInitial, AgreeInitial
<1>2. OnceInv /\ Agreement /\ [ServiceNext /\ UNCHANGED part]_allVars => (OnceInv /\ Agreement)'
  BY OnceStep, AgreeStep DEF allVars
<1>3. OnceInv /\ Agreement => DatabasesAgree
  BY AgreementMeans DEF OnceInv, HoldInv, GrantInv, TypeInv, DatabasesAgree
<1>4. QED
  BY <1>1, <1>2, <1>3, PTL DEF OneSpec
=============================================================================
