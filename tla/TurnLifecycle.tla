--------------------------- MODULE TurnLifecycle ---------------------------
(***************************************************************************)
(* What the turn table promises to its callers, without rows, leases'      *)
(* clocks or transactions: every turn is started once, is held by at most  *)
(* one worker while it runs, is handed to another worker only after it has *)
(* been given up, ends once, and keeps an append-only log.                 *)
(***************************************************************************)
EXTENDS Sequences, SequencesExt

CONSTANTS Turns, Workers, Messages, NoWorker

VARIABLES phase,   \* "unborn" | "held" | "waiting" | "ended"
          holder,  \* the worker that holds the turn, or NoWorker
          log      \* the turn's append-only message log

lifecycleVars == <<phase, holder, log>>

Phases == {"unborn", "held", "waiting", "ended"}

Init ==
    /\ phase = [t \in Turns |-> "unborn"]
    /\ holder = [t \in Turns |-> NoWorker]
    /\ log = [t \in Turns |-> << >>]

Start(t, w, m) ==
    /\ phase[t] = "unborn"
    /\ phase' = [phase EXCEPT ![t] = "held"]
    /\ holder' = [holder EXCEPT ![t] = w]
    /\ log' = [log EXCEPT ![t] = <<m>>]

\* The turns of S are given up together: a sweep does so in one transaction.
GiveUp(S) ==
    /\ \A t \in S : phase[t] = "held"
    /\ phase' = [t \in Turns |-> IF t \in S THEN "waiting" ELSE phase[t]]
    /\ holder' = [t \in Turns |-> IF t \in S THEN NoWorker ELSE holder[t]]
    /\ UNCHANGED log

Take(t, w) ==
    /\ phase[t] = "waiting"
    /\ phase' = [phase EXCEPT ![t] = "held"]
    /\ holder' = [holder EXCEPT ![t] = w]
    /\ UNCHANGED log

End(t) ==
    /\ phase[t] \in {"held", "waiting"}
    /\ phase' = [phase EXCEPT ![t] = "ended"]
    /\ holder' = [holder EXCEPT ![t] = NoWorker]
    /\ UNCHANGED log

\* Messages are added at the end; the log of an ended turn may still grow.
Grow(t) ==
    /\ phase[t] # "unborn"
    /\ IsPrefix(log[t], log'[t])
    /\ log' = [log EXCEPT ![t] = log'[t]]
    /\ UNCHANGED <<phase, holder>>

Next ==
    \/ \E t \in Turns, w \in Workers \cup {NoWorker}, m \in Messages : Start(t, w, m)
    \/ \E S \in SUBSET Turns : GiveUp(S)
    \/ \E t \in Turns, w \in Workers : Take(t, w)
    \/ \E t \in Turns : End(t)
    \/ \E t \in Turns : Grow(t)

Spec == Init /\ [][Next]_lifecycleVars
=============================================================================
