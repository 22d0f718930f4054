----------------------------- MODULE CallLedger -----------------------------
(***************************************************************************)
(* What the durable execution records promise about calls that must not be *)
(* replayed: a call acts at most once, only after its start has been       *)
(* recorded, and an outcome that is known, or that a human has settled, is *)
(* never forgotten.                                                        *)
(***************************************************************************)
EXTENDS Naturals

CONSTANT Guarded        \* the calls

VARIABLES
    ledger,    \* the durable record of each call
    acted      \* how often each call has acted

Known == {"completed", "failed"}

LedgerInit ==
    /\ ledger = [c \in Guarded |-> "none"]
    /\ acted = [c \in Guarded |-> 0]

Note(c, from, to) ==
    /\ ledger[c] \in from
    /\ ledger' = [ledger EXCEPT ![c] = to]
    /\ UNCHANGED acted

Intend(c) == Note(c, {"none"}, "prepared")
Begin(c) == Note(c, {"prepared"}, "started")
Conclude(c) == \E r \in Known \cup {"unknown"} : Note(c, {"started"}, r)
Settle(c) == \E r \in Known : Note(c, {"unknown"}, r)

\* The only step that acts: once, under a recorded start.
Act(c) ==
    /\ ledger[c] = "started" /\ acted[c] = 0
    /\ acted' = [acted EXCEPT ![c] = 1]
    /\ UNCHANGED ledger

\* After a crash nobody knows how the started calls ended.
Doubt ==
    /\ ledger' = [c \in Guarded |-> IF ledger[c] = "started" THEN "unknown" ELSE ledger[c]]
    /\ UNCHANGED acted

LedgerNext == Doubt \/ \E c \in Guarded : Intend(c) \/ Begin(c) \/ Conclude(c) \/ Settle(c) \/ Act(c)

LedgerSpec == LedgerInit /\ [][LedgerNext]_<<ledger, acted>>
=============================================================================
