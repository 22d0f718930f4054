---------------------------- MODULE QueryGuards ----------------------------
(***************************************************************************)
(* What stands between a question and the model on the query path: the      *)
(* sliding windows of the rate limiter, the circuit breaker around every     *)
(* generation, the fallback when it is open, and the second and third        *)
(* generation of a question that has a table computed.                      *)
(*                                                                         *)
(* One limiter, one breaker and one pipeline serve all threads of a         *)
(* process.  The breaker takes its lock for the whole of a method.  The      *)
(* limiter reads its clock first and waits for its lock then, so a request   *)
(* is judged and stamped by a time that has gone by, and a stamp may be older *)
(* than the one before it.  Nothing is held while a generation runs.  A time *)
(* stamp is its age, up to the age from which it no longer matters.          *)
(***************************************************************************)
EXTENDS Integers, Sequences, FiniteSetsExt

CONSTANTS
  Threads, Users,
  Window,            \* window_seconds
  MaxWait,           \* bound: how long a request waits for the limiter's lock
  Span,              \* how far back the history of the limiter goes
  MaxUser,           \* max_per_user
  MaxGlobal,         \* max_global
  Threshold,         \* failure_threshold
  Cooldown,          \* cooldown_seconds
  MaxProbes,         \* half_open_max_probes
  SuccessThreshold,  \* success_threshold
  MaxFailures        \* bound on the generations that fail or are interrupted

ASSUME GuardConstants ==
  /\ {Window, MaxWait, Span, MaxUser, MaxGlobal, MaxFailures} \subseteq Nat
  /\ {Threshold, Cooldown, MaxProbes, SuccessThreshold} \subseteq Nat \ {0}

VARIABLES
  windows,   \* the limiter: the ages of the requests it let through
  breaker,   \* the circuit breaker
  computed,  \* the pipeline's _compute_executed
  query,     \* what each thread is doing
  passed,    \* history: how long ago the requests of the last Span were let through
  asked,     \* history: the generations let through since opened_at was set
  failures   \* the generations that failed so far

guardVars == <<windows, breaker, computed, query, passed, asked, failures>>

\* The generation a question is at: its last one (or a direct one), a first one with or without
\* a table that waits to be computed, or the second attempt to get a compute request.
Stages == {"last", "plain", "pending", "retry"}
NoQuery == [at |-> "idle", stage |-> "last"]

GuardsInit ==
  /\ windows = [all |-> <<>>, user |-> [u \in Users |-> <<>>]]
  /\ passed = windows
  /\ breaker = [state |-> "closed", fails |-> 0, successes |-> 0, probes |-> 0, age |-> Cooldown]
  /\ computed = FALSE /\ query = [t \in Threads |-> NoQuery]
  /\ asked = 0 /\ failures = 0

QueryAt(t, label) == query[t].at = label

-----------------------------------------------------------------------------
(* RateLimiter.allow. *)

\* Stamps leave at the front until one is no older than the limit.
Within(ages, limit) == {i \in DOMAIN ages : ages[i] <= limit}
Cut(ages, limit) ==
  IF Within(ages, limit) = {} THEN <<>> ELSE SubSeq(ages, Min(Within(ages, limit)), Len(ages))

\* A mutant: a stamp that is as old as the window is purged.
PurgedAtBoundary(ages, late) == Cut(ages, Window + late - 1)

\* _purge_expired, for a request whose time was read `late` ago.
Purged(ages, late) == Cut(ages, Window + late)

Passes(u, late) ==
  /\ Len(Purged(windows.all, late)) < MaxGlobal
  /\ Len(Purged(windows.user[u], late)) < MaxUser

\* Only requests let through are recorded; a refusal still purges, the user's window only
\* once the global one has room.
WindowsAfter(u, late) ==
  LET all == Purged(windows.all, late) user == Purged(windows.user[u], late) IN
  IF Passes(u, late)
    THEN [all |-> Append(all, late), user |-> [windows.user EXCEPT ![u] = Append(user, late)]]
  ELSE [all |-> all,
        user |-> IF Len(all) < MaxGlobal THEN [windows.user EXCEPT ![u] = user] ELSE windows.user]

\* A request reads the clock.
Arrive(t, u) ==
  /\ QueryAt(t, "idle")
  /\ query' = [query EXCEPT ![t] = [at |-> "lock", user |-> u, late |-> 0]]
  /\ UNCHANGED <<windows, breaker, computed, passed, asked, failures>>

\* It has the lock: it is let through now, by the time it has read.
Admit(t) ==
  /\ QueryAt(t, "lock")
  /\ LET u == query[t].user late == query[t].late IN
       /\ windows' = WindowsAfter(u, late)
       /\ IF Passes(u, late)
            THEN /\ \E stage \in Stages \ {"retry"} :
                      query' = [query EXCEPT ![t] = [at |-> "ask", stage |-> stage]]
                 /\ passed' = [all |-> Append(passed.all, 0),
                               user |-> [passed.user EXCEPT ![u] = Append(@, 0)]]
            ELSE query' = [query EXCEPT ![t] = NoQuery] /\ UNCHANGED passed
  /\ UNCHANGED <<breaker, computed, asked, failures>>

-----------------------------------------------------------------------------
(* CircuitBreaker. *)

\* A success count that every new round of probes starts from nothing.
HalfOpenForgetful(b) ==
  IF b.age = Cooldown
  THEN [b EXCEPT !.state = "half_open", !.probes = 0, !.age = 0, !.successes = 0]
  ELSE b
\* A new round of probes that leaves opened_at as it was.
HalfOpenSameStamp(b) ==
  IF b.state = "open" /\ b.age = Cooldown
    THEN [b EXCEPT !.state = "half_open", !.probes = 0, !.successes = 0]
  ELSE IF b.state = "half_open" /\ b.age = Cooldown THEN [b EXCEPT !.probes = 0]
  ELSE b

\* What allow makes of a breaker that is not closed before it counts the probe: a cooldown
\* that has passed opens a round of probes, and again a cooldown later.
HalfOpened(b) ==
  IF b.age < Cooldown THEN b
  ELSE [b EXCEPT !.state = "half_open", !.probes = 0, !.age = 0,
                 !.successes = IF b.state = "open" THEN 0 ELSE @]

Admits ==
  \/ breaker.state = "closed"
  \/ /\ HalfOpened(breaker).state = "half_open"
     /\ HalfOpened(breaker).probes < MaxProbes

BreakerAsked ==
  IF breaker.state = "closed" THEN breaker
  ELSE LET b == HalfOpened(breaker) IN IF Admits THEN [b EXCEPT !.probes = @ + 1] ELSE b

\* An answer says nothing of the state it was asked in: a call let through before the
\* breaker opened counts as a probe once it is half open.
Succeeded(b) ==
  CASE b.state = "closed" -> [b EXCEPT !.fails = 0]
    [] b.state = "half_open" /\ b.successes + 1 >= SuccessThreshold ->
         [b EXCEPT !.state = "closed", !.fails = 0, !.successes = 0, !.probes = 0]
    [] b.state = "half_open" /\ b.successes + 1 < SuccessThreshold -> [b EXCEPT !.successes = @ + 1]
    [] b.state = "open" -> b

Opens(b) == b.state = "half_open" \/ (b.state = "closed" /\ b.fails + 1 >= Threshold)
Failed(b) ==
  CASE b.state = "half_open" -> [b EXCEPT !.state = "open", !.age = 0, !.fails = Threshold, !.probes = 0]
    [] b.state = "closed" -> [b EXCEPT !.fails = @ + 1, !.age = IF Opens(b) THEN 0 ELSE @,
                                       !.state = IF Opens(b) THEN "open" ELSE @]
    [] b.state = "open" -> b

-----------------------------------------------------------------------------
(* The pipeline. *)

\* _maybe_execute_compute_loop, up to its next generation or its table.  The question ends in
\* _render_answer, which raises when all it has is the fallback.
Continued(q, kind) ==
  IF q.stage = "last" \/ (q.stage # "retry" /\ computed) THEN NoQuery
  ELSE IF kind = "request" THEN [at |-> "table", stage |-> "last"]
  ELSE IF q.stage = "pending" THEN [at |-> "ask", stage |-> "retry"]
  ELSE NoQuery

\* _generate_with_breaker, before the call; the open breaker answers with the fallback.
Ask(t) ==
  /\ QueryAt(t, "ask") /\ breaker' = BreakerAsked
  /\ query' = [query EXCEPT ![t] = IF Admits THEN [@ EXCEPT !.at = "wait"]
                                   ELSE Continued(@, "fallback")]
  /\ asked' = IF breaker.state = "closed" THEN 0
              ELSE (IF breaker'.age < breaker.age THEN 0 ELSE asked) + (IF Admits THEN 1 ELSE 0)
  /\ UNCHANGED <<windows, computed, passed, failures>>

\* The generation returns; the answer may hold a compute request.
Generated(t) ==
  /\ QueryAt(t, "wait") /\ breaker' = Succeeded(breaker)
  /\ \E kind \in {"plain", "request"} : query' = [query EXCEPT ![t] = Continued(@, kind)]
  /\ UNCHANGED <<windows, computed, passed, asked, failures>>

GenerationFails(t) ==
  /\ QueryAt(t, "wait") /\ failures < MaxFailures /\ failures' = failures + 1
  /\ breaker' = Failed(breaker) /\ asked' = IF Opens(breaker) THEN 0 ELSE asked
  /\ query' = [query EXCEPT ![t] = NoQuery]
  /\ UNCHANGED <<windows, computed, passed>>

\* An interrupt is no Exception: the breaker hears nothing.
Interrupted(t) ==
  /\ QueryAt(t, "wait") /\ failures < MaxFailures /\ failures' = failures + 1
  /\ query' = [query EXCEPT ![t] = NoQuery]
  /\ UNCHANGED <<windows, breaker, computed, passed, asked>>

\* The table is computed, has no result, or raises.
ComputeTable(t) ==
  /\ QueryAt(t, "table")
  /\ \/ query' = [query EXCEPT ![t] = [@ EXCEPT !.at = "ask"]] /\ computed' = TRUE
     \/ query' = [query EXCEPT ![t] = NoQuery] /\ computed' = TRUE
     \/ query' = [query EXCEPT ![t] = NoQuery] /\ UNCHANGED computed
  /\ UNCHANGED <<windows, breaker, passed, asked, failures>>

Older(age, most) == IF age < most THEN age + 1 ELSE age
Aged(ages) == [i \in DOMAIN ages |-> Older(ages[i], Window + MaxWait + 1)]
Recalled(ages) == Cut(Aged(ages), Span)
Tick ==
  /\ \A t \in Threads : QueryAt(t, "lock") => query[t].late < MaxWait
  /\ query' = [t \in Threads |-> IF QueryAt(t, "lock") THEN [query[t] EXCEPT !.late = @ + 1]
                                 ELSE query[t]]
  /\ windows' = [all |-> Aged(windows.all), user |-> [u \in Users |-> Aged(windows.user[u])]]
  /\ breaker' = [breaker EXCEPT !.age = Older(@, Cooldown)]
  /\ passed' = [all |-> Recalled(passed.all),
                user |-> [u \in Users |-> Recalled(passed.user[u])]]
  /\ UNCHANGED <<computed, asked, failures>>

Asks(t) == \E u \in Users : Arrive(t, u)
QueryStep(t) == Admit(t) \/ Ask(t) \/ Generated(t) \/ ComputeTable(t)

GuardsNext ==
  \/ \E t \in Threads : \/ Asks(t) \/ QueryStep(t)
                        \/ GenerationFails(t) \/ Interrupted(t)
  \/ Tick

GuardsSpec == GuardsInit /\ [][GuardsNext]_guardVars

-----------------------------------------------------------------------------
(* Properties. *)

\* guard.py:204: whichever threads ask and answer, and however late an answer arrives, a
\* breaker that is not closed lets no more than MaxProbes generations through between two
\* settings of opened_at, and none while it is open.
ProbesBounded ==
  breaker.state # "closed" =>
    /\ asked = breaker.probes /\ asked <= MaxProbes
    /\ breaker.state = "open" => asked = 0

\* guard.py:76: in every stretch of Span, the limiter lets through no more than MaxGlobal
\* requests, nor MaxUser of one user.  It holds where Span is the window less the longest wait
\* for the lock, and of no longer one: a request that has waited is forgotten a window after
\* it came.
WindowsHeld ==
  /\ Len(passed.all) <= MaxGlobal
  /\ \A u \in DOMAIN passed.user : Len(passed.user[u]) <= MaxUser

\* Both of them.
GuardsHold == ProbesBounded /\ WindowsHeld

\* Once the model answers again a breaker that opened closes, though probes are let through
\* one round after the other and interrupted probes are never reported.
BreakerRecovers == breaker.state # "closed" ~> breaker.state = "closed"
=============================================================================
