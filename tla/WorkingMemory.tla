---------------------------- MODULE WorkingMemory ----------------------------
(***************************************************************************)
(* Working memory: what a loop does before it asks the model so that its     *)
(* state stays bounded (memory/compactor.py), and the records it leaves in    *)
(* the workspace (memory/store.py), which other turns of the workspace share. *)
(* Messages of the caller are snipped in the middle, then all but the newest  *)
(* are summarised; results of tools are dropped from the oldest on.          *)
(*                                                                         *)
(* A message is its id, calls, the call it answers and its size; a summary is *)
(* the ids it covers; a record is the ids of its messages, none once it is a  *)
(* tombstone.  A write fails before it leaves anything, or after.            *)
(***************************************************************************)
EXTENDS Naturals, FiniteSets, SequencesExt

CONSTANTS
    Conversations,  \* what a caller supplies: sequences of [id, calls, of, size]
    Policy,         \* [snip, head, tail, batch, keep, reactive, chars, results, records]
    MaxResults,     \* bound: results of tools
    MaxRecords      \* bound: records written

\* What an instance must assume of the constants.
MemoryConstants ==
    /\ \A s \in Conversations : \A i \in DOMAIN s : s[i].id \in Nat \ {0}
    /\ {MaxResults, MaxRecords} \subseteq Nat /\ \A k \in DOMAIN Policy : Policy[k] \in Nat

VARIABLES
    given,    \* the messages the caller supplied
    mem,      \* messages, ids covered by the summary, records referred to, warnings, reactive used
    results,  \* tool_results: the calls, oldest first
    open,     \* the calls that are pending or wait for an approval
    counted,  \* results so far; calls are numbered
    records   \* the record files, oldest first: [ids, live]

memoryVars == <<given, mem, results, open, counted, records>>

Ids(messages) == {messages[i].id : i \in DOMAIN messages}
Chars(messages) == FoldSeq(LAMBDA m, sum : m.size + sum, 0, messages)
Placeholder == [id |-> 0, calls |-> {}, of |-> 0, size |-> 1]

-----------------------------------------------------------------------------
(* Which messages go.                                                       *)

\* The calls of all results of the tail belong to it.
TailWithPairs(messages, start) ==
    LET wanted == {messages[i].of : i \in start..Len(messages)} \ {0}
        \* The newest message that makes one of the calls, for each of them.
        makers == {j \in 1..(start - 1) :
                    \E c \in wanted \cap messages[j].calls :
                        \A k \in (j + 1)..(start - 1) : c \notin messages[k].calls}
    IN  Min(makers \cup {start})

SnipStart(messages) ==
    TailWithPairs(messages, Max({Min({Policy.head, Len(messages)}),
                                 Len(messages) - Min({Policy.tail, Len(messages)})}) + 1)
Snips(messages) == Len(messages) > Policy.snip /\ SnipStart(messages) > Policy.head + 1
Middle(messages) == SubSeq(messages, Policy.head + 1, SnipStart(messages) - 1)
Snipped(messages) ==
    SubSeq(messages, 1, Policy.head) \o <<Placeholder>>
        \o SubSeq(messages, SnipStart(messages), Len(messages))

TailFrom(messages, keep) ==
    TailWithPairs(messages, (IF keep < Len(messages) THEN Len(messages) - keep ELSE 0) + 1)
Covered(messages, keep) == SubSeq(messages, 1, TailFrom(messages, keep) - 1)
Kept(messages, keep) == SubSeq(messages, TailFrom(messages, keep), Len(messages))

\* A batch that is too long for a record is its newest messages, and at least one.
Fitting(batch) ==
    LET starts == {s \in DOMAIN batch : Chars(SubSeq(batch, s, Len(batch))) <= Policy.chars}
    IN  IF Chars(batch) <= Policy.chars THEN batch
        ELSE SubSeq(batch, Min(starts \cup {Len(batch)}), Len(batch))

-----------------------------------------------------------------------------
(* Records.                                                                 *)

\* Retention: of more live records than are allowed the oldest become tombstones.
Retained(files) ==
    LET live == {i \in DOMAIN files : files[i].live}
        excess == {i \in live : Cardinality({j \in live : j >= i}) > Policy.records}
    IN  [i \in DOMAIN files |-> IF i \in excess THEN [ids |-> {}, live |-> FALSE] ELSE files[i]]
Filed(files, batch) == Append(files, [ids |-> Ids(Fitting(batch)), live |-> TRUE])

\* The files and the memory after a batch was written, with or without success.
Written(state, batch, write) ==
    LET cut == IF Fitting(batch) = batch THEN {} ELSE {"truncated"}
    IN  CASE write = "done" ->
                [files |-> Retained(Filed(state.files, batch)),
                 mem |-> [state.mem EXCEPT !.refs = @ \cup {Len(state.files) + 1},
                                           !.warnings = @ \cup cut]]
          [] write = "late" ->
                [files |-> Filed(state.files, batch),
                 mem |-> [state.mem EXCEPT !.warnings = @ \cup cut \cup {"failed"}]]
          [] write = "fails" ->
                [state EXCEPT !.mem.warnings = @ \cup cut \cup {"failed"}]

\* _snip_compact, then the messages but the tail.
AfterSnip(state, write) ==
    LET messages == state.mem.messages
    IN  IF Snips(messages)
        THEN Written([state EXCEPT !.mem.messages = Snipped(messages)], Middle(messages), write)
        ELSE state
AfterBatch(state, least, keep, write) ==
    LET messages == state.mem.messages
        gone == Covered(messages, keep)
    IN  IF Len(messages) >= least /\ gone # <<>>
        THEN Written([state EXCEPT !.mem.messages = Kept(messages, keep),
                                   !.mem.covered = @ \cup Ids(gone)], gone, write)
        ELSE state

\* The open calls, then the newest, as many as there is room for.
Capped(calls) ==
    LET pinned == {i \in DOMAIN calls : calls[i] \in open}
        newest == {i \in DOMAIN calls \ pinned :
                    Cardinality(pinned) + Cardinality({j \in DOMAIN calls \ pinned : j >= i}) <= Policy.results}
    IN  IF Len(calls) <= Policy.results THEN calls
        ELSE LET at == SetToSortSeq(pinned \cup newest, <) IN [k \in DOMAIN at |-> calls[at[k]]]

-----------------------------------------------------------------------------
MemoryInit ==
    /\ given \in Conversations
    /\ mem = [messages |-> given, covered |-> {}, refs |-> {}, warnings |-> {}, used |-> FALSE]
    /\ results = <<>> /\ open = {} /\ counted = 0 /\ records = <<>>

Writes == {"done", "late", "fails"}
Becomes(state) == mem' = state.mem /\ records' = state.files
Now == [files |-> records, mem |-> mem]

\* prepare, before each question to the model.
Prepare(first, second) ==
    /\ Len(records) + 2 <= MaxRecords
    /\ Becomes(AfterBatch(AfterSnip(Now, first), Policy.batch, Policy.keep, second))
    /\ results' = Capped(results)
    /\ UNCHANGED <<given, open, counted>>

\* reactive_compact, once a turn, when the provider finds the question too long.
React(write) ==
    /\ ~mem.used /\ Len(records) + 1 <= MaxRecords
    /\ LET after == AfterBatch([Now EXCEPT !.mem.used = TRUE], 1, Policy.reactive, write)
       IN  Becomes(IF after.mem.messages = mem.messages THEN after
                   ELSE [after EXCEPT !.mem.warnings = @ \cup {"reactive"}])
    /\ UNCHANGED <<given, results, open, counted>>

\* A batch of calls leaves its results; one of them may wait for a human.
Results(n, waits) ==
    /\ counted + n <= MaxResults /\ counted' = counted + n
    /\ results' = results \o [i \in 1..n |-> counted + i]
    /\ open' = waits
    /\ UNCHANGED <<given, mem, records>>

\* Another turn of the workspace files a record.
OtherTurnFiles ==
    /\ Len(records) < MaxRecords
    /\ records' = Retained(Append(records, [ids |-> {}, live |-> TRUE]))
    /\ UNCHANGED <<given, mem, results, open, counted>>

MemoryNext ==
    \/ \E first, second \in Writes : Prepare(first, second)
    \/ \E write \in Writes : React(write)
    \/ \E n \in 1..2 : \E waits \in {{}} \cup {{c} : c \in (counted + 1)..(counted + n)} : Results(n, waits)
    \/ OtherTurnFiles

-----------------------------------------------------------------------------
\* A message of the caller that is not there any more is in a record that memory refers to, unless
\* retention has emptied one, or a warning says that it is lost.
NothingSilentlyLost ==
    \A id \in Ids(given) \ Ids(mem.messages) :
        \/ \E r \in mem.refs : id \in records[r].ids \/ ~records[r].live
        \/ mem.warnings \cap {"truncated", "failed"} # {}

\* Those that are there keep their order, and a result of a tool has its call before it, unless a
\* later call was made before that result and answered after it: the tail is extended once, so that
\* the results it takes in on the way to that later call may leave theirs behind.
Answers(i, j) == j < i /\ given[i].of \in given[j].calls
Overtaken(i) ==
    \E j, k \in 1..i : \E m \in i..Len(given) : j < k /\ Answers(i, j) /\ Answers(m, k) /\ m # i
HasItsCall(i) ==
    given[i].id \in Ids(mem.messages) => \E j \in 1..i : Answers(i, j) /\ given[j].id \in Ids(mem.messages)
MessagesOrdered ==
    /\ SelectSeq(mem.messages, LAMBDA m : m # Placeholder)
            = SelectSeq(given, LAMBDA m : m.id \in Ids(mem.messages))
    /\ \A i \in DOMAIN given : given[i].of # 0 /\ ~Overtaken(i) => HasItsCall(i)

\* test_working_memory_compactor.py:26, "test_tail_expands_to_preserve_tool_call_result_pair": every
\* result that is kept keeps its call.
ToolPairsKept == \A i \in DOMAIN given : given[i].of # 0 => HasItsCall(i)

\* compactor.py:380: the result of a call somebody still waits for is not dropped.
OpenCallsKept == open \subseteq ToSet(results)

WorkingMemorySound == NothingSilentlyLost /\ MessagesOrdered /\ OpenCallsKept
=============================================================================
