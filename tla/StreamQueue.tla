----------------------------- MODULE StreamQueue -----------------------------
(***************************************************************************)
(* A streamed turn: the loop runs in a task and puts its events into a       *)
(* bounded queue (rag/agent/streaming/sink.py), a generator takes them out   *)
(* for the caller (run_streaming in rag/agent/loop/runtime.py), and the one  *)
(* that ends first has to release the other.  The caller may stop reading at *)
(* any event; the loop may raise at any point.                              *)
(***************************************************************************)
EXTENDS Naturals, Sequences

CONSTANTS Capacity,   \* maxsize of the queue
          MaxEvents   \* bound: events of a turn before the last

VARIABLES
  queue,    \* of "event", "end" (LOOP_END or ABORT) and "none", which close puts
  task,     \* the loop: "running", "done", "raised" or "cancelled"
  emitted,  \* the events it has put, and whether LOOP_END was one
  closers,  \* close calls of the task's done callback that wait for room
  stream    \* the generator: where it is, what it gave, and whether its caller has left it, or twice

streamVars == <<queue, task, emitted, closers, stream>>

StreamInit ==
  /\ queue = <<>> /\ task = "running" /\ emitted = [events |-> 0, end |-> FALSE] /\ closers = 0
  /\ stream = [at |-> "reading", read |-> 0, caller |-> "there"]

HasRoom == Len(queue) < Capacity
At(where) == stream' = [stream EXCEPT !.at = where]

-----------------------------------------------------------------------------
(* The task.                                                                *)

Emit ==
  /\ task = "running" /\ ~emitted.end /\ emitted.events < MaxEvents /\ HasRoom
  /\ queue' = Append(queue, "event") /\ emitted' = [emitted EXCEPT !.events = @ + 1]
  /\ UNCHANGED <<task, closers, stream>>

EmitEnd ==
  /\ task = "running" /\ ~emitted.end /\ HasRoom
  /\ queue' = Append(queue, "end") /\ emitted' = [emitted EXCEPT !.end = TRUE]
  /\ UNCHANGED <<task, closers, stream>>

\* The done callback starts a close, whether the task has returned or raised.
CallbackMissing == closers
Callback == closers + 1

TaskEnds ==
  /\ task = "running"
  /\ \/ emitted.end /\ task' = "done"
     \/ task' = "raised"
  /\ closers' = Callback
  /\ UNCHANGED <<queue, emitted, stream>>

Closes ==
  /\ closers > 0 /\ HasRoom
  /\ queue' = Append(queue, "none") /\ closers' = closers - 1
  /\ UNCHANGED <<task, emitted, stream>>

-----------------------------------------------------------------------------
(* The generator and its caller.                                            *)

\* An event is yielded; after LOOP_END or None the task is awaited.
Take ==
  /\ stream.at = "reading" /\ queue # <<>> /\ queue' = Tail(queue)
  /\ stream' = CASE Head(queue) = "none" -> [stream EXCEPT !.at = "awaiting"]
                 [] Head(queue) = "end" -> [stream EXCEPT !.at = "last", !.read = @ + 1]
                 [] OTHER -> [stream EXCEPT !.at = "yielded", !.read = @ + 1]
  /\ UNCHANGED <<task, emitted, closers>>

\* A mutant: the generator returns with its last event, and leaves the task to itself.
NextEventUnawaited ==
  /\ \/ stream.at = "yielded" /\ At("reading")
     \/ stream.at = "last" /\ At("ended")
  /\ UNCHANGED <<queue, task, emitted, closers>>

NextEvent ==
  /\ \/ stream.at = "yielded" /\ At("reading")
     \/ stream.at = "last" /\ At("awaiting")
  /\ UNCHANGED <<queue, task, emitted, closers>>

\* The caller closes the generator, or is cancelled itself, which cancels a task it awaits.
Abandon ==
  /\ stream.at \in {"reading", "yielded", "last", "awaiting"}
  /\ stream' = [stream EXCEPT !.at = "closing", !.caller = "left"]
  /\ IF stream.at = "awaiting" /\ task = "running"
       THEN task' = "cancelled" /\ closers' = Callback
       ELSE UNCHANGED <<task, closers>>
  /\ UNCHANGED <<queue, emitted>>

AwaitTask ==
  /\ stream.at = "awaiting" /\ task # "running"
  /\ At(IF task = "done" THEN "ended" ELSE "closing")
  /\ UNCHANGED <<queue, task, emitted, closers>>

\* except BaseException: the queue is closed first, then the task is cancelled.
CloseQueue ==
  /\ stream.at = "closing" /\ HasRoom
  /\ queue' = Append(queue, "none") /\ At("cancelling")
  /\ UNCHANGED <<task, emitted, closers>>

\* The caller is cancelled again while that close waits for room: it raises out of the clean-up,
\* and the cancellation of the task is never reached.
AbandonAgain ==
  /\ stream.at = "closing" /\ ~HasRoom
  /\ stream' = [stream EXCEPT !.at = "ended",
                              !.caller = IF @ = "there" THEN "left" ELSE "left_twice"]
  /\ UNCHANGED <<queue, task, emitted, closers>>

CancelTask ==
  /\ stream.at = "cancelling" /\ At("ended")
  /\ IF task = "running" THEN task' = "cancelled" /\ closers' = Callback
     ELSE UNCHANGED <<task, closers>>
  /\ UNCHANGED <<queue, emitted>>

StreamStep == Take \/ NextEvent \/ AwaitTask \/ CloseQueue \/ CancelTask
LoopWorks == EmitEnd \/ TaskEnds

StreamNext ==
  \/ Emit \/ EmitEnd \/ TaskEnds \/ Closes
  \/ Take \/ NextEvent \/ Abandon \/ AbandonAgain \/ AwaitTask \/ CloseQueue \/ CancelTask

\* The caller asks for the next event or leaves; the loop ends (AgentLoop's LoopEnds).
StreamSpec ==
  /\ StreamInit /\ [][StreamNext]_streamVars
  /\ WF_streamVars(StreamStep) /\ WF_streamVars(LoopWorks) /\ WF_streamVars(Closes)

-----------------------------------------------------------------------------
(* Properties. *)

Stuck == stream.at = "closing" /\ ~HasRoom

\* runtime.py:238: a stream ends, whether its caller reads on or leaves and whether its loop
\* returns or raises - but for a caller that leaves while the queue is full: nobody makes room for
\* the close that comes before the cancellation.
StreamSettles == stream.at = "reading" ~> stream.at = "ended" \/ Stuck

\* runtime.py:215: a stream that has ended leaves no loop behind, but for a caller that was cut off
\* twice, the second time before a full queue: its loop goes on, and nobody makes room for what
\* it puts.  A caller who was not told of a failure has had every event that was put, the last one
\* included, although a close may come before it is read.
StreamComplete ==
  stream.at = "ended" =>
    /\ task = "running" => stream.caller = "left_twice" /\ ~HasRoom
    /\ stream.caller = "there" /\ task = "done" => stream.read = emitted.events + 1 /\ emitted.end
=============================================================================
