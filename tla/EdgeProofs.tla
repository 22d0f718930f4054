------------------------------ MODULE EdgeProofs ------------------------------
(***************************************************************************)
(* Proofs about small components around a turn: the processes of a command, *)
(* the events of a stream, the leave a call of a tool needs, the model that  *)
(* answers, the plan that is shown, the calls of the SDK that share a saver. *)
(* They share nothing; a section each.                                     *)
(***************************************************************************)
EXTENDS Integers, Permissions, ShellCommand, StreamQueue, ModelChoice, PlanState, AgentCalls,
        NatFacts, SequenceTheorems, TLAPS

-----------------------------------------------------------------------------
(* The processes of a command. *)

\* Of the group nothing is left behind this place of the call, or nothing that was not killed.
Reaped ==
  /\ command.outcome # "none" => command.at = "ended"
  /\ command.at = "drain" \/ command.outcome \in {"timeout", "cancelled"} => GroupGone
  /\ command.at = "last" \/ command.outcome = "failed" => \A p \in Processes : group[p] # "alive"

ShellInv ==
  /\ command \in [at : {"idle", "wait", "term", "reap", "check", "last", "drain", "ended"},
                  timed_out : BOOLEAN, cancelled : BOOLEAN,
                  outcome : {"none", "finished", "timeout", "cancelled", "failed", "abandoned"}]
  /\ group \in [Processes -> Lives]
  /\ Reaped

LEMMA ShellStart == ShellInit => ShellInv
  BY DEF ShellInit, ShellInv, Reaped, GroupGone, Running, Processes, Lives

LEMMA ShellStep == ShellInv /\ [ShellNext]_shellVars => ShellInv'
<1> SUFFICES ASSUME ShellInv, [ShellNext]_shellVars PROVE ShellInv'
  OBVIOUS
<1> USE DEF ShellInv, Reaped, GroupGone, Running, Processes, Lives
<1>1. CASE StartCommand
  BY <1>1 DEF StartCommand
<1>2. CASE Fork
  BY <1>2 DEF Fork
<1>3. CASE Cancel
  BY <1>3 DEF Cancel, EndsAs, Terminated, Terminating
<1>4. CASE Finishes
  BY <1>4 DEF Finishes, EndsAs
<1>5. CASE TimesOut
  BY <1>5 DEF TimesOut, Terminated
<1>6. CASE GroupEnds
  BY <1>6 DEF GroupEnds, Goes
<1>7. CASE GraceEnds
  <2>1. CASE command.at = "term" /\ Goes("reap") /\ group' = Killed
    BY <1>7, <2>1 DEF GraceEnds, Goes, Killed
  <2>2. CASE command.at = "check" /\ Goes("last") /\ group' = Killed
    BY <1>7, <2>2 DEF GraceEnds, Goes, Killed
  <2>3. CASE command.at = "last" /\ EndsAs("failed") /\ group' = group
    BY <1>7, <2>3 DEF GraceEnds, EndsAs
  <2>4. QED
    BY <1>7, <2>1, <2>2, <2>3 DEF GraceEnds
<1>8. CASE Drains
  BY <1>8 DEF Drains, EndsAs
<1>9. ASSUME NEW p \in Processes, Exits(p) \/ Dies(p) PROVE ShellInv'
  BY <1>9 DEF Exits, Dies
<1>10. CASE UNCHANGED shellVars
  BY <1>10 DEF shellVars
<1>11. QED
  BY <1>1, <1>2, <1>3, <1>4, <1>5, <1>6, <1>7, <1>8, <1>9, <1>10 DEF ShellNext

\* shell.py:112: whatever a command forks, ignores or is interrupted by, a call that reports a
\* timeout or a cancellation leaves no process of the group, one that gives up has killed them.
THEOREM CommandsAreReaped == ShellSpec => []GroupReaped
<1>1. ShellInv => GroupReaped
  BY DEF ShellInv, Reaped, GroupReaped, GroupGone
<1>2. QED
  BY <1>1, ShellStart, ShellStep, PTL DEF ShellSpec

-----------------------------------------------------------------------------
(* The events of a stream. *)

\* The events put and not read yet: they come first in the queue.
Unread == emitted.events + (IF emitted.end THEN 1 ELSE 0) - stream.read

Places == {"reading", "yielded", "last", "awaiting", "closing", "cancelling", "ended"}
Callers == {"there", "left", "left_twice"}

\* Until the caller leaves, the queue holds what has not been read, the end last, and behind it what
\* closed it, and only the end of the loop closes it.
InOrder ==
  stream.caller = "there" =>
    /\ task # "cancelled"
    /\ Unread \in 0..Len(queue)
    /\ \A i \in 1..Unread : queue[i] = IF emitted.end /\ i = Unread THEN "end" ELSE "event"
    /\ \A i \in (Unread + 1)..Len(queue) : queue[i] = "none"
    /\ task = "running" => closers = 0 /\ Unread = Len(queue)
    /\ stream.at \in {"last", "awaiting"} => Unread = 0 /\ (emitted.end \/ task # "running")
    /\ stream.at = "ended" => task # "running" /\ (task = "done" => Unread = 0)
    /\ stream.at \in {"closing", "cancelling"} => task = "raised"

StreamInv ==
  /\ queue \in Seq({"event", "end", "none"})
  /\ task \in {"running", "done", "raised", "cancelled"}
  /\ emitted \in [events : Nat, end : BOOLEAN] /\ closers \in Nat
  /\ stream \in [at : Places, read : Nat, caller : Callers]
  /\ task = "done" => emitted.end
  /\ InOrder

\* Only a caller that was cut off twice leaves the stream to a loop, one that waits for room.
LeftFull ==
  /\ stream.at \in {"reading", "yielded", "last", "awaiting"} => stream.caller = "there"
  /\ stream.at \in {"closing", "cancelling"} => stream.caller # "left_twice"
  /\ stream.at = "ended" /\ task = "running" => stream.caller = "left_twice" /\ ~HasRoom

\* The generator has taken an event.
LEMMA TakenOne ==
  ASSUME NEW s \in [at : Places, read : Nat, caller : Callers], NEW place \in Places,
         NEW t, t = [s EXCEPT !.at = place, !.read = @ + 1]
  PROVE  /\ t \in [at : Places, read : Nat, caller : Callers]
         /\ t.at = place /\ t.read = s.read + 1 /\ t.caller = s.caller
<1>1. PICK a \in Places, r \in Nat, b \in Callers : s = [at |-> a, read |-> r, caller |-> b]
  OBVIOUS
<1>2. t = [at |-> place, read |-> r + 1, caller |-> b]
  BY <1>1
<1>3. QED BY <1>1, <1>2

LEMMA StreamStart == StreamInit => StreamInv
  BY DEF StreamInit, StreamInv, Places, Callers, InOrder, Unread

\* What is taken is the oldest that has not been read, or all has been.
LEMMA TakeKept == StreamInv /\ Take => StreamInv'
<1> SUFFICES ASSUME StreamInv, Take PROVE StreamInv'
  OBVIOUS
<1>1. queue # <<>> /\ queue' = Tail(queue) /\ queue \in Seq({"event", "end", "none"})
  BY DEF Take, StreamInv
<1>2. /\ Len(queue') = Len(queue) - 1 /\ queue' \in Seq({"event", "end", "none"})
      /\ \A i \in 1..Len(queue') : queue'[i] = queue[i + 1]
  BY <1>1
<1>3. Head(queue) = queue[1] /\ Len(queue) \in Nat \ {0} /\ queue[1] \in {"event", "end", "none"}
  BY <1>1
<1>4. /\ task' = task /\ emitted' = emitted /\ closers' = closers
      /\ stream.at = "reading" /\ stream \in [at : Places, read : Nat, caller : Callers]
  BY DEF Take, StreamInv
<1>5. emitted \in [events : Nat, end : BOOLEAN] /\ Unread \in Int
  BY <1>4 DEF Unread, StreamInv
<1>6. CASE queue[1] = "none"
  <2>1. stream' = [stream EXCEPT !.at = "awaiting"]
    BY <1>3, <1>6 DEF Take
  <2>2. /\ stream' \in [at : Places, read : Nat, caller : Callers]
        /\ stream'.at = "awaiting" /\ Unread' = Unread /\ stream'.caller = stream.caller
    BY <1>4, <2>1 DEF Unread, Places
  <2>3. stream.caller = "there" => Unread = 0 /\ task # "running"
    BY <1>3, <1>6 DEF StreamInv, InOrder
  <2>4. InOrder'
    BY <1>2, <1>3, <1>4, <2>2, <2>3 DEF StreamInv, InOrder
  <2>5. QED BY <1>2, <1>4, <2>2, <2>4 DEF StreamInv
<1>7. CASE queue[1] \in {"end", "event"}
  <2> DEFINE place == IF queue[1] = "end" THEN "last" ELSE "yielded"
  <2>1. stream' = [stream EXCEPT !.at = place, !.read = @ + 1] /\ place \in Places
    BY <1>3, <1>7 DEF Take, Places
  <2>2. /\ stream' \in [at : Places, read : Nat, caller : Callers]
        /\ stream'.at = place /\ stream'.read = stream.read + 1
        /\ stream'.caller = stream.caller
    BY <1>4, <2>1, TakenOne
  <2>3. Unread' = Unread - 1
    BY <1>4, <1>5, <2>2 DEF Unread
  <2>4. stream.caller = "there" => /\ Unread \in 1..Len(queue)
                                   /\ place = "last" => emitted.end /\ Unread = 1
    <3> SUFFICES ASSUME stream.caller = "there"
                 PROVE  Unread \in 1..Len(queue) /\ (place = "last" => emitted.end /\ Unread = 1)
      OBVIOUS
    <3>1. /\ Unread \in 0..Len(queue)
          /\ \A i \in 1..Unread : queue[i] = IF emitted.end /\ i = Unread THEN "end" ELSE "event"
          /\ \A i \in (Unread + 1)..Len(queue) : queue[i] = "none"
      BY DEF StreamInv, InOrder
    <3>2. Unread # 0
      BY <1>3, <1>7, <3>1
    <3>3. Unread \in 1..Len(queue) /\ 1 \in 1..Unread
      BY <1>3, <3>1, <3>2
    <3>4. queue[1] = IF emitted.end /\ 1 = Unread THEN "end" ELSE "event"
      BY <3>1, <3>3
    <3>5. QED BY <3>3, <3>4
  <2>5. place \in {"last", "yielded"}
    OBVIOUS
  <2> HIDE DEF place
  <2>6. InOrder'
    <3> SUFFICES ASSUME stream'.caller = "there" PROVE InOrder'
      BY DEF InOrder
    <3>0. InOrder /\ stream.caller = "there"
      BY <2>2 DEF StreamInv
    <3>1. /\ Unread \in 1..Len(queue) /\ (place = "last" => emitted.end /\ Unread = 1)
          /\ \A i \in 1..Unread : queue[i] = IF emitted.end /\ i = Unread THEN "end" ELSE "event"
          /\ \A i \in (Unread + 1)..Len(queue) : queue[i] = "none"
          /\ task # "cancelled" /\ (task = "running" => closers = 0 /\ Unread = Len(queue))
      BY <3>0, <2>4 DEF InOrder
    <3>2. Unread' \in 0..Len(queue')
      BY <1>2, <1>3, <2>3, <3>1
    <3>3. \A i \in 1..Unread' : queue'[i] = IF emitted.end /\ i = Unread' THEN "end" ELSE "event"
      BY <1>2, <1>3, <2>3, <3>1
    <3>4. \A i \in (Unread' + 1)..Len(queue') : queue'[i] = "none"
      BY <1>2, <1>3, <2>3, <3>1
    <3>5. task' # "cancelled" /\ (task' = "running" => closers' = 0 /\ Unread' = Len(queue'))
      BY <1>2, <1>4, <2>3, <3>1
    <3>6. stream'.at = "last" => Unread' = 0 /\ emitted'.end
      BY <1>4, <1>5, <2>2, <2>3, <3>1
    <3>7. stream'.at \in {"last", "yielded"}
      BY <2>2, <2>5
    <3>8. \A i \in 1..Unread' : queue'[i] = IF emitted'.end /\ i = Unread' THEN "end" ELSE "event"
      BY <1>4, <3>3
    <3>9. QED BY <3>2, <3>4, <3>5, <3>6, <3>7, <3>8 DEF InOrder
  <2>7. QED BY <1>2, <1>4, <2>2, <2>5, <2>6 DEF StreamInv
<1>8. QED BY <1>3, <1>6, <1>7

LEMMA StreamKept == StreamInv /\ [StreamNext]_streamVars => StreamInv'
<1> SUFFICES ASSUME StreamInv, [StreamNext]_streamVars PROVE StreamInv'
  OBVIOUS
<1> USE DEF StreamInv, InOrder, Unread, Places
<1>1. CASE Emit
  BY <1>1 DEF Emit, HasRoom
<1>2. CASE EmitEnd
  <2>1. /\ queue' = Append(queue, "end") /\ emitted' = [emitted EXCEPT !.end = TRUE]
        /\ ~emitted.end /\ task = "running" /\ UNCHANGED <<task, closers, stream>>
    BY <1>2 DEF EmitEnd
  <2>2. /\ Len(queue') = Len(queue) + 1 /\ queue'[Len(queue) + 1] = "end"
        /\ \A i \in 1..Len(queue) : queue'[i] = queue[i]
    BY <2>1
  <2>3. emitted'.end /\ emitted'.events = emitted.events
    BY <2>1
  <2>4. InOrder'
    BY <2>1, <2>2, <2>3
  <2>5. queue' \in Seq({"event", "end", "none"})
    BY <2>1
  <2>6. QED
    BY <2>1, <2>4, <2>5
<1>3. CASE TaskEnds
  <2>1. /\ task = "running" /\ task' \in {"done", "raised"} /\ (task' = "done" => emitted.end)
        /\ closers' = closers + 1 /\ UNCHANGED <<queue, emitted, stream>>
    BY <1>3 DEF TaskEnds, Callback
  <2>2. Unread' = Unread
    BY <2>1
  <2>3. InOrder'
    <3> SUFFICES ASSUME stream.caller = "there" PROVE InOrder'
      BY <2>1
    <3>1. Unread = Len(queue) /\ stream.at \notin {"closing", "cancelling", "ended"}
      BY <2>1
    <3>2. QED BY <2>1, <2>2, <3>1
  <2>4. QED BY <2>1, <2>3
<1>4. CASE Closes
  BY <1>4 DEF Closes, HasRoom
<1>5. CASE Take
  BY <1>5, TakeKept
<1>6. CASE NextEvent
  BY <1>6 DEF NextEvent, At
<1>7. CASE Abandon
  <2>1. stream' = [stream EXCEPT !.at = "closing", !.caller = "left"]
    BY <1>7 DEF Abandon
  <2>2. stream'.caller = "left" /\ stream'.at = "closing"
    BY <2>1
  <2>3. stream' \in [at : Places, read : Nat, caller : Callers]
    BY <2>1 DEF Callers
  <2>4. /\ UNCHANGED <<queue, emitted>> /\ closers' \in {closers, closers + 1}
        /\ task' \in {task, "cancelled"}
    BY <1>7 DEF Abandon, Callback
  <2>5. QED BY <2>2, <2>3, <2>4
<1>8. CASE AwaitTask
  <2>1. CASE task = "done"
    BY <1>8, <2>1 DEF AwaitTask, At
  <2>2. CASE task # "done"
    BY <1>8, <2>2 DEF AwaitTask, At
  <2>3. QED BY <2>1, <2>2
<1>9. CASE CloseQueue
  <2>1. /\ stream' = [stream EXCEPT !.at = "cancelling"] /\ stream.at = "closing"
        /\ queue' = Append(queue, "none") /\ UNCHANGED <<task, emitted, closers>>
    BY <1>9 DEF CloseQueue, At
  <2>2. /\ Len(queue') = Len(queue) + 1 /\ queue'[Len(queue) + 1] = "none"
        /\ queue' \in Seq({"event", "end", "none"}) /\ \A i \in 1..Len(queue) : queue'[i] = queue[i]
    BY <2>1
  <2>3. /\ stream' \in [at : Places, read : Nat, caller : Callers] /\ stream'.at = "cancelling"
        /\ stream'.read = stream.read /\ stream'.caller = stream.caller
    BY <2>1
  <2>4. Unread' = Unread
    BY <2>1, <2>3
  <2>5. InOrder'
    BY <2>1, <2>2, <2>3, <2>4
  <2>6. QED BY <2>1, <2>2, <2>3, <2>5
<1>10. CASE CancelTask
  BY <1>10 DEF CancelTask, At, Callback
<1>11. CASE AbandonAgain
  <2> DEFINE gone == IF stream.caller = "there" THEN "left" ELSE "left_twice"
  <2>1. /\ stream' = [stream EXCEPT !.at = "ended", !.caller = gone] /\ gone # "there"
        /\ UNCHANGED <<queue, task, emitted, closers>>
    BY <1>11 DEF AbandonAgain
  <2>2. gone \in Callers
    BY DEF Callers
  <2> HIDE DEF gone
  <2>3. /\ stream' \in [at : Places, read : Nat, caller : Callers]
        /\ stream'.at = "ended" /\ stream'.caller # "there"
    BY <2>1, <2>2
  <2>4. QED BY <2>1, <2>3
<1>12. CASE UNCHANGED streamVars
  BY <1>12 DEF streamVars
<1>13. QED
  BY <1>1, <1>2, <1>3, <1>4, <1>5, <1>6, <1>7, <1>8, <1>9, <1>10, <1>11, <1>12 DEF StreamNext

\* Where a stream has ended before its loop, nobody puts anything and nobody takes anything.
LEMMA LeftKept == StreamInv /\ LeftFull /\ [StreamNext]_streamVars => LeftFull'
<1> SUFFICES ASSUME StreamInv, LeftFull, [StreamNext]_streamVars PROVE LeftFull'
  OBVIOUS
<1>1. PICK a \in Places, r \in Nat, c \in Callers : stream = [at |-> a, read |-> r, caller |-> c]
  BY DEF StreamInv
<1>2. CASE Emit \/ EmitEnd \/ Closes
  BY <1>2 DEF Emit, EmitEnd, Closes, LeftFull
<1>3. CASE TaskEnds
  BY <1>3 DEF TaskEnds, LeftFull, HasRoom
<1>4. CASE Take
  <2>1. /\ stream'.at \in {"last", "yielded", "awaiting"} /\ stream'.caller = c
        /\ stream.at = "reading"
    BY <1>1, <1>4 DEF Take, Places
  <2>2. QED BY <1>1, <2>1 DEF LeftFull
<1>5. CASE NextEvent \/ CloseQueue
  BY <1>1, <1>5 DEF NextEvent, CloseQueue, At, LeftFull
<1>6. CASE Abandon
  BY <1>1, <1>6 DEF Abandon, LeftFull
<1>7. CASE AbandonAgain
  <2>1. /\ stream' = [stream EXCEPT !.at = "ended",
                                    !.caller = IF c = "there" THEN "left" ELSE "left_twice"]
        /\ UNCHANGED <<queue, task>> /\ a = "closing" /\ ~HasRoom
    BY <1>1, <1>7 DEF AbandonAgain
  <2>2. c = "there" => task = "raised"
    BY <1>1, <2>1 DEF StreamInv, InOrder
  <2>3. /\ stream'.at = "ended"
        /\ task = "running" => stream'.caller = "left_twice"
    BY <1>1, <2>1, <2>2
  <2>4. ~HasRoom'
    BY <2>1 DEF HasRoom
  <2>5. QED BY <2>1, <2>3, <2>4 DEF LeftFull
<1>8. CASE AwaitTask
  BY <1>1, <1>8 DEF AwaitTask, At, LeftFull
<1>9. CASE CancelTask
  BY <1>1, <1>9 DEF CancelTask, At, LeftFull
<1>10. CASE UNCHANGED streamVars
  BY <1>10 DEF streamVars, LeftFull, HasRoom
<1>11. QED
  BY <1>2, <1>3, <1>4, <1>5, <1>6, <1>7, <1>8, <1>9, <1>10 DEF StreamNext

\* runtime.py:215: whatever the room in the queue, a stream that has ended leaves no loop behind
\* unless its caller was cut off twice before a full queue, and who read on until then has had every
\* event, although a close may come before the last.
THEOREM StreamsAreComplete == StreamSpec => []StreamComplete
<1>1. StreamInit => LeftFull
  BY DEF StreamInit, LeftFull
<1>2. StreamInv /\ LeftFull => StreamComplete
  BY DEF StreamInv, LeftFull, InOrder, Unread, Places, StreamComplete
<1>3. QED
  BY <1>1, <1>2, StreamStart, StreamKept, LeftKept, PTL DEF StreamSpec

-----------------------------------------------------------------------------
(* The leave a call of a tool needs. *)

\* The gates of the call at hand.
Gates == GatesOfUse(tool, Resolved, context)
Passable == Guarded(tool, Resolved, context) /\ Decision(tool, Resolved, context) # "deny"

\* A gate is asked about when those before it are open; the answer opens it, or ends the call.
GatesInTurn ==
  /\ approved \cup denied \cup ({asking} \ {"none"}) \subseteq {"tool", "network"}
  /\ asking = "none" \/ denied = {}
  /\ asking \notin approved \cup denied /\ approved \cap denied = {}
  /\ asked = approved \cup denied \cup ({asking} \ {"none"})
  /\ asked # {} => Passable
  /\ "network" \in asked => Separate(Resolved) /\ ("tool" \in approved \/ Gates = <<"network">>)
  /\ "tool" \in denied => "network" \notin asked
  /\ asked # {} => \A g \in asked : \E i \in DOMAIN Gates : Gates[i] = g
  /\ verdict # "none" => asking = "none"
  /\ verdict = "runs" => Passable /\ denied = {} /\ \A i \in DOMAIN Gates : Gates[i] \in approved

PermissionInv ==
  /\ tool \in Tools /\ use \in Uses /\ context \in Contexts
  /\ verdict \in {"none", "runs", "refused"}
  /\ GatesInTurn

\* A call has one gate, the other, both or none, by what was decided.
LEMMA GatesAre ==
  ASSUME Passable
  PROVE  /\ Gates \in {<<>>, <<"tool">>, <<"network">>, <<"tool", "network">>}
         /\ "network" \in {Gates[i] : i \in DOMAIN Gates} <=> Separate(Resolved)
         /\ "tool" \in {Gates[i] : i \in DOMAIN Gates} <=> Decision(tool, Resolved, context) = "ask_tool"
<1>1. Decision(tool, Resolved, context) \in {"allow", "ask_tool", "ask_network"}
  BY DEF Passable, Decision
<1>2. Decision(tool, Resolved, context) = "ask_network" => Separate(Resolved)
  BY DEF Decision
<1>3. QED
  BY <1>1, <1>2 DEF Gates, GatesOfUse

LEMMA PermissionStart == PermissionInit => PermissionInv
  BY DEF PermissionInit, PermissionInv, GatesInTurn

LEMMA PermissionStep == PermissionInv /\ [PermissionNext]_permissionVars => PermissionInv'
<1> SUFFICES ASSUME PermissionInv, [PermissionNext]_permissionVars PROVE PermissionInv'
  OBVIOUS
<1>1. CASE PrepareCall
  <2> DEFINE shut == {i \in DOMAIN Gates : Gates[i] \notin approved}
             first == Gates[CHOOSE i \in shut : \A j \in shut : i <= j]
  <2>1. UNCHANGED <<tool, use, context, approved, denied>> /\ verdict = "none" /\ asking = "none"
    BY <1>1 DEF PrepareCall
  <2>2. Gates' = Gates /\ Passable' = Passable /\ Resolved' = Resolved
    BY <2>1 DEF Gates, Passable, Resolved
  <2>3. CASE ~Passable
    <3>1. verdict' = "refused" /\ UNCHANGED <<asking, asked>>
      BY <1>1, <2>3 DEF PrepareCall, Passable
    <3>2. QED BY <2>1, <2>2, <3>1 DEF PermissionInv, GatesInTurn
  <2>4. CASE Passable
    <3>1. \/ shut = {} /\ verdict' = "runs" /\ UNCHANGED <<asking, asked>>
          \/ shut # {} /\ first \in denied /\ verdict' = "refused" /\ UNCHANGED <<asking, asked>>
          \/ shut # {} /\ first \notin denied /\ asking' = first
              /\ asked' = asked \cup {first} /\ UNCHANGED verdict
      BY <1>1, <2>4 DEF PrepareCall, Passable, Gates
    <3>2. Gates \in {<<>>, <<"tool">>, <<"network">>, <<"tool", "network">>}
      BY <2>4, GatesAre
    <3>3. shut # {} => /\ first \in {"tool", "network"} \ approved
                       /\ \E i \in DOMAIN Gates : Gates[i] = first
                       /\ first = "network" => "tool" \in approved \/ Gates = <<"network">>
      BY <3>2
    <3> HIDE DEF first
    <3>4. CASE shut = {}
      <4>1. \A i \in DOMAIN Gates : Gates[i] \in approved
        BY <3>4
      <4>2. denied = {}
        BY <4>1, <2>1 DEF PermissionInv, GatesInTurn
      <4>3. verdict' = "runs" /\ UNCHANGED <<asking, asked>>
        BY <3>1, <3>4
      <4>4. QED BY <2>1, <2>2, <2>4, <4>1, <4>2, <4>3 DEF PermissionInv, GatesInTurn
    <3>5. CASE shut # {} /\ first \in denied
      BY <2>1, <2>2, <3>1, <3>5 DEF PermissionInv, GatesInTurn
    <3>6. CASE shut # {} /\ first \notin denied
      <4>1. asking' = first /\ asked' = asked \cup {first} /\ verdict' = verdict
        BY <3>1, <3>6
      <4>2. denied = {}
        <5> SUFFICES ASSUME NEW d \in denied PROVE FALSE
          OBVIOUS
        <5>1. /\ d \in {"tool", "network"} /\ d \notin approved /\ d # first
              /\ \E i \in DOMAIN Gates : Gates[i] = d
              /\ d = "network" => "tool" \in approved \/ Gates = <<"network">>
          BY <3>6 DEF PermissionInv, GatesInTurn
        <5>2. CASE d = "network"
          BY <3>2, <3>3, <3>6, <5>1, <5>2
        <5>3. CASE d = "tool"
          BY <3>2, <3>3, <3>6, <5>1, <5>3
        <5>4. QED BY <5>1, <5>2, <5>3
      <4>3. first = "network" => Separate(Resolved)
        BY <2>4, <3>3, <3>6, GatesAre
      <4>4. QED BY <2>1, <2>2, <2>4, <3>3, <3>6, <4>1, <4>2, <4>3 DEF PermissionInv, GatesInTurn
    <3>7. QED BY <3>4, <3>5, <3>6
  <2>5. QED BY <2>3, <2>4
<1>2. ASSUME NEW allow \in BOOLEAN, Respond(allow) PROVE PermissionInv'
  <2>1. UNCHANGED <<tool, use, context, asked, verdict>> /\ asking # "none" /\ asking' = "none"
    BY <1>2 DEF Respond
  <2>2. Gates' = Gates /\ Passable' = Passable /\ Resolved' = Resolved
    BY <2>1 DEF Gates, Passable, Resolved
  <2>3. \/ approved' = approved \cup {asking} /\ denied' = denied
        \/ approved' = approved /\ denied' = denied \cup {asking}
    BY <1>2 DEF Respond
  <2>4. QED BY <2>1, <2>2, <2>3 DEF PermissionInv, GatesInTurn
<1>3. CASE UNCHANGED permissionVars
  <2>1. Gates' = Gates /\ Passable' = Passable /\ Resolved' = Resolved
    BY <1>3 DEF Gates, Passable, Resolved, permissionVars
  <2>2. QED BY <1>3, <2>1 DEF PermissionInv, GatesInTurn, permissionVars
<1>4. QED
  BY <1>1, <1>2, <1>3 DEF PermissionNext

\* The effects of a call are those of its tool and its own.
LEMMA ResolvedEffects ==
  ASSUME PermissionInv
  PROVE  /\ Resolved.effects = use.effects \cup tool.static /\ Resolved.targets = use.targets
         /\ Resolved.effects \subseteq Effects
<1>1. /\ use \in [effects : SUBSET Effects, targets : SUBSET Targets]
      /\ tool.static \subseteq Effects
  BY PermissionConstants DEF PermissionInv
<1>2. QED BY <1>1 DEF Resolved

\* What a decision means.
LEMMA PassableIs ==
  ASSUME NEW t, NEW u, NEW c
  PROVE  /\ Decision(t, u, c) = "deny" <=> t.denied \/ u.effects \cap c.deniedEffects # {}
         /\ Decision(t, u, c) = "allow" =>
              Preapproved(t, u, c) \/ (Leaves(u, c) = {} /\ ~Separate(u))
         /\ Decision(t, u, c) = "ask_network" => Leaves(u, c) = {} /\ Separate(u)
         /\ Decision(t, u, c) \in {"allow", "ask_network"} => ~t.confirmed
         /\ Decision(t, u, c) \in {"deny", "ask_tool", "allow", "ask_network"}
  BY DEF Decision

LEMMA RunsHaveLeave == PermissionInv => RunsWithLeave
<1> SUFFICES ASSUME PermissionInv, verdict = "runs"
             PROVE  /\ \A e \in Resolved.effects : LeaveOf(e)
                    /\ tool.confirmed => "tool" \in approved
                    /\ ~tool.denied /\ Resolved.effects \cap context.deniedEffects = {} /\ denied = {}
                    /\ Resolved.targets \cap {"outside", "outside_cwd", "idle_skill"} = {}
  BY DEF RunsWithLeave
<1>1. Passable /\ denied = {} /\ \A i \in DOMAIN Gates : Gates[i] \in approved
  BY DEF PermissionInv, GatesInTurn
<1>2. /\ Separate(Resolved) => "network" \in approved
      /\ Decision(tool, Resolved, context) = "ask_tool" => "tool" \in approved
  BY <1>1, GatesAre
<1>3. Decision(tool, Resolved, context) \in {"ask_tool", "allow", "ask_network"}
  BY <1>1, PassableIs DEF Passable
<1>4. ~tool.denied /\ Resolved.effects \cap context.deniedEffects = {}
  BY <1>3, PassableIs
<1>5. Resolved.targets \cap {"outside", "outside_cwd", "idle_skill"} = {}
  BY <1>1 DEF Passable, Guarded
<1>6. tool.confirmed => "tool" \in approved
  BY <1>2, <1>3, PassableIs
<1>7. ASSUME NEW e \in Resolved.effects PROVE LeaveOf(e)
  <2>1. e \in {"read", "write", "execute", "network", "destructive"}
    BY <1>7, ResolvedEffects DEF Effects
  <2>2. CASE Decision(tool, Resolved, context) = "ask_tool"
    BY <1>2, <2>1, <2>2 DEF LeaveOf
  <2>3. CASE Decision(tool, Resolved, context) # "ask_tool" /\ Preapproved(tool, Resolved, context)
    BY <1>2, <1>7, <2>1, <2>3 DEF LeaveOf, Preapproved, Separate
  <2>4. CASE Decision(tool, Resolved, context) # "ask_tool" /\ ~Preapproved(tool, Resolved, context)
    <3>1. Leaves(Resolved, context) = {}
      BY <1>3, <2>4, PassableIs
    <3>2. /\ e = "write" => context.write
          /\ e = "execute" => context.execute
          /\ e # "destructive"
          /\ e = "network" => Separate(Resolved)
      BY <3>1, <1>7 DEF Leaves
    <3>3. QED BY <1>2, <2>1, <3>2 DEF LeaveOf
  <2>5. QED BY <2>2, <2>3, <2>4
<1>8. QED BY <1>1, <1>4, <1>5, <1>6, <1>7

LEMMA QuestionsMatter == PermissionInv => AsksWhatMatters
<1> SUFFICES ASSUME PermissionInv PROVE AsksWhatMatters
  OBVIOUS
<1>1. asking \notin approved \cup denied
  BY DEF PermissionInv, GatesInTurn
<1>2. asking # "none" => asking \in asked
  BY DEF PermissionInv, GatesInTurn
<1>3. asked # {} => Guarded(tool, Resolved, context) /\ ~tool.denied
  BY PassableIs DEF PermissionInv, GatesInTurn, Passable
<1>4. "network" \in asked => Separate(Resolved)
  BY DEF PermissionInv, GatesInTurn
<1>5. QED BY <1>1, <1>2, <1>3, <1>4 DEF AsksWhatMatters

\* A use that does all of another and a caller who allows no more: what allows the one allows the
\* other.
LEMMA MoreNeedsMore ==
  ASSUME NEW t, NEW u, NEW v, NEW c, NEW d,
         t.revision = "run_command" => "execute" \in u.effects,
         u.effects \subseteq v.effects, u.targets = v.targets,
         c.deniedEffects \subseteq d.deniedEffects,
         d.write => c.write, d.execute => c.execute, d.sandboxed => c.sandboxed
  PROVE  Severity(Decision(t, u, c)) <= Severity(Decision(t, v, d))
<1>1. Decision(t, u, c) = "deny" => Decision(t, v, d) = "deny"
  BY PassableIs
<1>2. Decision(t, v, d) = "allow" => Decision(t, u, c) = "allow"
  <2> SUFFICES ASSUME Decision(t, v, d) = "allow" PROVE Decision(t, u, c) = "allow"
    OBVIOUS
  <2>1. ~t.denied /\ u.effects \cap c.deniedEffects = {} /\ ~t.confirmed
    BY PassableIs
  <2>2. CASE Preapproved(t, v, d)
    <3>1. Preapproved(t, u, c)
      BY <2>2 DEF Preapproved
    <3>2. QED BY <2>1, <3>1 DEF Decision
  <2>3. CASE Leaves(v, d) = {} /\ ~Separate(v)
    <3>1. Leaves(u, c) = {} /\ ~Separate(u)
      BY <2>3 DEF Leaves, Separate
    <3>2. QED BY <2>1, <3>1 DEF Decision
  <2>4. QED BY <2>2, <2>3, PassableIs
<1>3. QED BY <1>1, <1>2, PassableIs DEF Severity

LEMMA NoLessNeeded == PermissionInv => NeedsNoLess
<1> SUFFICES ASSUME PermissionInv PROVE NeedsNoLess
  OBVIOUS
<1>1. /\ context \in [root : BOOLEAN, cwd : BOOLEAN, inside : BOOLEAN, write : BOOLEAN,
                      execute : BOOLEAN, sandboxed : BOOLEAN, deniedEffects : SUBSET Effects]
      /\ use \in [effects : SUBSET Effects, targets : SUBSET Targets]
      /\ tool.revision = "run_command" => "execute" \in tool.static
  BY PermissionConstants DEF PermissionInv
<1>2. tool.revision = "run_command" => "execute" \in Resolved.effects
  BY <1>1, ResolvedEffects
<1>3. ASSUME NEW e \in Effects
      PROVE  LET more == [Resolved EXCEPT !.effects = @ \cup {e}]
             IN  Severity(Decision(tool, Resolved, context)) <= Severity(Decision(tool, more, context))
  <2> DEFINE more == [Resolved EXCEPT !.effects = @ \cup {e}]
  <2>1. Resolved.effects \subseteq more.effects /\ Resolved.targets = more.targets
    BY <1>1 DEF Resolved
  <2> HIDE DEF more
  <2>2. Severity(Decision(tool, Resolved, context)) <= Severity(Decision(tool, more, context))
    BY <1>2, <2>1, MoreNeedsMore
  <2>3. QED BY <2>2 DEF more
<1>4. ASSUME NEW c \in Stricter(context)
      PROVE  Severity(Decision(tool, Resolved, context)) <= Severity(Decision(tool, Resolved, c))
  <2>1. /\ context.deniedEffects \subseteq c.deniedEffects
        /\ c.write => context.write
        /\ c.execute => context.execute
        /\ c.sandboxed => context.sandboxed
    BY <1>1 DEF Stricter
  <2>2. QED BY <1>2, <2>1, MoreNeedsMore
<1>5. QED BY <1>3, <1>4 DEF NeedsNoLess

\* permissions.py:109, 195, executor.py:469: whatever a tool does, however it is called and
\* whatever its caller allows: what runs was allowed, a human is asked only where the answer
\* matters, and to do more or to be allowed less never needs less.
THEOREM CallsHaveLeave == PermissionSpec => []PermissionsSound
<1>1. PermissionInv => PermissionsSound
  BY RunsHaveLeave, QuestionsMatter, NoLessNeeded DEF PermissionsSound
<1>2. QED
  BY <1>1, PermissionStart, PermissionStep, PTL DEF PermissionSpec

-----------------------------------------------------------------------------
(* The model that answers. *)

Names == Models \cup {"none"}
Commands ==
  [at : {"off", "prompt", "saving", "writing", "preparing", "waiting", "running", "asked"},
   kind : {"none", "chat", "run", "switch", "resume"}, known : SUBSET Models, model : Names,
   turn : Nat, now : Nat, resumed : BOOLEAN, expect : Names \cup {"any"}, left : BOOLEAN,
   stuck : BOOLEAN]
BoundTurns ==
  [model : Models, after : Nat, status : {"running", "paused", "interrupted", "completed", "failed"},
   served : SUBSET Models, expect : Names \cup {"any"}]

ChoiceTypes ==
  /\ declared \subseteq Models
  /\ session \in Models \cup {"absent", "torn"}
  /\ chosen \in Names
  /\ cli \in [Procs -> Commands] /\ turn \in Seq(BoundTurns)
  /\ port \in [serving : Names, starting : SUBSET Models]
  /\ done \in [starts : Nat, faults : Nat]

\* A command that has a turn in its hands.
Holds(r) == r.at \in {"preparing", "waiting", "running"}

\* What a command holds is under way and nobody else's.
HeldTurns ==
  /\ \A p \in Procs : Holds(cli[p]) => cli[p].now \in DOMAIN turn /\ turn[cli[p].now].status = "running"
  /\ \A p, q \in Procs : p # q /\ Holds(cli[p]) /\ Holds(cli[q]) => cli[p].now # cli[q].now
  /\ \A p \in Procs : cli[p].at = "asked" => cli[p].now \in DOMAIN turn /\ cli[p].turn = cli[p].now

\* Where messages come from, a turn that has not ended is known to be left open; what is expected
\* is the model of the command, and nothing once it is bound.
Ended(t) == t.status \in {"completed", "failed"}
Prompted(r, turns) ==
  /\ r.kind = "chat" => r.model \in Models
  /\ r.at \in {"prompt", "saving", "writing"} =>
       /\ r.turn > 0 => r.turn \in DOMAIN turns /\ r.expect = "any" /\ (Ended(turns[r.turn]) \/ r.left)
       /\ r.turn = 0 => r.model \in Models /\ r.expect \in {"any", r.model}
       /\ r.at # "prompt" => r.turn = 0 /\ r.kind \in {"chat", "switch"}
AtPrompt == \A p \in Procs : Prompted(cli[p], turn)

\* The last choice saved is what the session file says, unless it is being written.
SavedChoice == session = "torn" \/ session = IF chosen = "none" THEN "absent" ELSE chosen

\* While no server stops, a local model that works is the one that is served.
Served ==
  done.faults = 0 => \A p \in Procs :
    cli[p].at = "running" /\ Catalog[turn[cli[p].now].model].local =>
      port.serving \in Catalog[turn[cli[p].now].model].accepts

ChoiceInv ==
  ChoiceTypes /\ HeldTurns /\ AtPrompt /\ SavedChoice /\ Served /\ ModelsSound
  /\ \A t \in DOMAIN turn : turn[t].after \in 0..(t - 1)

LEMMA ChoiceStart ==
  ASSUME ModelConstants, ModelInit
  PROVE  ChoiceInv
<1>1. ChoiceTypes
  BY DEF ModelConstants, ModelInit, ChoiceTypes, Commands, BoundTurns, Names, Off
<1>2. HeldTurns /\ AtPrompt /\ SavedChoice /\ Served
  BY DEF ModelInit, HeldTurns, Holds, AtPrompt, Prompted, SavedChoice, Served, Off
<1>3. ModelsSound
  BY DEF ModelInit, ModelsSound, BoundModels, ChosenModels, ChatsGoOn, Off
<1>4. \A t \in DOMAIN turn : turn[t].after \in 0..(t - 1)
  BY DEF ModelInit
<1>5. QED BY <1>1, <1>2, <1>3, <1>4 DEF ChoiceInv

LEMMA TurnTypes ==
  ASSUME ChoiceInv, NEW t \in DOMAIN turn
  PROVE  turn[t] \in BoundTurns /\ turn[t].model \in Models
<1>1. turn \in Seq(BoundTurns)
  BY DEF ChoiceInv, ChoiceTypes
<1>2. turn[t] \in BoundTurns
  BY <1>1
<1>3. QED BY <1>2 DEF BoundTurns

\* What a step has to keep to when one command changes and turns may go on.
LEMMA CommandMoves ==
  ASSUME ModelConstants, ChoiceInv, NEW p \in Procs, NEW r \in Commands,
         cli' = [cli EXCEPT ![p] = r],
         turn' \in Seq(BoundTurns), DOMAIN turn \subseteq DOMAIN turn',
         \A u \in DOMAIN turn :
           /\ turn'[u].model = turn[u].model
           /\ Ended(turn[u]) => Ended(turn'[u]),
         \A q \in Procs \ {p} : Holds(cli[q]) =>
             /\ turn'[cli[q].now].status = "running"
             /\ Holds(r) => cli[q].now # r.now,
         Holds(r) => r.now \in DOMAIN turn' /\ turn'[r.now].status = "running",
         r.at = "asked" => r.now \in DOMAIN turn' /\ r.turn = r.now,
         Prompted(r, turn'), ~r.stuck,
         done'.faults = 0 =>
             /\ done.faults = 0
             /\ port.serving # "none" => port'.serving = port.serving
             /\ r.at = "running" /\ Catalog[turn'[r.now].model].local =>
                  port'.serving \in Catalog[turn'[r.now].model].accepts
  PROVE  HeldTurns' /\ AtPrompt' /\ Served' /\ ChatsGoOn'
<1>1. cli \in [Procs -> Commands] /\ cli' \in [Procs -> Commands]
  BY DEF ChoiceInv, ChoiceTypes
<1>2. cli'[p] = r /\ \A q \in Procs \ {p} : cli'[q] = cli[q]
  BY <1>1
<1>3. \A q \in Procs :
        /\ Holds(cli[q]) => cli[q].now \in DOMAIN turn
        /\ cli[q].at = "asked" => cli[q].now \in DOMAIN turn /\ cli[q].turn = cli[q].now
  BY DEF ChoiceInv, HeldTurns
<1>4. ASSUME NEW q \in Procs
      PROVE  /\ Holds(cli'[q]) => cli'[q].now \in DOMAIN turn' /\ turn'[cli'[q].now].status = "running"
             /\ cli'[q].at = "asked" => cli'[q].now \in DOMAIN turn' /\ cli'[q].turn = cli'[q].now
             /\ Prompted(cli'[q], turn') /\ ~cli'[q].stuck
  <2>1. CASE q = p
    BY <1>2, <2>1
  <2>2. CASE q # p
    <3>1. cli'[q] = cli[q]
      BY <1>2, <2>2
    <3>2. Prompted(cli[q], turn) /\ ~cli[q].stuck
      BY DEF ChoiceInv, AtPrompt, ModelsSound, ChatsGoOn
    <3>3. cli[q].turn \in DOMAIN turn /\ Ended(turn[cli[q].turn]) => Ended(turn'[cli[q].turn])
      BY Zenon
    <3>4. cli[q].turn \in DOMAIN turn => cli[q].turn \in DOMAIN turn'
      OBVIOUS
    <3>5. Prompted(cli[q], turn')
      BY <3>2, <3>3, <3>4, Zenon DEF Prompted
    <3>6. QED BY <1>3, <2>2, <3>1, <3>2, <3>5
  <2>3. QED BY <2>1, <2>2
<1>5. ASSUME NEW a \in Procs, NEW b \in Procs, a # b, Holds(cli'[a]), Holds(cli'[b])
      PROVE  cli'[a].now # cli'[b].now
  <2>1. CASE a # p /\ b # p
    <3>1. cli'[a] = cli[a] /\ cli'[b] = cli[b]
      BY <1>2, <2>1
    <3>2. QED BY <1>5, <3>1 DEF ChoiceInv, HeldTurns
  <2>2. CASE a = p
    BY <1>2, <1>5, <2>2
  <2>3. CASE b = p
    BY <1>2, <1>5, <2>3
  <2>4. QED BY <2>1, <2>2, <2>3
<1>6. Served'
  <2> SUFFICES ASSUME done'.faults = 0, NEW q \in Procs, cli'[q].at = "running",
                      Catalog[turn'[cli'[q].now].model].local
               PROVE  port'.serving \in Catalog[turn'[cli'[q].now].model].accepts
    BY DEF Served
  <2>1. CASE q = p
    BY <1>2, <2>1
  <2>2. CASE q # p
    <3>1. cli'[q] = cli[q] /\ Holds(cli[q]) /\ cli[q].now \in DOMAIN turn
      BY <1>2, <1>3, <2>2 DEF Holds
    <3>2. turn'[cli'[q].now].model = turn[cli[q].now].model
      BY <3>1, Zenon
    <3>3. port.serving \in Catalog[turn[cli[q].now].model].accepts
      BY <3>1, <3>2 DEF ChoiceInv, Served
    <3>4. turn[cli[q].now].model \in Models
      BY <3>1, TurnTypes
    <3>5. port.serving # "none"
      BY <3>3, <3>4 DEF ModelConstants
    <3>6. QED BY <3>2, <3>3, <3>5
  <2>3. QED BY <2>1, <2>2
<1>7. HeldTurns'
  BY <1>4, <1>5 DEF HeldTurns
<1>8. AtPrompt' /\ ChatsGoOn'
  BY <1>4 DEF AtPrompt, ChatsGoOn
<1>9. QED BY <1>6, <1>7, <1>8

\* The turns keep what they are bound to.
LEMMA BindingsKept ==
  ASSUME ChoiceInv, DOMAIN turn' = DOMAIN turn, done'.faults >= done.faults, done'.faults \in Nat,
         \A u \in DOMAIN turn :
           /\ turn'[u].model = turn[u].model /\ turn'[u].after = turn[u].after
           /\ turn'[u].expect = turn[u].expect
           /\ \/ turn'[u].served = turn[u].served
              \/ turn'[u].served \subseteq
                   turn[u].served \cup Catalog[turn[u].model].accepts \cup {turn[u].model}
              \/ done'.faults > 0
  PROVE  BoundModels' /\ ChosenModels' /\ (\A t \in DOMAIN turn : turn[t].after \in 0..(t - 1))'
<1>1. turn \in Seq(BoundTurns) /\ done.faults \in Nat
  BY DEF ChoiceInv, ChoiceTypes
<1>2. \A t \in DOMAIN turn : turn[t].after \in 0..(t - 1)
  BY DEF ChoiceInv
<1>3. \A t \in DOMAIN turn : turn[t].after > 0 => turn[t].after \in DOMAIN turn
  BY <1>1, <1>2
<1>4. \A t \in DOMAIN turn :
        /\ turn[t].after > 0 => turn[t].model = turn[turn[t].after].model
        /\ turn[t].served \subseteq Catalog[turn[t].model].accepts \cup {turn[t].model} \/ done.faults > 0
        /\ turn[t].expect \in {"any", turn[t].model}
  BY DEF ChoiceInv, ModelsSound, BoundModels, ChosenModels
<1>5. BoundModels'
  <2> SUFFICES ASSUME NEW t \in DOMAIN turn
               PROVE  /\ turn'[t].after > 0 => turn'[t].model = turn'[turn'[t].after].model
                      /\ turn'[t].served \subseteq Catalog[turn'[t].model].accepts \cup {turn'[t].model}
                         \/ done'.faults > 0
    BY DEF BoundModels
  <2>1. turn'[t].after > 0 => turn'[t].model = turn'[turn'[t].after].model
    BY <1>3, <1>4
  <2>2. CASE done'.faults > 0
    BY <2>1, <2>2
  <2>3. CASE ~(done'.faults > 0)
    <3>1. ~(done.faults > 0)
      BY <1>1, <2>3
    <3>2. turn[t].served \subseteq Catalog[turn[t].model].accepts \cup {turn[t].model}
      BY <1>4, <3>1
    <3>3. QED BY <2>1, <2>3, <3>2
  <2>4. QED BY <2>2, <2>3
<1>6. ChosenModels'
  BY <1>4 DEF ChosenModels
<1>7. QED BY <1>2, <1>5, <1>6

\* What is no turn and no command keeps its type.
Surroundings ==
  /\ declared \subseteq Models /\ session \in Models \cup {"absent", "torn"} /\ chosen \in Names
  /\ port \in [serving : Names, starting : SUBSET Models] /\ done \in [starts : Nat, faults : Nat]

LEMMA ServersOnly ==
  ASSUME ModelConstants, ChoiceInv, Surroundings', SavedChoice', cli' = cli, turn' = turn,
         done'.faults >= done.faults,
         done'.faults = 0 /\ port.serving # "none" => port'.serving = port.serving
  PROVE  ChoiceInv'
<1>1. ChoiceTypes'
  BY DEF ChoiceInv, ChoiceTypes, Surroundings
<1>2. HeldTurns' /\ AtPrompt' /\ ChatsGoOn'
  BY DEF ChoiceInv, HeldTurns, AtPrompt, ModelsSound, ChatsGoOn
<1>3. done.faults \in Nat /\ done'.faults \in Nat
  BY DEF Surroundings, ChoiceInv, ChoiceTypes
<1>4. Served'
  <2> SUFFICES ASSUME done'.faults = 0, NEW p \in Procs, cli[p].at = "running",
                      Catalog[turn[cli[p].now].model].local
               PROVE  port'.serving \in Catalog[turn[cli[p].now].model].accepts
    BY DEF Served
  <2>1. done.faults = 0
    BY <1>3
  <2>2. port.serving \in Catalog[turn[cli[p].now].model].accepts
    BY <2>1 DEF ChoiceInv, Served
  <2>3. cli[p].now \in DOMAIN turn
    BY DEF ChoiceInv, HeldTurns, Holds
  <2>4. turn[cli[p].now].model \in Models
    BY <2>3, TurnTypes
  <2>5. port.serving # "none"
    BY <2>2, <2>4 DEF ModelConstants
  <2>6. QED BY <2>2, <2>5
<1>5. BoundModels' /\ ChosenModels' /\ (\A t \in DOMAIN turn : turn[t].after \in 0..(t - 1))'
  BY <1>3, BindingsKept
<1>6. QED BY <1>1, <1>2, <1>4, <1>5 DEF ChoiceInv, ModelsSound

\* A step of one command that leaves the turns as they are.
LEMMA QuietStep ==
  ASSUME ModelConstants, ChoiceInv, Surroundings', SavedChoice',
         NEW p \in Procs, NEW r \in Commands, cli' = [cli EXCEPT ![p] = r], turn' = turn,
         Holds(r) => Holds(cli[p]) /\ r.now = cli[p].now,
         r.at = "asked" => r.now \in DOMAIN turn /\ r.turn = r.now,
         Prompted(r, turn), ~r.stuck, done'.faults >= done.faults,
         done'.faults = 0 =>
             /\ port.serving # "none" => port'.serving = port.serving
             /\ r.at = "running" /\ Catalog[turn[r.now].model].local =>
                  port'.serving \in Catalog[turn[r.now].model].accepts
  PROVE  ChoiceInv'
<1>1. ChoiceTypes'
  BY DEF ChoiceInv, ChoiceTypes, Surroundings
<1>2. done.faults \in Nat /\ done'.faults \in Nat
  BY DEF Surroundings, ChoiceInv, ChoiceTypes
<1>3. \A q \in Procs \ {p} : Holds(cli[q]) =>
        /\ turn'[cli[q].now].status = "running"
        /\ Holds(r) => cli[q].now # r.now
  BY DEF ChoiceInv, HeldTurns
<1>4. Holds(r) => r.now \in DOMAIN turn' /\ turn'[r.now].status = "running"
  BY DEF ChoiceInv, HeldTurns
<1>5. turn' \in Seq(BoundTurns) /\ DOMAIN turn \subseteq DOMAIN turn'
  BY DEF ChoiceInv, ChoiceTypes
<1>6. \A u \in DOMAIN turn :
        /\ turn'[u].model = turn[u].model
        /\ Ended(turn[u]) => Ended(turn'[u])
  OBVIOUS
<1>7. done'.faults = 0 =>
        /\ done.faults = 0
        /\ port.serving # "none" => port'.serving = port.serving
        /\ r.at = "running" /\ Catalog[turn'[r.now].model].local =>
             port'.serving \in Catalog[turn'[r.now].model].accepts
  BY <1>2
<1>8. HeldTurns' /\ AtPrompt' /\ Served' /\ ChatsGoOn'
  BY <1>3, <1>4, <1>5, <1>6, <1>7, CommandMoves
<1>9. BoundModels' /\ ChosenModels' /\ (\A t \in DOMAIN turn : turn[t].after \in 0..(t - 1))'
  BY <1>2, BindingsKept
<1>10. QED BY <1>1, <1>8, <1>9 DEF ChoiceInv, ModelsSound

\* A step of one command that ends, begins again or interrupts the turn it holds or takes.
LEMMA TurnStep ==
  ASSUME ModelConstants, ChoiceInv, Surroundings', SavedChoice',
         NEW p \in Procs, NEW r \in Commands, cli' = [cli EXCEPT ![p] = r],
         NEW t \in DOMAIN turn, NEW new \in BoundTurns, turn' = [turn EXCEPT ![t] = new],
         new.model = turn[t].model, new.after = turn[t].after, new.expect = turn[t].expect,
         new.served \subseteq
             turn[t].served \cup Catalog[turn[t].model].accepts \cup {turn[t].model}
           \/ done'.faults > 0,
         \/ Holds(cli[p]) /\ cli[p].now = t
         \/ turn[t].status \in {"paused", "interrupted"},
         Holds(r) => r.now = t /\ new.status = "running" /\ r.at = "preparing",
         r.at = "asked" => r.now = t /\ r.turn = t,
         Prompted(r, turn'), ~r.stuck, done'.faults >= done.faults, port' = port
  PROVE  ChoiceInv'
<1>0. turn \in Seq(BoundTurns) /\ cli \in [Procs -> Commands]
  BY DEF ChoiceInv, ChoiceTypes
<1>a. turn' \in Seq(BoundTurns) /\ DOMAIN turn' = DOMAIN turn
  BY <1>0
<1>b. turn'[t] = new /\ \A u \in DOMAIN turn : u # t => turn'[u] = turn[u]
  BY <1>0
<1>1. ChoiceTypes'
  BY <1>a DEF ChoiceInv, ChoiceTypes, Surroundings
<1>2. done.faults \in Nat /\ done'.faults \in Nat
  BY DEF Surroundings, ChoiceInv, ChoiceTypes
<1>3. ASSUME NEW q \in Procs \ {p}, Holds(cli[q]) PROVE cli[q].now # t /\ cli[q].now \in DOMAIN turn
  BY <1>3 DEF ChoiceInv, HeldTurns
<1>c. ~Ended(turn[t])
  BY DEF ChoiceInv, HeldTurns, Ended
<1>4. \A q \in Procs \ {p} : Holds(cli[q]) =>
        /\ turn'[cli[q].now].status = "running"
        /\ Holds(r) => cli[q].now # r.now
  <2> SUFFICES ASSUME NEW q \in Procs \ {p}, Holds(cli[q])
               PROVE  turn'[cli[q].now].status = "running" /\ (Holds(r) => cli[q].now # r.now)
    OBVIOUS
  <2>1. turn[cli[q].now].status = "running"
    BY DEF ChoiceInv, HeldTurns
  <2>2. QED BY <1>3, <1>b, <2>1
<1>5. Holds(r) => r.now \in DOMAIN turn' /\ turn'[r.now].status = "running"
  BY <1>a, <1>b
<1>6. \A u \in DOMAIN turn :
        /\ turn'[u].model = turn[u].model
        /\ Ended(turn[u]) => Ended(turn'[u])
  BY <1>b, <1>c
<1>7. done'.faults = 0 =>
        /\ done.faults = 0
        /\ port.serving # "none" => port'.serving = port.serving
        /\ r.at = "running" /\ Catalog[turn'[r.now].model].local =>
             port'.serving \in Catalog[turn'[r.now].model].accepts
  BY <1>2 DEF Holds
<1>8. r.at = "asked" => r.now \in DOMAIN turn' /\ r.turn = r.now
  BY <1>a
<1>9. HeldTurns' /\ AtPrompt' /\ Served' /\ ChatsGoOn'
  BY <1>4, <1>5, <1>6, <1>7, <1>8, <1>a, CommandMoves
<1>10. \A u \in DOMAIN turn :
         /\ turn'[u].model = turn[u].model /\ turn'[u].after = turn[u].after
         /\ turn'[u].expect = turn[u].expect
         /\ \/ turn'[u].served = turn[u].served
            \/ turn'[u].served \subseteq
                 turn[u].served \cup Catalog[turn[u].model].accepts \cup {turn[u].model}
            \/ done'.faults > 0
  BY <1>b
<1>11. BoundModels' /\ ChosenModels' /\ (\A u \in DOMAIN turn : turn[u].after \in 0..(u - 1))'
  BY <1>2, <1>a, <1>10, BindingsKept
<1>12. QED BY <1>1, <1>9, <1>11 DEF ChoiceInv, ModelsSound

\* A step after which the command holds no turn, and no server was stopped or started.
LEMMA CalmStep ==
  ASSUME ModelConstants, ChoiceInv, Surroundings', SavedChoice',
         NEW p \in Procs, NEW r \in Commands, cli' = [cli EXCEPT ![p] = r], turn' = turn,
         ~Holds(r), r.at # "asked", Prompted(r, turn), ~r.stuck,
         done'.faults >= done.faults, port' = port
  PROVE  ChoiceInv'
<1>1. r.at # "running"
  BY DEF Holds
<1>2. done'.faults = 0 =>
        /\ port.serving # "none" => port'.serving = port.serving
        /\ r.at = "running" /\ Catalog[turn[r.now].model].local =>
             port'.serving \in Catalog[turn[r.now].model].accepts
  BY <1>1
<1>3. QED BY <1>2, QuietStep

LEMMA CommandIs ==
  ASSUME ChoiceInv, NEW p \in Procs
  PROVE  /\ cli[p] \in Commands /\ Prompted(cli[p], turn) /\ ~cli[p].stuck
         /\ Holds(cli[p]) \/ cli[p].at = "asked" => cli[p].now \in DOMAIN turn
         /\ cli[p].at = "asked" => cli[p].turn = cli[p].now
  BY DEF ChoiceInv, ChoiceTypes, HeldTurns, AtPrompt, ModelsSound, ChatsGoOn

LEMMA OffIs == Off \in Commands /\ Off.at = "off" /\ ~Off.stuck /\ Off.kind = "none"
  BY DEF Off, Commands, Names

LEMMA Around == ChoiceInv => Surroundings /\ SavedChoice
  BY DEF ChoiceInv, ChoiceTypes, Surroundings

\* A command ends.
LEMMA EndStep ==
  ASSUME ModelConstants, ChoiceInv, NEW p \in Procs, cli' = [cli EXCEPT ![p] = Off],
         UNCHANGED <<declared, session, turn, port, chosen>>,
         done' \in [starts : Nat, faults : Nat], done'.faults >= done.faults
  PROVE  ChoiceInv'
<1>1. Surroundings' /\ SavedChoice'
  BY Around DEF Surroundings, SavedChoice
<1>2. Off \in Commands /\ ~Holds(Off) /\ Off.at = "off" /\ ~Off.stuck /\ Prompted(Off, turn)
  BY OffIs DEF Holds, Prompted
<1>3. QED BY <1>1, <1>2, CalmStep

LEMMA StartKept ==
  ASSUME ModelConstants, ChoiceInv, NEW p \in Procs, NEW option \in Models \cup {"none"},
         NEW after \in 0..Len(turn), NEW kind \in {"chat", "run"}, Start(p, kind, option, after)
  PROVE  ChoiceInv'
<1> DEFINE left == after > 0 /\ ~Terminal(after)
           r == [Off EXCEPT !.kind = kind, !.turn = after, !.known = declared, !.at = "prompt",
                            !.left = left]
           expect == IF session = "torn" \/ after > 0 THEN "any" ELSE Expected(option)
           loaded == [r EXCEPT !.model = CurrentModel(option), !.expect = expect]
<1>1. /\ after > 0 => option = "none"
      /\ UNCHANGED <<declared, session, turn, port, chosen>>
      /\ done' = [done EXCEPT !.starts = @ + 1]
      /\ cli' = [cli EXCEPT ![p] = IF kind = "run" /\ after > 0 THEN r
                                   ELSE IF LoadConfig /\ CurrentModel(option) \in declared THEN loaded
                                   ELSE Off]
  BY DEF Start, Put
<1>2. turn \in Seq(BoundTurns) /\ declared \subseteq Models /\ SavedChoice
      /\ chosen \in Names /\ session \in Models \cup {"absent", "torn"}
      /\ done \in [starts : Nat, faults : Nat]
  BY DEF ChoiceInv, ChoiceTypes
<1>3. done' \in [starts : Nat, faults : Nat] /\ done'.faults >= done.faults
  BY <1>1, <1>2
<1>4. Surroundings' /\ SavedChoice'
  BY <1>1, <1>3, Around DEF Surroundings, SavedChoice
<1>5. after > 0 => after \in DOMAIN turn /\ (Ended(turn[after]) \/ left)
  BY <1>2 DEF Ended, Terminal
<1>6. after \in Nat /\ left \in BOOLEAN
  BY <1>2
<1>7. turn' = turn /\ port' = port
  BY <1>1
<1> HIDE DEF left
<1>8. /\ r \in Commands /\ r.at = "prompt" /\ r.kind = kind /\ r.turn = after /\ r.left = left
      /\ r.expect = "any" /\ ~r.stuck
  BY <1>2, <1>6 DEF Off, Commands, Names
<1> HIDE DEF r
<1>a. \A m \in Models : m # "none" /\ m # "absent" /\ m # "torn"
  BY DEF ModelConstants
<1>b. Default \in Models
  BY DEF ModelConstants
<1>9. Expected(option) \in Models
  BY <1>2, <1>b DEF Expected, Names
<1>c. session # "torn" => Expected(option) = CurrentModel(option)
  BY <1>2, <1>a DEF Expected, CurrentModel, SavedChoice, Names
<1>d. expect \in Names \cup {"any"} /\ expect \in {"any", CurrentModel(option)}
      /\ (after > 0 => expect = "any")
  BY <1>9, <1>c DEF Names
<1> HIDE DEF expect
<1>11. CASE kind = "run" /\ after > 0
  <2>1. Prompted(r, turn) /\ ~Holds(r) /\ r.at # "asked"
    BY <1>5, <1>6, <1>8, <1>11 DEF Prompted, Holds
  <2>2. cli' = [cli EXCEPT ![p] = r]
    BY <1>1, <1>11
  <2>3. QED BY <1>3, <1>4, <1>7, <1>8, <2>1, <2>2, CalmStep
<1>12. CASE ~(kind = "run" /\ after > 0) /\ LoadConfig /\ CurrentModel(option) \in declared
  <2>1. /\ loaded \in Commands /\ loaded.at = "prompt" /\ loaded.turn = after /\ loaded.expect = expect
        /\ loaded.left = left /\ loaded.model = CurrentModel(option) /\ ~loaded.stuck
    BY <1>2, <1>8, <1>d, <1>12 DEF Commands, Names
  <2>a. cli' = [cli EXCEPT ![p] = loaded]
    BY <1>1, <1>12
  <2> HIDE DEF loaded
  <2>2. Prompted(loaded, turn) /\ ~Holds(loaded) /\ loaded.at # "asked"
    BY <1>2, <1>5, <1>6, <1>d, <1>12, <2>1 DEF Prompted, Holds
  <2>3. QED BY <1>3, <1>4, <1>7, <2>1, <2>2, <2>a, CalmStep
<1>13. CASE ~(kind = "run" /\ after > 0) /\ ~(LoadConfig /\ CurrentModel(option) \in declared)
  <2>1. cli' = [cli EXCEPT ![p] = Off]
    BY <1>1, <1>13
  <2>2. QED BY <1>1, <1>3, <2>1, EndStep
<1>14. QED BY <1>11, <1>12, <1>13

LEMMA SlashKept ==
  ASSUME ModelConstants, ChoiceInv, NEW p \in Procs, NEW m \in Models, Slash(p, m)
  PROVE  ChoiceInv'
<1> DEFINE r == [cli[p] EXCEPT !.model = m, !.expect = m, !.at = "saving"]
<1>1. /\ cli[p].at = "prompt" /\ cli[p].kind = "chat" /\ cli[p].turn = 0
      /\ cli' = [cli EXCEPT ![p] = r] /\ UNCHANGED <<declared, session, turn, port, chosen, done>>
  BY DEF Slash, Put
<1>2. cli[p] \in Commands /\ ~cli[p].stuck
  BY CommandIs
<1>3. r \in Commands /\ r.at = "saving" /\ r.turn = 0 /\ r.model = m /\ r.expect = m
      /\ r.kind = "chat" /\ ~r.stuck
  BY <1>1, <1>2 DEF Commands, Names
<1>4. Surroundings' /\ SavedChoice' /\ done'.faults >= done.faults
  BY <1>1, Around DEF Surroundings, SavedChoice
<1> HIDE DEF r
<1>5. Prompted(r, turn) /\ ~Holds(r) /\ r.at # "asked"
  BY <1>3 DEF Prompted, Holds
<1>6. QED BY <1>1, <1>3, <1>4, <1>5, CalmStep

LEMMA SwitchKept ==
  ASSUME ModelConstants, ChoiceInv, NEW p \in Procs, NEW m \in Models, SwitchModel(p, m)
  PROVE  ChoiceInv'
<1> DEFINE r == [Off EXCEPT !.kind = "switch", !.model = m, !.at = "saving"]
<1>1. /\ cli' = [cli EXCEPT ![p] = r] /\ UNCHANGED <<declared, session, turn, port, chosen>>
      /\ done' = [done EXCEPT !.starts = @ + 1]
  BY DEF SwitchModel, Put
<1>2. r \in Commands /\ r.at = "saving" /\ r.turn = 0 /\ r.model = m /\ r.expect = "any"
      /\ r.kind = "switch" /\ ~r.stuck
  BY DEF Off, Commands, Names
<1>3. done \in [starts : Nat, faults : Nat]
  BY DEF ChoiceInv, ChoiceTypes
<1>4. done' \in [starts : Nat, faults : Nat] /\ done'.faults >= done.faults
  BY <1>1, <1>3
<1>5. Surroundings' /\ SavedChoice'
  BY <1>1, <1>4, Around DEF Surroundings, SavedChoice
<1> HIDE DEF r
<1>6. Prompted(r, turn) /\ ~Holds(r) /\ r.at # "asked"
  BY <1>2 DEF Prompted, Holds
<1>7. QED BY <1>1, <1>2, <1>3, <1>4, <1>5, <1>6, CalmStep

LEMMA SaveOpensKept ==
  ASSUME ModelConstants, ChoiceInv, NEW p \in Procs, SaveOpens(p)
  PROVE  ChoiceInv'
<1> DEFINE r == [cli[p] EXCEPT !.at = "writing"]
<1>1. /\ cli[p].at = "saving" /\ session' = "torn"
      /\ cli' = [cli EXCEPT ![p] = r] /\ UNCHANGED <<declared, turn, port, chosen, done>>
  BY DEF SaveOpens, Put
<1>2. cli[p] \in Commands /\ Prompted(cli[p], turn) /\ ~cli[p].stuck
  BY CommandIs
<1>3. r \in Commands /\ r.at = "writing" /\ r.turn = cli[p].turn /\ r.model = cli[p].model
      /\ r.expect = cli[p].expect /\ r.kind = cli[p].kind /\ ~r.stuck
  BY <1>1, <1>2 DEF Commands
<1>4. Surroundings' /\ SavedChoice' /\ done'.faults >= done.faults
  BY <1>1, Around DEF Surroundings, SavedChoice
<1> HIDE DEF r
<1>5. Prompted(r, turn) /\ ~Holds(r) /\ r.at # "asked"
  BY <1>1, <1>2, <1>3 DEF Prompted, Holds
<1>6. QED BY <1>1, <1>3, <1>4, <1>5, CalmStep

LEMMA SaveKept ==
  ASSUME ModelConstants, ChoiceInv, NEW p \in Procs, Save(p)
  PROVE  ChoiceInv'
<1> DEFINE s == [cli[p] EXCEPT !.at = "prompt"]
           r == IF cli[p].kind = "chat" THEN s ELSE Off
<1>1. /\ cli[p].at = "writing" /\ session' = cli[p].model /\ chosen' = cli[p].model
      /\ cli' = [cli EXCEPT ![p] = r] /\ UNCHANGED <<declared, turn, port, done>>
  BY DEF Save, Put
<1>2. cli[p] \in Commands /\ Prompted(cli[p], turn) /\ ~cli[p].stuck
  BY CommandIs
<1>3. cli[p].model \in Models /\ cli[p].turn = 0 /\ cli[p].expect \in {"any", cli[p].model}
  BY <1>1, <1>2 DEF Prompted
<1>4. s \in Commands /\ s.at = "prompt" /\ s.turn = 0 /\ s.model = cli[p].model
      /\ s.expect = cli[p].expect /\ s.kind = cli[p].kind /\ ~s.stuck
  BY <1>2, <1>3 DEF Commands
<1>5. cli[p].model # "none"
  BY <1>3 DEF ModelConstants
<1>6. Surroundings' /\ SavedChoice' /\ done'.faults >= done.faults
  BY <1>1, <1>3, <1>5, Around DEF Surroundings, SavedChoice, Names
<1> HIDE DEF s
<1>7. Prompted(s, turn) /\ ~Holds(s) /\ s.at # "asked"
  BY <1>3, <1>4 DEF Prompted, Holds
<1>8. Off \in Commands /\ Prompted(Off, turn) /\ ~Holds(Off) /\ Off.at # "asked" /\ ~Off.stuck
  BY OffIs DEF Prompted, Holds
<1>9. r \in Commands /\ Prompted(r, turn) /\ ~Holds(r) /\ r.at # "asked" /\ ~r.stuck
  BY <1>4, <1>7, <1>8
<1> HIDE DEF r
<1>10. QED BY <1>1, <1>6, <1>9, CalmStep

LEMMA SaveCrashesKept ==
  ASSUME ModelConstants, ChoiceInv, NEW p \in Procs, SaveCrashes(p)
  PROVE  ChoiceInv'
<1>1. done \in [starts : Nat, faults : Nat]
  BY DEF ChoiceInv, ChoiceTypes
<1>2. done' = [done EXCEPT !.faults = @ + 1]
  BY DEF SaveCrashes, Faulty
<1>3. done' \in [starts : Nat, faults : Nat] /\ done'.faults >= done.faults
  BY <1>1, <1>2
<1>4. cli' = [cli EXCEPT ![p] = Off] /\ UNCHANGED <<declared, session, turn, port, chosen>>
  BY DEF SaveCrashes, Put
<1>5. QED BY <1>3, <1>4, EndStep

LEMMA EditConfigKept ==
  ASSUME ModelConstants, ChoiceInv, NEW m \in Models, EditConfig(m)
  PROVE  ChoiceInv'
<1>1. done \in [starts : Nat, faults : Nat]
  BY DEF ChoiceInv, ChoiceTypes
<1>2. done' = [done EXCEPT !.faults = @ + 1] /\ declared' = declared \ {m}
      /\ UNCHANGED <<session, cli, turn, port, chosen>>
  BY DEF EditConfig, Faulty
<1>3. done' \in [starts : Nat, faults : Nat] /\ done'.faults >= done.faults
  BY <1>1, <1>2
<1>4. Surroundings' /\ SavedChoice'
  BY <1>2, <1>3, Around DEF Surroundings, SavedChoice
<1>5. QED BY <1>2, <1>3, <1>4, ServersOnly

LEMMA BootsKept ==
  ASSUME ModelConstants, ChoiceInv, NEW m \in Models, Boots(m)
  PROVE  ChoiceInv'
<1>1. port' = [serving |-> IF port.serving = "none" THEN m ELSE port.serving,
               starting |-> port.starting \ {m}]
      /\ UNCHANGED <<declared, session, cli, turn, chosen, done>>
  BY DEF Boots
<1>2. port \in [serving : Names, starting : SUBSET Models] /\ done \in [starts : Nat, faults : Nat]
  BY DEF ChoiceInv, ChoiceTypes
<1>3. port' \in [serving : Names, starting : SUBSET Models]
      /\ (port.serving # "none" => port'.serving = port.serving)
  BY <1>1, <1>2 DEF Names
<1>4. Surroundings' /\ SavedChoice' /\ done'.faults >= done.faults
  BY <1>1, <1>2, <1>3, Around DEF Surroundings, SavedChoice
<1>5. QED BY <1>1, <1>3, <1>4, ServersOnly

LEMMA ServerStopsKept ==
  ASSUME ModelConstants, ChoiceInv, ServerStops
  PROVE  ChoiceInv'
<1>1. port' = [port EXCEPT !.serving = "none"] /\ done' = [done EXCEPT !.faults = @ + 1]
      /\ UNCHANGED <<declared, session, cli, turn, chosen>>
  BY DEF ServerStops, Faulty
<1>2. port \in [serving : Names, starting : SUBSET Models] /\ done \in [starts : Nat, faults : Nat]
  BY DEF ChoiceInv, ChoiceTypes
<1>3. port' \in [serving : Names, starting : SUBSET Models]
  BY <1>1, <1>2 DEF Names
<1>4. done' \in [starts : Nat, faults : Nat] /\ done'.faults >= done.faults /\ done'.faults # 0
  BY <1>1, <1>2
<1>5. Surroundings' /\ SavedChoice'
  BY <1>1, <1>3, <1>4, Around DEF Surroundings, SavedChoice
<1>6. QED BY <1>1, <1>4, <1>5, ServersOnly

LEMMA QuitKept ==
  ASSUME ModelConstants, ChoiceInv, NEW p \in Procs, Quit(p)
  PROVE  ChoiceInv'
<1> DEFINE s == [cli[p] EXCEPT !.at = "prompt", !.now = 0, !.resumed = FALSE, !.left = TRUE,
                               !.expect = "any"]
           r == IF cli[p].kind = "chat" THEN s ELSE Off
<1>1. /\ cli[p].at = "asked" /\ cli' = [cli EXCEPT ![p] = r]
      /\ UNCHANGED <<declared, session, turn, port, chosen, done>>
  BY DEF Quit, Put
<1>2. /\ cli[p] \in Commands /\ Prompted(cli[p], turn) /\ ~cli[p].stuck
      /\ cli[p].turn = cli[p].now /\ cli[p].now \in DOMAIN turn
  BY <1>1, CommandIs
<1>3. s \in Commands /\ s.at = "prompt" /\ s.turn = cli[p].turn /\ s.model = cli[p].model
      /\ s.expect = "any" /\ s.kind = cli[p].kind /\ s.left /\ ~s.stuck
  BY <1>2 DEF Commands
<1>4. Surroundings' /\ SavedChoice' /\ done'.faults >= done.faults
  BY <1>1, Around DEF Surroundings, SavedChoice
<1> HIDE DEF s
<1>5. cli[p].kind = "chat" => Prompted(s, turn) /\ ~Holds(s) /\ s.at # "asked"
  BY <1>2, <1>3 DEF Prompted, Holds
<1>6. Off \in Commands /\ Prompted(Off, turn) /\ ~Holds(Off) /\ Off.at # "asked" /\ ~Off.stuck
  BY OffIs DEF Prompted, Holds
<1>7. r \in Commands /\ Prompted(r, turn) /\ ~Holds(r) /\ r.at # "asked" /\ ~r.stuck
  BY <1>3, <1>5, <1>6
<1> HIDE DEF r
<1>8. QED BY <1>1, <1>4, <1>7, CalmStep

LEMMA NewKept ==
  ASSUME ModelConstants, ChoiceInv, NEW p \in Procs, New(p)
  PROVE  ChoiceInv'
<1> DEFINE r == [cli[p] EXCEPT !.turn = 0, !.left = FALSE, !.expect = cli[p].model]
<1>1. /\ cli[p].at = "prompt" /\ cli[p].kind = "chat" /\ cli' = [cli EXCEPT ![p] = r]
      /\ UNCHANGED <<declared, session, turn, port, chosen, done>>
  BY DEF New, Put
<1>2. cli[p] \in Commands /\ ~cli[p].stuck /\ cli[p].model \in Models
  BY <1>1, CommandIs DEF Prompted
<1>3. r \in Commands /\ r.at = "prompt" /\ r.turn = 0 /\ r.model = cli[p].model
      /\ r.expect = r.model /\ ~r.stuck
  BY <1>1, <1>2 DEF Commands, Names
<1>4. Surroundings' /\ SavedChoice' /\ done'.faults >= done.faults
  BY <1>1, Around DEF Surroundings, SavedChoice
<1> HIDE DEF r
<1>5. Prompted(r, turn) /\ ~Holds(r) /\ r.at # "asked"
  BY <1>2, <1>3 DEF Prompted, Holds
<1>6. QED BY <1>1, <1>3, <1>4, <1>5, CalmStep

LEMMA ExitKept ==
  ASSUME ModelConstants, ChoiceInv, NEW p \in Procs, Exit(p)
  PROVE  ChoiceInv'
<1>1. done \in [starts : Nat, faults : Nat]
  BY DEF ChoiceInv, ChoiceTypes
<1>2. cli' = [cli EXCEPT ![p] = Off] /\ UNCHANGED <<declared, session, turn, port, chosen, done>>
  BY DEF Exit, Put
<1>3. done' \in [starts : Nat, faults : Nat] /\ done'.faults >= done.faults
  BY <1>1, <1>2
<1>4. QED BY <1>2, <1>3, EndStep

\* A new turn, bound to the model of the command or to that of the turn before.
LEMMA BeginsKept ==
  ASSUME ModelConstants, ChoiceInv, NEW p \in Procs, NEW model \in Models, NEW after \in 0..Len(turn),
         cli[p].at = "prompt", after > 0 => model = turn[after].model,
         cli[p].expect \in {"any", model}, Begins(p, model, after),
         UNCHANGED <<declared, session, port, chosen, done>>
  PROVE  ChoiceInv'
<1> DEFINE new == Bound(model, after, cli[p].expect)
           r == [cli[p] EXCEPT !.at = "preparing", !.now = Len(turn) + 1, !.resumed = FALSE]
<1>1. turn' = Append(turn, new) /\ cli' = [cli EXCEPT ![p] = r]
  BY DEF Begins, Put
<1>2. turn \in Seq(BoundTurns) /\ done.faults \in Nat /\ cli \in [Procs -> Commands]
  BY DEF ChoiceInv, ChoiceTypes
<1>3. cli[p] \in Commands /\ Prompted(cli[p], turn) /\ ~cli[p].stuck
  BY CommandIs
<1>4. /\ new \in BoundTurns /\ new.model = model /\ new.after = after /\ new.status = "running"
      /\ new.served = {} /\ new.expect = cli[p].expect
  BY <1>2, <1>3 DEF Bound, BoundTurns, Commands
<1>d. Len(turn) + 1 \in Nat
  BY <1>2
<1>5. /\ r \in Commands /\ r.at = "preparing" /\ r.now = Len(turn) + 1 /\ r.kind = cli[p].kind
      /\ r.model = cli[p].model /\ ~r.stuck
  BY <1>3, <1>d DEF Commands
<1> HIDE DEF new, r
<1>a. turn' \in Seq(BoundTurns) /\ Len(turn') = Len(turn) + 1 /\ Len(turn) \in Nat
  BY <1>1, <1>2, <1>4
<1>b. DOMAIN turn = 1..Len(turn) /\ DOMAIN turn' = 1..(Len(turn) + 1)
  BY <1>2, <1>a
<1>c. turn'[Len(turn) + 1] = new /\ \A u \in 1..Len(turn) : turn'[u] = turn[u]
  BY <1>1, <1>2, <1>4
<1>6. /\ turn' \in Seq(BoundTurns) /\ Len(turn') = Len(turn) + 1 /\ DOMAIN turn \subseteq DOMAIN turn'
      /\ turn'[Len(turn) + 1] = new /\ \A u \in DOMAIN turn : turn'[u] = turn[u]
  BY <1>a, <1>b, <1>c
<1>7. Prompted(r, turn') /\ r.at # "asked" /\ r.at # "running" /\ Holds(r)
  BY <1>3, <1>5 DEF Prompted, Holds
<1>8. \A u \in DOMAIN turn :
        /\ turn'[u].model = turn[u].model
        /\ Ended(turn[u]) => Ended(turn'[u])
  BY <1>6
<1>9. \A q \in Procs \ {p} : Holds(cli[q]) =>
        /\ turn'[cli[q].now].status = "running"
        /\ Holds(r) => cli[q].now # r.now
  <2> SUFFICES ASSUME NEW q \in Procs \ {p}, Holds(cli[q])
               PROVE  turn'[cli[q].now].status = "running" /\ cli[q].now # r.now
    OBVIOUS
  <2>1. cli[q].now \in DOMAIN turn /\ turn[cli[q].now].status = "running"
    BY DEF ChoiceInv, HeldTurns
  <2>2. turn'[cli[q].now] = turn[cli[q].now]
    BY <1>6, <2>1
  <2>3. cli[q].now # Len(turn) + 1
    BY <1>2, <2>1
  <2>4. QED BY <1>5, <2>1, <2>2, <2>3
<1>10. Holds(r) => r.now \in DOMAIN turn' /\ turn'[r.now].status = "running"
  BY <1>2, <1>4, <1>5, <1>6
<1>11. r.at = "asked" => r.now \in DOMAIN turn' /\ r.turn = r.now
  BY <1>7
<1>12. done'.faults = 0 =>
        /\ done.faults = 0
        /\ port.serving # "none" => port'.serving = port.serving
        /\ r.at = "running" /\ Catalog[turn'[r.now].model].local =>
             port'.serving \in Catalog[turn'[r.now].model].accepts
  BY <1>7
<1>13. HeldTurns' /\ AtPrompt' /\ Served' /\ ChatsGoOn'
  BY <1>1, <1>5, <1>6, <1>7, <1>8, <1>9, <1>10, <1>11, <1>12, CommandMoves
<1>14. ChoiceTypes' /\ SavedChoice'
  BY <1>1, <1>5, <1>6, Around DEF ChoiceInv, ChoiceTypes, SavedChoice
<1>15. /\ \A t \in DOMAIN turn : turn[t].after \in 0..(t - 1)
       /\ \A t \in DOMAIN turn :
            /\ turn[t].after > 0 => turn[t].model = turn[turn[t].after].model
            /\ turn[t].served \subseteq Catalog[turn[t].model].accepts \cup {turn[t].model}
               \/ done.faults > 0
            /\ turn[t].expect \in {"any", turn[t].model}
  BY DEF ChoiceInv, ModelsSound, BoundModels, ChosenModels
<1>16. ASSUME NEW t \in DOMAIN turn'
       PROVE  /\ turn'[t].after \in 0..(t - 1)
              /\ turn'[t].after > 0 => turn'[t].model = turn'[turn'[t].after].model
              /\ turn'[t].served \subseteq Catalog[turn'[t].model].accepts \cup {turn'[t].model}
                 \/ done'.faults > 0
              /\ turn'[t].expect \in {"any", turn'[t].model}
  <2>1. CASE t = Len(turn) + 1
    <3>1. turn'[t] = new
      BY <1>6, <2>1
    <3>2. after > 0 => after \in DOMAIN turn
      BY <1>2
    <3>3. after > 0 => model = turn'[after].model
      BY <1>6, <3>2
    <3>4. after \in 0..(t - 1)
      BY <1>2, <2>1
    <3>5. QED BY <1>4, <3>1, <3>3, <3>4
  <2>2. CASE t # Len(turn) + 1
    <3>1. t \in DOMAIN turn /\ t \in Nat
      BY <1>2, <1>6, <2>2
    <3>2. turn'[t] = turn[t]
      BY <1>6, <3>1
    <3>3. turn[t].after > 0 => turn[t].after \in DOMAIN turn
      BY <1>2, <1>15, <3>1
    <3>4. turn[t].after > 0 => turn'[turn[t].after] = turn[turn[t].after]
      BY <1>6, <3>3
    <3>5. QED BY <1>15, <3>1, <3>2, <3>4
  <2>3. QED BY <2>1, <2>2
<1>17. BoundModels' /\ ChosenModels' /\ (\A t \in DOMAIN turn : turn[t].after \in 0..(t - 1))'
  BY <1>16 DEF BoundModels, ChosenModels
<1>18. QED BY <1>13, <1>14, <1>17 DEF ChoiceInv, ModelsSound

LEMMA SendKept ==
  ASSUME ModelConstants, ChoiceInv, NEW p \in Procs, Send(p)
  PROVE  ChoiceInv'
<1> DEFINE r == cli[p]
           dropped == [Off EXCEPT !.stuck = ~r.left]
<1>1. r.at = "prompt" /\ UNCHANGED <<declared, session, port, chosen, done>>
  BY DEF Send
<1>2. r \in Commands /\ Prompted(r, turn) /\ turn \in Seq(BoundTurns)
      /\ done \in [starts : Nat, faults : Nat]
  BY CommandIs DEF ChoiceInv, ChoiceTypes
<1>3. done' \in [starts : Nat, faults : Nat] /\ done'.faults >= done.faults
  BY <1>1, <1>2
<1>4. CASE r.turn = 0
  <2>1. Begins(p, r.model, 0)
    BY <1>4 DEF Send
  <2>2. r.model \in Models /\ r.expect \in {"any", r.model}
    BY <1>1, <1>2, <1>4 DEF Prompted
  <2>3. 0 \in 0..Len(turn)
    BY <1>2
  <2>4. QED BY <1>1, <2>1, <2>2, <2>3, BeginsKept
<1>5. CASE r.turn # 0
  <2>1. r.turn \in DOMAIN turn /\ r.expect = "any" /\ (Ended(turn[r.turn]) \/ r.left)
    BY <1>1, <1>2, <1>5 DEF Prompted, Commands
  <2>2. turn[r.turn].model \in Models
    BY <2>1, TurnTypes
  <2>3. CASE ~(LoadConfig /\ turn[r.turn].model \in declared)
    <3>1. cli' = [cli EXCEPT ![p] = Off] /\ turn' = turn
      BY <1>5, <2>3 DEF Send, BindingModel, Put
    <3>2. QED BY <1>1, <1>3, <3>1, EndStep
  <2>4. CASE LoadConfig /\ turn[r.turn].model \in declared /\ Terminal(r.turn)
    <3>1. Begins(p, turn[r.turn].model, r.turn)
      BY <1>5, <2>4 DEF Send, BindingModel
    <3>2. r.turn \in 0..Len(turn)
      BY <1>2, <2>1
    <3>3. r.expect \in {"any", turn[r.turn].model}
      BY <2>1
    <3>4. QED BY <1>1, <2>2, <3>1, <3>2, <3>3, BeginsKept
  <2>5. CASE LoadConfig /\ turn[r.turn].model \in declared /\ ~Terminal(r.turn)
    <3>1. cli' = [cli EXCEPT ![p] = dropped] /\ turn' = turn
      BY <1>5, <2>5 DEF Send, BindingModel, Put
    <3>2. r.left
      BY <2>1, <2>5 DEF Terminal, Ended
    <3>3. dropped \in Commands /\ dropped.at = "off" /\ dropped.kind = "none" /\ ~dropped.stuck
      BY <3>2 DEF Off, Commands, Names
    <3> HIDE DEF dropped
    <3>4. Prompted(dropped, turn) /\ ~Holds(dropped) /\ dropped.at # "asked"
      BY <3>3 DEF Prompted, Holds
    <3>5. Surroundings' /\ SavedChoice'
      BY <1>1, Around DEF Surroundings, SavedChoice
    <3>6. QED BY <1>1, <1>3, <3>1, <3>3, <3>4, <3>5, CalmStep
  <2>6. QED BY <2>3, <2>4, <2>5
<1>6. QED BY <1>4, <1>5

LEMMA ResumesKept ==
  ASSUME ModelConstants, ChoiceInv, NEW p \in Procs, NEW t \in DOMAIN turn, NEW r \in Commands,
         r.kind = "chat" => r.model \in Models, ~r.stuck,
         turn[t].status \in {"paused", "interrupted"}, Resumes(p, t, r),
         UNCHANGED <<declared, session, port, chosen>>,
         done' \in [starts : Nat, faults : Nat], done'.faults >= done.faults
  PROVE  ChoiceInv'
<1>1. CASE LoadConfig /\ turn[t].model \in declared
  <2> DEFINE new == [turn[t] EXCEPT !.status = "running"]
             s == [r EXCEPT !.at = "preparing", !.now = t, !.resumed = TRUE]
  <2>1. turn' = [turn EXCEPT ![t] = new] /\ cli' = [cli EXCEPT ![p] = s]
    BY <1>1 DEF Resumes, Become, Put
  <2>2. turn[t] \in BoundTurns /\ turn \in Seq(BoundTurns)
    BY TurnTypes DEF ChoiceInv, ChoiceTypes
  <2>3. t \in Nat
    BY <2>2
  <2>4. /\ new \in BoundTurns /\ new.model = turn[t].model /\ new.after = turn[t].after
        /\ new.expect = turn[t].expect /\ new.served = turn[t].served /\ new.status = "running"
    BY <2>2 DEF BoundTurns
  <2>5. s \in Commands /\ s.at = "preparing" /\ s.now = t /\ s.kind = r.kind /\ s.model = r.model
        /\ ~s.stuck
    BY <2>3 DEF Commands
  <2> HIDE DEF new, s
  <2>6. Prompted(s, turn')
    BY <2>5 DEF Prompted
  <2>7. Holds(s) => s.now = t /\ new.status = "running" /\ s.at = "preparing"
    BY <2>4, <2>5
  <2>8. s.at = "asked" => s.now = t /\ s.turn = t
    BY <2>5
  <2>9. Surroundings' /\ SavedChoice' /\ port' = port
    BY Around DEF Surroundings, SavedChoice
  <2>10. new.served \subseteq
             turn[t].served \cup Catalog[turn[t].model].accepts \cup {turn[t].model}
           \/ done'.faults > 0
    BY <2>4
  <2>11. QED BY <2>1, <2>4, <2>5, <2>6, <2>7, <2>8, <2>9, <2>10, TurnStep
<1>2. CASE ~(LoadConfig /\ turn[t].model \in declared)
  <2>1. cli' = [cli EXCEPT ![p] = Off] /\ turn' = turn
    BY <1>2 DEF Resumes, Put
  <2>2. QED BY <2>1, EndStep
<1>3. QED BY <1>1, <1>2

LEMMA ResumeCommandKept ==
  ASSUME ModelConstants, ChoiceInv, NEW p \in Procs, NEW t \in DOMAIN turn, ResumeCommand(p, t)
  PROVE  ChoiceInv'
<1> DEFINE r == [Off EXCEPT !.kind = "resume"]
<1>1. /\ turn[t].status \in {"paused", "interrupted"} /\ Resumes(p, t, r)
      /\ UNCHANGED <<declared, session, port, chosen>> /\ done' = [done EXCEPT !.starts = @ + 1]
  BY DEF ResumeCommand
<1>2. done \in [starts : Nat, faults : Nat]
  BY DEF ChoiceInv, ChoiceTypes
<1>3. done' \in [starts : Nat, faults : Nat] /\ done'.faults >= done.faults
  BY <1>1, <1>2
<1>4. r \in Commands /\ r.kind = "resume" /\ ~r.stuck
  BY DEF Off, Commands, Names
<1>5. r.kind = "chat" => r.model \in Models
  BY <1>4
<1> HIDE DEF r
<1>6. QED BY <1>1, <1>3, <1>4, <1>5, ResumesKept

LEMMA AnswerKept ==
  ASSUME ModelConstants, ChoiceInv, NEW p \in Procs, Answer(p)
  PROVE  ChoiceInv'
<1> DEFINE r == cli[p]
<1>1. r.at = "asked" /\ UNCHANGED <<declared, session, port, chosen, done>>
  BY DEF Answer
<1>2. r \in Commands /\ Prompted(r, turn) /\ ~r.stuck /\ r.now \in DOMAIN turn
      /\ done \in [starts : Nat, faults : Nat]
  BY <1>1, CommandIs DEF ChoiceInv, ChoiceTypes
<1>3. done' \in [starts : Nat, faults : Nat] /\ done'.faults >= done.faults
  BY <1>1, <1>2
<1>4. CASE turn[r.now].status \in {"paused", "interrupted"}
  <2>1. Resumes(p, r.now, r)
    BY <1>4 DEF Answer
  <2>2. r.kind = "chat" => r.model \in Models
    BY <1>2 DEF Prompted
  <2>3. QED BY <1>1, <1>2, <1>3, <1>4, <2>1, <2>2, ResumesKept
<1>5. CASE turn[r.now].status \notin {"paused", "interrupted"}
  <2>1. cli' = [cli EXCEPT ![p] = Off] /\ turn' = turn
    BY <1>5 DEF Answer, Put
  <2>2. QED BY <1>1, <1>3, <2>1, EndStep
<1>6. QED BY <1>4, <1>5

\* A turn whose model cannot be had.
LEMMA UnavailableKept ==
  ASSUME ModelConstants, ChoiceInv, NEW p \in Procs, Holds(cli[p]), Unavailable(p),
         UNCHANGED <<declared, session, chosen, done>>
  PROVE  ChoiceInv'
<1> DEFINE t == cli[p].now
           status == IF cli[p].resumed THEN "interrupted" ELSE "failed"
           new == [turn[t] EXCEPT !.status = status]
<1>1. turn' = [turn EXCEPT ![t] = new] /\ cli' = [cli EXCEPT ![p] = Off] /\ port' = port
  BY DEF Unavailable, Become, Put
<1>2. t \in DOMAIN turn
  BY CommandIs
<1>3. turn[t] \in BoundTurns /\ status \in {"interrupted", "failed"}
  BY <1>2, TurnTypes
<1> HIDE DEF status
<1>4. /\ new \in BoundTurns /\ new.model = turn[t].model /\ new.after = turn[t].after
      /\ new.expect = turn[t].expect /\ new.served = turn[t].served
  BY <1>3 DEF BoundTurns
<1> HIDE DEF new
<1>5. /\ Off \in Commands /\ ~Off.stuck /\ Prompted(Off, turn')
      /\ Holds(Off) => Off.now = t /\ new.status = "running" /\ Off.at = "preparing"
      /\ Off.at = "asked" => Off.now = t /\ Off.turn = t
  BY OffIs DEF Prompted, Holds
<1>6. Surroundings' /\ SavedChoice' /\ done'.faults >= done.faults
  BY <1>1, Around DEF Surroundings, SavedChoice
<1>7. new.served \subseteq
          turn[t].served \cup Catalog[turn[t].model].accepts \cup {turn[t].model}
        \/ done'.faults > 0
  BY <1>4
<1>8. (Holds(cli[p]) /\ cli[p].now = t) \/ turn[t].status \in {"paused", "interrupted"}
  OBVIOUS
<1>9. QED BY <1>1, <1>2, <1>4, <1>5, <1>6, <1>7, <1>8, TurnStep

\* A turn whose model is there.
LEMMA ReadyKept ==
  ASSUME ModelConstants, ChoiceInv, NEW p \in Procs, Holds(cli[p]), Ready(p),
         ~Needed(p).local \/ Fits(p), UNCHANGED <<declared, session, chosen, done>>
  PROVE  ChoiceInv'
<1> DEFINE r == [cli[p] EXCEPT !.at = "running"]
<1>1. cli' = [cli EXCEPT ![p] = r] /\ turn' = turn /\ port' = port
  BY DEF Ready, Put
<1>2. cli[p] \in Commands /\ Prompted(cli[p], turn) /\ ~cli[p].stuck
  BY CommandIs
<1>3. r \in Commands /\ r.at = "running" /\ r.now = cli[p].now /\ r.kind = cli[p].kind
      /\ r.model = cli[p].model /\ ~r.stuck
  BY <1>2 DEF Commands
<1> HIDE DEF r
<1>4. Prompted(r, turn)
  BY <1>2, <1>3 DEF Prompted
<1>5. Surroundings' /\ SavedChoice' /\ done'.faults >= done.faults
  BY <1>1, Around DEF Surroundings, SavedChoice
<1>6. Holds(r) => Holds(cli[p]) /\ r.now = cli[p].now
  BY <1>3
<1>7. r.at = "asked" => r.now \in DOMAIN turn /\ r.turn = r.now
  BY <1>3
<1>8. done'.faults = 0 =>
        /\ port.serving # "none" => port'.serving = port.serving
        /\ r.at = "running" /\ Catalog[turn[r.now].model].local =>
             port'.serving \in Catalog[turn[r.now].model].accepts
  BY <1>1, <1>3 DEF Needed, Fits
<1>9. QED BY <1>1, <1>3, <1>4, <1>5, <1>6, <1>7, <1>8, QuietStep

LEMMA ResolveKept ==
  ASSUME ModelConstants, ChoiceInv, NEW p \in Procs, Resolve(p)
  PROVE  ChoiceInv'
<1>1. /\ cli[p].at = "preparing" /\ Holds(cli[p]) /\ UNCHANGED <<declared, session, chosen, done>>
  BY DEF Resolve, Holds
<1>2. CASE Unavailable(p)
  BY <1>1, <1>2, UnavailableKept
<1>3. CASE Ready(p) /\ (~Needed(p).local \/ Fits(p))
  BY <1>1, <1>3, ReadyKept
<1>4. CASE Launched(p) /\ Put(p, [cli[p] EXCEPT !.at = "waiting"]) /\ turn' = turn
  <2> DEFINE r == [cli[p] EXCEPT !.at = "waiting"]
  <2>1. /\ cli' = [cli EXCEPT ![p] = r] /\ turn' = turn
        /\ port' = [port EXCEPT !.starting = @ \cup {turn[cli[p].now].model}]
    BY <1>4 DEF Put, Launched
  <2>2. cli[p] \in Commands /\ Prompted(cli[p], turn) /\ ~cli[p].stuck /\ cli[p].now \in DOMAIN turn
    BY <1>1, CommandIs
  <2>3. r \in Commands /\ r.at = "waiting" /\ r.now = cli[p].now /\ r.kind = cli[p].kind
        /\ r.model = cli[p].model /\ ~r.stuck
    BY <2>2 DEF Commands
  <2> HIDE DEF r
  <2>4. Prompted(r, turn)
    BY <2>2, <2>3 DEF Prompted
  <2>5. turn[cli[p].now].model \in Models
    BY <2>2, TurnTypes
  <2>6. port \in [serving : Names, starting : SUBSET Models] /\ done.faults \in Nat
    BY DEF ChoiceInv, ChoiceTypes
  <2>7. port' \in [serving : Names, starting : SUBSET Models] /\ port'.serving = port.serving
    BY <2>1, <2>5, <2>6
  <2>8. Surroundings' /\ SavedChoice' /\ done'.faults >= done.faults
    BY <1>1, <2>6, <2>7, Around DEF Surroundings, SavedChoice
  <2>9. Holds(r) => Holds(cli[p]) /\ r.now = cli[p].now
    BY <1>1, <2>3
  <2>10. r.at = "asked" => r.now \in DOMAIN turn /\ r.turn = r.now
    BY <2>3
  <2>11. done'.faults = 0 =>
          /\ port.serving # "none" => port'.serving = port.serving
          /\ r.at = "running" /\ Catalog[turn[r.now].model].local =>
               port'.serving \in Catalog[turn[r.now].model].accepts
    BY <2>3, <2>7
  <2>12. QED BY <2>1, <2>3, <2>4, <2>8, <2>9, <2>10, <2>11, QuietStep
<1>5. QED BY <1>2, <1>3, <1>4 DEF Resolve

LEMMA PollKept ==
  ASSUME ModelConstants, ChoiceInv, NEW p \in Procs, Poll(p)
  PROVE  ChoiceInv'
<1>1. Holds(cli[p]) /\ UNCHANGED <<declared, session, chosen, done>>
  BY DEF Poll, Holds
<1>2. CASE Fits(p) /\ Ready(p)
  BY <1>1, <1>2, ReadyKept
<1>3. CASE Unavailable(p)
  BY <1>1, <1>3, UnavailableKept
<1>4. QED BY <1>2, <1>3 DEF Poll

LEMMA WorksKept ==
  ASSUME ModelConstants, ChoiceInv, NEW p \in Procs, NEW status \in {"completed", "failed", "paused"},
         Works(p, status)
  PROVE  ChoiceInv'
<1> DEFINE c == cli[p]
           t == c.now
           waits == [c EXCEPT !.at = "asked", !.turn = t]
           back == [c EXCEPT !.at = "prompt", !.turn = t, !.now = 0, !.resumed = FALSE,
                             !.expect = "any"]
           r == IF status = "paused" /\ c.kind # "resume" THEN waits
                ELSE IF c.kind = "chat" THEN back ELSE Off
           new == [turn[t] EXCEPT !.status = status,
                                  !.served = @ \cup ({Server(p)} \ {"none"})]
           Fitting == /\ Prompted(r, turn') /\ r \in Commands /\ ~r.stuck
                      /\ Holds(r) => r.now = t /\ new.status = "running" /\ r.at = "preparing"
                      /\ r.at = "asked" => r.now = t /\ r.turn = t
<1>1. c.at = "running" /\ Holds(c) /\ UNCHANGED <<declared, session, port, chosen, done>>
  BY DEF Works, Holds
<1>2. c \in Commands /\ Prompted(c, turn) /\ ~c.stuck /\ t \in DOMAIN turn
  BY <1>1, CommandIs
<1>3. turn[t] \in BoundTurns /\ turn[t].model \in Models /\ turn \in Seq(BoundTurns)
  BY <1>2, TurnTypes DEF ChoiceInv, ChoiceTypes
<1>4. t \in Nat
  BY <1>2, <1>3
<1>5. turn' = [turn EXCEPT ![t] = new] /\ cli' = [cli EXCEPT ![p] = r]
  <2>1. turn' = [turn EXCEPT ![t].status = status,
                             ![t].served = @ \cup ({Server(p)} \ {"none"})]
    BY DEF Works
  <2>2. turn' = [turn EXCEPT ![t] = new]
    BY <1>2, <1>3, <2>1
  <2>3. QED BY <2>2 DEF Works, Put
<1>6. port.serving \in Names /\ done.faults \in Nat
  BY DEF ChoiceInv, ChoiceTypes
<1>7. {Server(p)} \ {"none"} \subseteq Models
  BY <1>3, <1>6 DEF Server, Names
<1>8. done.faults = 0 =>
        {Server(p)} \ {"none"} \subseteq Catalog[turn[t].model].accepts \cup {turn[t].model}
  BY <1>1 DEF Server, Needed, ChoiceInv, Served
<1>9. /\ new \in BoundTurns /\ new.model = turn[t].model /\ new.after = turn[t].after
      /\ new.expect = turn[t].expect /\ new.status = status
      /\ new.served = turn[t].served \cup ({Server(p)} \ {"none"})
  BY <1>3, <1>7 DEF BoundTurns
<1>10. new.served \subseteq
           turn[t].served \cup Catalog[turn[t].model].accepts \cup {turn[t].model}
         \/ done'.faults > 0
  BY <1>1, <1>6, <1>8, <1>9
<1> HIDE DEF new
<1>a. turn' \in Seq(BoundTurns) /\ turn'[t] = new /\ DOMAIN turn' = DOMAIN turn
  BY <1>2, <1>3, <1>5, <1>9
<1>11. /\ waits \in Commands /\ waits.at = "asked" /\ waits.turn = t /\ waits.now = t
       /\ waits.kind = c.kind /\ waits.model = c.model /\ ~waits.stuck
  BY <1>2, <1>4 DEF Commands
<1>12. /\ back \in Commands /\ back.at = "prompt" /\ back.turn = t /\ back.expect = "any"
       /\ back.kind = c.kind /\ back.model = c.model /\ ~back.stuck
  BY <1>2, <1>4 DEF Commands
<1> HIDE DEF waits, back
<1>13. ASSUME status = "paused" /\ c.kind # "resume" PROVE Fitting
  <2>1. r = waits
    BY <1>13
  <2>2. Prompted(r, turn')
    BY <1>2, <1>11, <2>1 DEF Prompted
  <2>3. /\ Holds(r) => r.now = t /\ new.status = "running" /\ r.at = "preparing"
        /\ r.at = "asked" => r.now = t /\ r.turn = t
        /\ r \in Commands /\ ~r.stuck
    BY <1>11, <2>1 DEF Holds
  <2>4. QED BY <2>2, <2>3
<1>14. ASSUME ~(status = "paused" /\ c.kind # "resume"), c.kind = "chat" PROVE Fitting
  <2>1. r = back
    BY <1>14
  <2>2. status \in {"completed", "failed"}
    BY <1>14
  <2>3. t \in DOMAIN turn' /\ Ended(turn'[t]) /\ t > 0
    BY <1>2, <1>3, <1>9, <1>a, <2>2 DEF Ended
  <2>4. Prompted(r, turn')
    BY <1>2, <1>12, <2>1, <2>3 DEF Prompted
  <2>5. /\ Holds(r) => r.now = t /\ new.status = "running" /\ r.at = "preparing"
        /\ r.at = "asked" => r.now = t /\ r.turn = t
        /\ r \in Commands /\ ~r.stuck
    BY <1>12, <2>1 DEF Holds
  <2>6. QED BY <2>4, <2>5
<1>15. ASSUME ~(status = "paused" /\ c.kind # "resume"), c.kind # "chat" PROVE Fitting
  <2>1. r = Off
    BY <1>15
  <2>2. QED BY <2>1, OffIs DEF Prompted, Holds
<1>16. Fitting
  BY <1>13, <1>14, <1>15
<1> HIDE DEF r
<1>17. Surroundings' /\ SavedChoice' /\ done'.faults >= done.faults /\ port' = port
  BY <1>1, <1>6, Around DEF Surroundings, SavedChoice
<1>18. (Holds(cli[p]) /\ cli[p].now = t) \/ turn[t].status \in {"paused", "interrupted"}
  BY <1>1
<1>19. QED BY <1>2, <1>5, <1>9, <1>10, <1>16, <1>17, <1>18, TurnStep

\* agent.py:219, models.py:117, cli.py:693 and :718, for every catalog, any number of processes,
\* commands, turns, switches, edits of the configuration, crashes and stopped servers: the turns of a
\* context keep the model of the first and only that model works in them, a message is answered by
\* the model that was chosen for it, and no chat is ended by a turn it cannot continue.
THEOREM TurnsKeepTheirModel == ModelConstants => (ModelSpec => []ModelsSound)
<1> SUFFICES ASSUME ModelConstants PROVE ModelSpec => []ModelsSound
  OBVIOUS
<1>1. ModelInit => ChoiceInv
  BY ChoiceStart
<1>2. ChoiceInv /\ [ModelNext]_modelVars => ChoiceInv'
  <2> SUFFICES ASSUME ChoiceInv, [ModelNext]_modelVars PROVE ChoiceInv'
    OBVIOUS
  <2>1. CASE \E p \in Procs, option \in Models \cup {"none"}, after \in 0..Len(turn),
                kind \in {"chat", "run"} : Start(p, kind, option, after)
    BY <2>1, StartKept
  <2>2. CASE \E p \in Procs, m \in Models : Slash(p, m) \/ SwitchModel(p, m)
    BY <2>2, SlashKept, SwitchKept
  <2>3. CASE \E p \in Procs, t \in DOMAIN turn : ResumeCommand(p, t)
    BY <2>3, ResumeCommandKept
  <2>4. CASE \E p \in Procs, status \in {"completed", "failed", "paused"} : Works(p, status)
    BY <2>4, WorksKept
  <2>5. CASE \E p \in Procs : SaveOpens(p) \/ Save(p) \/ SaveCrashes(p)
    BY <2>5, SaveOpensKept, SaveKept, SaveCrashesKept
  <2>6. CASE \E p \in Procs : Send(p) \/ Answer(p) \/ Quit(p) \/ New(p) \/ Exit(p)
    BY <2>6, SendKept, AnswerKept, QuitKept, NewKept, ExitKept
  <2>7. CASE \E p \in Procs : Resolve(p) \/ Poll(p)
    BY <2>7, ResolveKept, PollKept
  <2>8. CASE \E m \in Models : EditConfig(m) \/ Boots(m)
    BY <2>8, EditConfigKept, BootsKept
  <2>9. CASE ServerStops
    BY <2>9, ServerStopsKept
  <2>10. CASE UNCHANGED modelVars
    <3>1. UNCHANGED <<declared, session, cli, turn, port, chosen, done>>
      BY <2>10 DEF modelVars
    <3>2. done \in [starts : Nat, faults : Nat]
      BY DEF ChoiceInv, ChoiceTypes
    <3>3. Surroundings' /\ SavedChoice' /\ done'.faults >= done.faults
      BY <3>1, <3>2, Around DEF Surroundings, SavedChoice
    <3>4. QED BY <3>1, <3>3, ServersOnly
  <2>11. QED
    BY <2>1, <2>2, <2>3, <2>4, <2>5, <2>6, <2>7, <2>8, <2>9, <2>10 DEF ModelNext
<1>3. ChoiceInv => ModelsSound
  BY DEF ChoiceInv
<1>4. QED BY <1>1, <1>2, <1>3, PTL DEF ModelSpec

-----------------------------------------------------------------------------
(* The plan of a turn. *)

Statuses == {"pending", "in_progress", "completed", "blocked"}
PlanSteps == [id : Nat, status : Statuses, calls : Seq(Nat)]
Plans ==
  [status : {"active", "needs_replan", "complete", "blocked"}, revision : Nat, active : Nat,
   steps : Seq(PlanSteps)]
Events ==
  [type : {"initialized", "decision_progress", "needs_replan", "observation_progress", "llm_update",
           "closed"}, revision : Nat]
Books == [plan : Plans, log : Seq(Events)]

\* The log of a book tells its newest revisions without a gap.
Logged(b) ==
  /\ b.log # <<>> /\ b.log[Len(b.log)].revision = b.plan.revision
  /\ \A i \in 1..(Len(b.log) - 1) : b.log[i + 1].revision = b.log[i].revision + 1

\* While the turn runs: no step is blocked, one that is done and has calls has one that succeeded,
\* and a plan that calls itself complete is.
Proven(b, won) ==
  /\ b.plan.status # "blocked" /\ \A i \in DOMAIN b.plan.steps : b.plan.steps[i].status # "blocked"
  /\ \A i \in DOMAIN b.plan.steps :
       LET step == b.plan.steps[i]
       IN  step.status = "completed" /\ step.calls # <<>> => ToSet(step.calls) \cap won # {}
  /\ b.plan.status = "complete" =>
       \A i \in DOMAIN b.plan.steps : b.plan.steps[i].status = "completed"

PlanInv ==
  /\ book \in Books /\ sent \in Nat /\ earned \in SUBSET Nat
  /\ waiting \in [calls : SUBSET Nat, update : Submissions \cup {<<>>}]
  /\ outcome \in {"running", "completed", "failed"}
  /\ Logged(book) /\ book.plan.active \in StepIds(book.plan.steps)
  /\ outcome = "running" => Proven(book, earned)
  /\ FailureShown /\ CompletionShown

Recorded(b) == b \in Books /\ Logged(b) /\ b.plan.active \in StepIds(b.plan.steps)

\* The fields of a step, and of a step that is changed.
LEMMA StepFields ==
  ASSUME NEW s \in PlanSteps
  PROVE  /\ s.id \in Nat /\ s.status \in Statuses /\ s.calls \in Seq(Nat)
         /\ \A status \in Statuses :
              /\ [s EXCEPT !.status = status] \in PlanSteps
              /\ [s EXCEPT !.status = status].id = s.id
              /\ [s EXCEPT !.status = status].calls = s.calls
              /\ [s EXCEPT !.status = status].status = status
         /\ \A status \in Statuses, calls \in Seq(Nat) :
              [s EXCEPT !.status = status, !.calls = calls] \in PlanSteps
<1>1. s = [id |-> s.id, status |-> s.status, calls |-> s.calls]
  BY DEF PlanSteps
<1>2. s.id \in Nat /\ s.status \in Statuses /\ s.calls \in Seq(Nat)
  BY DEF PlanSteps
<1> QED
  BY <1>1, <1>2 DEF PlanSteps

\* The step that comes next is one of the plan.
LEMMA NextIsThere ==
  ASSUME NEW steps \in Seq(PlanSteps), steps # <<>>
  PROVE  NextStep(steps) \in StepIds(steps)
<1>1. 1 \in DOMAIN steps /\ DOMAIN steps \subseteq Nat
  OBVIOUS
<1> DEFINE under == WithStatus(steps, "in_progress")
           ahead == WithStatus(steps, "pending")
           S == IF under # {} THEN under ELSE IF ahead # {} THEN ahead ELSE {1}
<1>2. S \subseteq DOMAIN steps /\ S # {}
  BY <1>1 DEF WithStatus
<1>3. Min(S) \in S
  BY <1>1, <1>2, MinIn
<1> QED
  BY <1>2, <1>3 DEF NextStep, StepIds

\* A new revision is entered at the end of the log, of which only the newest events are kept.
LEMMA EntryFits ==
  ASSUME PlanConstants, NEW b \in Books, Logged(b), NEW type, NEW plan \in Plans,
         [type |-> type, revision |-> plan.revision + 1] \in Events, plan.revision = b.plan.revision
  PROVE  /\ Entered(b, type, plan).plan = [plan EXCEPT !.revision = @ + 1]
         /\ Entered(b, type, plan) \in Books /\ Logged(Entered(b, type, plan))
<1> DEFINE event == [type |-> type, revision |-> plan.revision + 1]
           log == Append(b.log, event)
           k == Min({Len(log), MaxLog})
           kept == SubSeq(log, Len(log) - k + 1, Len(log))
           revised == [plan EXCEPT !.revision = @ + 1]
<1>1. revised \in Plans /\ revised.revision = plan.revision + 1
  BY DEF Plans
<1>2. /\ log \in Seq(Events) /\ Len(log) = Len(b.log) + 1 /\ Len(b.log) \in Nat \ {0}
      /\ log[Len(log)].revision = plan.revision + 1
      /\ \A i \in 1..Len(b.log) : log[i] = b.log[i]
  BY DEF Books, Logged
<1> HIDE DEF log
<1>3. k \in 1..Len(log)
  <2>1. {Len(log), MaxLog} \in SUBSET Nat /\ {Len(log), MaxLog} # {}
    BY <1>2 DEF PlanConstants
  <2>2. k \in {Len(log), MaxLog} /\ k <= Len(log)
    BY <2>1, MinIn
  <2> QED
    BY <1>2, <2>2 DEF PlanConstants, Books
<1> HIDE DEF k
<1>4. kept \in Seq(Events) /\ Len(kept) = k /\ \A i \in 1..k : kept[i] = log[Len(log) - k + i]
  <2>1. \A i \in (Len(log) - k + 1)..Len(log) : log[i] \in Events
    BY <1>2, <1>3
  <2> QED
    BY <1>2, <1>3, <2>1, SubSeqProperties
<1>5. \A i \in 1..(Len(log) - 1) : log[i + 1].revision = log[i].revision + 1
  <2> SUFFICES ASSUME NEW i \in 1..(Len(log) - 1) PROVE log[i + 1].revision = log[i].revision + 1
    OBVIOUS
  <2>1. b.log \in Seq(Events)
    BY DEF Books
  <2>2. CASE i = Len(b.log)
    BY <1>2, <2>1, <2>2 DEF Logged
  <2>3. CASE i < Len(b.log)
    BY <1>2, <2>1, <2>3 DEF Logged
  <2> QED
    BY <1>2, <2>1, <2>2, <2>3
<1>6. kept # <<>> /\ kept[Len(kept)].revision = plan.revision + 1
  BY <1>2, <1>3, <1>4 DEF Books
<1>7. \A i \in 1..(Len(kept) - 1) : kept[i + 1].revision = kept[i].revision + 1
  <2> SUFFICES ASSUME NEW i \in 1..(Len(kept) - 1) PROVE kept[i + 1].revision = kept[i].revision + 1
    OBVIOUS
  <2> HIDE DEF kept
  <2>1. kept[i] = log[Len(log) - k + i] /\ kept[i + 1] = log[(Len(log) - k + i) + 1]
    BY <1>2, <1>3, <1>4
  <2>2. Len(log) - k + i \in 1..(Len(log) - 1)
    BY <1>2, <1>3, <1>4
  <2> QED
    BY <1>5, <2>1, <2>2
<1> HIDE DEF kept
<1>8. Entered(b, type, plan) = [plan |-> revised, log |-> kept]
  BY <1>1 DEF Entered, kept, k, log
<1> HIDE DEF revised, event
<1>9. [plan |-> revised, log |-> kept] \in Books /\ Logged([plan |-> revised, log |-> kept])
  BY <1>1, <1>4, <1>6, <1>7 DEF Books, Logged
<1> QED
  BY <1>8, <1>9 DEF revised

\* With the calls of a decision the plan tells the truth it told before.
LEMMA DecidedFits ==
  ASSUME PlanConstants, NEW b, Recorded(b), NEW calls \in Seq(Nat), NEW won, Proven(b, won)
  PROVE  Recorded(Decided(b, calls)) /\ Proven(Decided(b, calls), won)
<1>1. CASE calls = <<>> \/ OpenSteps(b.plan) = {}
  BY <1>1 DEF Decided
<1>2. CASE calls # <<>> /\ OpenSteps(b.plan) # {}
  <2> DEFINE at == StepUnderWay(b.plan)
             bound == b.plan.steps[at].calls \o calls
             few == SubSeq(bound, 1, Min({Len(bound), StepRefs}))
             steps == [b.plan.steps EXCEPT ![at].status = "in_progress", ![at].calls = few]
             plan == [b.plan EXCEPT !.steps = steps, !.active = steps[at].id]
  <2>1. b.plan \in Plans /\ b.plan.steps \in Seq(PlanSteps)
    BY DEF Recorded, Books, Plans
  <2>2. at \in DOMAIN b.plan.steps /\ b.plan.steps[at].status \in Open
    <3> DEFINE active == {i \in OpenSteps(b.plan) : b.plan.steps[i].id = b.plan.active}
               S == IF active # {} THEN active ELSE OpenSteps(b.plan)
    <3>1. S \in SUBSET Nat /\ S # {} /\ S \subseteq OpenSteps(b.plan)
      BY <1>2, <2>1 DEF OpenSteps
    <3>2. Min(S) \in S
      BY <3>1, MinIn
    <3> QED
      BY <3>1, <3>2 DEF StepUnderWay, OpenSteps
  <2> HIDE DEF at
  <2>3. bound \in Seq(Nat)
    <3>1. b.plan.steps[at].calls \in Seq(Nat)
      <4>1. b.plan.steps[at] \in PlanSteps
        BY <2>1, <2>2
      <4> QED
        BY <4>1, StepFields
    <3> QED
      BY <3>1
  <2>4. few \in Seq(Nat)
    <3>1. {Len(bound), StepRefs} \in SUBSET Nat /\ {Len(bound), StepRefs} # {}
      <4>1. StepRefs \in Nat
        BY DEF PlanConstants
      <4>2. Len(bound) \in Nat
        BY <2>3
      <4> HIDE DEF bound
      <4> QED
        BY <4>1, <4>2
    <3>2. Min({Len(bound), StepRefs}) \in {Len(bound), StepRefs} /\ Min({Len(bound), StepRefs}) <= Len(bound)
      BY <3>1, MinIn
    <3> DEFINE n == Min({Len(bound), StepRefs})
    <3> HIDE DEF bound, n
    <3>3. n \in 0..Len(bound)
      <4>1. Len(bound) \in Nat /\ StepRefs \in Nat
        <5>1. StepRefs \in Nat
          BY DEF PlanConstants
        <5> QED
          BY <2>3, <5>1
      <4> QED
        BY <3>2, <4>1 DEF n
    <3>4. SubSeq(bound, 1, n) \in Seq(Nat)
      BY <2>3, <3>3
    <3> QED
      BY <3>4 DEF n
  <2> HIDE DEF few, bound
  <2>5. /\ steps \in Seq(PlanSteps) /\ DOMAIN steps = DOMAIN b.plan.steps
        /\ steps[at] = [b.plan.steps[at] EXCEPT !.status = "in_progress", !.calls = few]
        /\ \A i \in DOMAIN steps : i # at => steps[i] = b.plan.steps[i]
    <3>1. b.plan.steps[at] \in PlanSteps
      BY <2>1, <2>2
    <3>2. [b.plan.steps[at] EXCEPT !.status = "in_progress", !.calls = few] \in PlanSteps
      BY <2>4, <3>1, StepFields DEF Statuses
    <3>3. steps = [b.plan.steps EXCEPT ![at] = [b.plan.steps[at] EXCEPT !.status = "in_progress", !.calls = few]]
      BY <2>1, <2>2, <3>1 DEF PlanSteps
    <3> HIDE DEF steps
    <3> QED
      BY <2>1, <2>2, <3>2, <3>3
  <2>6. steps[at].status = "in_progress" /\ steps[at].id \in Nat
    BY <2>1, <2>2, <2>5 DEF PlanSteps
  <2> HIDE DEF steps
  <2>7. plan \in Plans /\ plan.revision = b.plan.revision /\ plan.steps = steps
        /\ plan.active = steps[at].id /\ plan.status = b.plan.status
    BY <2>1, <2>5, <2>6 DEF Plans
  <2>8. Decided(b, calls) = Entered(b, "decision_progress", plan)
    BY <1>2 DEF Decided, steps, few, bound, at
  <2> HIDE DEF plan
  <2>9. [type |-> "decision_progress", revision |-> plan.revision + 1] \in Events
    BY <2>7 DEF Plans, Events
  <2>10. /\ Decided(b, calls).plan = [plan EXCEPT !.revision = @ + 1]
         /\ Decided(b, calls) \in Books /\ Logged(Decided(b, calls))
    BY <2>7, <2>8, <2>9, EntryFits DEF Recorded
  <2>11. /\ Decided(b, calls).plan.steps = steps /\ Decided(b, calls).plan.active = steps[at].id
         /\ Decided(b, calls).plan.status = b.plan.status
    BY <2>7, <2>10 DEF Plans
  <2>12. Recorded(Decided(b, calls))
    BY <2>2, <2>5, <2>10, <2>11 DEF Recorded, StepIds
  <2>13. b.plan.status # "complete"
    BY <2>2 DEF Proven, Open
  <2>14. Proven(Decided(b, calls), won)
    BY <2>2, <2>5, <2>6, <2>11, <2>13 DEF Proven
  <2> QED
    BY <2>12, <2>14
<1> QED
  BY <1>1, <1>2

\* What has been observed is what the steps that are done now have earned.
LEMMA ObservedFits ==
  ASSUME PlanConstants, NEW b, Recorded(b), NEW new \in SUBSET Nat, NEW won, Proven(b, won)
  PROVE  Recorded(Observed(b, new)) /\ Proven(Observed(b, new), won \cup new)
<1> DEFINE reached == {i \in OpenSteps(b.plan) : ToSet(b.plan.steps[i].calls) \cap new # {}}
           steps == [i \in DOMAIN b.plan.steps |->
                       IF i \in reached THEN [b.plan.steps[i] EXCEPT !.status = "completed"]
                       ELSE b.plan.steps[i]]
<1>1. b.plan \in Plans /\ b.plan.steps \in Seq(PlanSteps) /\ b.plan.steps # <<>>
  BY DEF Recorded, Books, Plans, StepIds
<1>2. CASE new = {}
  BY <1>2 DEF Observed, Proven, Recorded
<1>3. CASE new # {} /\ reached = {}
  <2> DEFINE plan == [b.plan EXCEPT !.status = "needs_replan"]
  <2>1. /\ plan \in Plans /\ plan.revision = b.plan.revision /\ plan.steps = b.plan.steps
        /\ plan.active = b.plan.active /\ plan.status = "needs_replan"
    BY <1>1 DEF Plans
  <2>2. Observed(b, new) = Entered(b, "needs_replan", plan)
    BY <1>3 DEF Observed
  <2> HIDE DEF plan
  <2>3. [type |-> "needs_replan", revision |-> plan.revision + 1] \in Events
    BY <2>1 DEF Plans, Events
  <2>4. /\ Observed(b, new).plan = [plan EXCEPT !.revision = @ + 1]
        /\ Observed(b, new) \in Books /\ Logged(Observed(b, new))
    BY <2>1, <2>2, <2>3, EntryFits DEF Recorded
  <2>5. /\ Observed(b, new).plan.steps = b.plan.steps /\ Observed(b, new).plan.active = b.plan.active
        /\ Observed(b, new).plan.status = "needs_replan"
    BY <2>1, <2>4 DEF Plans
  <2> QED
    BY <2>4, <2>5 DEF Recorded, Proven
<1>4. CASE new # {} /\ reached # {}
  <2> DEFINE S == DOMAIN b.plan.steps
  <2>0. S = 1..Len(b.plan.steps) /\ Len(b.plan.steps) \in Nat \ {0}
    BY <1>1
  <2>1. /\ steps \in Seq(PlanSteps) /\ DOMAIN steps = S /\ steps # <<>>
        /\ \A i \in S : steps[i].calls = b.plan.steps[i].calls /\ steps[i].id = b.plan.steps[i].id
        /\ \A i \in reached : steps[i].status = "completed"
        /\ \A i \in S \ reached : steps[i].status = b.plan.steps[i].status
    <3>1. \A i \in S : b.plan.steps[i] \in PlanSteps
      BY <1>1
    <3>2. \A i \in S : steps[i] = IF i \in reached THEN [b.plan.steps[i] EXCEPT !.status = "completed"]
                                 ELSE b.plan.steps[i]
      OBVIOUS
    <3>3. DOMAIN steps = S /\ reached \subseteq S
      BY DEF OpenSteps
    <3> HIDE DEF steps, reached, S
    <3>4. "completed" \in Statuses
      BY DEF Statuses
    <3>5. \A i \in S : /\ steps[i] \in PlanSteps /\ steps[i].calls = b.plan.steps[i].calls
                       /\ steps[i].id = b.plan.steps[i].id
                       /\ steps[i].status = IF i \in reached THEN "completed" ELSE b.plan.steps[i].status
      <4> SUFFICES ASSUME NEW i \in S
                   PROVE  /\ steps[i] \in PlanSteps /\ steps[i].calls = b.plan.steps[i].calls
                          /\ steps[i].id = b.plan.steps[i].id
                          /\ steps[i].status = IF i \in reached THEN "completed" ELSE b.plan.steps[i].status
        OBVIOUS
      <4>1. b.plan.steps[i] \in PlanSteps
        BY <3>1
      <4>2. CASE i \in reached
        <5> DEFINE old == b.plan.steps[i]
        <5>1. steps[i] = [old EXCEPT !.status = "completed"]
          BY <3>2, <4>2
        <5> HIDE DEF old
        <5>2. /\ [old EXCEPT !.status = "completed"] \in PlanSteps
              /\ [old EXCEPT !.status = "completed"].id = old.id
              /\ [old EXCEPT !.status = "completed"].calls = old.calls
              /\ [old EXCEPT !.status = "completed"].status = "completed"
          BY <3>4, <4>1, StepFields DEF old
        <5> QED
          BY <4>2, <5>1, <5>2 DEF old
      <4>3. CASE i \notin reached
        BY <3>2, <4>1, <4>3
      <4> QED
        BY <4>2, <4>3
    <3>6. steps = [i \in S |-> steps[i]]
      BY <3>3 DEF steps
    <3>7. steps \in [1..Len(b.plan.steps) -> PlanSteps]
      BY <2>0, <3>5, <3>6
    <3>8. steps \in Seq(PlanSteps) /\ Len(steps) = Len(b.plan.steps)
      BY <2>0, <3>7
    <3> QED
      BY <2>0, <3>3, <3>5, <3>8
  <2> HIDE DEF steps
  <2> DEFINE active == ActiveStep(b.plan.active, steps)
             plan == [b.plan EXCEPT !.status = "active", !.steps = steps, !.active = active]
  <2>2. active \in StepIds(steps)
    BY <2>1, NextIsThere DEF ActiveStep
  <2>3. active \in Nat
    <3>1. PICK i \in DOMAIN steps : active = steps[i].id
      BY <2>2 DEF StepIds
    <3>2. steps[i] \in PlanSteps
      BY <2>1
    <3> QED BY <3>1, <3>2, StepFields
  <2> HIDE DEF active
  <2>4. /\ plan \in Plans /\ plan.revision = b.plan.revision /\ plan.steps = steps
        /\ plan.active = active /\ plan.status = "active"
    BY <1>1, <2>1, <2>3 DEF Plans
  <2>5. Observed(b, new) = Entered(b, "observation_progress", plan)
    BY <1>1, <1>4 DEF Observed, steps, active, Plans
  <2> HIDE DEF plan
  <2>6. [type |-> "observation_progress", revision |-> plan.revision + 1] \in Events
    BY <2>4 DEF Plans, Events
  <2>7. /\ Observed(b, new).plan = [plan EXCEPT !.revision = @ + 1]
        /\ Observed(b, new) \in Books /\ Logged(Observed(b, new))
    BY <2>4, <2>5, <2>6, EntryFits DEF Recorded
  <2>8. /\ Observed(b, new).plan.steps = steps /\ Observed(b, new).plan.active = active
        /\ Observed(b, new).plan.status = "active"
    BY <2>4, <2>7 DEF Plans
  <2>9. Recorded(Observed(b, new))
    BY <2>2, <2>7, <2>8 DEF Recorded
  <2>10. Proven(Observed(b, new), won \cup new)
    BY <2>1, <2>8 DEF Proven
  <2> QED
    BY <2>9, <2>10
<1> QED
  BY <1>2, <1>3, <1>4

\* A plan the model submits is not believed for having been called complete.
LEMMA ReplacedFits ==
  ASSUME PlanConstants, NEW b, Recorded(b), NEW statuses \in Submissions, NEW won
  PROVE  Recorded(Replaced(b, statuses)) /\ Proven(Replaced(b, statuses), won)
<1> DEFINE k == Min({Len(statuses), MaxSteps})
           steps == [i \in 1..k |-> [id |-> i, status |-> statuses[i], calls |-> <<>>]]
           finished == \A i \in DOMAIN steps : steps[i].status = "completed"
<1>1. b.plan \in Plans
  BY DEF Recorded, Books
<1>2. statuses \in Seq({"pending", "in_progress", "completed"}) /\ statuses # <<>>
  BY DEF PlanConstants
<1>3. k \in 1..Len(statuses)
  <2>1. {Len(statuses), MaxSteps} \in SUBSET Nat /\ {Len(statuses), MaxSteps} # {}
    BY <1>2 DEF PlanConstants
  <2>2. k \in {Len(statuses), MaxSteps} /\ k <= Len(statuses)
    BY <2>1, MinIn
  <2> QED
    BY <1>2, <2>2 DEF PlanConstants
<1> HIDE DEF k
<1>4. /\ steps \in Seq(PlanSteps) /\ steps # <<>>
      /\ \A i \in DOMAIN steps : steps[i].calls = <<>> /\ steps[i].status # "blocked"
  <2>1. \A i \in 1..k : [id |-> i, status |-> statuses[i], calls |-> <<>>] \in PlanSteps
    <3>1. <<>> \in Seq(Nat)
      OBVIOUS
    <3> QED BY <1>2, <1>3, <3>1 DEF PlanSteps, Statuses
  <2>2. steps \in Seq(PlanSteps) /\ Len(steps) = k
    <3>1. k \in Nat /\ steps \in [1..k -> PlanSteps]
      BY <1>3, <2>1
    <3> HIDE DEF steps
    <3> QED BY <3>1
  <2> QED
    BY <1>2, <1>3, <2>2
<1> HIDE DEF steps
<1> DEFINE plan == [b.plan EXCEPT !.status = IF finished THEN "complete" ELSE "active",
                                  !.active = NextStep(steps), !.steps = steps]
<1>5. NextStep(steps) \in StepIds(steps)
  BY <1>4, NextIsThere
<1>6. NextStep(steps) \in Nat
  <2>1. PICK i \in DOMAIN steps : NextStep(steps) = steps[i].id
    BY <1>5 DEF StepIds
  <2>2. steps[i] \in PlanSteps
    BY <1>4
  <2> QED BY <2>1, <2>2, StepFields
<1> DEFINE status == IF finished THEN "complete" ELSE "active"
<1>7. status \in {"complete", "active"} /\ (status = "complete" => finished)
  OBVIOUS
<1> HIDE DEF status
<1>8. plan = [b.plan EXCEPT !.status = status, !.active = NextStep(steps), !.steps = steps]
  BY DEF status
<1>9. /\ plan \in Plans /\ plan.revision = b.plan.revision /\ plan.steps = steps
      /\ plan.active = NextStep(steps) /\ plan.status = status
  BY <1>1, <1>4, <1>6, <1>7, <1>8 DEF Plans
<1>10. Replaced(b, statuses) = Entered(b, "llm_update", plan)
  BY DEF Replaced, steps, k
<1> HIDE DEF plan
<1>11. [type |-> "llm_update", revision |-> plan.revision + 1] \in Events
  BY <1>9 DEF Plans, Events
<1>12. /\ Replaced(b, statuses).plan = [plan EXCEPT !.revision = @ + 1]
       /\ Replaced(b, statuses) \in Books /\ Logged(Replaced(b, statuses))
  BY <1>9, <1>10, <1>11, EntryFits DEF Recorded
<1>13. /\ Replaced(b, statuses).plan.steps = steps /\ Replaced(b, statuses).plan.active = NextStep(steps)
       /\ Replaced(b, statuses).plan.status = status
  BY <1>9, <1>12 DEF Plans
<1> QED
  BY <1>4, <1>5, <1>7, <1>12, <1>13 DEF Recorded, Proven

\* A plan is closed as the turn ends: a failed turn claims what was earned, a completed one is done.
LEMMA ClosedFits ==
  ASSUME PlanConstants, NEW b, Recorded(b), NEW won, Proven(b, won), NEW status \in {"complete", "blocked"}
  PROVE  /\ Recorded(Closed(b, status)) /\ Closed(b, status).plan.status = status
         /\ LET steps == Closed(b, status).plan.steps
            IN  /\ status = "complete" => \A i \in DOMAIN steps : steps[i].status = "completed"
                /\ status = "blocked" => \A i \in DOMAIN steps :
                     steps[i].status = "completed" => ToSet(steps[i].calls) \cap won # {}
<1> DEFINE mark == IF status = "blocked" THEN "blocked" ELSE "completed"
           shut == {i \in DOMAIN b.plan.steps : ClosedBy(b.plan.steps[i], status)}
           steps == [i \in DOMAIN b.plan.steps |->
                       IF ClosedBy(b.plan.steps[i], status) THEN [b.plan.steps[i] EXCEPT !.status = mark]
                       ELSE b.plan.steps[i]]
           plan == [b.plan EXCEPT !.status = status, !.steps = steps]
           S == DOMAIN b.plan.steps
<1>1. /\ b.plan \in Plans /\ b.plan.steps \in Seq(PlanSteps)
      /\ S = 1..Len(b.plan.steps) /\ Len(b.plan.steps) \in Nat
  BY DEF Recorded, Books, Plans
<1>2. CASE b.plan.status = status
  <2>1. status = "complete"
    BY <1>2 DEF Proven
  <2> QED
    BY <1>2, <2>1 DEF Closed, Proven
<1>3. CASE b.plan.status # status
  <2>1. \A i \in S : b.plan.steps[i] \in PlanSteps
    BY <1>1
  <2>2. /\ \A i \in S : steps[i] = IF i \in shut THEN [b.plan.steps[i] EXCEPT !.status = mark]
                                   ELSE b.plan.steps[i]
        /\ DOMAIN steps = S /\ mark \in Statuses
    BY DEF Statuses
  <2>3. \A i \in S \ shut : ~ClosedBy(b.plan.steps[i], status)
    OBVIOUS
  <2> HIDE DEF steps, shut, S, mark
  <2>4. \A i \in S : /\ steps[i] \in PlanSteps /\ steps[i].calls = b.plan.steps[i].calls
                     /\ steps[i].id = b.plan.steps[i].id
                     /\ steps[i].status = IF i \in shut THEN mark ELSE b.plan.steps[i].status
    <3> SUFFICES ASSUME NEW i \in S
                 PROVE  /\ steps[i] \in PlanSteps /\ steps[i].calls = b.plan.steps[i].calls
                        /\ steps[i].id = b.plan.steps[i].id
                        /\ steps[i].status = IF i \in shut THEN mark ELSE b.plan.steps[i].status
      OBVIOUS
    <3>1. CASE i \in shut
      <4> DEFINE old == b.plan.steps[i]
      <4>1. steps[i] = [old EXCEPT !.status = mark]
        BY <2>2, <3>1
      <4>2. old \in PlanSteps
        BY <2>1
      <4> HIDE DEF old
      <4>3. /\ [old EXCEPT !.status = mark] \in PlanSteps
            /\ [old EXCEPT !.status = mark].id = old.id
            /\ [old EXCEPT !.status = mark].calls = old.calls
            /\ [old EXCEPT !.status = mark].status = mark
        BY <2>2, <4>2, StepFields
      <4> QED
        BY <3>1, <4>1, <4>3 DEF old
    <3>2. CASE i \notin shut
      BY <2>1, <2>2, <3>2
    <3> QED
      BY <3>1, <3>2
  <2>5. steps \in Seq(PlanSteps)
    <3>1. steps = [i \in S |-> steps[i]]
      BY <2>2 DEF steps
    <3>2. steps \in [1..Len(b.plan.steps) -> PlanSteps]
      BY <1>1, <2>4, <3>1
    <3> QED
      BY <1>1, <3>2
  <2>6. /\ plan \in Plans /\ plan.revision = b.plan.revision /\ plan.steps = steps
        /\ plan.active = b.plan.active /\ plan.status = status
    BY <1>1, <2>5 DEF Plans
  <2>7. Closed(b, status) = Entered(b, "closed", plan)
    BY <1>3 DEF Closed, steps, mark
  <2> HIDE DEF plan
  <2>8. [type |-> "closed", revision |-> plan.revision + 1] \in Events
    BY <2>6 DEF Plans, Events
  <2>9. /\ Closed(b, status).plan = [plan EXCEPT !.revision = @ + 1]
        /\ Closed(b, status) \in Books /\ Logged(Closed(b, status))
    BY <2>6, <2>7, <2>8, EntryFits DEF Recorded
  <2>10. /\ Closed(b, status).plan.steps = steps /\ Closed(b, status).plan.active = b.plan.active
         /\ Closed(b, status).plan.status = status
    BY <2>6, <2>9 DEF Plans
  <2>11. Recorded(Closed(b, status))
    BY <2>2, <2>4, <2>9, <2>10 DEF Recorded, StepIds, S
  <2>12. status = "complete" => \A i \in S : steps[i].status = "completed"
    <3> SUFFICES ASSUME status = "complete", NEW i \in S PROVE steps[i].status = "completed"
      OBVIOUS
    <3>1. b.plan.steps[i].status \in Statuses \ {"blocked"}
      BY <2>1, StepFields DEF Proven, S
    <3>2. i \notin shut => b.plan.steps[i].status = "completed"
      BY <2>3, <3>1 DEF ClosedBy, Open, Statuses
    <3> QED
      BY <2>4, <3>2 DEF mark
  <2>13. status = "blocked" => \A i \in S :
           steps[i].status = "completed" => ToSet(steps[i].calls) \cap won # {}
    <3> SUFFICES ASSUME status = "blocked", NEW i \in S, steps[i].status = "completed"
                 PROVE  ToSet(steps[i].calls) \cap won # {}
      OBVIOUS
    <3>1. i \notin shut /\ b.plan.steps[i].status = "completed"
      BY <2>4 DEF mark
    <3>2. b.plan.steps[i].calls # <<>>
      BY <2>3, <3>1 DEF ClosedBy
    <3> QED
      BY <2>4, <3>1, <3>2 DEF Proven, S
  <2> QED
    BY <2>2, <2>10, <2>11, <2>12, <2>13
<1> QED
  BY <1>2, <1>3

LEMMA PlanStart ==
  ASSUME PlanConstants, PlanInit
  PROVE  PlanInv
<1>1. <<>> \in Seq(Nat)
  OBVIOUS
<1> DEFINE step == [id |-> 0, status |-> "pending", calls |-> <<>>]
<1>2. step \in PlanSteps /\ step.status = "pending" /\ step.id = 0
  BY <1>1 DEF PlanSteps, Statuses
<1> HIDE DEF step
<1> DEFINE plan == [status |-> "active", revision |-> 0, active |-> 0, steps |-> <<step>>]
           event == [type |-> "initialized", revision |-> 0]
<1>3. plan \in Plans /\ event \in Events
  BY <1>2 DEF Plans, Events
<1>4. /\ plan.status = "active" /\ plan.active = 0 /\ plan.revision = 0 /\ plan.steps = <<step>>
      /\ event.revision = 0
  OBVIOUS
<1> HIDE DEF plan, event
<1>5. book = [plan |-> plan, log |-> <<event>>]
  BY DEF PlanInit, InitialBook, plan, event, step
<1>6. book \in Books /\ Logged(book)
  BY <1>3, <1>4, <1>5 DEF Books, Logged
<1>7. book.plan.active \in StepIds(book.plan.steps) /\ Proven(book, {})
  BY <1>2, <1>4, <1>5 DEF StepIds, Proven
<1> QED
  BY <1>6, <1>7 DEF PlanInit, PlanInv, Nothing, FailureShown, CompletionShown

LEMMA PlanStepKeeps ==
  ASSUME PlanConstants, PlanInv, [PlanNext]_planVars
  PROVE  PlanInv'
<1>1. Recorded(book) /\ (outcome = "running" => Proven(book, earned))
  BY DEF PlanInv, Recorded
<1>2. ASSUME NEW n \in Nat, NEW update \in Submissions \cup {<<>>}, Decide(n, update) PROVE PlanInv'
  <2> DEFINE calls == [i \in 1..n |-> sent + i]
  <2>1. calls \in Seq(Nat)
    <3>1. calls \in [1..n -> Nat]
      BY DEF PlanInv
    <3> HIDE DEF calls
    <3> QED
      BY <3>1
  <2>2. book' = Decided(book, calls) /\ outcome = "running" /\ UNCHANGED <<earned, outcome>>
    BY <1>2 DEF Decide
  <2> HIDE DEF calls
  <2>3. Recorded(book') /\ Proven(book', earned)
    BY <1>1, <2>1, <2>2, DecidedFits
  <2>4. waiting' \in [calls : SUBSET Nat, update : Submissions \cup {<<>>}] /\ sent' \in Nat
    BY <1>2 DEF Decide, PlanInv
  <2> QED
    BY <2>2, <2>3, <2>4 DEF PlanInv, Recorded, FailureShown, CompletionShown
<1>3. ASSUME NEW successes \in SUBSET waiting.calls, NEW left \in SUBSET (waiting.calls \ successes),
             NEW accepted \in BOOLEAN, accepted => waiting.update # <<>>,
             Record(successes, left, accepted)
      PROVE  PlanInv'
  <2>1. waiting.calls \subseteq Nat /\ waiting.update \in Submissions \cup {<<>>}
    BY DEF PlanInv
  <2>2. successes \in SUBSET Nat /\ left \in SUBSET Nat
    BY <2>1
  <2>3. /\ outcome = "running" /\ UNCHANGED <<sent, outcome>> /\ earned' = earned \cup successes
        /\ book' = IF accepted THEN Replaced(Observed(book, successes), waiting.update)
                   ELSE Observed(book, successes)
        /\ waiting' = [calls |-> left, update |-> <<>>]
    BY <1>3 DEF Record
  <2>4. Recorded(Observed(book, successes)) /\ Proven(Observed(book, successes), earned')
    BY <1>1, <2>2, <2>3, ObservedFits
  <2>5. Recorded(book') /\ Proven(book', earned')
    <3>1. CASE accepted
      <4>1. waiting.update \in Submissions
        BY <1>3, <2>1, <3>1
      <4> QED
        BY <2>3, <2>4, <3>1, <4>1, ReplacedFits
    <3>2. CASE ~accepted
      BY <2>3, <2>4, <3>2
    <3> QED
      BY <3>1, <3>2
  <2> QED
    BY <2>2, <2>3, <2>5 DEF PlanInv, Recorded, FailureShown, CompletionShown
<1>4. CASE Complete
  <2>1. outcome = "running" /\ outcome' = "completed" /\ book' = Closed(book, "complete")
        /\ UNCHANGED <<waiting, sent, earned>>
    BY <1>4 DEF Complete
  <2>2. /\ Recorded(book') /\ book'.plan.status = "complete"
        /\ \A i \in DOMAIN book'.plan.steps : book'.plan.steps[i].status = "completed"
    BY <1>1, <2>1, ClosedFits
  <2> QED
    BY <2>1, <2>2 DEF PlanInv, Recorded, FailureShown, CompletionShown
<1>5. CASE Fail
  <2>1. outcome = "running" /\ outcome' = "failed" /\ book' = Closed(book, "blocked")
        /\ UNCHANGED <<waiting, sent, earned>>
    BY <1>5 DEF Fail
  <2>2. /\ Recorded(book') /\ book'.plan.status = "blocked"
        /\ \A i \in DOMAIN book'.plan.steps : book'.plan.steps[i].status = "completed" =>
             ToSet(book'.plan.steps[i].calls) \cap earned # {}
    BY <1>1, <2>1, ClosedFits
  <2> QED
    BY <2>1, <2>2 DEF PlanInv, Recorded, FailureShown, CompletionShown
<1>6. CASE UNCHANGED planVars
  BY <1>6 DEF planVars, PlanInv, Logged, Proven, StepIds, FailureShown, CompletionShown
<1>7. 0..Min({MaxBatch, MaxCalls - sent}) \subseteq Nat
  OBVIOUS
<1> QED
  BY <1>2, <1>3, <1>4, <1>5, <1>6, <1>7 DEF PlanNext

\* planning.py:370: however often the model rewrites its plan, whatever calls it makes, in whichever
\* parts their results come, and whenever the turn ends: what is shown after a failure has been
\* earned, what is shown after completion is done, and the log has no gap.
THEOREM PlansTellTrue == PlanConstants => (PlanSpec => []PlansHonest)
<1> SUFFICES ASSUME PlanConstants PROVE PlanSpec => []PlansHonest
  OBVIOUS
<1>1. PlanInit => PlanInv
  BY PlanStart
<1>2. PlanInv /\ [PlanNext]_planVars => PlanInv'
  BY PlanStepKeeps
<1>3. PlanInv => PlansHonest
  <2> SUFFICES ASSUME PlanInv PROVE PlansHonest
    OBVIOUS
  <2>1. book.log \in Seq(Events)
    BY DEF PlanInv, Books
  <2>2. Last(book.log).revision = book.plan.revision
    BY <2>1 DEF PlanInv, Logged, Last
  <2> QED
    BY <2>2 DEF PlanInv, Logged, PlansHonest, HistoryShown
<1>4. QED
  BY <1>1, <1>2, <1>3, PTL DEF PlanSpec

-----------------------------------------------------------------------------
(* The calls of the SDK. *)

\* The fields of a call, whatever its tools are.
Fields ==
  {"at", "server", "started", "stack", "warned", "tools", "service", "use", "connection", "search",
   "runtime", "outcome", "alone", "cut", "slow"}
Shaped(s) ==
  /\ s = [f \in Fields |-> s[f]]
  /\ s.at \in {"idle", "opening", "working", "closing", "provider", "servers", "done"}
  /\ s.server \in Nat \ {0} /\ s.connection \in Nat
  /\ s.alone \in BOOLEAN /\ s.cut \in BOOLEAN /\ s.slow \in BOOLEAN
  /\ s.use \in {"none", "connecting", "using"}
  /\ s.search \in {"none", "running", "abandoned"}
  /\ s.runtime \in {"none", "open", "closing", "closed"}

\* What a call has started is on its stack, but for the server it is at and what was given up.
Stacked(s, entered) ==
  /\ s.at = "opening" =>
       /\ s.started \subseteq 1..s.server /\ (s.server \in s.started => s.server \in entered) /\ ~s.cut
       /\ ~s.slow => s.started \subseteq s.stack \cup {s.server}
  /\ ~s.slow /\ ~s.cut =>
       /\ s.at \in {"working", "closing", "provider", "servers"} => s.started \subseteq s.stack
       /\ s.at = "done" => s.started = {}

\* What a call uses belongs to the place it is at.
Placed(s) ==
  /\ s.use # "none" => s.at = "working" /\ s.search # "running"
  /\ s.connection > 0 => (s.at = "working" /\ s.use = "using") \/ s.at = "closing"
  /\ s.search = "running" => s.at = "working"
  /\ s.at = "opening" => s.runtime = "none"
  /\ s.runtime = "open" => s.at \in {"working", "closing"}
  /\ s.runtime \in {"closing", "closed"} => s.at \in {"provider", "servers", "done"}
  /\ s.at = "provider" => s.runtime = "closing"
  /\ s.at \in {"servers", "done"} /\ s.runtime = "closing" => s.slow

Handled(s, entered) == Shaped(s) /\ Stacked(s, entered) /\ Placed(s)

Counted ==
  /\ spent = [cancels |-> spent.cancels, late |-> spent.late, shared |-> spent.shared]
  /\ spent.cancels \in Nat /\ spent.late \in Nat /\ spent.shared \in BOOLEAN
  /\ dialled \in Nat /\ saver \in Nat

\* A call that is alone is the only one, and as long as no two have met, each is alone.
Solitary ==
  /\ \A c, d \in Calls : Active(c) /\ sdk[c].alone /\ Active(d) => c = d
  /\ ~spent.shared => \A c \in Calls : Active(c) => sdk[c].alone

\* While no close has been given up, the saver is open, and so is what a call uses that is alone.
Connected ==
  spent.late = 0 =>
    /\ saver # 0 => saver \in connected
    /\ \A c \in Calls : sdk[c].use = "using" /\ sdk[c].alone => sdk[c].connection \in connected
    /\ \A c \in Calls : sdk[c].outcome = "unsaved" => ~sdk[c].alone

\* While moreover no two calls have met, nothing but the saver is open, for a call to close.
Owned ==
  spent.late = 0 /\ ~spent.shared =>
    /\ connected = IF saver = 0 THEN {} ELSE {saver}
    /\ saver # 0 => \E c \in Calls : sdk[c].at \in {"working", "closing"}
    /\ \A c \in Calls : sdk[c].use = "connecting" => saver = 0
    /\ \A c \in Calls : sdk[c].at = "closing" /\ sdk[c].connection > 0 => sdk[c].connection = saver

AgentInv ==
  /\ sdk = [c \in Calls |-> sdk[c]] /\ \A c \in Calls : Handled(sdk[c], DOMAIN Enabled)
  /\ Counted /\ Solitary /\ Connected /\ Owned

\* A call keeps its shape whatever is done to its fields, and no field but these has to be looked at.
LEMMA Reshaped ==
  ASSUME NEW s, Shaped(s), NEW r, r = [f \in Fields |-> r[f]],
         r.at \in {"idle", "opening", "working", "closing", "provider", "servers", "done"},
         r.server \in {s.server, s.server + 1}, r.connection \in Nat, r.alone = s.alone,
         r.cut = s.cut \/ r.cut \in BOOLEAN, r.slow = s.slow \/ r.slow = TRUE,
         r.use \in {"none", "connecting", "using"}, r.search \in {"none", "running", "abandoned"},
         r.runtime \in {"none", "open", "closing", "closed"}
  PROVE  Shaped(r)
<1>1. r.server \in Nat \ {0}
  BY DEF Shaped
<1>2. r.alone \in BOOLEAN /\ r.cut \in BOOLEAN /\ r.slow \in BOOLEAN
  BY Zenon DEF Shaped
<1> QED
  BY <1>1, <1>2 DEF Shaped

\* One call moves.
LEMMA OneMoves ==
  ASSUME AgentInv, NEW c \in Calls, NEW r, Moves(c, r), UNCHANGED entries, Handled(r, DOMAIN Enabled),
         r.at \notin {"idle", "done"} => Active(c), r.alone = sdk[c].alone,
         Counted', spent'.shared = spent.shared, Connected', Owned'
  PROVE  AgentInv'
<1>1. sdk' = [d \in Calls |-> sdk'[d]] /\ sdk'[c] = r /\ \A d \in Calls : d # c => sdk'[d] = sdk[d]
  BY DEF AgentInv, Moves
<1>2. (DOMAIN Enabled)' = DOMAIN Enabled
  BY DEF Enabled
<1>3. \A d \in Calls : Handled(sdk'[d], (DOMAIN Enabled)')
  BY <1>1, <1>2 DEF AgentInv
<1>4. \A d \in Calls : Active(d)' => Active(d) /\ sdk'[d].alone = sdk[d].alone
  BY <1>1 DEF Active
<1>5. Solitary'
  BY <1>4 DEF AgentInv, Solitary
<1> QED
  BY <1>1, <1>3, <1>5 DEF AgentInv

\* Where the saver stays as it is, a call that moves may take it up, drop it, or leave it to be closed.
LEMMA SaverUntouched ==
  ASSUME AgentInv, NEW c \in Calls, NEW r, Moves(c, r), SaverStays, Handled(r, DOMAIN Enabled),
         r.alone = sdk[c].alone, spent'.shared = spent.shared, Counted',
         spent'.late = 0 => spent.late = 0,
         spent'.late = 0 =>
           /\ r.use = "using" =>
                (sdk[c].use = "using" /\ r.connection = sdk[c].connection) \/ (saver # 0 /\ r.connection = saver)
           /\ r.outcome = "unsaved" =>
                sdk[c].outcome = "unsaved" \/ (sdk[c].use = "using" /\ sdk[c].connection \notin connected)
           /\ r.use = "connecting" => sdk[c].use = "connecting" \/ saver = 0
           /\ r.at = "closing" /\ r.connection > 0 =>
                (sdk[c].at = "closing" /\ r.connection = sdk[c].connection) \/ r.connection = saver
           /\ sdk[c].at \in {"working", "closing"} => r.at \in {"working", "closing"} \/ saver = 0
  PROVE  Connected' /\ Owned'
<1>1. sdk'[c] = r /\ \A d \in Calls : d # c => sdk'[d] = sdk[d]
  BY DEF AgentInv, Moves
<1>2. saver' = saver /\ connected' = connected
  BY DEF SaverStays
<1>3. Connected /\ Owned
  BY DEF AgentInv
<1>4. Connected'
  BY <1>1, <1>2, <1>3 DEF Connected
<1>5. Owned'
  <2> SUFFICES ASSUME spent'.late = 0, ~spent'.shared
               PROVE  /\ connected = IF saver = 0 THEN {} ELSE {saver}
                      /\ saver # 0 => \E d \in Calls : sdk'[d].at \in {"working", "closing"}
                      /\ \A d \in Calls : sdk'[d].use = "connecting" => saver = 0
                      /\ \A d \in Calls : sdk'[d].at = "closing" /\ sdk'[d].connection > 0
                                            => sdk'[d].connection = saver
    BY <1>2 DEF Owned
  <2>1. spent.late = 0 /\ ~spent.shared
    OBVIOUS
  <2>2. saver # 0 => \E d \in Calls : sdk'[d].at \in {"working", "closing"}
    <3> SUFFICES ASSUME saver # 0 PROVE \E d \in Calls : sdk'[d].at \in {"working", "closing"}
      OBVIOUS
    <3>1. PICK d \in Calls : sdk[d].at \in {"working", "closing"}
      BY <1>3, <2>1 DEF Owned
    <3> QED
      BY <1>1, <3>1
  <2> QED
    BY <1>1, <1>3, <2>1, <2>2 DEF Owned
<1> QED
  BY <1>4, <1>5

\* The same, with the counts of what happened to it.
LEMMA CallMoves ==
  ASSUME AgentInv, NEW c \in Calls, NEW r, Moves(c, r), SaverStays, UNCHANGED entries,
         Handled(r, DOMAIN Enabled), r.alone = sdk[c].alone,
         UNCHANGED spent \/ Late \/ spent' = [spent EXCEPT !.cancels = @ + 1],
         r.at \notin {"idle", "done"} => Active(c),
         r.use = "using" =>
           (sdk[c].use = "using" /\ r.connection = sdk[c].connection) \/ (saver # 0 /\ r.connection = saver),
         r.outcome = "unsaved" =>
           sdk[c].outcome = "unsaved" \/ (sdk[c].use = "using" /\ sdk[c].connection \notin connected),
         r.use = "connecting" => sdk[c].use = "connecting" \/ saver = 0,
         r.at = "closing" /\ r.connection > 0 =>
           (sdk[c].at = "closing" /\ r.connection = sdk[c].connection) \/ r.connection = saver,
         sdk[c].at \in {"working", "closing"} => r.at \in {"working", "closing"} \/ saver = 0
  PROVE  AgentInv'
<1>1. Counted' /\ spent'.shared = spent.shared /\ (spent'.late = 0 => spent.late = 0)
  <2>1. Counted
    BY DEF AgentInv
  <2>2. CASE UNCHANGED spent
    BY <2>1, <2>2 DEF Counted, SaverStays
  <2>3. CASE Late
    BY <2>1, <2>3 DEF Counted, SaverStays, Late
  <2>4. CASE spent' = [spent EXCEPT !.cancels = @ + 1]
    BY <2>1, <2>4 DEF Counted, SaverStays
  <2> QED
    BY <2>2, <2>3, <2>4
<1>2. Connected' /\ Owned'
  BY <1>1, SaverUntouched
<1> QED
  BY <1>1, <1>2, OneMoves

LEMMA AgentStart ==
  ASSUME AgentInit
  PROVE  AgentInv
<1>1. Shaped(Idle) /\ Stacked(Idle, DOMAIN Enabled) /\ Placed(Idle)
  <2>1. Idle = [f \in Fields |-> Idle[f]]
    BY DEF Idle, Fields
  <2>2. /\ Idle.at = "idle" /\ Idle.use = "none" /\ Idle.connection = 0 /\ Idle.search = "none"
        /\ Idle.runtime = "none" /\ Idle.server = 1 /\ Idle.alone = TRUE /\ Idle.cut = FALSE
        /\ Idle.slow = FALSE
    BY DEF Idle
  <2>3. Idle.alone \in BOOLEAN /\ Idle.cut \in BOOLEAN /\ Idle.slow \in BOOLEAN /\ ~Idle.slow
    BY <2>2
  <2>4. Shaped(Idle)
    BY <2>1, <2>2, <2>3 DEF Shaped
  <2>5. Stacked(Idle, DOMAIN Enabled) /\ Placed(Idle)
    BY <2>2 DEF Stacked, Placed
  <2> QED
    BY <2>4, <2>5
<1>2. \A c \in Calls : sdk[c] = Idle
  BY DEF AgentInit
<1>3. Idle.at = "idle" /\ Idle.use = "none" /\ Idle.outcome = "none" /\ Idle.alone = TRUE
  BY DEF Idle
<1> QED
  BY <1>1, <1>2, <1>3 DEF AgentInit, AgentInv, Handled, Counted, Solitary, Active, Connected, Owned

\* What a call does with its servers.
LEMMA ServerMoves ==
  ASSUME AgentInv, NEW c \in Calls,
         ServerStarts(c) \/ ServerReady(c) \/ ServerFails(c) \/ Build(c) \/ BuildFails(c)
  PROVE  AgentInv'
<1> DEFINE s == sdk[c]
           n == DOMAIN Enabled
<1>1. Shaped(s) /\ Stacked(s, n) /\ Placed(s) /\ s.at = "opening" /\ s.server \in Nat \ {0}
  BY DEF AgentInv, Handled, Shaped, ServerStarts, ServerReady, ServerFails, Build, BuildFails
<1> HIDE DEF n
<1>2. CASE ServerStarts(c)
  <2> DEFINE r == [s EXCEPT !.started = @ \cup {s.server}]
  <2>1. Moves(c, r) /\ SaverStays /\ UNCHANGED entries /\ (UNCHANGED spent \/ Late) /\ s.server \in n
    BY <1>2 DEF ServerStarts, n
  <2>2. /\ r.at = s.at /\ r.server = s.server /\ r.started = s.started \cup {s.server}
        /\ r.stack = s.stack /\ r.use = s.use /\ r.connection = s.connection
        /\ r.search = s.search /\ r.runtime = s.runtime /\ r.outcome = s.outcome
        /\ r.alone = s.alone /\ r.cut = s.cut /\ r.slow = s.slow
    BY <1>1 DEF Shaped, Fields
  <2>3. r = [f \in Fields |-> r[f]]
    BY <1>1 DEF Shaped, Fields
  <2> HIDE DEF r
  <2>5. Shaped(r)
    BY <1>1, <2>2, <2>3, Reshaped DEF Shaped
  <2>4. Stacked(r, n) /\ Placed(r)
    BY <1>1, <2>1, <2>2 DEF Stacked, Placed
  <2> QED
    BY <1>1, <2>1, <2>2, <2>4, <2>5, CallMoves DEF Active, n, Handled, Placed
<1>3. CASE ServerReady(c)
  <2> DEFINE r == [s EXCEPT !.stack = @ \cup {s.server},
                                 !.tools = @ \o Descriptors(Enabled[s.server]), !.server = @ + 1]
  <2>1. Moves(c, r) /\ SaverStays /\ UNCHANGED entries /\ (UNCHANGED spent \/ Late)
    BY <1>3 DEF ServerReady, n
  <2>2. /\ r.at = s.at /\ r.server = s.server + 1 /\ r.started = s.started
        /\ r.stack = s.stack \cup {s.server} /\ r.use = s.use
        /\ r.connection = s.connection /\ r.search = s.search /\ r.runtime = s.runtime
        /\ r.outcome = s.outcome /\ r.alone = s.alone /\ r.cut = s.cut
        /\ r.slow = s.slow
    BY <1>1 DEF Shaped, Fields
  <2>3. r = [f \in Fields |-> r[f]]
    BY <1>1 DEF Shaped, Fields
  <2> HIDE DEF r
  <2>5. Shaped(r)
    BY <1>1, <2>2, <2>3, Reshaped DEF Shaped
  <2>4. Stacked(r, n) /\ Placed(r)
    BY <1>1, <2>1, <2>2 DEF Stacked, Placed
  <2> QED
    BY <1>1, <2>1, <2>2, <2>4, <2>5, CallMoves DEF Active, n, Handled, Placed
<1>4. CASE ServerFails(c)
  <2>0. SaverStays /\ UNCHANGED entries
    BY <1>4 DEF ServerFails
  <2>1. CASE Moves(c, Stopped(s)) /\ UNCHANGED spent
    <3> DEFINE r == Stopped(s)
    <3>1. Moves(c, r) /\ SaverStays /\ UNCHANGED entries /\ (UNCHANGED spent \/ Late)
      BY <2>0, <2>1 DEF n
    <3>2. /\ r.at = s.at /\ r.server = s.server + 1
          /\ r.started = s.started \ {s.server} /\ r.stack = s.stack /\ r.use = s.use
          /\ r.connection = s.connection /\ r.search = s.search /\ r.runtime = s.runtime
          /\ r.outcome = s.outcome /\ r.alone = s.alone /\ r.cut = s.cut
          /\ r.slow = s.slow
      BY <1>1 DEF Shaped, Fields, Stopped
    <3>3. r = [f \in Fields |-> r[f]]
      BY <1>1 DEF Shaped, Fields, Stopped
    <3> HIDE DEF r
    <3>5. Shaped(r)
      BY <1>1, <3>2, <3>3, Reshaped DEF Shaped
    <3>4. Stacked(r, n) /\ Placed(r)
      BY <1>1, <3>1, <3>2 DEF Stacked, Placed
    <3> QED
      BY <1>1, <3>1, <3>2, <3>4, <3>5, CallMoves DEF Active, n, Handled, Placed
  <2>2. CASE Moves(c, [LeftRunning(s) EXCEPT !.slow = TRUE]) /\ Late
    <3> DEFINE r == [LeftRunning(s) EXCEPT !.slow = TRUE]
    <3>1. Moves(c, r) /\ SaverStays /\ UNCHANGED entries /\ (UNCHANGED spent \/ Late)
      BY <2>0, <2>2 DEF n
    <3>2. /\ r.at = s.at /\ r.server = s.server + 1 /\ r.started = s.started
          /\ r.stack = s.stack /\ r.use = s.use /\ r.connection = s.connection
          /\ r.search = s.search /\ r.runtime = s.runtime /\ r.outcome = s.outcome
          /\ r.alone = s.alone /\ r.cut = s.cut /\ r.slow = TRUE
      BY <1>1 DEF Shaped, Fields, LeftRunning
    <3>3. r = [f \in Fields |-> r[f]]
      BY <1>1 DEF Shaped, Fields, LeftRunning
    <3> HIDE DEF r
    <3>5. Shaped(r)
      BY <1>1, <3>2, <3>3, Reshaped DEF Shaped
    <3>4. Stacked(r, n) /\ Placed(r)
      BY <1>1, <3>1, <3>2 DEF Stacked, Placed
    <3> QED
      BY <1>1, <3>1, <3>2, <3>4, <3>5, CallMoves DEF Active, n, Handled, Placed
  <2> QED
    BY <1>4, <2>1, <2>2 DEF ServerFails
<1>5. CASE Build(c)
  <2> DEFINE r == [s EXCEPT !.at = "working", !.service = ServiceTools(s.tools)]
  <2>1. Moves(c, r) /\ SaverStays /\ UNCHANGED entries /\ (UNCHANGED spent \/ Late) /\ s.server \notin n
    BY <1>5 DEF Build, n
  <2>2. /\ r.at = "working" /\ r.server = s.server /\ r.started = s.started
        /\ r.stack = s.stack /\ r.use = s.use /\ r.connection = s.connection
        /\ r.search = s.search /\ r.runtime = s.runtime /\ r.outcome = s.outcome
        /\ r.alone = s.alone /\ r.cut = s.cut /\ r.slow = s.slow
    BY <1>1 DEF Shaped, Fields
  <2>3. r = [f \in Fields |-> r[f]]
    BY <1>1 DEF Shaped, Fields
  <2> HIDE DEF r
  <2>5. Shaped(r)
    BY <1>1, <2>2, <2>3, Reshaped DEF Shaped
  <2>4. Stacked(r, n) /\ Placed(r)
    BY <1>1, <2>1, <2>2 DEF Stacked, Placed
  <2> QED
    BY <1>1, <2>1, <2>2, <2>4, <2>5, CallMoves DEF Active, n, Handled, Placed
<1>6. CASE BuildFails(c)
  <2> DEFINE r == [s EXCEPT !.at = "servers", !.outcome = "failed"]
  <2>1. Moves(c, r) /\ SaverStays /\ UNCHANGED entries /\ (UNCHANGED spent \/ Late) /\ s.server \notin n
    BY <1>6 DEF BuildFails, n
  <2>2. /\ r.at = "servers" /\ r.server = s.server /\ r.started = s.started
        /\ r.stack = s.stack /\ r.use = s.use /\ r.connection = s.connection
        /\ r.search = s.search /\ r.runtime = s.runtime /\ r.outcome = "failed"
        /\ r.alone = s.alone /\ r.cut = s.cut /\ r.slow = s.slow
    BY <1>1 DEF Shaped, Fields
  <2>3. r = [f \in Fields |-> r[f]]
    BY <1>1 DEF Shaped, Fields
  <2> HIDE DEF r
  <2>5. Shaped(r)
    BY <1>1, <2>2, <2>3, Reshaped DEF Shaped
  <2>4. Stacked(r, n) /\ Placed(r)
    BY <1>1, <2>1, <2>2 DEF Stacked, Placed
  <2> QED
    BY <1>1, <2>1, <2>2, <2>4, <2>5, CallMoves DEF Active, n, Handled, Placed
<1> QED
  BY <1>2, <1>3, <1>4, <1>5, <1>6

\* What it does while it works: uses of the saver that leave the saver as it is, and searches.
LEMMA WorkMoves ==
  ASSUME AgentInv, NEW c \in Calls,
         UseStarts(c) \/ UseEnds(c) \/ SearchStarts(c) \/ SearchLeaves(c) \/ WorkEnds(c)
  PROVE  AgentInv'
<1> DEFINE s == sdk[c]
           n == DOMAIN Enabled
<1>1. Shaped(s) /\ Stacked(s, n) /\ Placed(s) /\ s.server \in Nat \ {0} /\ saver \in Nat
  BY DEF AgentInv, Handled, Shaped, Counted
<1> HIDE DEF n
<1>2. CASE UseStarts(c)
  <2>0. /\ SaverStays /\ UNCHANGED <<entries, spent>>
        /\ s.at = "working" /\ s.use = "none" /\ s.search # "running"
    BY <1>2 DEF UseStarts, Working
  <2>1. CASE saver = 0 /\ Moves(c, [s EXCEPT !.use = "connecting"])
    <3> DEFINE r == [s EXCEPT !.use = "connecting"]
    <3>1. Moves(c, r) /\ SaverStays /\ UNCHANGED entries /\ (UNCHANGED spent \/ Late)
      BY <2>0, <2>1 DEF n
    <3>2. /\ r.at = s.at /\ r.server = s.server /\ r.started = s.started
          /\ r.stack = s.stack /\ r.use = "connecting" /\ r.connection = s.connection
          /\ r.search = s.search /\ r.runtime = s.runtime /\ r.outcome = s.outcome
          /\ r.alone = s.alone /\ r.cut = s.cut /\ r.slow = s.slow
      BY <1>1 DEF Shaped, Fields
    <3>3. r = [f \in Fields |-> r[f]]
      BY <1>1 DEF Shaped, Fields
    <3> HIDE DEF r
    <3>5. Shaped(r)
      BY <1>1, <3>2, <3>3, Reshaped DEF Shaped
    <3>4. Stacked(r, n) /\ Placed(r)
      BY <1>1, <2>0, <2>1, <3>1, <3>2 DEF Stacked, Placed
    <3> QED
      BY <1>1, <2>0, <2>1, <3>1, <3>2, <3>4, <3>5, CallMoves DEF Active, n, Handled, Placed
  <2>2. CASE saver # 0 /\ Moves(c, [s EXCEPT !.use = "using", !.connection = saver])
    <3> DEFINE r == [s EXCEPT !.use = "using", !.connection = saver]
    <3>1. Moves(c, r) /\ SaverStays /\ UNCHANGED entries /\ (UNCHANGED spent \/ Late)
      BY <2>0, <2>2 DEF n
    <3>2. /\ r.at = s.at /\ r.server = s.server /\ r.started = s.started
          /\ r.stack = s.stack /\ r.use = "using" /\ r.connection = saver
          /\ r.search = s.search /\ r.runtime = s.runtime /\ r.outcome = s.outcome
          /\ r.alone = s.alone /\ r.cut = s.cut /\ r.slow = s.slow
      BY <1>1 DEF Shaped, Fields
    <3>3. r = [f \in Fields |-> r[f]]
      BY <1>1 DEF Shaped, Fields
    <3> HIDE DEF r
    <3>5. Shaped(r)
      BY <1>1, <3>2, <3>3, Reshaped DEF Shaped
    <3>4. Stacked(r, n) /\ Placed(r)
      BY <1>1, <2>0, <2>2, <3>1, <3>2 DEF Stacked, Placed
    <3> QED
      BY <1>1, <2>0, <2>2, <3>1, <3>2, <3>4, <3>5, CallMoves DEF Active, n, Handled, Placed
  <2> QED
    BY <1>2, <2>1, <2>2 DEF UseStarts
<1>3. CASE UseEnds(c)
  <2>0. SaverStays /\ UNCHANGED <<entries, spent>> /\ s.use = "using" /\ s.at = "working" /\ s.search # "running"
    BY <1>1, <1>3 DEF UseEnds, Placed
  <2>1. CASE Moves(c, [s EXCEPT !.use = "none", !.connection = 0])
    <3> DEFINE r == [s EXCEPT !.use = "none", !.connection = 0]
    <3>1. Moves(c, r) /\ SaverStays /\ UNCHANGED entries /\ (UNCHANGED spent \/ Late)
      BY <2>0, <2>1 DEF n
    <3>2. /\ r.at = s.at /\ r.server = s.server /\ r.started = s.started
          /\ r.stack = s.stack /\ r.use = "none" /\ r.connection = 0
          /\ r.search = s.search /\ r.runtime = s.runtime /\ r.outcome = s.outcome
          /\ r.alone = s.alone /\ r.cut = s.cut /\ r.slow = s.slow
      BY <1>1 DEF Shaped, Fields
    <3>3. r = [f \in Fields |-> r[f]]
      BY <1>1 DEF Shaped, Fields
    <3> HIDE DEF r
    <3>5. Shaped(r)
      BY <1>1, <3>2, <3>3, Reshaped DEF Shaped
    <3>4. Stacked(r, n) /\ Placed(r)
      BY <1>1, <2>0, <2>1, <3>1, <3>2 DEF Stacked, Placed
    <3> QED
      BY <1>1, <2>0, <2>1, <3>1, <3>2, <3>4, <3>5, CallMoves DEF Active, n, Handled, Placed
  <2>2. CASE /\ Moves(c, [s EXCEPT !.use = "none", !.connection = 0, !.at = "closing", !.outcome = "unsaved"])
            /\ s.connection \notin connected
    <3> DEFINE r == [s EXCEPT !.use = "none", !.connection = 0, !.at = "closing", !.outcome = "unsaved"]
    <3>1. Moves(c, r) /\ SaverStays /\ UNCHANGED entries /\ (UNCHANGED spent \/ Late)
      BY <2>0, <2>2 DEF n
    <3>2. /\ r.at = "closing" /\ r.server = s.server /\ r.started = s.started
          /\ r.stack = s.stack /\ r.use = "none" /\ r.connection = 0
          /\ r.search = s.search /\ r.runtime = s.runtime /\ r.outcome = "unsaved"
          /\ r.alone = s.alone /\ r.cut = s.cut /\ r.slow = s.slow
      BY <1>1 DEF Shaped, Fields
    <3>3. r = [f \in Fields |-> r[f]]
      BY <1>1 DEF Shaped, Fields
    <3> HIDE DEF r
    <3>5. Shaped(r)
      BY <1>1, <3>2, <3>3, Reshaped DEF Shaped
    <3>4. Stacked(r, n) /\ Placed(r)
      BY <1>1, <2>0, <2>2, <3>1, <3>2 DEF Stacked, Placed
    <3> QED
      BY <1>1, <2>0, <2>2, <3>1, <3>2, <3>4, <3>5, CallMoves DEF Active, n, Handled, Placed
  <2> QED
    BY <1>1, <1>3, <2>1, <2>2 DEF UseEnds, Shaped, Fields
<1>4. CASE SearchStarts(c)
  <2>0. /\ SaverStays /\ UNCHANGED <<entries, spent>> /\ s.at = "working" /\ s.use = "none"
        /\ Moves(c, [s EXCEPT !.search = "running", !.runtime = "open"])
    BY <1>4 DEF SearchStarts, Working
  <2> DEFINE r == [s EXCEPT !.search = "running", !.runtime = "open"]
  <2>1. Moves(c, r) /\ SaverStays /\ UNCHANGED entries /\ (UNCHANGED spent \/ Late)
    BY <2>0 DEF n
  <2>2. /\ r.at = s.at /\ r.server = s.server /\ r.started = s.started
        /\ r.stack = s.stack /\ r.use = s.use /\ r.connection = s.connection
        /\ r.search = "running" /\ r.runtime = "open" /\ r.outcome = s.outcome
        /\ r.alone = s.alone /\ r.cut = s.cut /\ r.slow = s.slow
    BY <1>1 DEF Shaped, Fields
  <2>3. r = [f \in Fields |-> r[f]]
    BY <1>1 DEF Shaped, Fields
  <2> HIDE DEF r
  <2>5. Shaped(r)
    BY <1>1, <2>2, <2>3, Reshaped DEF Shaped
  <2>4. Stacked(r, n) /\ Placed(r)
    BY <1>1, <2>0, <2>1, <2>2 DEF Stacked, Placed
  <2> QED
    BY <1>1, <2>0, <2>1, <2>2, <2>4, <2>5, CallMoves DEF Active, n, Handled, Placed
<1>5. CASE SearchLeaves(c)
  <2>0. SaverStays /\ UNCHANGED <<entries, spent>>
    BY <1>5 DEF SearchLeaves
  <2>1. CASE Moves(c, [s EXCEPT !.search = "none"])
    <3> DEFINE r == [s EXCEPT !.search = "none"]
    <3>1. Moves(c, r) /\ SaverStays /\ UNCHANGED entries /\ (UNCHANGED spent \/ Late)
      BY <2>0, <2>1 DEF n
    <3>2. /\ r.at = s.at /\ r.server = s.server /\ r.started = s.started
          /\ r.stack = s.stack /\ r.use = s.use /\ r.connection = s.connection
          /\ r.search = "none" /\ r.runtime = s.runtime /\ r.outcome = s.outcome
          /\ r.alone = s.alone /\ r.cut = s.cut /\ r.slow = s.slow
      BY <1>1 DEF Shaped, Fields
    <3>3. r = [f \in Fields |-> r[f]]
      BY <1>1 DEF Shaped, Fields
    <3> HIDE DEF r
    <3>5. Shaped(r)
      BY <1>1, <3>2, <3>3, Reshaped DEF Shaped
    <3>4. Stacked(r, n) /\ Placed(r)
      BY <1>1, <2>0, <2>1, <3>1, <3>2 DEF Stacked, Placed
    <3> QED
      BY <1>1, <2>0, <2>1, <3>1, <3>2, <3>4, <3>5, CallMoves DEF Active, n, Handled, Placed
  <2>2. CASE Moves(c, [s EXCEPT !.search = "abandoned"])
    <3> DEFINE r == [s EXCEPT !.search = "abandoned"]
    <3>1. Moves(c, r) /\ SaverStays /\ UNCHANGED entries /\ (UNCHANGED spent \/ Late)
      BY <2>0, <2>2 DEF n
    <3>2. /\ r.at = s.at /\ r.server = s.server /\ r.started = s.started
          /\ r.stack = s.stack /\ r.use = s.use /\ r.connection = s.connection
          /\ r.search = "abandoned" /\ r.runtime = s.runtime /\ r.outcome = s.outcome
          /\ r.alone = s.alone /\ r.cut = s.cut /\ r.slow = s.slow
      BY <1>1 DEF Shaped, Fields
    <3>3. r = [f \in Fields |-> r[f]]
      BY <1>1 DEF Shaped, Fields
    <3> HIDE DEF r
    <3>5. Shaped(r)
      BY <1>1, <3>2, <3>3, Reshaped DEF Shaped
    <3>4. Stacked(r, n) /\ Placed(r)
      BY <1>1, <2>0, <2>2, <3>1, <3>2 DEF Stacked, Placed
    <3> QED
      BY <1>1, <2>0, <2>2, <3>1, <3>2, <3>4, <3>5, CallMoves DEF Active, n, Handled, Placed
  <2> QED
    BY <1>5, <2>1, <2>2 DEF SearchLeaves
<1>6. CASE WorkEnds(c)
  <2>0. PICK ending \in {"answered", "failed"} :
          /\ SaverStays /\ UNCHANGED <<entries, spent>> /\ s.at = "working" /\ s.use = "none"
          /\ s.search # "running" /\ Moves(c, [s EXCEPT !.at = "closing", !.outcome = ending])
    BY <1>6 DEF WorkEnds, Working
  <2> DEFINE r == [s EXCEPT !.at = "closing", !.outcome = ending]
  <2>1. Moves(c, r) /\ SaverStays /\ UNCHANGED entries /\ (UNCHANGED spent \/ Late)
    BY <2>0 DEF n
  <2>2. /\ r.at = "closing" /\ r.server = s.server /\ r.started = s.started
        /\ r.stack = s.stack /\ r.use = s.use /\ r.connection = s.connection
        /\ r.search = s.search /\ r.runtime = s.runtime /\ r.outcome = ending
        /\ r.alone = s.alone /\ r.cut = s.cut /\ r.slow = s.slow
    BY <1>1 DEF Shaped, Fields
  <2>3. r = [f \in Fields |-> r[f]]
    BY <1>1 DEF Shaped, Fields
  <2> HIDE DEF r
  <2>5. Shaped(r)
    BY <1>1, <2>2, <2>3, Reshaped DEF Shaped
  <2>4. Stacked(r, n) /\ Placed(r)
    BY <1>1, <2>0, <2>1, <2>2 DEF Stacked, Placed
  <2> QED
    BY <1>1, <2>0, <2>1, <2>2, <2>4, <2>5, CallMoves DEF Active, n, Handled, Placed
<1> QED
  BY <1>2, <1>3, <1>4, <1>5, <1>6

\* What it does on its way out, but for closing the saver.
LEMMA WayOut ==
  ASSUME AgentInv, NEW c \in Calls,
         CloseSaver(c) \/ RuntimeClosed(c) \/ RuntimeLate(c) \/ CloseServers(c)
  PROVE  AgentInv'
<1> DEFINE s == sdk[c]
           n == DOMAIN Enabled
<1>1. Shaped(s) /\ Stacked(s, n) /\ Placed(s) /\ s.server \in Nat \ {0} /\ saver \in Nat
  BY DEF AgentInv, Handled, Shaped, Counted
<1> HIDE DEF n
<1>2. CASE CloseSaver(c)
  <2>0. SaverStays /\ UNCHANGED <<entries, spent>> /\ s.at = "closing" /\ s.connection = 0 /\ s.use = "none"
    BY <1>1, <1>2 DEF CloseSaver, Placed
  <2>1. CASE saver = 0 /\ s.runtime = "open" /\ Moves(c, Unwound(s))
    <3> DEFINE r == Unwound(s)
    <3>1. Moves(c, r) /\ SaverStays /\ UNCHANGED entries /\ (UNCHANGED spent \/ Late)
      BY <2>0, <2>1 DEF Unwound
    <3>2. /\ r.at = "provider" /\ r.server = s.server /\ r.started = s.started
          /\ r.stack = s.stack /\ r.use = s.use /\ r.connection = 0
          /\ r.search = s.search /\ r.runtime = "closing" /\ r.outcome = s.outcome
          /\ r.alone = s.alone /\ r.cut = s.cut /\ r.slow = s.slow
      BY <1>1, <2>0, <2>1 DEF Shaped, Fields, Unwound
    <3>3. r = [f \in Fields |-> r[f]]
      BY <1>1, <2>0, <2>1 DEF Shaped, Fields, Unwound
    <3> HIDE DEF r
    <3>4. Shaped(r)
      BY <1>1, <3>2, <3>3, Reshaped DEF Shaped
    <3>5. Stacked(r, n) /\ Placed(r)
      BY <1>1, <2>0, <2>1, <3>1, <3>2 DEF Stacked, Placed
    <3> QED
      BY <1>1, <2>0, <2>1, <3>1, <3>2, <3>4, <3>5, CallMoves DEF Active, n, Handled, Placed
  <2>2. CASE saver = 0 /\ s.runtime # "open" /\ Moves(c, Unwound(s))
    <3> DEFINE r == Unwound(s)
    <3>1. Moves(c, r) /\ SaverStays /\ UNCHANGED entries /\ (UNCHANGED spent \/ Late)
      BY <2>0, <2>2 DEF Unwound
    <3>2. /\ r.at = "servers" /\ r.server = s.server /\ r.started = s.started
          /\ r.stack = s.stack /\ r.use = s.use /\ r.connection = 0
          /\ r.search = s.search /\ r.runtime = s.runtime /\ r.outcome = s.outcome
          /\ r.alone = s.alone /\ r.cut = s.cut /\ r.slow = s.slow
      BY <1>1, <2>0, <2>2 DEF Shaped, Fields, Unwound
    <3>3. r = [f \in Fields |-> r[f]]
      BY <1>1, <2>0, <2>2 DEF Shaped, Fields, Unwound
    <3> HIDE DEF r
    <3>4. Shaped(r)
      BY <1>1, <3>2, <3>3, Reshaped DEF Shaped
    <3>5. Stacked(r, n) /\ Placed(r)
      BY <1>1, <2>0, <2>2, <3>1, <3>2 DEF Stacked, Placed
    <3> QED
      BY <1>1, <2>0, <2>2, <3>1, <3>2, <3>4, <3>5, CallMoves DEF Active, n, Handled, Placed
  <2>3. CASE saver # 0 /\ Moves(c, [s EXCEPT !.connection = saver])
    <3> DEFINE r == [s EXCEPT !.connection = saver]
    <3>1. Moves(c, r) /\ SaverStays /\ UNCHANGED entries /\ (UNCHANGED spent \/ Late)
      BY <2>0, <2>3
    <3>2. /\ r.at = s.at /\ r.server = s.server /\ r.started = s.started
          /\ r.stack = s.stack /\ r.use = s.use /\ r.connection = saver
          /\ r.search = s.search /\ r.runtime = s.runtime /\ r.outcome = s.outcome
          /\ r.alone = s.alone /\ r.cut = s.cut /\ r.slow = s.slow
      BY <1>1, <2>0, <2>3 DEF Shaped, Fields
    <3>3. r = [f \in Fields |-> r[f]]
      BY <1>1, <2>0, <2>3 DEF Shaped, Fields
    <3> HIDE DEF r
    <3>4. Shaped(r)
      BY <1>1, <3>2, <3>3, Reshaped DEF Shaped
    <3>5. Stacked(r, n) /\ Placed(r)
      BY <1>1, <2>0, <2>3, <3>1, <3>2 DEF Stacked, Placed
    <3> QED
      BY <1>1, <2>0, <2>3, <3>1, <3>2, <3>4, <3>5, CallMoves DEF Active, n, Handled, Placed
  <2> QED
    BY <1>2, <2>1, <2>2, <2>3 DEF CloseSaver
<1>3. CASE RuntimeClosed(c)
  <2>0. /\ SaverStays /\ UNCHANGED <<entries, spent>> /\ s.runtime = "closing"
        /\ Moves(c, [s EXCEPT !.runtime = "closed", !.at = IF @ = "provider" THEN "servers" ELSE @])
        /\ s.at \in {"provider", "servers", "done"}
    BY <1>1, <1>3 DEF RuntimeClosed, Placed
  <2>1. CASE s.at = "provider"
    <3> DEFINE r == [s EXCEPT !.runtime = "closed", !.at = IF @ = "provider" THEN "servers" ELSE @]
    <3>1. Moves(c, r) /\ SaverStays /\ UNCHANGED entries /\ (UNCHANGED spent \/ Late)
      BY <2>0, <2>1
    <3>2. /\ r.at = "servers" /\ r.server = s.server /\ r.started = s.started
          /\ r.stack = s.stack /\ r.use = s.use /\ r.connection = s.connection
          /\ r.search = s.search /\ r.runtime = "closed" /\ r.outcome = s.outcome
          /\ r.alone = s.alone /\ r.cut = s.cut /\ r.slow = s.slow
      BY <1>1, <2>0, <2>1 DEF Shaped, Fields
    <3>3. r = [f \in Fields |-> r[f]]
      BY <1>1, <2>0, <2>1 DEF Shaped, Fields
    <3> HIDE DEF r
    <3>4. Shaped(r)
      BY <1>1, <3>2, <3>3, Reshaped DEF Shaped
    <3>5. Stacked(r, n) /\ Placed(r)
      BY <1>1, <2>0, <2>1, <3>1, <3>2 DEF Stacked, Placed
    <3> QED
      BY <1>1, <2>0, <2>1, <3>1, <3>2, <3>4, <3>5, CallMoves DEF Active, n, Handled, Placed
  <2>2. CASE s.at # "provider"
    <3> DEFINE r == [s EXCEPT !.runtime = "closed", !.at = IF @ = "provider" THEN "servers" ELSE @]
    <3>1. Moves(c, r) /\ SaverStays /\ UNCHANGED entries /\ (UNCHANGED spent \/ Late)
      BY <2>0, <2>2
    <3>2. /\ r.at = s.at /\ r.server = s.server /\ r.started = s.started
          /\ r.stack = s.stack /\ r.use = s.use /\ r.connection = s.connection
          /\ r.search = s.search /\ r.runtime = "closed" /\ r.outcome = s.outcome
          /\ r.alone = s.alone /\ r.cut = s.cut /\ r.slow = s.slow
      BY <1>1, <2>0, <2>2 DEF Shaped, Fields
    <3>3. r = [f \in Fields |-> r[f]]
      BY <1>1, <2>0, <2>2 DEF Shaped, Fields
    <3> HIDE DEF r
    <3>4. Shaped(r)
      BY <1>1, <3>2, <3>3, Reshaped DEF Shaped
    <3>5. Stacked(r, n) /\ Placed(r)
      BY <1>1, <2>0, <2>2, <3>1, <3>2 DEF Stacked, Placed
    <3> QED
      BY <1>1, <2>0, <2>2, <3>1, <3>2, <3>4, <3>5, CallMoves DEF Active, n, Handled, Placed
  <2> QED
    BY <2>1, <2>2
<1>4. CASE RuntimeLate(c)
  <2>0. s.at = "provider" /\ Late /\ SaverStays /\ UNCHANGED entries
    BY <1>4 DEF RuntimeLate
  <2>1. CASE Moves(c, [s EXCEPT !.at = "servers", !.slow = TRUE])
    <3> DEFINE r == [s EXCEPT !.at = "servers", !.slow = TRUE]
    <3>1. Moves(c, r) /\ SaverStays /\ UNCHANGED entries /\ (UNCHANGED spent \/ Late)
      BY <2>0, <2>1
    <3>2. /\ r.at = "servers" /\ r.server = s.server /\ r.started = s.started
          /\ r.stack = s.stack /\ r.use = s.use /\ r.connection = s.connection
          /\ r.search = s.search /\ r.runtime = s.runtime /\ r.outcome = s.outcome
          /\ r.alone = s.alone /\ r.cut = s.cut /\ r.slow = TRUE
      BY <1>1, <2>0, <2>1 DEF Shaped, Fields
    <3>3. r = [f \in Fields |-> r[f]]
      BY <1>1, <2>0, <2>1 DEF Shaped, Fields
    <3> HIDE DEF r
    <3>4. Shaped(r)
      BY <1>1, <3>2, <3>3, Reshaped DEF Shaped
    <3>5. Stacked(r, n) /\ Placed(r)
      BY <1>1, <2>0, <2>1, <3>1, <3>2 DEF Stacked, Placed
    <3> QED
      BY <1>1, <2>0, <2>1, <3>1, <3>2, <3>4, <3>5, CallMoves DEF Active, n, Handled, Placed
  <2> QED
    BY <1>4, <2>1 DEF RuntimeLate
<1>5. CASE CloseServers(c)
  <2>0. s.at = "servers" /\ SaverStays /\ UNCHANGED entries
    BY <1>5 DEF CloseServers
  <2>1. CASE Moves(c, [s EXCEPT !.at = "done", !.started = @ \ s.stack]) /\ UNCHANGED spent
    <3> DEFINE r == [s EXCEPT !.at = "done", !.started = @ \ s.stack]
    <3>1. Moves(c, r) /\ SaverStays /\ UNCHANGED entries /\ (UNCHANGED spent \/ Late)
      BY <2>0, <2>1
    <3>2. /\ r.at = "done" /\ r.server = s.server /\ r.started = s.started \ s.stack
          /\ r.stack = s.stack /\ r.use = s.use /\ r.connection = s.connection
          /\ r.search = s.search /\ r.runtime = s.runtime /\ r.outcome = s.outcome
          /\ r.alone = s.alone /\ r.cut = s.cut /\ r.slow = s.slow
      BY <1>1, <2>0, <2>1 DEF Shaped, Fields
    <3>3. r = [f \in Fields |-> r[f]]
      BY <1>1, <2>0, <2>1 DEF Shaped, Fields
    <3> HIDE DEF r
    <3>4. Shaped(r)
      BY <1>1, <3>2, <3>3, Reshaped DEF Shaped
    <3>5. Stacked(r, n) /\ Placed(r)
      BY <1>1, <2>0, <2>1, <3>1, <3>2 DEF Stacked, Placed
    <3> QED
      BY <1>1, <2>0, <2>1, <3>1, <3>2, <3>4, <3>5, CallMoves DEF Active, n, Handled, Placed
  <2>2. CASE Moves(c, [s EXCEPT !.at = "done", !.slow = TRUE]) /\ Late
    <3> DEFINE r == [s EXCEPT !.at = "done", !.slow = TRUE]
    <3>1. Moves(c, r) /\ SaverStays /\ UNCHANGED entries /\ (UNCHANGED spent \/ Late)
      BY <2>0, <2>2
    <3>2. /\ r.at = "done" /\ r.server = s.server /\ r.started = s.started
          /\ r.stack = s.stack /\ r.use = s.use /\ r.connection = s.connection
          /\ r.search = s.search /\ r.runtime = s.runtime /\ r.outcome = s.outcome
          /\ r.alone = s.alone /\ r.cut = s.cut /\ r.slow = TRUE
      BY <1>1, <2>0, <2>2 DEF Shaped, Fields
    <3>3. r = [f \in Fields |-> r[f]]
      BY <1>1, <2>0, <2>2 DEF Shaped, Fields
    <3> HIDE DEF r
    <3>4. Shaped(r)
      BY <1>1, <3>2, <3>3, Reshaped DEF Shaped
    <3>5. Stacked(r, n) /\ Placed(r)
      BY <1>1, <2>0, <2>2, <3>1, <3>2 DEF Stacked, Placed
    <3> QED
      BY <1>1, <2>0, <2>2, <3>1, <3>2, <3>4, <3>5, CallMoves DEF Active, n, Handled, Placed
  <2> QED
    BY <1>5, <2>1, <2>2 DEF CloseServers
<1> QED
  BY <1>2, <1>3, <1>4, <1>5

\* A call that is cancelled before it closes the saver, or after.
LEMMA CancelMoves ==
  ASSUME AgentInv, NEW c \in Calls, CancelCall(c), ~(sdk[c].at = "closing" /\ sdk[c].connection > 0)
  PROVE  AgentInv'
<1> DEFINE s == sdk[c]
           n == DOMAIN Enabled
<1>1. Shaped(s) /\ Stacked(s, n) /\ Placed(s) /\ s.server \in Nat \ {0} /\ saver \in Nat
  BY DEF AgentInv, Handled, Shaped, Counted
<1> HIDE DEF n
<1>2. s.at \in {"opening", "working", "provider"} /\ SaverStays /\ UNCHANGED entries
  BY DEF CancelCall, SaverStays
<1>3. spent' = [spent EXCEPT !.cancels = @ + 1]
  <2>1. spent' = [spent EXCEPT !.cancels = @ + 1, !.late = @ + 0]
    BY <1>2 DEF CancelCall
  <2>2. spent = [cancels |-> spent.cancels, late |-> spent.late, shared |-> spent.shared] /\ spent.late + 0 = spent.late
    BY DEF AgentInv, Counted
  <2> QED
    BY <2>1, <2>2
<1>4. Moves(c, [Cancelled(s) EXCEPT !.outcome = "cancelled"])
  BY DEF CancelCall
<1>5. CASE s.at = "opening"
  <2> DEFINE r == [Cancelled(s) EXCEPT !.outcome = "cancelled"]
  <2>1. Moves(c, r) /\ SaverStays /\ UNCHANGED entries /\ spent' = [spent EXCEPT !.cancels = @ + 1]
    BY <1>2, <1>3, <1>4, <1>5 DEF Cancelled
  <2>2. /\ r.at = "servers" /\ r.server = s.server /\ r.started = s.started
        /\ r.stack = s.stack /\ r.use = s.use /\ r.connection = s.connection
        /\ r.search = s.search /\ r.runtime = s.runtime /\ r.outcome = "cancelled"
        /\ r.alone = s.alone /\ r.cut = (s.server \in s.started) /\ r.slow = s.slow
    BY <1>1, <1>2, <1>3, <1>4, <1>5 DEF Shaped, Fields, Cancelled
  <2>3. r = [f \in Fields |-> r[f]]
    BY <1>1, <1>2, <1>3, <1>4, <1>5 DEF Shaped, Fields, Cancelled
  <2> HIDE DEF r
  <2>4. Shaped(r)
    BY <1>1, <2>2, <2>3, Reshaped DEF Shaped
  <2>5. Stacked(r, n) /\ Placed(r)
    BY <1>1, <1>2, <1>3, <1>4, <1>5, <2>1, <2>2 DEF Stacked, Placed
  <2> QED
    BY <1>1, <1>2, <1>3, <1>4, <1>5, <2>1, <2>2, <2>4, <2>5, CallMoves DEF Active, n, Handled, Placed
<1>6. CASE s.at = "working" /\ s.search = "running"
  <2> DEFINE r == [Cancelled(s) EXCEPT !.outcome = "cancelled"]
  <2>1. Moves(c, r) /\ SaverStays /\ UNCHANGED entries /\ spent' = [spent EXCEPT !.cancels = @ + 1]
    BY <1>2, <1>3, <1>4, <1>6 DEF Cancelled
  <2>2. /\ r.at = "closing" /\ r.server = s.server /\ r.started = s.started
        /\ r.stack = s.stack /\ r.use = "none" /\ r.connection = 0
        /\ r.search = "abandoned" /\ r.runtime = s.runtime /\ r.outcome = "cancelled"
        /\ r.alone = s.alone /\ r.cut = s.cut /\ r.slow = s.slow
    BY <1>1, <1>2, <1>3, <1>4, <1>6 DEF Shaped, Fields, Cancelled
  <2>3. r = [f \in Fields |-> r[f]]
    BY <1>1, <1>2, <1>3, <1>4, <1>6 DEF Shaped, Fields, Cancelled
  <2> HIDE DEF r
  <2>4. Shaped(r)
    BY <1>1, <2>2, <2>3, Reshaped DEF Shaped
  <2>5. Stacked(r, n) /\ Placed(r)
    BY <1>1, <1>2, <1>3, <1>4, <1>6, <2>1, <2>2 DEF Stacked, Placed
  <2> QED
    BY <1>1, <1>2, <1>3, <1>4, <1>6, <2>1, <2>2, <2>4, <2>5, CallMoves DEF Active, n, Handled, Placed
<1>7. CASE s.at = "working" /\ s.search # "running"
  <2> DEFINE r == [Cancelled(s) EXCEPT !.outcome = "cancelled"]
  <2>1. Moves(c, r) /\ SaverStays /\ UNCHANGED entries /\ spent' = [spent EXCEPT !.cancels = @ + 1]
    BY <1>2, <1>3, <1>4, <1>7 DEF Cancelled
  <2>2. /\ r.at = "closing" /\ r.server = s.server /\ r.started = s.started
        /\ r.stack = s.stack /\ r.use = "none" /\ r.connection = 0
        /\ r.search = s.search /\ r.runtime = s.runtime /\ r.outcome = "cancelled"
        /\ r.alone = s.alone /\ r.cut = s.cut /\ r.slow = s.slow
    BY <1>1, <1>2, <1>3, <1>4, <1>7 DEF Shaped, Fields, Cancelled
  <2>3. r = [f \in Fields |-> r[f]]
    BY <1>1, <1>2, <1>3, <1>4, <1>7 DEF Shaped, Fields, Cancelled
  <2> HIDE DEF r
  <2>4. Shaped(r)
    BY <1>1, <2>2, <2>3, Reshaped DEF Shaped
  <2>5. Stacked(r, n) /\ Placed(r)
    BY <1>1, <1>2, <1>3, <1>4, <1>7, <2>1, <2>2 DEF Stacked, Placed
  <2> QED
    BY <1>1, <1>2, <1>3, <1>4, <1>7, <2>1, <2>2, <2>4, <2>5, CallMoves DEF Active, n, Handled, Placed
<1>8. CASE s.at = "provider"
  <2> DEFINE r == [Cancelled(s) EXCEPT !.outcome = "cancelled"]
  <2>1. Moves(c, r) /\ SaverStays /\ UNCHANGED entries /\ spent' = [spent EXCEPT !.cancels = @ + 1]
    BY <1>2, <1>3, <1>4, <1>8 DEF Cancelled
  <2>2. /\ r.at = "servers" /\ r.server = s.server /\ r.started = s.started
        /\ r.stack = s.stack /\ r.use = s.use /\ r.connection = s.connection
        /\ r.search = s.search /\ r.runtime = s.runtime /\ r.outcome = "cancelled"
        /\ r.alone = s.alone /\ r.cut = s.cut /\ r.slow = TRUE
    BY <1>1, <1>2, <1>3, <1>4, <1>8 DEF Shaped, Fields, Cancelled
  <2>3. r = [f \in Fields |-> r[f]]
    BY <1>1, <1>2, <1>3, <1>4, <1>8 DEF Shaped, Fields, Cancelled
  <2> HIDE DEF r
  <2>4. Shaped(r)
    BY <1>1, <2>2, <2>3, Reshaped DEF Shaped
  <2>5. Stacked(r, n) /\ Placed(r)
    BY <1>1, <1>2, <1>3, <1>4, <1>8, <2>1, <2>2 DEF Stacked, Placed
  <2> QED
    BY <1>1, <1>2, <1>3, <1>4, <1>8, <2>1, <2>2, <2>4, <2>5, CallMoves DEF Active, n, Handled, Placed
<1> QED
  BY <1>2, <1>5, <1>6, <1>7, <1>8

\* A call connects the saver: if no two have met, it is the only one, and there was no connection.
LEMMA SaverConnects ==
  ASSUME AgentInv, NEW c \in Calls, Connects(c)
  PROVE  AgentInv'
<1> DEFINE s == sdk[c]
           n == DOMAIN Enabled
<1>1. Shaped(s) /\ Stacked(s, n) /\ Placed(s) /\ s.server \in Nat \ {0} /\ saver \in Nat
  BY DEF AgentInv, Handled, Shaped, Counted
<1> HIDE DEF n
<1>2. /\ s.use = "connecting" /\ s.at = "working" /\ s.search # "running" /\ UNCHANGED <<entries, spent>>
      /\ dialled' = dialled + 1 /\ saver' = dialled' /\ connected' = connected \cup {dialled'}
      /\ Moves(c, [s EXCEPT !.use = "using", !.connection = dialled'])
  BY <1>1 DEF Connects, Placed
<1>3. Counted' /\ dialled' \in Nat \ {0}
  BY <1>2 DEF AgentInv, Counted
<1> DEFINE r == [s EXCEPT !.use = "using", !.connection = dialled']
<1>4. Moves(c, r) /\ UNCHANGED <<entries, spent>>
  BY <1>2, <1>3
<1>5. /\ r.at = s.at /\ r.server = s.server /\ r.started = s.started
      /\ r.stack = s.stack /\ r.use = "using" /\ r.connection = dialled'
      /\ r.search = s.search /\ r.runtime = s.runtime /\ r.outcome = s.outcome
      /\ r.alone = s.alone /\ r.cut = s.cut /\ r.slow = s.slow
  BY <1>1, <1>2, <1>3 DEF Shaped, Fields
<1>6. r = [f \in Fields |-> r[f]]
  BY <1>1, <1>2, <1>3 DEF Shaped, Fields
<1> HIDE DEF r
<1>7. Shaped(r)
  BY <1>1, <1>3, <1>5, <1>6, Reshaped DEF Shaped
<1>8. Stacked(r, n) /\ Placed(r)
  BY <1>1, <1>2, <1>3, <1>4, <1>5 DEF Stacked, Placed
<1>9. sdk'[c] = r /\ \A d \in Calls : d # c => sdk'[d] = sdk[d]
  BY <1>4 DEF AgentInv, Moves
<1>10. Connected'
  BY <1>2, <1>5, <1>9 DEF AgentInv, Connected
<1>11. Owned'
  <2> SUFFICES ASSUME spent.late = 0, ~spent.shared
               PROVE  /\ connected' = {dialled'} /\ \A d \in Calls : sdk'[d].use # "connecting"
                      /\ \A d \in Calls : sdk'[d].at = "closing" => sdk'[d].connection = dialled'
    BY <1>2, <1>3, <1>5, <1>9 DEF Owned
  <2>1. \A d \in Calls : Active(d) => d = c
    BY <1>2 DEF AgentInv, Solitary, Active
  <2>2. connected = {}
    BY <1>2 DEF AgentInv, Owned
  <2>3. \A d \in Calls : d # c => sdk[d].use # "connecting" /\ sdk[d].at # "closing"
    BY <2>1 DEF Active, AgentInv, Handled, Placed
  <2> QED
    BY <1>2, <1>5, <1>9, <2>2, <2>3
<1> QED
  BY <1>2, <1>3, <1>4, <1>5, <1>7, <1>8, <1>10, <1>11, OneMoves DEF Active, Handled, n

\* What a call that closes the saver, or gives that up, is left with.
LEMMA SaverLeft ==
  ASSUME AgentInv, NEW c \in Calls, sdk[c].at = "closing", NEW r, r = [f \in Fields |-> r[f]],
         r.at = Unwound(sdk[c]).at, r.runtime = Unwound(sdk[c]).runtime, r.connection = 0,
         r.server = sdk[c].server, r.started = sdk[c].started, r.stack = sdk[c].stack,
         r.use = sdk[c].use, r.search = sdk[c].search, r.alone = sdk[c].alone, r.cut = sdk[c].cut,
         r.slow = sdk[c].slow \/ r.slow = TRUE
  PROVE  Handled(r, DOMAIN Enabled) /\ r.at \in {"provider", "servers"} /\ r.use = "none"
<1> DEFINE s == sdk[c]
           n == DOMAIN Enabled
<1>1. Shaped(s) /\ Stacked(s, n) /\ Placed(s) /\ s.server \in Nat \ {0} /\ saver \in Nat
  BY DEF AgentInv, Handled, Shaped, Counted
<1> HIDE DEF n
<1>2. \/ s.runtime = "open" /\ r.at = "provider" /\ r.runtime = "closing"
      \/ s.runtime = "none" /\ r.at = "servers" /\ r.runtime = "none"
  <2>1. CASE s.runtime = "open"
    BY <1>1, <2>1 DEF Unwound, Shaped, Fields
  <2>2. CASE s.runtime # "open"
    BY <1>1, <2>2 DEF Unwound, Shaped, Fields, Placed
  <2> QED
    BY <2>1, <2>2
<1>3. Shaped(r)
  <2>1. r.slow = s.slow \/ r.slow = TRUE
    OBVIOUS
  <2>2. /\ r.use \in {"none", "connecting", "using"} /\ r.search \in {"none", "running", "abandoned"}
        /\ r.connection \in Nat
    BY <1>1 DEF Shaped
  <2> QED
    BY <1>1, <1>2, <2>1, <2>2, Reshaped
<1>4. Stacked(r, n) /\ Placed(r) /\ r.use = "none"
  BY <1>1, <1>2 DEF Stacked, Placed
<1> QED
  BY <1>2, <1>3, <1>4 DEF Handled, n

\* A call closes the saver: if it is alone, no other one loses what it uses.
LEMMA SaverCloses ==
  ASSUME AgentInv, NEW c \in Calls, SaverClosed(c)
  PROVE  AgentInv'
<1> DEFINE s == sdk[c]
           n == DOMAIN Enabled
<1>1. Shaped(s) /\ Stacked(s, n) /\ Placed(s) /\ s.server \in Nat \ {0} /\ saver \in Nat
  BY DEF AgentInv, Handled, Shaped, Counted
<1> HIDE DEF n
<1>2. /\ s.at = "closing" /\ s.connection > 0 /\ UNCHANGED <<entries, dialled>>
      /\ connected' = connected \ {s.connection}
  BY DEF SaverClosed
<1>3. s = [f \in Fields |-> s[f]]
  BY <1>1 DEF Shaped
<1>4. CASE saver' = 0 /\ Moves(c, Unwound(s)) /\ UNCHANGED spent
  <2> DEFINE r == Unwound(s)
  <2>1. /\ r = [f \in Fields |-> r[f]] /\ r.connection = 0 /\ r.server = s.server
        /\ r.started = s.started /\ r.stack = s.stack /\ r.use = s.use /\ r.search = s.search
        /\ r.alone = s.alone /\ r.cut = s.cut /\ r.slow = s.slow /\ r.outcome = s.outcome
    BY <1>3 DEF Unwound, Fields
  <2>2. Handled(r, n) /\ r.at \in {"provider", "servers"} /\ r.use = "none"
    BY <1>2, <2>1, SaverLeft DEF n
  <2>3. Moves(c, r)
    BY <1>4
  <2> HIDE DEF r
  <2>4. sdk'[c] = r /\ \A d \in Calls : d # c => sdk'[d] = sdk[d]
    BY <2>3 DEF AgentInv, Moves
  <2>5. Counted'
    BY <1>2, <1>4 DEF AgentInv, Counted
  <2>6. Connected'
    <3> SUFFICES ASSUME spent.late = 0, NEW d \in Calls
                 PROVE  /\ sdk'[d].use = "using" /\ sdk'[d].alone => sdk'[d].connection \in connected'
                        /\ sdk'[d].outcome = "unsaved" => ~sdk'[d].alone
      BY <1>4 DEF Connected
    <3>1. sdk'[d].outcome = "unsaved" => ~sdk'[d].alone
      BY <2>1, <2>4 DEF AgentInv, Connected
    <3>2. ~(sdk'[d].use = "using" /\ sdk'[d].alone)
      <4>1. CASE d = c
        BY <2>2, <2>4, <4>1
      <4>2. CASE d # c
        BY <1>2, <2>4, <4>2 DEF AgentInv, Handled, Placed, Solitary, Active
      <4> QED
        BY <4>1, <4>2
    <3> QED
      BY <3>1, <3>2
  <2>7. Owned'
    <3> SUFFICES ASSUME spent.late = 0, ~spent.shared
                 PROVE  connected' = {} /\ \A d \in Calls : sdk'[d].at # "closing"
      BY <1>4 DEF Owned
    <3>1. connected \subseteq {s.connection}
      BY <1>2 DEF AgentInv, Owned
    <3>2. \A d \in Calls : sdk'[d].at # "closing"
      BY <1>2, <2>2, <2>4 DEF AgentInv, Solitary, Active
    <3> QED
      BY <1>2, <3>1, <3>2
  <2> QED
    BY <1>2, <1>4, <2>1, <2>2, <2>3, <2>5, <2>6, <2>7, OneMoves DEF Active, n
<1>5. CASE saver' = saver /\ Moves(c, [Unwound(s) EXCEPT !.slow = TRUE]) /\ Late
  <2> DEFINE r == [Unwound(s) EXCEPT !.slow = TRUE]
  <2>1. /\ r = [f \in Fields |-> r[f]] /\ r.connection = 0 /\ r.server = s.server
        /\ r.started = s.started /\ r.stack = s.stack /\ r.use = s.use /\ r.search = s.search
        /\ r.alone = s.alone /\ r.cut = s.cut /\ r.slow = TRUE
        /\ r.at = Unwound(s).at /\ r.runtime = Unwound(s).runtime
    BY <1>3 DEF Unwound, Fields
  <2>3. Moves(c, r)
    BY <1>5
  <2> HIDE DEF r
  <2>2. Handled(r, n) /\ r.at \in {"provider", "servers"} /\ r.use = "none"
    BY <1>2, <2>1, SaverLeft DEF n
  <2>4. spent' = [spent EXCEPT !.late = @ + 1]
    BY <1>5 DEF Late
  <2>5. Counted' /\ spent'.late # 0 /\ spent'.shared = spent.shared
    BY <1>2, <1>5, <2>4 DEF AgentInv, Counted
  <2>6. Connected' /\ Owned'
    BY <2>5 DEF Connected, Owned
  <2> QED
    BY <1>2, <2>1, <2>2, <2>3, <2>5, <2>6, OneMoves DEF Active, n
<1> QED
  BY <1>4, <1>5 DEF SaverClosed

\* A call that is cancelled while it closes the saver gives that up.
LEMMA CloseCancelled ==
  ASSUME AgentInv, NEW c \in Calls, CancelCall(c), sdk[c].at = "closing", sdk[c].connection > 0
  PROVE  AgentInv'
<1> DEFINE s == sdk[c]
           n == DOMAIN Enabled
<1>1. Shaped(s) /\ Stacked(s, n) /\ Placed(s) /\ s.server \in Nat \ {0} /\ saver \in Nat
  BY DEF AgentInv, Handled, Shaped, Counted
<1> HIDE DEF n
<1> DEFINE r == [[Unwound(s) EXCEPT !.slow = TRUE] EXCEPT !.outcome = "cancelled"]
<1>2. Moves(c, r) /\ UNCHANGED <<entries, saver, dialled>>
  BY DEF CancelCall, Cancelled
<1>3. s = [f \in Fields |-> s[f]]
  BY <1>1 DEF Shaped
<1>4. /\ r = [f \in Fields |-> r[f]] /\ r.connection = 0 /\ r.server = s.server
      /\ r.started = s.started /\ r.stack = s.stack /\ r.use = s.use /\ r.search = s.search
      /\ r.alone = s.alone /\ r.cut = s.cut /\ r.slow = TRUE
      /\ r.at = Unwound(s).at /\ r.runtime = Unwound(s).runtime
  BY <1>3 DEF Unwound, Fields
<1> HIDE DEF r
<1>5. Handled(r, n) /\ r.at \in {"provider", "servers"}
  BY <1>4, SaverLeft DEF n
<1>6. spent' = [spent EXCEPT !.cancels = @ + 1, !.late = @ + 1]
  BY DEF CancelCall
<1>7. Counted' /\ spent'.late # 0 /\ spent'.shared = spent.shared
  <2>1. /\ spent = [cancels |-> spent.cancels, late |-> spent.late, shared |-> spent.shared]
        /\ spent.shared \in BOOLEAN
    BY DEF AgentInv, Counted
  <2>2. /\ spent' = [cancels |-> spent'.cancels, late |-> spent'.late, shared |-> spent'.shared]
        /\ spent'.cancels = spent.cancels + 1 /\ spent'.late = spent.late + 1 /\ spent'.shared = spent.shared
    BY <1>6, <2>1
  <2>3. spent'.cancels \in Nat /\ spent'.late \in Nat /\ spent'.late # 0 /\ dialled' \in Nat /\ saver' \in Nat
    BY <1>2, <2>2 DEF AgentInv, Counted
  <2> QED
    BY <2>1, <2>2, <2>3 DEF Counted
<1>8. Connected' /\ Owned'
  BY <1>7 DEF Connected, Owned
<1> QED
  BY <1>2, <1>4, <1>5, <1>7, <1>8, OneMoves DEF Active, n

\* A call begins: from then on it is alone only if no other one is under way, and none of them is.
LEMMA CallBegins ==
  ASSUME AgentInv, NEW c \in Calls, Begin(c)
  PROVE  AgentInv'
<1> DEFINE others == {d \in Calls \ {c} : Active(d)}
           n == DOMAIN Enabled
           r == [Idle EXCEPT !.alone = others = {},
                             !.at = IF LoadEnabledServers THEN "opening" ELSE "done",
                             !.outcome = IF LoadEnabledServers THEN "none" ELSE "failed"]
           o(d) == [sdk[d] EXCEPT !.alone = @ /\ d \notin others]
<1>1. /\ sdk[c].at = "idle" /\ sdk' = [d \in Calls |-> IF d = c THEN r ELSE o(d)]
      /\ spent' = [spent EXCEPT !.shared = @ \/ others # {}]
      /\ saver' = saver /\ connected' = connected /\ dialled' = dialled /\ entries' = entries
  BY DEF Begin, SaverStays
<1>2. /\ r = [f \in Fields |-> r[f]] /\ r.alone = (others = {}) /\ r.at \in {"opening", "done"}
      /\ r.outcome \in {"none", "failed"} /\ r.server = 1 /\ r.started = {} /\ r.stack = {}
      /\ r.use = "none" /\ r.connection = 0 /\ r.search = "none" /\ r.runtime = "none"
      /\ r.cut = FALSE /\ r.slow = FALSE
  BY DEF Idle, Fields
<1>3. \A d \in Calls : sdk[d] = [f \in Fields |-> sdk[d][f]] /\ Handled(sdk[d], n)
  BY DEF AgentInv, Handled, Shaped
<1>4. \A d \in Calls :
        /\ o(d) = [f \in Fields |-> o(d)[f]] /\ o(d).alone = (sdk[d].alone /\ d \notin others)
        /\ \A f \in Fields \ {"alone"} : o(d)[f] = sdk[d][f]
  BY <1>3 DEF Fields
<1> HIDE DEF others, r, o, n
<1>5. Handled(r, n)
  <2>1. r.alone \in BOOLEAN /\ r.cut \in BOOLEAN /\ r.slow \in BOOLEAN
    BY <1>2
  <2>2. Shaped(r)
    BY <1>2, <2>1 DEF Shaped
  <2>3. Stacked(r, n) /\ Placed(r)
    BY <1>2 DEF Stacked, Placed
  <2> QED
    BY <2>2, <2>3 DEF Handled
<1>6. \A d \in Calls : Handled(o(d), n)
  <2> SUFFICES ASSUME NEW d \in Calls PROVE Handled(o(d), n)
    OBVIOUS
  <2>1. /\ o(d).at = sdk[d].at /\ o(d).server = sdk[d].server /\ o(d).started = sdk[d].started
        /\ o(d).stack = sdk[d].stack /\ o(d).use = sdk[d].use /\ o(d).connection = sdk[d].connection
        /\ o(d).search = sdk[d].search /\ o(d).runtime = sdk[d].runtime /\ o(d).cut = sdk[d].cut
        /\ o(d).slow = sdk[d].slow
    BY <1>4 DEF Fields
  <2>2. Shaped(sdk[d]) /\ Stacked(sdk[d], n) /\ Placed(sdk[d])
    BY <1>3 DEF Handled
  <2>3. Shaped(o(d))
    <3>1. o(d).alone \in BOOLEAN
      BY <1>4
    <3>2. o(d).cut \in BOOLEAN /\ o(d).slow \in BOOLEAN
      BY <2>1, <2>2 DEF Shaped
    <3>3. o(d) = [f \in Fields |-> o(d)[f]]
      BY <1>4
    <3> QED
      BY <2>1, <2>2, <3>1, <3>2, <3>3 DEF Shaped
  <2>4. Stacked(o(d), n) /\ Placed(o(d))
    BY <2>1, <2>2 DEF Stacked, Placed
  <2> QED
    BY <2>3, <2>4 DEF Handled
<1>7. /\ sdk'[c] = r
      /\ \A d \in Calls : d # c =>
           /\ sdk'[d].at = sdk[d].at /\ sdk'[d].use = sdk[d].use /\ sdk'[d].connection = sdk[d].connection
           /\ sdk'[d].outcome = sdk[d].outcome /\ sdk'[d].alone = (sdk[d].alone /\ d \notin others)
  BY <1>1, <1>4 DEF Fields
<1>8. \A d \in Calls : d # c => (d \in others <=> Active(d)) /\ (Active(d)' <=> Active(d))
  BY <1>7 DEF others, Active
<1>9. sdk' = [d \in Calls |-> sdk'[d]] /\ \A d \in Calls : Handled(sdk'[d], (DOMAIN Enabled)')
  BY <1>1, <1>5, <1>6 DEF Enabled, n
<1>10. Counted' /\ spent'.late = spent.late /\ (~spent'.shared => ~spent.shared /\ others = {})
  <2>1. Counted
    BY DEF AgentInv
  <2>2. /\ spent' = [cancels |-> spent'.cancels, late |-> spent'.late, shared |-> spent'.shared]
        /\ spent'.cancels = spent.cancels /\ spent'.late = spent.late
        /\ spent'.shared = (spent.shared \/ others # {})
    BY <1>1, <2>1 DEF Counted
  <2>3. spent'.shared \in BOOLEAN
    BY <2>2
  <2> QED
    BY <1>1, <2>1, <2>2, <2>3 DEF Counted
<1>11. Solitary'
  <2>1. \A d, e \in Calls : Active(d)' /\ sdk'[d].alone /\ Active(e)' => d = e
    <3> SUFFICES ASSUME NEW d \in Calls, NEW e \in Calls, Active(d)', sdk'[d].alone, Active(e)'
                 PROVE  d = e
      OBVIOUS
    <3>1. d = c
      BY <1>7, <1>8
    <3>2. e = c
      BY <1>2, <1>7, <1>8, <3>1
    <3> QED
      BY <3>1, <3>2
  <2>2. ~spent'.shared => \A d \in Calls : Active(d)' => sdk'[d].alone
    BY <1>2, <1>7, <1>8, <1>10
  <2> QED
    BY <2>1, <2>2 DEF Solitary
<1>12. Connected'
  <2> SUFFICES ASSUME spent.late = 0
               PROVE  /\ saver # 0 => saver \in connected
                      /\ \A d \in Calls : sdk'[d].use = "using" /\ sdk'[d].alone => sdk'[d].connection \in connected
                      /\ \A d \in Calls : sdk'[d].outcome = "unsaved" => ~sdk'[d].alone
    BY <1>1, <1>10 DEF Connected
  <2>1. \A d \in Calls : sdk'[d].alone /\ d # c => sdk[d].alone
    BY <1>7
  <2>2. Connected
    BY DEF AgentInv
  <2>3. sdk'[c].use # "using" /\ sdk'[c].outcome # "unsaved"
    BY <1>2, <1>7
  <2> QED
    BY <1>7, <2>1, <2>2, <2>3 DEF Connected
<1>13. Owned'
  <2> SUFFICES ASSUME spent.late = 0, ~spent.shared, others = {}
               PROVE  /\ saver = 0 /\ connected = {}
                      /\ \A d \in Calls : sdk'[d].at # "closing"
    BY <1>1, <1>10 DEF Owned
  <2>1. \A d \in Calls : ~Active(d)
    BY <1>1, <1>8 DEF Active
  <2>2. saver = 0 /\ connected = {}
    BY <2>1 DEF AgentInv, Owned, Active
  <2> QED
    BY <1>2, <1>7, <2>1, <2>2 DEF Active
<1> QED
  BY <1>9, <1>10, <1>11, <1>12, <1>13 DEF AgentInv

\* Every step of the calls keeps the invariant.
LEMMA AgentStep ==
  ASSUME AgentInv, [AgentNext]_callVars
  PROVE  AgentInv'
<1>1. CASE UNCHANGED callVars
  BY <1>1 DEF callVars, AgentInv, Handled, Counted, Solitary, Connected, Owned, Active, Enabled
<1>2. ASSUME NEW c \in Calls, CancelCall(c) PROVE AgentInv'
  BY <1>2, CancelMoves, CloseCancelled
<1> QED
  BY <1>1, <1>2, CallBegins, ServerMoves, WorkMoves, SaverConnects, WayOut, SaverCloses DEF AgentNext

\* agent_runtime/agent.py: whatever the calls of an agent do to one another, one that has ended holds no
\* server and no runtime it has not given up, one that is alone keeps its connection, after the last none
\* is open, and no runtime is closed under a search that is waited for.
THEOREM CallsLetGo == AgentSpec => [](CallsRelease /\ SaverShared /\ SearchesFinish)
<1>1. AgentInv => CallsRelease
  <2> SUFFICES ASSUME AgentInv, NEW c \in Calls, sdk[c].at = "done", ~sdk[c].slow
               PROVE  /\ sdk[c].started # {} => sdk[c].cut
                      /\ sdk[c].runtime \in {"none", "closed"}
    BY DEF CallsRelease
  <2> QED
    BY DEF AgentInv, Handled, Shaped, Stacked, Placed
<1>2. AgentInv => SaverShared
  <2> SUFFICES ASSUME AgentInv PROVE SaverShared
    OBVIOUS
  <2>1. spent.late = 0 \/ spent.late > 0
    BY DEF AgentInv, Counted
  <2>2. \A c \in Calls : sdk[c].outcome = "unsaved" => ~sdk[c].alone \/ spent.late > 0
    BY <2>1 DEF AgentInv, Connected
  <2>3. (\A c \in Calls : ~Active(c)) /\ ~spent.shared /\ spent.late = 0 => connected = {} /\ saver = 0
    BY DEF AgentInv, Owned, Active
  <2> QED
    BY <2>2, <2>3 DEF SaverShared
<1>3. AgentInv => SearchesFinish
  BY DEF AgentInv, Handled, Placed, SearchesFinish
<1> QED
  BY <1>1, <1>2, <1>3, AgentStart, AgentStep, PTL DEF AgentSpec
===============================================================================
