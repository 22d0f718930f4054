---------------------------- MODULE ModelGateway ----------------------------
(***************************************************************************)
(* The gateway every model call goes through and the token ledger the      *)
(* calls of a turn share.  A call reserves its worst case before it starts  *)
(* a provider thread, and commits what was used, or refunds, once the       *)
(* thread has answered, raised, or been abandoned by a cancelled caller.    *)
(*                                                                         *)
(* The ledger's methods never suspend while they hold its lock, and no      *)
(* await separates a provider's answer from the commit: a step runs from    *)
(* one await to the next.  A ledger is shared as callers of the gateway may *)
(* share one; the agent hands it to the finaliser's calls only.             *)
(***************************************************************************)
EXTENDS Naturals, Integers, Sequences, FiniteSets, Functions

CONSTANTS
  Calls,          \* the calls under way at one time, each with a lease of its own
  TotalTokens,          \* the tokens of the turn
  ContextTokens,  \* the model's window
  StageBudget,    \* the stage's limits: [input, output, margin]
  Prompts,        \* the token counts of the prompts
  AnswerTokens,        \* the token counts of the answers, a reported usage included
  Requested,      \* max_tokens as the caller gives it, 0 for none
  Scripts,        \* what a streaming provider sends: sequences of Chunks
  MaxAttempts     \* 1 + output_validation_max_retries

CONSTANT GatewayTools   \* the tools a streamed call may name

\* StreamChunk: what it is, and the tool it names.
Chunks ==
  [type : {"text_delta", "thinking_delta", "tool_use_start", "tool_input_delta",
           "content_block_stop", "message_stop"},
   tool : GatewayTools \cup {"none"}]

\* What an instance must assume of the constants.
GatewayConstants ==
  /\ TotalTokens \in Nat /\ ContextTokens \in Nat \ {0}
  /\ StageBudget \in [input : Nat, output : Nat \ {0}, margin : Nat]
  /\ Prompts \subseteq Nat /\ AnswerTokens \subseteq Nat /\ Requested \subseteq Nat
  /\ MaxAttempts \in Nat \ {0} /\ Scripts \subseteq Seq(Chunks)

VARIABLES
  committed,  \* tokens committed
  reserved,   \* the amounts reserved, by lease
  overrun,    \* the sum of what commit returned: tokens used beyond the reservation
  call        \* the calls

gatewayVars == <<committed, reserved, overrun, call>>


NoBlock == [tool |-> "none", args |-> 0]
NoCall == [kind |-> "none", at |-> "idle", attempt |-> 0, input |-> 0, used |-> 0,
           script |-> <<>>, put |-> 0, taken |-> 0, thread |-> "none",
           block |-> NoBlock, tools |-> <<>>]

GatewayInit ==
  /\ committed = 0 /\ overrun = 0 /\ reserved = <<>>
  /\ call = [c \in Calls |-> NoCall]

-----------------------------------------------------------------------------
(* The ledger: what each of its methods leaves. *)

Reserved == SumFunction(reserved)

\* Faulty: a ledger that looks at what is committed and forgets what is reserved.
FitsCommitted(amount) == committed + amount <= TotalTokens
Fits(amount) == committed + Reserved + amount <= TotalTokens

Reserve(lease, amount) ==
  /\ reserved' = [l \in DOMAIN reserved \cup {lease} |->
                    IF l = lease THEN amount ELSE reserved[l]]
  /\ UNCHANGED <<committed, overrun>>

Released(lease) == reserved' = [l \in DOMAIN reserved \ {lease} |-> reserved[l]]

Commit(lease, actual) ==
  LET held == IF lease \in DOMAIN reserved THEN reserved[lease] ELSE 0 IN
  /\ Released(lease)
  /\ committed' = committed + actual
  /\ overrun' = overrun + (IF actual > held THEN actual - held ELSE 0)

Refund(lease) == Released(lease) /\ UNCHANGED <<committed, overrun>>

LedgerUnchanged == UNCHANGED <<committed, reserved, overrun>>

-----------------------------------------------------------------------------
(* What a call may take. *)

Least(a, b) == IF a < b THEN a ELSE b
Beyond(a, b) == IF a > b THEN a - b ELSE 0

MaxOutput(requested) ==
  IF requested > 0 THEN Least(StageBudget.output, requested) ELSE StageBudget.output

\* 0: no input budget remains and the call is refused with a ValueError.
MaxInput(requested) ==
  Least(StageBudget.input,
        Beyond(ContextTokens, MaxOutput(requested) + StageBudget.margin))

Reservation(input, requested) == input + MaxOutput(requested)

-----------------------------------------------------------------------------
IsAt(c, label) == call[c].at = label
Leaves(c, how) == call' = [call EXCEPT ![c].at = how]

\* Faulty: a generator whose close does not wait for its thread.
NeverClosed(c) == FALSE

-----------------------------------------------------------------------------
(* The calls: text, structured, tools and canonical wait for one answer;    *)
(* stream hands the chunks on as they come.                                *)

Kinds == {"text", "structured", "tools", "canonical", "stream"}

\* _prepare_call and reserve: the call is refused, or its thread is started.
Begin(c, kind, input, requested, script) ==
  /\ call[c].at \in {"idle", "retry"}
  /\ IsAt(c, "retry") => kind = call[c].kind
  /\ kind # "stream" => script = <<>>
  /\ LET refused == \/ MaxInput(requested) = 0
                    \/ input > MaxInput(requested)
                    \/ ~Fits(Reservation(input, requested))
     IN /\ call' = [call EXCEPT ![c] =
             [NoCall EXCEPT !.kind = kind, !.input = input, !.script = script,
                            !.attempt = call[c].attempt + 1,
                            !.thread = IF refused THEN "none" ELSE "running",
                            !.at = IF refused THEN "refused"
                                   ELSE IF kind = "stream" THEN "streaming" ELSE "awaiting"]]
        /\ IF refused THEN LedgerUnchanged ELSE Reserve(c, Reservation(input, requested))

\* The provider's usage, or the tokenizer's estimate of the whole exchange.
Settle(c, used) ==
  /\ Commit(c, used)
  /\ call' = [call EXCEPT ![c].at = "ok", ![c].used = used, ![c].thread = "done"]

\* agenerate_text.
TextReturns(c, answer) ==
  /\ IsAt(c, "awaiting") /\ call[c].kind = "text"
  /\ Settle(c, call[c].input + answer)

\* agenerate_structured: the schema is checked in the thread.
StructuredReturns(c, answer) ==
  /\ IsAt(c, "awaiting") /\ call[c].kind = "structured"
  /\ Settle(c, call[c].input + answer)

\* agenerate_with_tools: the estimate leaves the answer out.
ToolsReturn(c, answer) ==
  /\ IsAt(c, "awaiting") /\ call[c].kind = "tools"
  /\ \E reported \in BOOLEAN : Settle(c, call[c].input + IF reported THEN answer ELSE 0)

\* agenerate_model_request: the answer is parsed after the try, so an answer that does
\* not parse leaves its reservation in the ledger.
CanonicalReturns(c, answer) ==
  /\ IsAt(c, "awaiting") /\ call[c].kind = "canonical"
  /\ \/ Settle(c, call[c].input + answer)
     \/ call' = [call EXCEPT ![c].at = "unparsed", ![c].thread = "done"] /\ LedgerUnchanged

\* The thread raised: refund, and the finaliser tries again after a validation error.
CallRaises(c) ==
  /\ IsAt(c, "awaiting") /\ Refund(c)
  /\ call' = [call EXCEPT ![c].thread = "raised",
                ![c].at = IF call[c].kind = "structured" /\ call[c].attempt < MaxAttempts
                          THEN "retry" ELSE "failed"]

\* The thread of a cancelled call goes on; nobody reads what it returns.
CancelCall(c) == IsAt(c, "awaiting") /\ Leaves(c, "cancelled") /\ Refund(c)

-----------------------------------------------------------------------------
(* Streaming: a producer thread, an unbounded queue, and the consumer.      *)

Produces(c) == call[c].kind = "stream" /\ call[c].thread = "running"

ProducerPuts(c) ==
  /\ Produces(c) /\ call[c].put < Len(call[c].script)
  /\ call' = [call EXCEPT ![c].put = @ + 1] /\ LedgerUnchanged

\* Both ends put the mark that ends the consumer's loop.
ProducerEnds(c) ==
  /\ Produces(c)
  /\ \E how \in {"done", "raised"} :
       /\ how = "done" => call[c].put = Len(call[c].script)
       /\ call' = [call EXCEPT ![c].thread = how]
  /\ LedgerUnchanged

\* One chunk, as the canonical consumer takes it.
Taken(k, chunk) ==
  IF chunk.type = "tool_use_start" THEN [k EXCEPT !.block = [tool |-> chunk.tool, args |-> 0]]
  ELSE IF chunk.type = "tool_input_delta" THEN [k EXCEPT !.block.args = @ + 1]
  ELSE IF chunk.type = "content_block_stop" /\ k.block.tool # "none"
    THEN [k EXCEPT !.tools = Append(@, k.block), !.block = NoBlock]
  ELSE k

\* Text goes to the sink, which is awaited and may raise or be cancelled: the generator is
\* then left suspended at its yield.
Consume(c) ==
  /\ IsAt(c, "streaming") /\ call[c].taken < call[c].put
  /\ LET chunk == call[c].script[call[c].taken + 1]
         taken == [Taken(call[c], chunk) EXCEPT !.taken = @ + 1]
     IN \/ call' = [call EXCEPT ![c] = taken]
        \/ /\ chunk.type = "text_delta"
           /\ call' = [call EXCEPT ![c] = [taken EXCEPT !.at = "dropped"]]
  /\ LedgerUnchanged

\* The loop has met the mark and waits for the thread: settled, refunded, or cut off by a
\* cancellation that arrives at this await, outside the handlers that refund.
StreamEnds(c, answer) ==
  /\ IsAt(c, "streaming") /\ ~Produces(c) /\ call[c].taken = call[c].put
  /\ \/ call[c].thread = "done" /\ Settle(c, call[c].input + answer)
     \/ call[c].thread = "raised" /\ Refund(c) /\ Leaves(c, "failed")
     \/ Leaves(c, "cut") /\ LedgerUnchanged

CancelStream(c) ==
  /\ IsAt(c, "streaming") /\ call[c].taken = call[c].put
  /\ Refund(c) /\ Leaves(c, "closing")

\* The event loop closes the generator nobody reads: GeneratorExit at its yield.
CloseDropped(c) == IsAt(c, "dropped") /\ Refund(c) /\ Leaves(c, "closing")

ClosingEnds(c) == IsAt(c, "closing") /\ ~Produces(c) /\ Leaves(c, "cancelled") /\ LedgerUnchanged

-----------------------------------------------------------------------------
CallStep(c) ==
  \/ ProducerPuts(c) \/ ProducerEnds(c) \/ Consume(c) \/ CloseDropped(c) \/ ClosingEnds(c)
  \/ CallRaises(c)
  \/ \E answer \in AnswerTokens :
       \/ TextReturns(c, answer) \/ StructuredReturns(c, answer) \/ ToolsReturn(c, answer)
       \/ CanonicalReturns(c, answer) \/ StreamEnds(c, answer)

GatewayNext ==
  \E c \in Calls :
    \/ CallStep(c) \/ CancelCall(c) \/ CancelStream(c)
    \/ \E kind \in Kinds, input \in Prompts, requested \in Requested,
          script \in Scripts \cup {<<>>} : Begin(c, kind, input, requested, script)

\* Threads end and the event loop runs what is ready; nobody has to call or to cancel.
GatewayFair == \A c \in Calls : WF_gatewayVars(CallStep(c))

GatewaySpec == GatewayInit /\ [][GatewayNext]_gatewayVars

-----------------------------------------------------------------------------
(* Properties. *)

Active == {"awaiting", "streaming", "dropped"}
Leaks == {"unparsed", "cut"}

\* context.py:19, llm_gateway.py:_prepare_call: what is committed and what is reserved
\* never pass the turn's total by more than the overruns commit has reported; only a call
\* that is under way holds tokens, an answer that did not parse or a join that was
\* cancelled excepted; and what is committed is what the calls that succeeded used.
BudgetHeld ==
  /\ committed + Reserved <= TotalTokens + overrun
  /\ \A c \in Calls : c \in DOMAIN reserved <=> call[c].at \in Active \cup Leaks
  /\ committed = SumFunctionOnSet([c \in Calls |-> call[c].used], {c \in Calls : IsAt(c, "ok")})

\* The block that chunk i of a script opens is the one that chunk j meets.
OpenAt(s, i, j) ==
  /\ s[i].type = "tool_use_start" /\ s[i].tool # "none" /\ i < j
  /\ \A h \in i + 1 .. j - 1 : s[h].type \notin {"tool_use_start", "content_block_stop"}

\* The chunks, of the first n, that close a block, and what was sent from one chunk to another.
ClosedIn(s, n) ==
  {j \in 1..n : s[j].type = "content_block_stop" /\ \E i \in 1..n : OpenAt(s, i, j)}
Sent(s, i, j) ==
  [tool |-> s[i].tool, args |-> Cardinality({h \in i..j : s[h].type = "tool_input_delta"})]

\* The tool calls sent by the first n chunks.
ToolsSent(s, n, tools) ==
  /\ Len(tools) = Cardinality(ClosedIn(s, n))
  /\ \A j \in ClosedIn(s, n) : \A i \in 1..n : OpenAt(s, i, j) =>
       tools[Cardinality({h \in ClosedIn(s, n) : h <= j})] = Sent(s, i, j)

\* llm_gateway.py:296: the tool calls of a streamed answer are those whose block was opened
\* and closed, in order, each with the input sent between the two and nothing else.
StreamAssembled ==
  \A c \in Calls : call[c].kind = "stream" /\ IsAt(c, "ok") =>
    ToolsSent(call[c].script, Len(call[c].script), call[c].tools)

GatewaySound == BudgetHeld /\ StreamAssembled

\* A call under way ends, and one that does not leak gives back what it reserved, also when
\* its caller has gone and only the thread is left.
CallsSettle ==
  \A c \in Calls : IsAt(c, "awaiting") \/ IsAt(c, "streaming") \/ IsAt(c, "dropped") \/ IsAt(c, "closing")
                   ~> call[c].at \notin Active \cup {"closing"}
=============================================================================
