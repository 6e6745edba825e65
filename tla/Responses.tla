------------------------------- MODULE Responses -------------------------------
(***************************************************************************)
(* ResponsesStreamAssembler: the events of an Anthropic answer become the  *)
(* chunks of an OpenAI Responses answer.  The state of the assembler is a  *)
(* record, and a handler is an operator from one to the next.  Text and    *)
(* arguments are sequences of pieces; identifiers, token counts and the    *)
(* fields copied from the request are left out.                            *)
(***************************************************************************)
EXTENDS Naturals, Sequences, FiniteSetsExt, SequencesExt, TLC

CONSTANT CustomTools    \* calls of tools that the request declares as "custom"

\* A slot that is reserved and not committed.
Reserved == [type |-> "none", call |-> 0, pieces |-> <<>>]

\* ResponsesStreamAssembler.__init__.
NewAssembler ==
    [started |-> FALSE, status |-> "in_progress", slots |-> <<>>,
     active |-> <<>>, chunks |-> <<>>]

Say(r, chunks) == [r EXCEPT !.chunks = @ \o chunks]

Output(r) == SelectSeq(r.slots, LAMBDA item : item # Reserved)

EnsureStarted(r) ==
    IF r.started THEN r ELSE Say([r EXCEPT !.started = TRUE], <<[t |-> "created"]>>)

------------------------------------------------------------------------------
(* Completing a block. *)

ItemType(block) ==
    CASE block.kind = "text" -> "message"
      [] block.kind = "thinking" -> "reasoning"
      [] block.kind = "tool_use" ->
            IF block.call \in CustomTools THEN "custom_tool_call" ELSE "function_call"

ItemOf(block) == [type |-> ItemType(block), call |-> block.call, pieces |-> block.pieces]

\* _complete_text_block announces the text and the part, _complete_reasoning_block
\* the text if there is any, and a tool block sends all of its arguments first: a
\* function call without any has the arguments {}.
Announced(block) ==
    CASE block.kind = "text" -> <<[t |-> "text.done", slot |-> block.slot, pieces |-> block.pieces]>>
      [] block.kind = "thinking" ->
            IF block.pieces = <<>> THEN <<>>
            ELSE <<[t |-> "reasoning.done", slot |-> block.slot, pieces |-> block.pieces]>>
      [] block.kind = "tool_use" ->
            (IF block.pieces = <<>> /\ block.call \in CustomTools THEN <<>>
             ELSE <<[t |-> "delta", slot |-> block.slot, pieces |-> block.pieces]>>)
            \o <<[t |-> "arguments.done", slot |-> block.slot, pieces |-> block.pieces]>>

\* _complete_block with _commit_output.
CompleteBlock(r, block) ==
    Say([r EXCEPT !.slots[block.slot] = ItemOf(block)],
        Append(Announced(block),
               [t |-> "item.done", slot |-> block.slot, item |-> ItemOf(block)]))

\* A defect: the block stays among the active ones.
CompleteDefect(r, index) ==
    IF index \notin DOMAIN r.active THEN r ELSE CompleteBlock(r, r.active[index])

CompleteExisting(r, index) ==
    IF index \notin DOMAIN r.active THEN r
    ELSE CompleteBlock([r EXCEPT !.active = Restrict(@, DOMAIN @ \ {index})], r.active[index])

\* Blocks that are still open are completed in the order of their slots.
FlushActiveBlocks(r) ==
    LET blocks == SetToSortSeq({r.active[i] : i \in DOMAIN r.active},
                               LAMBDA p, q : p.slot < q.slot)
    IN  FoldLeft(CompleteBlock, [r EXCEPT !.active = <<>>], blocks)

CompleteResponse(r) ==
    LET s == FlushActiveBlocks(r)
    IN  Say([s EXCEPT !.status = "completed"], <<[t |-> "completed", output |-> Output(s)]>>)

FailResponse(r) ==
    LET s == FlushActiveBlocks(r)
    IN  Say([s EXCEPT !.status = "failed"], <<[t |-> "failed", output |-> Output(s)]>>)

------------------------------------------------------------------------------
(* Starting and continuing a block. *)

\* _start_text_block, _start_reasoning_block and _start_tool_block: what is open
\* under the index is completed, and a slot reserved.
StartBlock(r, index, kind, call) ==
    LET s == CompleteExisting(r, index)
        block == [slot |-> Len(s.slots) + 1, kind |-> kind, call |-> call, pieces |-> <<>>]
    IN  Say([s EXCEPT !.slots = Append(@, Reserved),
                      !.active = (index :> block) @@ @],
            <<[t |-> "item.added", slot |-> block.slot, type |-> ItemType(block)]>>)

\* _emit_text_delta and _emit_reasoning_delta.
EmitDelta(r, index, pieces) ==
    IF pieces = <<>> THEN r
    ELSE Say([r EXCEPT !.active[index].pieces = @ \o pieces],
             <<[t |-> "delta", slot |-> r.active[index].slot, pieces |-> pieces]>>)

\* _handle_content_block_delta: text and thinking without a block of their kind
\* open one; arguments without a tool block are lost.
HandleDelta(r, ev) ==
    LET here == ev.index \in DOMAIN r.active /\ r.active[ev.index].kind = ev.kind
    IN  CASE ev.kind # "tool_use" ->
                EmitDelta(IF here THEN r ELSE StartBlock(r, ev.index, ev.kind, 0),
                          ev.index, ev.pieces)
          [] ev.kind = "tool_use" /\ here ->
                [r EXCEPT !.active[ev.index].pieces = @ \o ev.pieces]
          [] OTHER -> r

\* _handle_content_block_start: the blocks the proxy sends start empty.
HandleStart(r, ev) == StartBlock(r, ev.index, ev.kind, ev.call)

\* process_anthropic_event.  A message_delta only carries token counts.
ProcessAnthropicEvent(r, ev) ==
    IF r.status # "in_progress" THEN r
    ELSE LET s == EnsureStarted(r)
         IN  CASE ev.t = "start" -> HandleStart(s, ev)
               [] ev.t = "delta" -> HandleDelta(s, ev)
               [] ev.t = "stop"  -> CompleteExisting(s, ev.index)
               [] ev.t = "message_stop" -> CompleteResponse(s)
               [] ev.t = "error" -> FailResponse(s)
               [] OTHER -> s

FinishIfNeeded(r) ==
    IF r.status # "in_progress" THEN r ELSE CompleteResponse(EnsureStarted(r))

\* iter_responses_sse_from_anthropic over what the provider yielded; parse_sse_event
\* skips [DONE].
ResponsesFrom(events, ended) ==
    LET r == FoldLeft(ProcessAnthropicEvent, NewAssembler,
                      SelectSeq(events, LAMBDA ev : ev.t # "done"))
    IN  IF ended THEN FinishIfNeeded(r) ELSE r
==============================================================================
