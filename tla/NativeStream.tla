------------------------------ MODULE NativeStream ------------------------------
(***************************************************************************)
(* One answer of a provider with an Anthropic endpoint on its way to the   *)
(* client: AnthropicMessagesStreamRunner.run with the block policy that    *)
(* renumbers and repairs the blocks (NativeSseBlockPolicyState), the       *)
(* tracker of what was emitted (EmittedNativeSseTracker), the holdback     *)
(* buffer, early retries and recovery, and the Responses adapter behind    *)
(* it.                                                                     *)
(*                                                                         *)
(* One action reads one event of the provider and yields what it becomes,  *)
(* or handles one failure.  The provider may send its blocks one after the *)
(* other, open one before it has closed another, come back to a closed     *)
(* one, leave out the start of a block, report an error before or in the   *)
(* message, and break off anywhere.  It always sends message_start before  *)
(* its first block, and its indexes count from 0.                          *)
(***************************************************************************)
EXTENDS Responses

CONSTANTS
    MaxBlocks,    \* bound: blocks of one attempt
    MaxRetries    \* EARLY_TRANSPARENT_MAX_RETRIES

ASSUME NativeAssumption == MaxBlocks \in Nat /\ MaxRetries \in Nat

VARIABLES
    phase,      \* "opening", "reading", "failing", or how it ended
    thinking,   \* thinking_enabled
    router,     \* the provider is OpenRouter: its stream ends with message_stop
    upstream,   \* the provider's side: its blocks, and whether it is done
    policy,     \* NativeSseBlockPolicyState
    tracker,    \* EmittedNativeSseTracker
    held,       \* events in the RecoveryHoldbackBuffer
    committed,  \* RecoveryHoldbackBuffer.committed
    retries,    \* StreamRecoverySession._early_retries
    sent,       \* events the client was given
    quirks      \* history: what the provider did that the protocol does not foresee

vars == <<phase, thinking, router, upstream, policy, tracker, held, committed, retries, sent, quirks>>

Kinds == {"text", "thinking", "tool_use"}

Ended == {"completed", "recovered", "failed", "gone"}

------------------------------------------------------------------------------
(* Events.  The arguments of a call are whole when both of their pieces are    *)
(* there, in order.                                                            *)

Event(t) == [t |-> t]
StartEvent(index, kind, call, named) ==
    [t |-> "start", index |-> index, kind |-> kind, call |-> call, named |-> named]
DeltaEvent(index, kind, pieces) == [t |-> "delta", index |-> index, kind |-> kind, pieces |-> pieces]
StopEvent(index) == [t |-> "stop", index |-> index]

\* The elements of s that are in S.
Only(s, S) == FlattenSeq([k \in DOMAIN s |-> IF s[k] \in S THEN <<s[k]>> ELSE <<>>])

\* f with x at u.
With(f, u, x) == [v \in DOMAIN f \cup {u} |-> IF v = u THEN x ELSE f[v]]

\* Where a piece is from: the attempt, a recovery request, or the proxy itself.
Recovery == MaxRetries + 1
Report == MaxRetries + 2

Piece(from, n) == [from |-> from, n |-> n]
Numbers(pieces) == [k \in DOMAIN pieces |-> pieces[k].n]
Whole(pieces) == Numbers(pieces) = <<1, 2>>

\* The only texts that complete arguments already sent: accept_tool_json_repair.
Repairable(pieces) == Numbers(pieces) \in {<<>>, <<1>>, <<1, 2>>}
Rest(pieces) == [k \in 1..(2 - Len(pieces)) |-> Piece(Recovery, Len(pieces) + k)]

------------------------------------------------------------------------------
(* The block policy: an operator takes its state and gives [p, events].        *)

NewPolicy == [next |-> 0, segment |-> <<>>, dropped |-> {}, pending |-> {}, stopped |-> FALSE]

Drop(p) == [p |-> p, events |-> <<>>]

Closed(segment, others) ==
    [v \in DOMAIN segment |-> [segment[v] EXCEPT !.open = @ /\ v \notin others]]

\* _synthetic_close_other_open_blocks: the provider's own stops come later and
\* are suppressed.
CloseOthers(p, u) ==
    LET others == {v \in DOMAIN p.segment \ {u} : p.segment[v].open}
    IN  [p |-> [p EXCEPT !.segment = Closed(@, others), !.pending = @ \cup others],
         events |-> FlattenSeq([k \in 1..MaxBlocks |->
                        IF k - 1 \in others THEN <<StopEvent(p.segment[k - 1].down)>> ELSE <<>>])]

\* _allocate_new_segment with the content_block_start that announces it.
Allocate(p, u, kind, call, named) ==
    [p |-> [p EXCEPT !.next = @ + 1,
                     !.segment = With(@, u, [kind |-> kind, down |-> p.next, open |-> TRUE,
                                            call |-> call, named |-> named])],
     events |-> <<StartEvent(p.next, kind, call, named)>>]

\* content_block_start.
PolicyStart(p, u, kind, call) ==
    IF kind = "thinking" /\ ~thinking
    THEN Drop([p EXCEPT !.dropped = @ \cup {u}])
    ELSE LET closed == CloseOthers(p, u)
             opened == Allocate(closed.p, u, kind, call, TRUE)
         IN  [p |-> opened.p, events |-> closed.events \o opened.events]

\* content_block_delta: to an open block, to one that was closed and is opened
\* again under a new index with the identity of its call, or to one that never
\* started.  Opening here closes nothing else; a thought without a start is passed on
\* as it is, under the provider's own index.
PolicyDelta(p, u, kind, call, pieces) ==
    LET known == u \in DOMAIN p.segment
        opened == IF known THEN Allocate([p EXCEPT !.pending = @ \ {u}], u, kind,
                                         p.segment[u].call, p.segment[u].named)
                  ELSE Allocate(p, u, kind, call, FALSE)
    IN  IF u \in p.dropped \/ (kind = "thinking" /\ ~thinking) THEN Drop(p)
        ELSE CASE known /\ p.segment[u].open ->
                    [p |-> p, events |-> <<DeltaEvent(p.segment[u].down, kind, pieces)>>]
               [] ~known /\ kind = "thinking" ->
                    [p |-> p, events |-> <<DeltaEvent(u, kind, pieces)>>]
               [] OTHER ->
                    [p |-> opened.p,
                     events |-> Append(opened.events, DeltaEvent(p.next, kind, pieces))]

\* content_block_stop: that of a block without a segment is passed on as it is.
PolicyStop(p, u) ==
    CASE u \in p.dropped -> Drop(p)
      [] u \notin p.dropped /\ u \in p.pending -> Drop([p EXCEPT !.pending = @ \ {u}])
      [] u \in DOMAIN p.segment \ (p.dropped \cup p.pending) /\ p.segment[u].open ->
            [p |-> [p EXCEPT !.segment[u].open = FALSE],
             events |-> <<StopEvent(p.segment[u].down)>>]
      [] u \notin DOMAIN p.segment \cup p.dropped \cup p.pending /\ thinking ->
            [p |-> p, events |-> <<StopEvent(u)>>]
      [] OTHER -> Drop(p)

\* transform_native_sse_block_event, and around it OpenRouter's
\* _transform_stream_event.
Transform(p, ev) ==
    LET q == [p EXCEPT !.stopped = @ \/ ev.t = "message_stop"]
    IN  IF router /\ (p.stopped \/ ev.t = "done") THEN Drop(p)
        ELSE CASE ev.t = "start" -> PolicyStart(p, ev.index, ev.kind, ev.call)
               [] ev.t = "delta" -> PolicyDelta(p, ev.index, ev.kind, ev.call, ev.pieces)
               [] ev.t = "stop"  -> PolicyStop(p, ev.index)
               [] OTHER -> [p |-> q, events |-> <<ev>>]

------------------------------------------------------------------------------
(* The tracker. *)

NewTracker == [blocks |-> <<>>, stack |-> <<>>, reason |-> FALSE, stopped |-> FALSE]

\* A piece of another kind than the block's is not noted.
Filled(blocks, ev) ==
    [k \in DOMAIN blocks |->
        IF blocks[k].index = ev.index /\ blocks[k].kind = ev.kind
        THEN [blocks[k] EXCEPT !.pieces = @ \o ev.pieces] ELSE blocks[k]]

Observe(tk, ev) ==
    CASE ev.t = "start" ->
            [tk EXCEPT !.blocks = Append(@, [index |-> ev.index, kind |-> ev.kind,
                                             named |-> ev.named, pieces |-> <<>>]),
                       !.stack = Append(@, ev.index)]
      [] ev.t = "delta" -> [tk EXCEPT !.blocks = Filled(@, ev)]
      [] ev.t = "stop" ->
            [tk EXCEPT !.stack = Only(@, ToSet(@) \ {ev.index})]
      [] ev.t = "message_delta" -> [tk EXCEPT !.reason = TRUE]
      [] ev.t = "message_stop" -> [tk EXCEPT !.stopped = TRUE]
      [] OTHER -> tk

\* A defect: counts the blocks that are open only.
OpenIndexDefect(tk) == Len(tk.stack)

NextContentIndex(tk) == Len(tk.blocks)

BlocksOf(tk, kind) == {bl \in ToSet(tk.blocks) : bl.kind = kind}
Emitted(tk, kind) == \E bl \in BlocksOf(tk, kind) : bl.pieces # <<>>

\* can_salvage_tool_use: there are calls, each with a name and whole arguments.
CanSalvage(tk) ==
    /\ BlocksOf(tk, "tool_use") # {}
    /\ \A bl \in BlocksOf(tk, "tool_use") : bl.named /\ Whole(bl.pieces)

\* iter_close_unclosed_blocks: the last that was opened first.
CloseUnclosed(tk) == [k \in DOMAIN tk.stack |-> StopEvent(Reverse(tk.stack)[k])]

\* iter_success_tail.
SuccessTail(tk) ==
    CloseUnclosed(tk)
    \o (IF tk.reason THEN <<>> ELSE <<Event("message_delta")>>)
    \o (IF tk.stopped THEN <<>> ELSE <<Event("message_stop")>>)

ErrorBlock(index) ==
    <<StartEvent(index, "text", 0, TRUE),
      DeltaEvent(index, "text", <<Piece(Report, 1)>>), StopEvent(index)>>

\* iter_midstream_error_tail: SSEBuilder knows nothing of what the provider's own
\* message_delta and message_stop may have said already.
ErrorTail(tk) ==
    CloseUnclosed(tk) \o ErrorBlock(NextContentIndex(tk))
    \o <<Event("message_delta"), Event("message_stop")>>

\* iter_provider_stream_error_sse_events.
WholeError ==
    <<Event("message_start")>> \o ErrorBlock(0) \o <<Event("message_delta"), Event("message_stop")>>

\* append_text_suffix and append_thinking_suffix: to the last open block of the
\* kind, or to a new one; what is open besides stays open.
AppendSuffix(tk, kind) ==
    LET more == <<Piece(Recovery, 1)>>
        open == Only(tk.stack, {bl.index : bl \in BlocksOf(tk, kind)})
        new == NextContentIndex(tk)
    IN  IF open # <<>> THEN <<DeltaEvent(Last(open), kind, more)>>
        ELSE <<StartEvent(new, kind, 0, TRUE), DeltaEvent(new, kind, more)>>

ObserveAll(tk, events) ==
    LET after[n \in 0..Len(events)] ==
            IF n = 0 THEN tk ELSE Observe(after[n - 1], events[n])
    IN  after[Len(events)]

------------------------------------------------------------------------------
Init ==
    /\ phase = "opening"
    /\ thinking \in BOOLEAN /\ router \in BOOLEAN
    /\ upstream = [blocks |-> <<>>, stage |-> "blocks"]
    /\ policy = NewPolicy /\ tracker = NewTracker
    /\ held = <<>> /\ committed = FALSE /\ retries = 0
    /\ sent = <<>>
    /\ quirks = {}

\* execute_with_retry gives a stream or gives up; the retries it makes are those
\* of ProviderLimiter.
Open ==
    /\ phase = "opening"
    /\ phase' = "reading"
    /\ upstream' = [blocks |-> <<>>, stage |-> "start"]
    /\ UNCHANGED <<thinking, router, policy, tracker, held, committed, retries, sent, quirks>>

\* Whatever the error, a stream that never opened is not retried here; nothing is
\* committed and nothing held, so the client gets a whole message.
OpenFails ==
    /\ phase = "opening"
    /\ sent' = WholeError
    /\ phase' = "failed"
    /\ UNCHANGED <<thinking, router, upstream, policy, tracker, held, committed, retries, quirks>>

\* StreamRecoverySession.push: the holdback ends when its time or its size is up.
Push(events) ==
    IF committed
    THEN sent' = sent \o events /\ UNCHANGED <<held, committed>>
    ELSE \/ held' = held \o events /\ UNCHANGED <<sent, committed>>
         \/ /\ events # <<>>
            /\ sent' = sent \o held \o events /\ held' = <<>> /\ committed' = TRUE

\* iter_stream_chunks gives one event, and the loop of run feeds and pushes it.
Read(ev) ==
    LET done == Transform(policy, ev)
    IN  /\ phase = "reading"
        /\ policy' = done.p
        /\ tracker' = ObserveAll(tracker, done.events)
        /\ Push(done.events)
        /\ UNCHANGED <<phase, thinking, router, retries>>

------------------------------------------------------------------------------
(* What the provider sends.  Its blocks have indexes from 0; a block of a call *)
(* is closed when its arguments are whole, and the message ends when all       *)
(* blocks are closed.                                                          *)

Blocks == DOMAIN upstream.blocks
OpenBlocks == {u \in Blocks : upstream.blocks[u].open}
Fresh == Cardinality(Blocks)
CallOf(u) == IF upstream.blocks[u].kind = "tool_use" THEN u + 1 ELSE 0

\* From then on the provider owes the rest of the block.
Begun(kind, pieces) ==
    [upstream EXCEPT !.blocks = With(@, Fresh, [kind |-> kind, open |-> TRUE, pieces |-> pieces])]

Overlap == IF OpenBlocks = {} THEN {} ELSE {"overlap"}

SendMessageStart ==
    /\ upstream.stage = "start"
    /\ Read(Event("message_start"))
    /\ upstream' = [upstream EXCEPT !.stage = "blocks"]
    /\ UNCHANGED quirks

SendStart(kind) ==
    /\ upstream.stage = "blocks" /\ Fresh < MaxBlocks
    /\ Read([t |-> "start", index |-> Fresh, kind |-> kind,
             call |-> IF kind = "tool_use" THEN Fresh + 1 ELSE 0])
    /\ upstream' = Begun(kind, 0)
    /\ quirks' = quirks \cup Overlap

\* The first delta of a block that the provider never started; "loose" when it reaches
\* the client so.
SendHeadless(kind) ==
    /\ upstream.stage = "blocks" /\ Fresh < MaxBlocks
    /\ Read([t |-> "delta", index |-> Fresh, kind |-> kind,
             call |-> IF kind = "tool_use" THEN Fresh + 1 ELSE 0,
             pieces |-> <<Piece(retries, 1)>>])
    /\ upstream' = Begun(kind, 1)
    /\ quirks' = quirks \cup Overlap
                     \cup (IF kind # "thinking" THEN {"headless"}
                           ELSE IF thinking THEN {"loose"} ELSE {})

SendDelta(u) ==
    /\ upstream.stage = "blocks" /\ upstream.blocks[u].pieces < 2
    /\ Read([t |-> "delta", index |-> u, kind |-> upstream.blocks[u].kind, call |-> CallOf(u),
             pieces |-> <<Piece(retries, upstream.blocks[u].pieces + 1)>>])
    /\ upstream' = [upstream EXCEPT !.blocks[u].pieces = @ + 1]
    /\ quirks' = quirks \cup (IF u \in policy.pending THEN {"returned"} ELSE {})

SendStop(u) ==
    /\ upstream.stage = "blocks"
    /\ upstream.blocks[u].kind = "tool_use" => upstream.blocks[u].pieces = 2
    /\ Read([t |-> "stop", index |-> u])
    /\ upstream' = [upstream EXCEPT !.blocks[u].open = FALSE]
    /\ UNCHANGED quirks

SendMessageDelta ==
    /\ upstream.stage = "blocks" /\ OpenBlocks = {}
    /\ Read(Event("message_delta"))
    /\ upstream' = [upstream EXCEPT !.stage = "delta"]
    /\ UNCHANGED quirks

SendMessageStop ==
    /\ upstream.stage = "delta"
    /\ Read(Event("message_stop"))
    /\ upstream' = [upstream EXCEPT !.stage = "stopped"]
    /\ UNCHANGED quirks

\* "[DONE]", as OpenAI ends a stream.
SendDone ==
    /\ upstream.stage = "stopped"
    /\ Read(Event("done"))
    /\ upstream' = [upstream EXCEPT !.stage = "done"]
    /\ UNCHANGED quirks

\* An event: error, which the policy passes on and the tracker does not know; it is
\* "early" if the message has not started.
SendError ==
    /\ upstream.stage \in {"start", "blocks", "delta"}
    /\ Read(Event("error"))
    /\ upstream' = [upstream EXCEPT !.stage = "done"]
    /\ quirks' = quirks \cup {IF upstream.stage = "start" THEN "early" ELSE "error"}

Provider ==
    \/ SendMessageStart
    \/ \E kind \in Kinds : SendStart(kind) \/ SendHeadless(kind)
    \/ \E u \in OpenBlocks : SendDelta(u) \/ SendStop(u)
    \/ SendMessageDelta \/ SendMessageStop \/ SendDone \/ SendError

------------------------------------------------------------------------------
(* The end of the stream, and its failures. *)

Flushed == held' = <<>> /\ committed' = TRUE

\* The stream is over, with a message_stop in it.
Complete ==
    /\ phase = "reading" /\ tracker.stopped
    /\ sent' = sent \o held /\ Flushed
    /\ phase' = "completed"
    /\ UNCHANGED <<thinking, router, upstream, policy, tracker, retries, quirks>>

\* The error without a way to recover from it.
EndWithError ==
    /\ phase' = "failed"
    /\ IF committed \/ held # <<>>
       THEN sent' = sent \o held \o ErrorTail(tracker) /\ Flushed
       ELSE sent' = WholeError /\ UNCHANGED <<held, committed>>
    /\ UNCHANGED <<policy, tracker, retries>>

\* advance_failure.
EarlyRetry ==
    /\ phase' = "opening"
    /\ retries' = retries + 1
    /\ policy' = NewPolicy /\ tracker' = NewTracker /\ held' = <<>>
    /\ UNCHANGED <<committed, sent>>

MidstreamRecovery ==
    /\ phase' = "recovering"
    /\ UNCHANGED <<policy, tracker, held, committed, retries, sent>>

\* A defect: forgets that the client has seen some of the attempt.
RetryDefect == ~CanSalvage(tracker) /\ retries < MaxRetries

MayRetry == ~committed /\ ~CanSalvage(tracker) /\ retries < MaxRetries

AdvanceFailure(retryable) ==
    /\ phase = "reading"
    /\ CASE retryable /\ MayRetry -> EarlyRetry
         [] retryable /\ ~MayRetry /\ tracker.blocks # <<>> -> MidstreamRecovery
         [] OTHER -> EndWithError
    /\ quirks' = IF retryable /\ MayRetry THEN {}
                 ELSE quirks \cup (IF tracker.reason THEN {"late"} ELSE {})
    /\ UNCHANGED <<thinking, router, upstream>>

\* The stream is over without a message_stop: TruncatedProviderStreamError.
Truncated == ~tracker.stopped /\ AdvanceFailure(TRUE)

\* It breaks off, which may happen after a message_stop as well.
Break == \E retryable \in BOOLEAN : AdvanceFailure(retryable)

\* AnthropicMessagesRecovery.events: the answer's calls are completed by a request
\* for each that is not whole, whether or not its block is still open.
Repairs(blocks) ==
    FlattenSeq([k \in DOMAIN blocks |->
        IF blocks[k].kind = "tool_use" /\ ~Whole(blocks[k].pieces)
        THEN <<DeltaEvent(blocks[k].index, "tool_use", Rest(blocks[k].pieces))>> ELSE <<>>])

RecoverCalls ==
    /\ phase = "recovering"
    /\ BlocksOf(tracker, "tool_use") # {}
    /\ \A bl \in BlocksOf(tracker, "tool_use") : bl.named /\ Repairable(bl.pieces)
    /\ sent' = sent \o held \o Repairs(tracker.blocks) \o SuccessTail(tracker)
    /\ Flushed
    /\ phase' = "recovered"
    /\ UNCHANGED <<thinking, router, upstream, policy, tracker, retries, quirks>>

\* The answer so far is continued: what the second request gave of thinking, then
\* what it gave of text.
RecoverText(kinds) ==
    LET thought == IF "thinking" \in kinds THEN AppendSuffix(tracker, "thinking") ELSE <<>>
        then == ObserveAll(tracker, thought)
        told == IF "text" \in kinds THEN AppendSuffix(then, "text") ELSE <<>>
    IN  /\ phase = "recovering"
        /\ BlocksOf(tracker, "tool_use") = {}
        /\ Emitted(tracker, "text") \/ Emitted(tracker, "thinking")
        /\ kinds # {} /\ ("thinking" \in kinds => thinking)
        /\ sent' = sent \o held \o thought \o told \o SuccessTail(ObserveAll(then, told))
        /\ Flushed
        /\ phase' = "recovered"
        /\ UNCHANGED <<thinking, router, upstream, policy, tracker, retries, quirks>>

\* A request fails, or gives nothing that fits.
RecoveryFails ==
    /\ phase = "recovering" /\ ~CanSalvage(tracker)
    /\ EndWithError
    /\ UNCHANGED <<thinking, router, upstream, quirks>>

\* The client closes the generator.
Leave ==
    /\ phase \in {"opening", "reading", "recovering"}
    /\ phase' = "gone"
    /\ UNCHANGED <<thinking, router, upstream, policy, tracker, held, committed, retries, sent, quirks>>

Next ==
    \/ Open \/ OpenFails
    \/ Provider
    \/ Complete \/ Truncated \/ Break
    \/ RecoverCalls \/ (\E kinds \in SUBSET {"text", "thinking"} : RecoverText(kinds)) \/ RecoveryFails
    \/ Leave

Spec == Init /\ [][Next]_vars

------------------------------------------------------------------------------
(* Properties. *)

Answered == phase \in {"completed", "recovered", "failed"}

Starts(events) == SelectSeq(events, LAMBDA ev : ev.t = "start")
OpenAfter(events) ==
    {ev.index : ev \in ToSet(Starts(events))}
        \ {ev.index : ev \in ToSet(SelectSeq(events, LAMBDA e : e.t = "stop"))}
Has(events, t) == \E ev \in ToSet(events) : ev.t = t

\* What the client was told the block holds.
CarriedIn(events, index) ==
    FlattenSeq([k \in DOMAIN events |->
        IF events[k].t = "delta" /\ events[k].index = index THEN events[k].pieces ELSE <<>>])
Carried(index) == CarriedIn(sent, index)

OfAttempt(attempt) == [from : {attempt}, n : 1..2]

FromRecovery(ev) == ev.t = "delta" /\ \E p \in ToSet(ev.pieces) : p.from = Recovery

\* The client's stream is one message wherever the provider breaks off: it starts
\* once, its blocks are numbered from 0 without a gap, each is opened once, added to
\* while open, and closed once, and at the end nothing is open and the message is
\* stopped.  One block is open at a time, unless the provider comes back to a block
\* the policy closed, or leaves out a start while another block is open, or the
\* answer is recovered.  Four exceptions are findings: a thought without a start is
\* passed on as it is, an error may come before message_start, arguments are repaired
\* after the policy closed their block, and a failure may follow the provider's
\* message_delta.
ClientStreamWhole ==
    /\ \A n \in DOMAIN sent :
        LET before == SubSeq(sent, 1, n - 1)
            ev == sent[n]
        IN  /\ ev.t = "message_start" => n = 1
            /\ n = 1 => ev.t = "message_start" \/ (ev.t = "error" /\ "early" \in quirks)
            /\ ev.t = "start" => ev.index = Len(Starts(before))
            /\ ev.t = "delta" => \/ ev.index \in OpenAfter(before)
                                 \/ "overlap" \in quirks /\ FromRecovery(ev)
                                 \/ "loose" \in quirks
            /\ ev.t = "stop" => ev.index \in OpenAfter(before) \/ "loose" \in quirks
            /\ "late" \notin quirks =>
                /\ ev.t = "start" => ~Has(before, "message_delta")
                /\ Has(before, "message_stop") => ev.t = "done"
            /\ ("returned" \notin quirks /\ ~({"overlap", "headless"} \subseteq quirks)
                    /\ phase # "recovered") =>
                Cardinality(OpenAfter(Append(before, ev))) <= 1
    /\ Answered => Has(sent, "message_stop") /\ OpenAfter(sent) = {}

\* What the client was given is one attempt of the provider: no piece of an attempt
\* that was retried, none twice, none left out before a later one of its block.  An
\* answer that ends well has no call with half its arguments, unless the provider
\* came back to a block the policy had closed: it is two calls then (a finding).  Of
\* blocks nothing is said once a thought without a start has reached the client, whose
\* index may be that of another block (a finding too).
AnswerOfOneAttempt ==
    /\ \A ev \in ToSet(sent) : ev.t = "delta" =>
        \A p \in ToSet(ev.pieces) : p.from \in {retries, Recovery, Report}
    /\ quirks \cap {"returned", "loose"} = {} =>
        \A ev \in ToSet(sent) : ev.t = "start" =>
            LET own == Only(Carried(ev.index), OfAttempt(retries))
            IN  /\ Numbers(own) = [k \in DOMAIN own |-> k]
                /\ (phase \in {"completed", "recovered"} /\ ev.kind = "tool_use")
                       => Whole(Carried(ev.index))

\* What a client of the Responses API has got of these events.
Agrees(r, events) ==
    LET of(t) == SelectSeq(r.chunks, LAMBDA c : c.t = t)
        ends == SelectSeq(r.chunks, LAMBDA c : c.t \in {"completed", "failed"})
        told(slot) == FlattenSeq([k \in DOMAIN r.chunks |->
                          IF r.chunks[k].t = "delta" /\ r.chunks[k].slot = slot
                          THEN r.chunks[k].pieces ELSE <<>>])
        upTo == IF Has(events, "error")
                THEN SubSeq(events, 1, CHOOSE k \in DOMAIN events : events[k].t = "error") ELSE events
    IN  /\ [k \in DOMAIN of("item.added") |-> of("item.added")[k].slot]
               = [k \in DOMAIN r.slots |-> k]
        /\ \A a, d \in DOMAIN r.chunks :
               (r.chunks[a].t = "item.done" /\ r.chunks[d].t = "delta"
                    /\ r.chunks[a].slot = r.chunks[d].slot) => d < a
        /\ Answered =>
            /\ Len(ends) = 1 /\ Last(r.chunks) = ends[1]
            /\ ends[1].t = "failed" <=> Has(events, "error")
            /\ ends[1].output = r.slots
            /\ Len(of("item.done")) = Len(r.slots)
            /\ \A slot \in DOMAIN r.slots : told(slot) = r.slots[slot].pieces
            /\ quirks \cap {"late", "loose"} = {} => Len(r.slots) = Len(Starts(upTo))
            /\ (quirks = {} \/ quirks = {"headless"}) =>
                \A slot \in DOMAIN r.slots : r.slots[slot].pieces = Carried(slot - 1)

\* The client that asked through the Responses API gets the same answer: every item
\* is added, then filled and done once, at its slot; the chunks of an item add up to
\* the item; the last chunk, and no other, ends the response, with all items in
\* order; these are the blocks of the message, unless a thought without a start (no
\* item) or a late failure (an item more) is among them.
ResponsesAgree == Agrees(ResponsesFrom(sent, Answered), sent)
==============================================================================
