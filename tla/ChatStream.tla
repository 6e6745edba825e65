------------------------------- MODULE ChatStream -------------------------------
(***************************************************************************)
(* One answer of an OpenAI-chat provider on its way to the client:         *)
(* OpenAIChatStreamRunner.run with its parsers, the holdback buffer, early *)
(* retries and midstream recovery, and the client that reads the events.   *)
(*                                                                         *)
(* One action is the work on one piece of the provider's stream, or the    *)
(* delivery of one event.  The runner is a generator: it goes on only when *)
(* the client has taken all events it has yielded.  A chunk that carries   *)
(* several pieces is the same as chunks with one piece each.  What the     *)
(* provider sends, where it fails, and when the holdback expires is        *)
(* arbitrary.                                                              *)
(***************************************************************************)
EXTENDS SseBuilder

CONSTANTS
    MaxRetries,   \* EARLY_TRANSPARENT_MAX_RETRIES
    MaxChunks     \* bound: pieces of one attempt

ASSUME StreamAssumption == MaxRetries \in Nat /\ MaxChunks \in Nat

VARIABLES
    phase,      \* where the runner is
    thinking,   \* thinking_enabled of the request
    b,          \* the SSEBuilder
    inThink,    \* ThinkTagParser._in_think_tag
    tagged,     \* the ThinkTagParser holds what may become a tag
    calling,    \* the HeuristicToolParser is inside a call written as text
    finish,     \* finish_reason, "none" for None
    chunks,     \* pieces read in this attempt
    held,       \* events in the RecoveryHoldbackBuffer
    committed,  \* RecoveryHoldbackBuffer.committed
    retries,    \* StreamRecoverySession._early_retries
    out,        \* events yielded that the client has not taken
    stage, open, used, last,   \* what the client has seen, see Message
    got         \* history: what the events it has seen carried

parserVars == <<inThink, tagged, calling>>
runnerVars == <<phase, thinking, b, parserVars, finish, chunks, held, committed, retries>>
clientVars == <<stage, open, used, last, got>>
vars == <<runnerVars, out, clientVars>>

M == INSTANCE Message WITH
        Indexes <- 0..(2 * MaxChunks + 4), Kinds <- {"text", "thinking", "tool_use"}

\* "completed", "recovered" and "failed" have yielded the end of the message.
Ended == {"completed", "recovered", "failed"}
Phases == {"new", "connect", "reading", "gone"} \cup Ended

TypeOK ==
    /\ phase \in Phases
    /\ thinking \in BOOLEAN /\ committed \in BOOLEAN
    /\ inThink \in BOOLEAN /\ tagged \in BOOLEAN /\ calling \in BOOLEAN
    /\ b \in Builders
    /\ finish \in {"none", "stop", "tool_calls"}
    /\ chunks \in 0..MaxChunks /\ retries \in 0..MaxRetries
    /\ committed => held = <<>>

Init ==
    /\ phase = "new"
    /\ thinking \in BOOLEAN
    /\ b = NewBuilder
    /\ inThink = FALSE /\ tagged = FALSE /\ calling = FALSE
    /\ finish = "none"
    /\ chunks = 0
    /\ held = <<>> /\ committed = FALSE
    /\ retries = 0
    /\ out = <<>>
    /\ M!MessageInit
    /\ got = [tries |-> {}, input |-> [c \in Calls |-> "none"], kinds |-> {},
              reason |-> "none"]

-----------------------------------------------------------------------------
(***************************************************************************)
(* The holdback buffer.                                                    *)
(***************************************************************************)

\* Events carry the attempt that made them.
Stamped(events) == [i \in DOMAIN events |-> [event |-> events[i], try |-> retries]]

\* RecoveryHoldbackBuffer.push of each event: held back, or let out with all
\* before them once the time or the size is reached, or was before.
Push(events) ==
    \/ /\ ~committed
       /\ held' = held \o Stamped(events)
       /\ UNCHANGED <<committed, out>>
    \/ /\ events # <<>>
       /\ committed' = TRUE
       /\ out' = out \o held \o Stamped(events)
       /\ held' = <<>>
    \/ /\ events = <<>> /\ committed
       /\ UNCHANGED <<held, committed, out>>

\* The events are the end of the answer: everything is let out.
PushAll(events) ==
    /\ committed' = TRUE
    /\ out' = out \o held \o Stamped(events)
    /\ held' = <<>>

-----------------------------------------------------------------------------
(***************************************************************************)
(* Reading the provider's stream.                                          *)
(***************************************************************************)

\* message_start goes out at once; then the runner waits for its slot.
Begin ==
    /\ phase = "new"
    /\ phase' = "connect"
    /\ out' = Stamped(<<PlainEvent("message_start", "none")>>)
    /\ UNCHANGED <<thinking, b, parserVars, finish, chunks, held, committed, retries,
                   clientVars>>

\* The runner can go on: the client has taken what was yielded.
Resumed == out = <<>>

Connect ==
    /\ phase = "connect" /\ Resumed
    /\ phase' = "reading"
    /\ UNCHANGED <<thinking, b, parserVars, finish, chunks, held, committed, retries,
                   out, clientVars>>

\* One more piece of the stream; s is the step it causes.
Read(s) ==
    /\ phase = "reading" /\ Resumed
    /\ chunks < MaxChunks
    /\ chunks' = chunks + 1
    /\ \E r \in {s} : b' = r.b /\ Push(r.e)
    /\ UNCHANGED <<phase, thinking, retries, clientVars>>

\* reasoning_content.
Reasoning ==
    /\ thinking
    /\ Read(Think(Step(b)))
    /\ UNCHANGED <<parserVars, finish>>

\* A piece of content, of which the parsers pass on the step s.
Content(s) ==
    /\ Read(s)
    /\ UNCHANGED finish

\* Text of the answer, also between the parameters of a call written as text.
Text(text) ==
    /\ ~inThink
    /\ Content(Say(Step(b), text))
    /\ tagged' = FALSE
    /\ UNCHANGED <<inThink, calling>>

\* Text inside <think>, shown only if thinking is enabled.
TaggedThinking ==
    /\ inThink
    /\ Content(IF thinking THEN Think(Step(b)) ELSE Step(b))
    /\ tagged' = FALSE
    /\ UNCHANGED <<inThink, calling>>

\* <think> or </think>, or what may become one of them and is held back.
Tag ==
    /\ Content(Step(b))
    /\ \/ inThink' = ~inThink /\ tagged' = FALSE
       \/ tagged' = TRUE /\ UNCHANGED inThink
    /\ UNCHANGED calling

\* A call written as text begins, or is complete.
TextCall ==
    /\ ~inThink
    /\ Content(IF calling THEN HeuristicTool(Step(b)) ELSE Step(b))
    /\ calling' = ~calling
    /\ tagged' = FALSE
    /\ UNCHANGED inThink

\* A tool-call delta for call c; the provider stops when its JSON is whole.
ToolChunk(c, name, args) ==
    /\ name # "none" \/ args # "none"
    /\ b.tool[c].name = "full" => name = "none"
    /\ \A a \in {b.tool[c].sent, b.tool[c].pre} : a # "whole"
    /\ Read(ToolCall(CloseContent(Step(b)), c, name, args))
    /\ UNCHANGED <<parserVars, finish>>

FinishReason(reason) ==
    /\ finish = "none"
    /\ finish' = reason
    /\ Read(Step(b))
    /\ UNCHANGED parserVars

-----------------------------------------------------------------------------
(***************************************************************************)
(* The stream ends with a finish reason.                                   *)
(***************************************************************************)

\* ThinkTagParser.flush: what was held back is content after all.
FlushTags(s) ==
    IF ~tagged \/ (inThink /\ ~thinking) THEN s
    ELSE IF inThink THEN Think(s) ELSE Say(s, "solid")

FlushCall(s) == IF calling THEN HeuristicTool(s) ELSE s

\* An answer of nothing, or of nothing but thinking, gets a text.
NeedsText(c) ==
    \/ ~HasOutput(c)
    \/ Started(c) = {} /\ c.said # "solid" /\ c.thought

Fill(s) == IF NeedsText(s.b) THEN Say(s, "blank") ELSE s

\* map_stop_reason.
StopReason(reason) == IF reason = "tool_calls" THEN "tool_use" ELSE "end_turn"

Complete ==
    /\ phase = "reading" /\ Resumed /\ finish # "none"
    /\ LET content == Fill(FlushCall(FlushTags(Step(b))))
           end == End(CloseAll(FlushTasks(FlushAliases(content))), StopReason(finish))
       IN \E s \in {end} : b' = s.b /\ PushAll(s.e)
    /\ phase' = "completed"
    /\ UNCHANGED <<thinking, parserVars, finish, chunks, retries, clientVars>>

-----------------------------------------------------------------------------
(***************************************************************************)
(* The stream fails, or ends without a finish reason.                      *)
(***************************************************************************)

\* complete_tool_salvageable.
Salvageable == HasOutput(b) /\ AllComplete(b)

\* Defect: the attempt is repeated although the client has seen some of it.
CanRetryShown(opened, retryable) ==
    opened /\ retryable /\ ~Salvageable /\ retries < MaxRetries

\* advance_failure: nothing has left yet, so the attempt can be repeated.
CanRetry(opened, retryable) ==
    ~committed /\ opened /\ retryable /\ ~Salvageable /\ retries < MaxRetries

\* Defect: retries are not counted.
EarlyRetryDefect ==
    /\ held' = <<>> /\ b' = NewBuilder
    /\ inThink' = FALSE /\ tagged' = FALSE /\ calling' = FALSE
    /\ finish' = "none" /\ chunks' = 0
    /\ phase' = "connect"
    /\ UNCHANGED <<thinking, committed, out, retries>>

EarlyRetry ==
    /\ retries' = retries + 1
    /\ held' = <<>>
    /\ b' = NewBuilder
    /\ inThink' = FALSE /\ tagged' = FALSE /\ calling' = FALSE
    /\ finish' = "none"
    /\ chunks' = 0
    /\ phase' = "connect"
    /\ UNCHANGED <<thinking, committed, out>>

\* The calls are completed by recovery requests; what was held back of a call is
\* sent with the repair.
RepairTools(s) ==
    LET A == {c \in Started(s.b) : s.b.tool[c].sent # "whole"}
    IN ToolDeltas(s, A, [c \in A |-> [s.b.tool[c] EXCEPT !.sent = "whole"]],
                  [c \in A |-> "whole"])

\* The text goes on where it stopped; a recovery request answers with text, with
\* reasoning, or both.
ContinueText(s, thought, text) ==
    LET r == IF thought THEN Think(s) ELSE s
    IN IF text THEN Say(r, "solid") ELSE r

\* The ways OpenAIChatRecovery.events can succeed.
Recoveries ==
    IF Started(b) # {}
    THEN {End(CloseAll(IF AllComplete(b) THEN Step(b) ELSE RepairTools(Step(b))),
              "tool_use")}
    ELSE IF b.said = "none" /\ ~b.thought THEN {}
    ELSE {End(CloseAll(ContinueText(Step(b), p[1], p[2])), "end_turn") :
             p \in (BOOLEAN \X BOOLEAN) \ {<<FALSE, FALSE>>}}

Recover(s) ==
    /\ b' = s.b
    /\ PushAll(s.e)
    /\ phase' = "recovered"
    /\ UNCHANGED <<thinking, parserVars, finish, chunks, retries>>

\* emit_error_tail.
ErrorTail(s) ==
    LET r == CloseAll(s)
        told == IF Started(r.b) # {} THEN Emit(r, r.b, <<PlainEvent("error", "none")>>)
                ELSE ErrorText(r)
    IN End(told, "end_turn")

\* Defect: the events held back are dropped and their builder goes on.
FinalErrorDefect ==
    /\ LET s == ErrorTail(Step(b))
       IN b' = s.b /\ out' = Stamped(s.e)
    /\ held' = <<>> /\ committed' = TRUE
    /\ phase' = "failed"
    /\ UNCHANGED <<thinking, parserVars, finish, chunks, retries>>

\* The tail follows what was held back; if nothing was, it starts afresh.
FinalError ==
    /\ \E s \in {ErrorTail(Step(IF ~committed /\ held = <<>> THEN NewBuilder ELSE b))} :
       b' = s.b /\ PushAll(s.e)
    /\ phase' = "failed"
    /\ UNCHANGED <<thinking, parserVars, finish, chunks, retries>>

Fail(opened, retryable) ==
    /\ Resumed
    /\ IF CanRetry(opened, retryable) THEN EarlyRetry
       ELSE \/ FinalError
            \/ HasOutput(b) /\ retryable /\ \E s \in Recoveries : Recover(s)
    /\ UNCHANGED clientVars

\* _create_stream raises, after the retries of the rate limiter.
ConnectFails ==
    /\ phase = "connect"
    /\ \E retryable \in BOOLEAN : Fail(FALSE, retryable)

\* The connection breaks, or the stream ends too early, which can be retried.
StreamFails ==
    /\ phase = "reading"
    /\ \E retryable \in BOOLEAN : Fail(TRUE, retryable)

-----------------------------------------------------------------------------
(***************************************************************************)
(* The client.                                                             *)
(***************************************************************************)

\* The event changes what the client has seen as in Message, legal or not.
See(e) ==
    /\ stage' = CASE e.type = "message_start" -> "body"
                  [] e.type = "message_delta" -> "ending"
                  [] e.type = "message_stop" -> "stopped"
                  [] OTHER -> stage
    /\ used' = IF e.type = "start" THEN used \cup {e.index} ELSE used
    /\ open' = CASE e.type = "start" ->
                      [j \in DOMAIN open \cup {e.index} |->
                         IF j = e.index THEN e.kind ELSE open[j]]
                  [] e.type = "stop" -> [j \in DOMAIN open \ {e.index} |-> open[j]]
                  [] OTHER -> open
    /\ last' = CASE e.type \in {"start", "stop"} -> <<e.type, e.index>>
                 [] e.type = "delta" -> <<"delta", e.index, e.kind>>
                 [] OTHER -> <<e.type>>

\* What the client knows of the answer; a call that is not structured has no
\* entry of its own.
Learn(e, try) ==
    LET content == e.type \in {"start", "delta", "stop"}
    IN got' = [got EXCEPT
        !.tries = IF content THEN @ \cup {try} ELSE @,
        !.kinds = IF e.type = "start" THEN @ \cup {e.kind} ELSE @,
        !.input = [c \in Calls |-> IF e.call # c THEN @[c]
                                   ELSE IF e.type = "start" THEN "part" ELSE e.data],
        !.reason = IF e.type = "message_delta" THEN e.data ELSE @]

Deliver ==
    /\ out # <<>>
    /\ See(Head(out).event)
    /\ Learn(Head(out).event, Head(out).try)
    /\ out' = Tail(out)
    /\ UNCHANGED runnerVars

\* The client closes the connection: the generator is closed where it stands.
Disconnect ==
    /\ phase \notin {"gone"} \cup Ended
    /\ phase' = "gone"
    /\ out' = <<>> /\ held' = <<>>
    /\ UNCHANGED <<thinking, b, parserVars, finish, chunks, committed, retries, clientVars>>

-----------------------------------------------------------------------------
Runner ==
    \/ Begin \/ Connect \/ Tag \/ Reasoning \/ TaggedThinking \/ TextCall
    \/ \E reason \in {"stop", "tool_calls"} : FinishReason(reason)
    \/ ConnectFails \/ StreamFails \/ Complete
    \/ \E text \in {"blank", "solid"} : Text(text)
    \/ \E c \in Calls, name \in Names, args \in Amounts : ToolChunk(c, name, args)

Next == Runner \/ Deliver \/ Disconnect

Spec == Init /\ [][Next]_vars

\* The provider's stream goes on or fails, at the latest by a timeout of the HTTP
\* client, and the client reads.
FairSpec == Spec /\ WF_vars(Runner) /\ WF_vars(Deliver)

-----------------------------------------------------------------------------
(***************************************************************************)
(* Properties.                                                             *)
(***************************************************************************)

\* Retries, recoveries and errors at any point leave the client with a message
\* that is well formed at every event.
Contract == M!MessageSpec

\* Retries are invisible: all content the client ever sees is of one attempt, and
\* when the message has ended it has every block that the builder counts, with
\* nothing left in the holdback buffer.
OneAttempt ==
    /\ \A s, t \in got.tries : s = t
    /\ stage = "stopped" => held = <<>> /\ used = 0..(b.next - 1)

\* An answer that has ended is of use: a client that is told to run tools after an
\* interrupted stream has the whole input of every call it saw begin, and one that
\* is told of a normal end was given more than thinking.
EndIsOfUse ==
    stage = "stopped" =>
        /\ phase = "recovered" /\ got.reason = "tool_use" =>
               \A c \in Calls : got.input[c] \in {"none", "whole"}
        /\ phase = "completed" => got.kinds \cap {"text", "tool_use"} # {}

\* Every answer comes to its message_stop, unless the client goes away.
Answered == <>(stage = "stopped" \/ phase = "gone")
=============================================================================
