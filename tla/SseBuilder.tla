------------------------------- MODULE SseBuilder -------------------------------
(***************************************************************************)
(* SSEBuilder and ContentBlockManager of core/anthropic/sse.py and the     *)
(* tool-call assembly of providers/transports/openai_chat/tool_calls.py.   *)
(*                                                                         *)
(* An operator takes and returns a step [b |-> builder, e |-> the events   *)
(* it has emitted so far], so that operators chain.  Text is "blank" or    *)
(* "solid"; the arguments of a tool call are "none", "part" of its JSON    *)
(* or the "whole" of it.                                                   *)
(***************************************************************************)
EXTENDS Integers, Sequences, SequencesExt

CONSTANTS
    Calls,          \* OpenAI indexes of the tool calls of an answer
    TaskCalls,      \* those that call the Task tool
    AliasedCalls    \* those whose tool has renamed arguments

ASSUME CallsAssumption ==
    /\ IsFiniteSet(Calls) /\ "none" \notin Calls
    /\ TaskCalls \subseteq Calls /\ AliasedCalls \subseteq Calls \ TaskCalls

NoIndex == -1
NoCall == "none"

-----------------------------------------------------------------------------
(***************************************************************************)
(* Data.                                                                   *)
(***************************************************************************)

Amounts == {"none", "part", "whole"}

\* A name is told at once or first a fragment of it.
Names == {"none", "fragment", "full"}

\* ToolCallState: "sent" are its contents, the arguments emitted.
NewTool ==
    [name |-> "none", started |-> FALSE, block |-> NoIndex, sent |-> "none",
     pre |-> "none", task |-> "none", taskDone |-> FALSE, alias |-> "none"]

\* ContentBlockManager with the accumulated text and reasoning.
NewBuilder ==
    [next |-> 0, text |-> NoIndex, textOn |-> FALSE,
     think |-> NoIndex, thinkOn |-> FALSE,
     tool |-> [c \in Calls |-> NewTool],
     said |-> "none", thought |-> FALSE]

Tools ==
    [name : Names, started : BOOLEAN, block : Int, sent : Amounts,
     pre : Amounts, task : Amounts, taskDone : BOOLEAN, alias : Amounts]

Builders ==
    [next : Nat, text : Int, textOn : BOOLEAN, think : Int, thinkOn : BOOLEAN,
     tool : [Calls -> Tools], said : {"none", "blank", "solid"}, thought : BOOLEAN]

\* One server-sent event: "data" is what a delta adds, or the stop
\* reason.
Event(type, index, kind, call, data) ==
    [type |-> type, index |-> index, kind |-> kind, call |-> call, data |-> data]

Events ==
    [type : {"message_start", "start", "delta", "stop", "error", "message_delta",
             "message_stop"},
     index : Int, kind : {"none", "text", "thinking", "tool_use"},
     call : Calls \cup {NoCall},
     data : Amounts \cup {"blank", "solid", "end_turn", "tool_use"}]

StartEvent(i, kind, call) == Event("start", i, kind, call, "none")
DeltaEvent(i, kind, call, data) == Event("delta", i, kind, call, data)
StopEvent(i) == Event("stop", i, "none", NoCall, "none")
PlainEvent(type, data) == Event(type, NoIndex, "none", NoCall, data)

Step(b) == [b |-> b, e |-> <<>>]
Emit(s, b, events) == [b |-> b, e |-> s.e \o events]

-----------------------------------------------------------------------------
(***************************************************************************)
(* Text and thinking blocks: at most one of them is open.                  *)
(***************************************************************************)

StopThinking(s) ==
    IF s.b.thinkOn
    THEN Emit(s, [s.b EXCEPT !.thinkOn = FALSE], <<StopEvent(s.b.think)>>)
    ELSE s

StopText(s) ==
    IF s.b.textOn
    THEN Emit(s, [s.b EXCEPT !.textOn = FALSE], <<StopEvent(s.b.text)>>)
    ELSE s

StartThinking(s) ==
    Emit(s, [s.b EXCEPT !.think = s.b.next, !.thinkOn = TRUE, !.next = @ + 1],
         <<StartEvent(s.b.next, "thinking", NoCall)>>)

StartText(s) ==
    Emit(s, [s.b EXCEPT !.text = s.b.next, !.textOn = TRUE, !.next = @ + 1],
         <<StartEvent(s.b.next, "text", NoCall)>>)

EnsureThinking(s) ==
    LET r == StopText(s) IN IF r.b.thinkOn THEN r ELSE StartThinking(r)

EnsureText(s) ==
    LET r == StopThinking(s) IN IF r.b.textOn THEN r ELSE StartText(r)

\* ensure_thinking_block and emit_thinking_delta.
Think(s) ==
    LET r == EnsureThinking(s)
    IN Emit(r, [r.b EXCEPT !.thought = TRUE],
            <<DeltaEvent(r.b.think, "thinking", NoCall, "none")>>)

\* ensure_text_block and emit_text_delta.
Say(s, text) ==
    LET r == EnsureText(s)
    IN Emit(r, [r.b EXCEPT !.said = IF @ = "solid" THEN @ ELSE text],
            <<DeltaEvent(r.b.text, "text", NoCall, text)>>)

CloseContent(s) == StopText(StopThinking(s))

-----------------------------------------------------------------------------
(***************************************************************************)
(* Tool blocks.  They stay open until close_all_blocks.                    *)
(***************************************************************************)

Started(b) == {c \in Calls : b.tool[c].started}

\* has_committed_sse_output.
HasOutput(b) == b.text # NoIndex \/ b.think # NoIndex \/ Started(b) # {}

\* Defect: one complete call is enough.
AllCompleteDefect(b) == \E c \in Started(b) : b.tool[c].sent = "whole"

\* all_started_tools_complete.
AllComplete(b) ==
    /\ Started(b) # {}
    /\ \A c \in Started(b) : b.tool[c].sent = "whole"

\* register_tool_name: fragments are merged.
Registered(b, c, name) ==
    [b EXCEPT !.tool[c].name =
        IF "full" \in {@, name} THEN "full" ELSE IF name = "none" THEN @ ELSE name]

StartTool(s, c) ==
    Emit(s, [s.b EXCEPT !.tool[c].started = TRUE, !.tool[c].block = s.b.next,
                        !.next = @ + 1],
         <<StartEvent(s.b.next, "tool_use", c)>>)

\* Deltas for the calls of A, which change their states to tool and carry data.
ToolDeltas(s, A, tool, data) ==
    LET order == SetToSeq(A)
        delta(c) == DeltaEvent(s.b.tool[c].block, "tool_use", c, data[c])
    IN Emit(s, [s.b EXCEPT !.tool = [c \in Calls |-> IF c \in A THEN tool[c] ELSE @[c]]],
            [i \in 1..Len(order) |-> delta(order[i])])

\* One delta for call c, whose state becomes t.
ToolDelta(s, c, t, data) ==
    Emit(s, [s.b EXCEPT !.tool[c] = [t EXCEPT !.sent = data]],
         <<DeltaEvent(t.block, "tool_use", c, data)>>)

\* The buffer grows; it parses if it holds the JSON from its start to its end.
Parses(t, args) == args = "whole" /\ t.sent = "none"

\* _emit_tool_arg_delta: the arguments of Task and of renamed tools are held
\* back until they parse; a fragment of a name is not recognised as either.
EmitArguments(s, c, args) ==
    LET t == s.b.tool[c]
        known == t.name = "full"
    IN IF known /\ c \in TaskCalls
       THEN IF t.taskDone THEN s
            ELSE IF Parses(t, args)
            THEN ToolDelta(s, c, [t EXCEPT !.task = "none", !.taskDone = TRUE], args)
            ELSE [s EXCEPT !.b.tool[c].task = "part"]
       ELSE IF known /\ c \in AliasedCalls
       THEN IF Parses(t, args) THEN ToolDelta(s, c, [t EXCEPT !.alias = "none"], args)
            ELSE [s EXCEPT !.b.tool[c].alias = "part"]
       ELSE ToolDelta(s, c, t, args)

\* The call starts with the first piece of its name; arguments that came before
\* it follow at once.
Opened(s, c) ==
    LET t == s.b.tool[c]
        r == StartTool(s, c)
    IN IF t.started \/ t.name = "none" THEN s
       ELSE IF t.pre = "none" THEN r
       ELSE EmitArguments([r EXCEPT !.b.tool[c].pre = "none"], c, t.pre)

\* Arguments of a call without a name are kept.
Given(s, c, args) ==
    IF args = "none" THEN s
    ELSE IF s.b.tool[c].started THEN EmitArguments(s, c, args)
    ELSE [s EXCEPT !.b.tool[c].pre = args]

\* process_tool_call.
ToolCall(s, c, name, args) ==
    Given(Opened([s EXCEPT !.b = Registered(s.b, c, name)], c), c, args)

\* iter_heuristic_tool_use_sse: a complete block of its own, of no call.
HeuristicTool(s) ==
    LET r == CloseContent(s)
    IN Emit(r, [r.b EXCEPT !.next = @ + 1],
            <<StartEvent(r.b.next, "tool_use", NoCall),
              DeltaEvent(r.b.next, "tool_use", NoCall, "whole"),
              StopEvent(r.b.next)>>)

\* flush_tool_argument_alias_buffers: malformed JSON goes out as it is.
FlushAliases(s) ==
    LET A == {c \in AliasedCalls : s.b.tool[c].name = "full" /\ s.b.tool[c].alias # "none"}
    IN ToolDeltas(s, A,
                  [c \in A |-> [s.b.tool[c] EXCEPT !.alias = "none", !.sent = "part"]],
                  [c \in A |-> "part"])

\* flush_task_arg_buffers: malformed JSON becomes an empty object, which is
\* not what was meant: "part".
FlushTasks(s) ==
    LET A == {c \in Calls : s.b.tool[c].task # "none" /\ ~s.b.tool[c].taskDone}
    IN ToolDeltas(s, A,
                  [c \in A |-> [s.b.tool[c] EXCEPT !.task = "none", !.taskDone = TRUE,
                                                   !.sent = "part"]],
                  [c \in A |-> "part"])

-----------------------------------------------------------------------------
(***************************************************************************)
(* The end of an answer.                                                   *)
(***************************************************************************)

CloseAll(s) ==
    LET r == CloseContent(s)
        order == SetToSeq(Started(r.b))
    IN Emit(r, r.b, [i \in 1..Len(order) |-> StopEvent(r.b.tool[order[i]].block)])

\* emit_error.
ErrorText(s) ==
    Emit(s, [s.b EXCEPT !.next = @ + 1],
         <<StartEvent(s.b.next, "text", NoCall),
           DeltaEvent(s.b.next, "text", NoCall, "solid"),
           StopEvent(s.b.next)>>)

\* message_delta and message_stop.
End(s, reason) ==
    Emit(s, s.b, <<PlainEvent("message_delta", reason), PlainEvent("message_stop", "none")>>)
=============================================================================
