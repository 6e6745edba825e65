------------------------------ MODULE Conversation ------------------------------
(***************************************************************************)
(* What a client has written and what a provider is sent of it.  A client  *)
(* of the Messages API or of the Responses API adds to its history, turn   *)
(* by turn; the operators are the converters from there to an OpenAI chat  *)
(* (core/anthropic/conversion.py with Gemini's signatures), to a native    *)
(* Anthropic body, and to DeepSeek's variant of that.  A text, a thought   *)
(* or a call is its number in the history; the sampling parameters are     *)
(* left out.                                                               *)
(***************************************************************************)
EXTENDS Naturals, Sequences, SequencesExt, FiniteSets

CONSTANTS
    MaxBlocksWritten,   \* bound: blocks of one message of the assistant
    MaxMessages,        \* bound: messages of a history of the Messages API
    MaxItems            \* bound: items of a history of the Responses API

ASSUME ConversationAssumption ==
    MaxBlocksWritten \in Nat /\ MaxMessages \in Nat /\ MaxItems \in Nat

VARIABLES
    client,    \* "messages" or "responses"
    history,   \* messages or input items
    cached     \* calls whose extra_content the Gemini provider still knows

conversation == <<client, history, cached>>

Modes == {"disabled", "think_tags", "reasoning_content"}   \* ReasoningReplayMode

------------------------------------------------------------------------------
(* Messages of the Anthropic kind.  A content that is a string is one text.    *)

Block(type, id) == [type |-> type, id |-> id]
Message(role, blocks) == [role |-> role, blocks |-> blocks, plain |-> FALSE, reasoning |-> <<>>]
Plain(role, blocks) == [Message(role, blocks) EXCEPT !.plain = TRUE]

Thoughts == {"thinking", "redacted_thinking"}
Attachments == {"image", "document"}
BlockTypes == {"text", "tool_use", "tool_result"} \cup Thoughts \cup Attachments

\* The blocks of these types.  A function and not SelectSeq, which no proof can
\* unfold.
OfType(blocks, types) ==
    LET of[n \in 0..Len(blocks)] ==
            IF n = 0 THEN <<>>
            ELSE IF blocks[n].type \in types THEN Append(of[n - 1], blocks[n]) ELSE of[n - 1]
    IN  of[Len(blocks)]
Ids(blocks) == [k \in DOMAIN blocks |-> blocks[k].id]
All(messages, role) ==
    FlattenSeq([k \in DOMAIN messages |->
        IF messages[k].role = role THEN messages[k].blocks ELSE <<>>])

------------------------------------------------------------------------------
(* Anthropic to OpenAI chat. *)

\* One chat message: its text, its calls, its reasoning_content, and the call it
\* is the result of.
Chat(role, content, calls, reasoning) ==
    [role |-> role, content |-> content, calls |-> calls, reasoning |-> reasoning, result |-> 0]
ToolMessage(id) == [Chat("tool", <<>>, <<>>, <<>>) EXCEPT !.result = id]

\* OpenAIConversionError.
Rejected(messages) ==
    \E k \in DOMAIN messages : OfType(messages[k].blocks, {"image"}) # <<>>

\* _convert_assistant_message: thinking becomes text between tags, or the
\* reasoning_content unless the message has one; redacted thinking is left out.
AssistantMessage(blocks, reasoning, mode) ==
    Chat("assistant",
         OfType(blocks, {"text"} \cup (IF mode = "think_tags" THEN {"thinking"} ELSE {})),
         <<>>,
         CASE mode # "reasoning_content" -> <<>>
           [] mode = "reasoning_content" /\ reasoning # <<>> -> reasoning
           [] OTHER -> Ids(OfType(blocks, {"thinking"})))

\* _convert_assistant_message_with_split: what follows the first call cannot be in
\* the message with the calls and waits for their results.
FirstToolUse(blocks) == SelectInSeq(blocks, LAMBDA bl : bl.type = "tool_use")
Calls(blocks) == Ids(OfType(blocks, {"tool_use"}))

WithCalls(m, mode) ==
    [AssistantMessage(SubSeq(m.blocks, 1, FirstToolUse(m.blocks) - 1), m.reasoning, mode)
        EXCEPT !.calls = Calls(m.blocks)]

Deferred(blocks) ==
    OfType(SubSeq(blocks, FirstToolUse(blocks), Len(blocks)), BlockTypes \ {"tool_use"})

\* _PendingAfterTools; without deferred blocks there is nothing pending.
NoPending == [remaining |-> {}, blocks |-> <<>>, reasoning |-> <<>>]
Pending(m) ==
    [remaining |-> ToSet(Calls(m.blocks)), blocks |-> Deferred(m.blocks), reasoning |-> m.reasoning]

\* _deferred_post_tool_to_messages.
Released(pending, mode) ==
    IF pending.blocks = <<>> THEN <<>>
    ELSE <<AssistantMessage(pending.blocks, pending.reasoning, mode)>>

\* The text collected so far becomes a message of the user.
FlushText(acc) ==
    IF acc.texts = <<>> THEN acc
    ELSE [acc EXCEPT !.out = Append(@, Chat("user", acc.texts, <<>>, <<>>)), !.texts = <<>>]

\* _convert_user_message.  Any other block is passed over.
UserBlock(acc, bl) ==
    CASE bl.type = "text" -> [acc EXCEPT !.texts = Append(@, bl)]
      [] bl.type = "tool_result" ->
            [FlushText(acc) EXCEPT !.out = Append(@, ToolMessage(bl.id))]
      [] OTHER -> acc

UserMessages(blocks) ==
    FlushText(FoldLeft(UserBlock, [out |-> <<>>, texts |-> <<>>], blocks)).out

\* A defect: the deferred text follows the first result.
InjectionDefect(blocks, pending, mode) ==
    LET step(acc, bl) ==
            LET next == UserBlock(acc, bl)
            IN  IF bl.type # "tool_result" THEN next
                ELSE [next EXCEPT !.out = IF acc.done THEN @ ELSE @ \o Released(pending, mode),
                                  !.done = TRUE]
        end == FlushText(FoldLeft(step, [out |-> <<>>, texts |-> <<>>,
                                         remaining |-> pending.remaining, done |-> FALSE], blocks))
    IN  [out |-> end.out, pending |-> NoPending]

\* _convert_user_message_with_injection: the deferred text follows the last result
\* it waits for, and then every further result.
Injected(blocks, pending, mode) ==
    LET step(acc, bl) ==
            LET next == UserBlock(acc, bl)
                left == acc.remaining \ {bl.id}
            IN  IF bl.type # "tool_result" THEN next
                ELSE [next EXCEPT !.remaining = left,
                                  !.out = IF left = {} THEN @ \o Released(pending, mode) ELSE @,
                                  !.done = left = {}]
        end == FlushText(FoldLeft(step, [out |-> <<>>, texts |-> <<>>,
                                         remaining |-> pending.remaining, done |-> FALSE], blocks))
    IN  [out |-> end.out,
         pending |-> IF end.done THEN NoPending ELSE [pending EXCEPT !.remaining = end.remaining]]

\* convert_messages, one message after the other.
ConvertAssistant(acc, m, mode) ==
    IF Calls(m.blocks) # <<>>
    THEN [out |-> acc.out \o Released(acc.pending, mode) \o <<WithCalls(m, mode)>>,
          pending |-> IF Deferred(m.blocks) = <<>> THEN NoPending ELSE Pending(m)]
    ELSE [out |-> acc.out \o Released(acc.pending, mode)
                  \o <<AssistantMessage(m.blocks, m.reasoning, mode)>>,
          pending |-> NoPending]

\* The content is a string: reasoning goes before it between tags.
ConvertPlain(acc, m, mode) ==
    LET early == m.role = "user"
        thoughts == [k \in DOMAIN m.reasoning |-> Block("thinking", m.reasoning[k])]
    IN  [out |-> acc.out \o (IF early THEN Released(acc.pending, mode) ELSE <<>>)
                 \o <<Chat(m.role, (IF mode = "think_tags" THEN thoughts ELSE <<>>) \o m.blocks, <<>>,
                           IF mode = "reasoning_content" THEN m.reasoning ELSE <<>>)>>,
         pending |-> IF early THEN NoPending ELSE acc.pending]

ConvertUser(acc, m, mode) ==
    IF acc.pending.blocks # <<>> /\ acc.pending.remaining # {}
    THEN LET injected == Injected(m.blocks, acc.pending, mode)
         IN  [out |-> acc.out \o injected.out, pending |-> injected.pending]
    ELSE [out |-> acc.out \o Released(acc.pending, mode) \o UserMessages(m.blocks),
          pending |-> NoPending]

ConvertMessages(messages, mode) ==
    LET step(acc, m) ==
            CASE m.plain -> ConvertPlain(acc, m, mode)
              [] ~m.plain /\ m.role = "assistant" -> ConvertAssistant(acc, m, mode)
              [] OTHER -> ConvertUser(acc, m, mode)
        end == FoldLeft(step, [out |-> <<>>, pending |-> NoPending], messages)
    IN  end.out \o Released(end.pending, mode)

\* build_base_request_body: the system prompt is the first message.
ChatBody(system, messages, mode) ==
    (IF system = <<>> THEN <<>> ELSE <<Chat("system", system, <<>>, <<>>)>>)
        \o ConvertMessages(messages, mode)

------------------------------------------------------------------------------
(* Gemini: a call of the current turn needs the signature it came with.        *)

\* _current_turn_start_index.
CurrentTurn(chat) == SelectLastInSeq(chat, LAMBDA m : m.role = "user")

\* _apply_gemini_tool_call_signatures for a Gemini 3 model: calls the provider
\* remembers get their signature, and the first call of any other message of the
\* turn gets one that skips the validation.
Signature(chat, k, n) ==
    CASE chat[k].calls[n] \in cached -> "cached"
      [] chat[k].calls[n] \notin cached /\ k > CurrentTurn(chat) /\ n = 1 -> "skip"
      [] OTHER -> "none"

------------------------------------------------------------------------------
(* Native bodies. *)

WithBlocks(messages, role, keep(_)) ==
    [k \in DOMAIN messages |->
        IF messages[k].role = role /\ ~messages[k].plain
        THEN [messages[k] EXCEPT !.blocks = keep(@)] ELSE messages[k]]

\* sanitize_native_messages_thinking_policy: no thinking if it is disabled, none
\* without a signature if it is enabled (the thinking in the history is signed, or
\* none of it).
NativeMessages(messages, enabled, signed) ==
    LET hidden == CASE ~enabled -> Thoughts
                    [] enabled /\ ~signed -> {"thinking"}
                    [] OTHER -> {}
    IN  WithBlocks(messages, "assistant",
                   LAMBDA blocks : OfType(blocks, BlockTypes \ hidden))

\* _strip_unsupported_attachment_blocks: a message of attachments alone gets a text
\* instead.
Omitted == Block("text", 0)

\* A defect: takes thinking after the calls for what led to them.
LedToDefect(m) == Calls(m.blocks) # <<>> /\ OfType(m.blocks, {"thinking"}) # <<>>

StripAttachments(messages) ==
    WithBlocks(messages, "user", LAMBDA blocks :
        LET kept == OfType(blocks, BlockTypes \ Attachments)
        IN  IF kept = <<>> THEN <<Omitted>> ELSE kept)

HasToolHistory(messages) ==
    \E k \in DOMAIN messages : OfType(messages[k].blocks, {"tool_use", "tool_result"}) # <<>>

\* _has_replayable_thinking_before_tool_use.
ThinksBeforeCalls(m) ==
    /\ Calls(m.blocks) # <<>>
    /\ OfType(SubSeq(m.blocks, 1, FirstToolUse(m.blocks)), {"thinking"}) # <<>>

\* DeepSeek is not asked to think on results of calls without the thinking that
\* led to any of them.
DeepSeekThinks(messages, enabled) ==
    /\ enabled
    /\ HasToolHistory(messages) => \E k \in DOMAIN messages : ThinksBeforeCalls(messages[k])

\* sanitize_deepseek_messages_for_native: unsigned thinking stays.
DeepSeekSanitized(messages, enabled) ==
    LET hidden == IF enabled THEN {"redacted_thinking"} ELSE Thoughts
    IN  WithBlocks(messages, "assistant",
                   LAMBDA blocks : OfType(blocks, BlockTypes \ hidden))

\* _strip_reasoning_content_when_native.
WithoutReasoning(messages) ==
    [k \in DOMAIN messages |-> [messages[k] EXCEPT !.reasoning = <<>>]]

\* build_request_body of DeepSeek.
DeepSeekBody(messages, enabled) ==
    LET stripped == StripAttachments(messages)
        thinks == DeepSeekThinks(stripped, enabled)
    IN  [thinks |-> thinks, messages |-> WithoutReasoning(DeepSeekSanitized(stripped, thinks))]

------------------------------------------------------------------------------
(* Responses input to messages. *)

Item(type, id) == [type |-> type, id |-> id]

\* _append_pending_reasoning.
Reasoned(acc) ==
    IF acc.reasoning = <<>> THEN acc.out
    ELSE Append(acc.out, [Plain("assistant", <<>>) EXCEPT !.reasoning = acc.reasoning])

\* _append_input_item: reasoning waits for the next item of the assistant, or
\* becomes a message of its own; what the developer says belongs to the system
\* prompt.
AppendItem(acc, item) ==
    CASE item.type = "reasoning" -> [acc EXCEPT !.reasoning = Append(@, item.id)]
      [] item.type = "assistant" ->
            [out |-> Append(acc.out, [Message("assistant", <<Block("text", item.id)>>)
                                         EXCEPT !.reasoning = acc.reasoning]),
             reasoning |-> <<>>, system |-> acc.system]
      [] item.type = "call" ->
            [out |-> Append(acc.out, [Message("assistant", <<Block("tool_use", item.id)>>)
                                         EXCEPT !.reasoning = acc.reasoning]),
             reasoning |-> <<>>, system |-> acc.system]
      [] item.type = "output" ->
            [out |-> Append(Reasoned(acc), Message("user", <<Block("tool_result", item.id)>>)),
             reasoning |-> <<>>, system |-> acc.system]
      [] item.type = "user" ->
            [out |-> Append(Reasoned(acc), Message("user", <<Block("text", item.id)>>)),
             reasoning |-> <<>>, system |-> acc.system]
      [] item.type = "developer" ->
            [out |-> Reasoned(acc), reasoning |-> <<>>,
             system |-> Append(acc.system, Block("text", item.id))]

\* convert_request_to_anthropic_payload.
AnthropicPayload(items) ==
    LET after[n \in 0..Len(items)] ==
            IF n = 0 THEN [out |-> <<>>, reasoning |-> <<>>, system |-> <<>>]
            ELSE AppendItem(after[n - 1], items[n])
        end == after[Len(items)]
    IN  [messages |-> Reasoned(end), system |-> end.system]

\* The messages that are not of the system.
Conversed(messages) ==
    LET of[n \in 0..Len(messages)] ==
            IF n = 0 THEN <<>>
            ELSE IF messages[n].role # "system" THEN Append(of[n - 1], messages[n]) ELSE of[n - 1]
    IN  of[Len(messages)]

\* _normalize_system_role_messages.
Normalized(messages) ==
    [messages |-> Conversed(messages),
     system |-> All(messages, "system")]

Request == IF client = "messages" THEN Normalized(history) ELSE AnthropicPayload(history)
Messages == Request.messages

------------------------------------------------------------------------------
(* The client.  Numbers are given in the order of writing.                     *)

Blank ==
    /\ client \in {"messages", "responses"}
    /\ history = <<>>
    /\ cached = {}

Add(entry) == history' = Append(history, entry) /\ UNCHANGED client

Numbered(types, base) == [k \in DOMAIN types |-> Block(types[k], base + k)]
Base == 10 * (Len(history) + 1)

\* What the assistant may have answered: at most two calls, with text and thinking
\* in turns before, between and after them, or redacted thinking before one.
Answers ==
    {types \in SeqOf({"text", "thinking", "tool_use"}, MaxBlocksWritten) :
        /\ types # <<>> /\ Len(SelectSeq(types, LAMBDA t : t = "tool_use")) <= 2
        /\ \A k \in 2..Len(types) : types[k] = types[k - 1] => types[k] = "tool_use"}
    \cup {<<"redacted_thinking", "tool_use">>}

Spoken == IF client = "messages" THEN Conversed(history) ELSE history
LastOf == Last(Spoken)
Said(role) == Spoken # <<>> => LastOf.role = role

\* The user speaks, in a string or in blocks, or attaches something.
WriteUser ==
    /\ client = "messages" /\ Len(history) < MaxMessages
    /\ Said("assistant") /\ (Spoken # <<>> => Calls(LastOf.blocks) = <<>>)
    /\ \/ Add(Plain("user", Numbered(<<"text">>, Base)))
       \/ \E t \in {"text", "document"} : Add(Message("user", Numbered(<<t>>, Base)))
       \/ Add(Message("user", Numbered(<<"text", "image">>, Base)))
    /\ UNCHANGED cached

\* A message of the system, once, before or after what the user says.
WriteSystem ==
    /\ client = "messages" /\ Len(history) < MaxMessages
    /\ Spoken = history /\ Said("user")
    /\ Add(Message("system", Numbered(<<"text">>, Base)))
    /\ UNCHANGED cached

\* The answer is kept as it was streamed; Gemini's calls come with a signature,
\* which the provider remembers until it is replaced.
WriteAnswer ==
    /\ client = "messages" /\ Len(history) < MaxMessages
    /\ Spoken # <<>> /\ Said("user")
    /\ \/ \E types \in Answers :
            LET m == Message("assistant", Numbered(types, Base))
            IN  Add(m) /\ \E known \in {{}, ToSet(Calls(m.blocks))} : cached' = cached \cup known
       \/ Add(Plain("assistant", Numbered(<<"text">>, Base))) /\ UNCHANGED cached

\* The results of all calls of the answer, in any order, before anything else.
WriteResults ==
    /\ client = "messages" /\ Len(history) < MaxMessages
    /\ Spoken # <<>> /\ LastOf.role = "assistant" /\ Calls(LastOf.blocks) # <<>>
    /\ \E order \in {Calls(LastOf.blocks), Reverse(Calls(LastOf.blocks))}, more \in {<<>>, <<"text">>, <<"document">>} :
         Add(Message("user", [k \in DOMAIN order |-> Block("tool_result", order[k])]
                             \o Numbered(more, Base)))
    /\ UNCHANGED cached

Unanswered ==
    {item.id : item \in {i \in ToSet(history) : i.type = "call"}}
        \ {item.id : item \in {i \in ToSet(history) : i.type = "output"}}

\* The items of the Responses API: outputs follow their calls, and the user speaks
\* when there are none to come.
WriteItem ==
    /\ client = "responses" /\ Len(history) < MaxItems
    /\ \/ Unanswered = {} /\ \E type \in {"user", "developer"} : Add(Item(type, Base))
       \/ /\ history # <<>> /\ (Unanswered = {} \/ LastOf.type = "call")
          /\ \E type \in {"assistant", "reasoning", "call"} :
                (Unanswered # {} => type = "call") /\ Add(Item(type, Base))
       \/ \E id \in Unanswered : Add(Item("output", id))
    /\ UNCHANGED cached

Write == WriteUser \/ WriteSystem \/ WriteAnswer \/ WriteResults \/ WriteItem

\* The client sends what ends with the user, and nothing is left unanswered.
Ready == CASE Spoken = <<>> -> FALSE
              [] Spoken # <<>> /\ client = "messages" -> LastOf.role = "user"
              [] OTHER -> LastOf.type \in {"user", "output"} /\ Unanswered = {}

------------------------------------------------------------------------------
(* Properties. *)

\* The message with these calls is followed by their results and nothing else.
Followed(chat, k) ==
    LET n == Len(chat[k].calls)
    IN  /\ k + n <= Len(chat)
        /\ {chat[j].result : j \in k + 1..k + n} = ToSet(chat[k].calls)

Told(chat, role, types) ==
    FlattenSeq([k \in DOMAIN chat |->
        IF chat[k].role = role THEN Ids(OfType(chat[k].content, types)) ELSE <<>>])

ResultsOf(tools) == [k \in DOMAIN tools |-> tools[k].result]

\* A chat that was made of these messages with this system prompt.
ChatTells(chat, messages, system, mode) ==
    /\ FlattenSeq([k \in DOMAIN chat |-> chat[k].calls]) = Calls(All(messages, "assistant"))
    /\ ResultsOf(SelectSeq(chat, LAMBDA m : m.role = "tool"))
           = Ids(OfType(All(messages, "user"), {"tool_result"}))
    /\ \A role \in {"assistant", "user"} :
           Told(chat, role, {"text"}) = Ids(OfType(All(messages, role), {"text"}))
    /\ Told(chat, "system", {"text"}) = Ids(system)
    /\ mode = "reasoning_content" =>
           FlattenSeq([k \in DOMAIN chat |-> chat[k].reasoning])
               = FlattenSeq([k \in DOMAIN messages |->
                     messages[k].reasoning \o Ids(OfType(messages[k].blocks, {"thinking"}))])
    /\ (mode = "think_tags" /\ client = "messages") =>
           Told(chat, "assistant", {"thinking"}) = Ids(OfType(All(messages, "assistant"), {"thinking"}))
    /\ mode = "disabled" =>
           /\ Told(chat, "assistant", {"thinking"}) = <<>>
           /\ \A k \in DOMAIN chat : chat[k].reasoning = <<>>
    /\ \A k \in DOMAIN chat :
           /\ client = "messages" => Followed(chat, k)
           /\ chat[k].role = "tool" => \E j \in 1..k - 1 : chat[k].result \in ToSet(chat[j].calls)
           /\ (k > CurrentTurn(chat) /\ chat[k].calls # <<>>) => Signature(chat, k, 1) # "none"

\* A request to an OpenAI chat tells what the client wrote, once and in order: the
\* calls, the results, the texts of both sides (documents are lost, a finding); the
\* thinking, when it is replayed, as reasoning or between tags.  For a client of
\* the Messages API each message with calls is followed by exactly their results,
\* and text that came after a call comes after them; the parallel calls of a
\* Responses client are apart (a finding), but results come after their calls.
\* To Gemini, the first call of each message of the current turn has a signature.
ChatTellsAll ==
    (Ready /\ ~Rejected(Messages)) =>
        \A mode \in Modes :
            ChatTells(ChatBody(Request.system, Messages, mode), Messages, Request.system, mode)

\* A native request has every call and result where the client wrote it, no thought
\* of a kind that its provider does not take, and no message of the user without
\* content.  DeepSeek thinks about results only if it is shown a thought that led
\* to calls.
NativeTellsAll ==
    Ready =>
    \A enabled, signed \in BOOLEAN :
        LET native == NativeMessages(Messages, enabled, signed)
            deep == DeepSeekBody(Messages, enabled).messages
            thinks == DeepSeekBody(Messages, enabled).thinks
            Kept(messages) == [k \in DOMAIN messages |->
                                  OfType(messages[k].blocks, {"text", "tool_use", "tool_result"})]
            Holds(messages, types) == \E k \in DOMAIN messages : OfType(messages[k].blocks, types) # <<>>
        IN  /\ Kept(native) = Kept(Messages)
            /\ ~enabled => ~Holds(native, Thoughts)
            /\ ~signed => ~Holds(native, {"thinking"})
            /\ \A k \in DOMAIN deep :
                /\ Kept(deep)[k] = Kept(Messages)[k] \/ deep[k].blocks = <<Omitted>>
                /\ deep[k].role = "user" => deep[k].blocks # <<>>
            /\ ~Holds(deep, {"redacted_thinking"} \cup Attachments)
            /\ ~thinks => ~Holds(deep, {"thinking"})
            /\ (thinks /\ Holds(deep, {"tool_use"})) =>
                \E k \in DOMAIN deep : \E i, j \in DOMAIN deep[k].blocks :
                    i < j /\ deep[k].blocks[i].type = "thinking" /\ deep[k].blocks[j].type = "tool_use"
==============================================================================
