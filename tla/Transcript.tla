----------------------------- MODULE Transcript -----------------------------
(***************************************************************************)
(* What a running turn shows in its status message: the events of the      *)
(* Claude CLI (parse_cli_event), the segments they become                  *)
(* (TranscriptBuffer.apply), the text that fits into a message (render)    *)
(* and the edits that are sent (ThrottledTranscriptEditor).                *)
(*                                                                         *)
(* The CLI is external: the main agent speaks, calls tools and starts      *)
(* subagents with the Task tool, several of them at once; each answers     *)
(* with a tool result, and the main agent speaks again when all of its     *)
(* calls are answered.  Some providers leave out ids, those of Tasks or    *)
(* all.  A piece of text is a member <<agent, number>>; how the platforms' *)
(* markup is written is left out.                                          *)
(***************************************************************************)
EXTENDS SequencesExt, FiniteSetsExt

CONSTANTS MaxEvents,    \* bound: events of the CLI
          Blocks,       \* bound: content block indexes of a stream
          Limit,        \* get_limit_chars, in pieces of text
          TailMax,      \* text_tail_max
          MinBudget     \* render keeps no tail shorter than this

ASSUME TranscriptAssumption ==
    /\ -1 \notin Blocks
    /\ MaxEvents \in Nat /\ Limit \in Nat /\ TailMax \in Nat /\ MinBudget \in Nat
    /\ MinBudget + 2 < Limit    \* limits are 1900 and more, and MinBudget is 20

VARIABLES
    cli,        \* the CLI: running tasks, open block, what it has done, its end
    said,       \* the main agent's text so far
    segments,   \* _segments
    open,       \* open[i]: the segments of block i: tool, thinking, text
    names,      \* ids in _tool_name_by_id whose name is not "Task"
    stack,      \* _subagent_stack
    had,        \* had_transcript_events
    lastStatus, \* last_status of the event loop
    rested,     \* a second has passed since the last edit
    display     \* _last_displayed_text

cliVars == <<cli, said>>
bufferVars == <<segments, open, names, stack>>
editorVars == <<rested, display>>
turnVars == <<cliVars, bufferVars, had, lastStatus, editorVars>>

NoBlockYet == <<"none", -1>>
NoBlock == [tool |-> FALSE, thinking |-> 0, text |-> 0]
Nothing == [text |-> <<>>, marker |-> FALSE, status |-> "none", cut |-> FALSE]

TurnInit ==
    /\ cli \in [tasks : {<<>>}, made : {0}, ids : BOOLEAN, streams : BOOLEAN,
               block : {NoBlockYet}, events : {0}, over : {FALSE}, ended : {"none"},
               overtaken : {FALSE}, called : {FALSE}, guessed : {FALSE}]
    /\ said = <<>>
    /\ segments = <<>> /\ open = [i \in Blocks |-> NoBlock]
    /\ names = {} /\ stack = <<>>
    /\ had = FALSE /\ lastStatus = "none"
    /\ rested = TRUE /\ display = Nothing

-----------------------------------------------------------------------------
(***************************************************************************)
(* Ids are sequences, so that one can be a prefix of another: a Task is    *)
(* <<"task", k>>, its result may carry <<"task", k, "x">>, and a Task      *)
(* without an id gets <<"__task", depth>>.                                 *)
(***************************************************************************)
NoId == <<>>
Synthetic(id) == id # <<>> /\ id[1] = "__task"
LooksLikeTask(id) == id # <<>> /\ id[1] \in {"task", "__task", "taskoutput"}

Push(s, id) == Append(s, IF id = NoId THEN <<"__task", Len(s) + 1>> ELSE id)

RoughlyMatch(a, b) == a # NoId /\ b # NoId /\ (IsPrefix(a, b) \/ IsPrefix(b, a))

\* _subagent_pop: everything from the last entry that matches; a result
\* without an id closes an entry without an id.
Pop(s, id) ==
    LET hits == {i \in DOMAIN s : RoughlyMatch(s[i], id)}
    IN IF s = <<>> THEN s
       ELSE IF id = NoId THEN (IF Synthetic(Last(s)) THEN Front(s) ELSE s)
       ELSE IF hits = {} THEN s ELSE SubSeq(s, 1, Max(hits) - 1)

\* Defect: every id that looks like a Task's closes an entry without an id.
PopAnyTask(s, id) ==
    IF s # <<>> /\ id # NoId /\ Synthetic(Last(s)) /\ LooksLikeTask(id)
    THEN Pop(s, NoId) ELSE Pop(s, id)

\* The result of a Task whose call had no id may carry one; the name of the
\* tool, if it is known, tells it from tools with similar names.
PopResult(s, id) ==
    LET popped == Pop(s, id)
    IN IF /\ popped = s /\ s # <<>> /\ id # NoId
          /\ Synthetic(Last(s)) /\ LooksLikeTask(id) /\ id \notin names
       THEN Pop(s, NoId) ELSE popped

-----------------------------------------------------------------------------
(***************************************************************************)
(* TranscriptBuffer.apply.  A segment is its kind and the pieces in it.    *)
(***************************************************************************)
InSubagent == stack # <<>>
NewSegment(kind) == [kind |-> kind, parts |-> <<>>]

\* block_stop: the tool of a block hides text that is still open under its index.
Stopped(o, i) ==
    [o EXCEPT ![i] = IF @.tool THEN [@ EXCEPT !.tool = FALSE]
                     ELSE IF @.thinking # 0 THEN [@ EXCEPT !.thinking = 0]
                     ELSE [@ EXCEPT !.text = 0]]

\* thinking_start, text_start: an index that is used again is closed first.
ApplyStart(kind, i) ==
    IF InSubagent THEN UNCHANGED bufferVars
    ELSE /\ segments' = Append(segments, NewSegment(kind))
         /\ open' = [Stopped(open, i) EXCEPT ![i][kind] = Len(segments) + 1]
         /\ UNCHANGED <<names, stack>>

\* thinking_delta, text_delta, and the chunks of a whole message, which have no
\* index: i is then outside of Blocks, and each chunk is a segment of its own.
ApplyDelta(kind, i, piece) ==
    LET at == IF i \in Blocks THEN open[i][kind] ELSE 0
        fresh == [kind |-> kind, parts |-> <<piece>>]
    IN IF InSubagent THEN UNCHANGED bufferVars
       ELSE IF at # 0
       THEN /\ segments' = [segments EXCEPT ![at].parts = Append(@, piece)]
            /\ UNCHANGED <<open, names, stack>>
       ELSE /\ segments' = Append(segments, fresh)
            /\ open' = IF i \in Blocks
                       THEN [open EXCEPT ![i][kind] = Len(segments) + 1] ELSE open
            /\ UNCHANGED <<names, stack>>

ApplyStop(i) == open' = Stopped(open, i) /\ UNCHANGED <<segments, names, stack>>

\* tool_use_start and tool_use of a Task: a heading, and the subagent's context.
ApplyTask(i, id) ==
    /\ open' = IF i \in Blocks THEN Stopped(open, i) ELSE open
    /\ segments' = Append(segments, NewSegment("subagent"))
    /\ stack' = Push(stack, id)
    /\ UNCHANGED names

\* Any other tool: inside of a subagent only its counters change.
ApplyTool(i, id) ==
    /\ open' = IF i \in Blocks THEN [Stopped(open, i) EXCEPT ![i].tool = TRUE] ELSE open
    /\ segments' = IF InSubagent THEN segments ELSE Append(segments, NewSegment("tool"))
    /\ names' = names \cup ({id} \ {NoId}) /\ UNCHANGED stack

\* tool_result: results are not shown.
ApplyResult(id) ==
    /\ stack' = IF InSubagent THEN PopResult(stack, id) ELSE stack
    /\ UNCHANGED <<segments, open, names>>

ApplyError == /\ segments' = Append(segments, NewSegment("error"))
              /\ UNCHANGED <<open, names, stack>>

-----------------------------------------------------------------------------
(***************************************************************************)
(* render.  Sizes are in pieces; segments are joined by a newline, and the *)
(* marker and the status count one each.                                   *)
(***************************************************************************)
Size(seg) == CASE seg.kind = "text" -> IF Len(seg.parts) > TailMax THEN TailMax
                                       ELSE Len(seg.parts)
               [] seg.kind = "thinking" -> 1 + Len(seg.parts)
               [] OTHER -> 1
StatusSize(status) == IF status = "none" THEN 0 ELSE 1
Marker == 1

\* The segments that show, and the length of those from k on.
Visible(segs) ==
    FlattenSeq([k \in DOMAIN segs |-> IF Size(segs[k]) > 0 THEN <<segs[k]>> ELSE <<>>])

Joined(segs, k) ==
    LET upto[n \in 0..Len(segs)] == IF n = 0 THEN 0 ELSE upto[n - 1] + Size(segs[n])
    IN upto[Len(segs)] - upto[k - 1] + Len(segs) - k

\* Everything, or the newest segments behind a marker, or the end of the
\* newest one, or nothing but the status.
Render(segs, status) ==
    LET full == Visible(segs)
        st   == StatusSize(status)
        fits == {k \in DOMAIN full : Marker + Joined(full, k) + st <= Limit}
        from(k, marker, cut) == [text |-> SubSeq(full, k, Len(full)), marker |-> marker,
                                 status |-> status, cut |-> cut]
    IN IF full = <<>> \/ Joined(full, 1) + st <= Limit THEN from(1, FALSE, FALSE)
       ELSE IF fits # {} THEN from(Min(fits), TRUE, FALSE)
       ELSE IF Limit - Marker - st > MinBudget THEN from(Len(full), TRUE, TRUE)
       ELSE from(Len(full) + 1, Marker + st <= Limit, FALSE)

\* The length of what is shown.
Length(d) ==
    LET rest == (IF d.marker THEN Marker ELSE 0) + StatusSize(d.status)
        body == IF d.text = <<>> THEN 0 ELSE Joined(d.text, 1)
    IN rest + IF d.cut /\ body > Limit - rest THEN Limit - rest ELSE body

\* Defect: a forced update waits for the second as well.
UpdateThrottled(segs, status, force) ==
    IF ~rested THEN UNCHANGED editorVars
    ELSE rested' = FALSE /\ display' = Render(segs, status)

\* ThrottledTranscriptEditor.update: at most one edit a second unless forced,
\* and none that changes nothing.  The edit itself is the outbox's.
Update(segs, status, force) ==
    IF ~force /\ ~rested THEN UNCHANGED editorVars
    ELSE rested' = FALSE /\ display' = Render(segs, status)

-----------------------------------------------------------------------------
(***************************************************************************)
(* The events of the CLI, one of parse_cli_event's results at a time, with *)
(* get_status_for_event and process_parsed_cli_event.                      *)
(***************************************************************************)
Room == ~cli.over /\ cli.events < MaxEvents
Did(fields) == cli' = [fields EXCEPT !.events = @ + 1]

\* A status update follows the event; block_stop forces one with the last status.
Shows(status) ==
    /\ had' = TRUE /\ lastStatus' = status
    /\ Update(segments', status, FALSE)

\* A CLI that streams sends the main agent's blocks piece by piece, and one that
\* does not, like all of a subagent, comes in whole messages: i is then -1.  While
\* a Task runs the main agent may still stream the next call of the same message.
InBlock(i) == IF cli.streams /\ cli.tasks = <<>> THEN i \in Blocks ELSE i = -1
InCall(i)  == InBlock(i) \/ (cli.streams /\ i \in Blocks)

\* A chunk of a whole message, of the main agent or of a running subagent.
Chunk(kind) ==
    /\ Room /\ InBlock(-1)
    /\ LET agent == IF cli.tasks = <<>> THEN "main" ELSE "sub"
           piece == <<agent, cli.events>>
       IN /\ ApplyDelta(kind, -1, piece)
          /\ said' = IF agent = "main" /\ kind = "text" THEN Append(said, piece) ELSE said
    /\ Shows("working")
    /\ Did(cli)

\* content_block_start, _delta and _stop of the main agent.  A block may begin
\* before the last one has been stopped.
BlockStart(kind, i) ==
    /\ Room /\ InBlock(i)
    /\ ApplyStart(kind, i)
    /\ Shows("working")
    /\ Did([cli EXCEPT !.block = <<kind, i>>]) /\ UNCHANGED said

BlockDelta ==
    /\ Room /\ cli.block[1] \in {"text", "thinking"}
    /\ LET kind == cli.block[1]  i == cli.block[2]  piece == <<"main", cli.events>>
       IN /\ ApplyDelta(kind, i, piece)
          /\ said' = IF kind = "text" THEN Append(said, piece) ELSE said
          /\ Shows("working")
    /\ Did(cli)

BlockStop ==
    /\ Room /\ cli.block # NoBlockYet
    /\ ApplyStop(cli.block[2])
    /\ had' = TRUE /\ UNCHANGED <<said, lastStatus>>
    /\ Update(segments', lastStatus, TRUE)
    /\ Did([cli EXCEPT !.block = NoBlockYet])

\* A call is a block of its own.
Then(i) == IF i \in Blocks THEN <<"tool", i>> ELSE NoBlockYet

\* The main agent starts a subagent.
Task(i) ==
    /\ Room /\ InCall(i)
    /\ LET id == IF cli.ids THEN <<"task", cli.made + 1>> ELSE NoId
       IN /\ ApplyTask(i, id)
          /\ Did([cli EXCEPT !.made = @ + 1, !.tasks = Append(@, cli.made + 1),
                             !.block = Then(i)])
    /\ Shows("subagent") /\ UNCHANGED said

\* A tool call and its result, of whichever agent is at work.  The result of a call
\* without an id has none or one that was never announced.
ToolIds == {<<"tool", 1>>, <<"taskoutput", 1>>}
CallIds == IF cli.ids THEN ToolIds ELSE ToolIds \cup {NoId}

Tool(i, id) ==
    /\ Room /\ InCall(i)
    /\ ApplyTool(i, id) /\ Shows("tools")
    /\ Did([cli EXCEPT !.block = Then(i), !.called = @ \/ id = NoId]) /\ UNCHANGED said

\* A result that nothing tells from the one of a Task whose call had no id.
LikeATask(id) == cli.tasks # <<>> /\ id \notin names /\ (id = NoId \/ LooksLikeTask(id))

ToolResult(id) ==
    /\ Room /\ (id \in names \/ cli.called)
    /\ ApplyResult(id) /\ Shows("tools")
    /\ Did([cli EXCEPT !.guessed = @ \/ LikeATask(id)]) /\ UNCHANGED said

\* The result of a running task: with its id, with a suffix, or, if its call
\* had none, with none or with one of its own.
ResultIds(task) == IF cli.ids THEN {<<"task", task>>, <<"task", task, "x">>}
                   ELSE {NoId, <<"task", task>>}

TaskResult(k, id) ==
    /\ Room
    /\ ApplyResult(id) /\ Shows("tools")
    /\ Did([cli EXCEPT !.tasks = RemoveAt(@, k),
                       !.overtaken = @ \/ k < Len(cli.tasks)])
    /\ UNCHANGED said

\* An error event: the turn goes on.
ErrorEvent ==
    /\ Room
    /\ ApplyError /\ had' = TRUE /\ UNCHANGED <<said, lastStatus>>
    /\ Update(segments', "error", TRUE) /\ Did(cli)

\* exit: after its error, if the code is not 0, the turn counts as complete; one
\* that has shown nothing says that it is done.
Exit ==
    /\ ~cli.over /\ cli' = [cli EXCEPT !.over = TRUE, !.ended = "complete"]
    /\ \/ ApplyError
       \/ IF had THEN UNCHANGED bufferVars ELSE ApplyDelta("text", -1, <<"done", 0>>)
    /\ Update(segments', "complete", TRUE)
    /\ UNCHANGED <<said, had, lastStatus>>

\* An exception, a full session pool or a cancellation, which after /stop adds
\* no segment.
Endings == {"complete", "failed", "stopped"}

EndsWith(status) ==
    /\ ~cli.over
    /\ IF status = "stopped" THEN UNCHANGED bufferVars ELSE ApplyError
    /\ Update(segments', status, TRUE)
    /\ cli' = [cli EXCEPT !.over = TRUE, !.ended = status]
    /\ UNCHANGED <<said, had, lastStatus>>

\* A second has passed.
Tick == ~rested /\ rested' = TRUE
        /\ UNCHANGED <<cliVars, bufferVars, had, lastStatus, display>>

TurnNext ==
    \/ \E kind \in {"text", "thinking"} :
          Chunk(kind) \/ \E i \in Blocks : BlockStart(kind, i)
    \/ BlockDelta \/ BlockStop
    \/ \E i \in Blocks \cup {-1} : Task(i) \/ \E id \in CallIds : Tool(i, id)
    \/ \E id \in CallIds : ToolResult(id)
    \/ \E k \in DOMAIN cli.tasks : \E id \in ResultIds(cli.tasks[k]) : TaskResult(k, id)
    \/ ErrorEvent \/ Exit
    \/ \E status \in Endings \ {"complete"} : EndsWith(status)
    \/ Tick

-----------------------------------------------------------------------------
\* What of this kind an agent said.
By(parts, agent) ==
    FlattenSeq([k \in DOMAIN parts |-> IF parts[k][1] = agent THEN <<parts[k]>> ELSE <<>>])
Pieces(segs, kind, agent) ==
    FlattenSeq([k \in DOMAIN segs |->
        IF segs[k].kind = kind THEN By(segs[k].parts, agent) ELSE <<>>])

\* The transcript holds what the main agent said, all of it and in order, and
\* nothing of what a subagent said.  The code cannot keep this when a subagent has
\* ended before a younger one, or when the provider leaves out ids and the result of
\* a tool looked like that of a Task: from then on only the first half is claimed.
TranscriptTrue ==
    /\ Pieces(segments, "text", "main") = said
    /\ \/ cli.overtaken \/ cli.guessed
       \/ \A kind \in {"text", "thinking"} : Pieces(segments, kind, "sub") = <<>>

\* d is the end of full from segment k on: as much as fits, behind a marker when
\* something is missing, and never less than the newest segment, which is cut only
\* when it does not fit by itself.
NewestThatFit(d, full) ==
    LET n == Len(full)
        k == n - Len(d.text) + 1
        tooLong(j) == Marker + Joined(full, j) + StatusSize(d.status) > Limit
    IN /\ d.text = SubSeq(full, k, n) /\ (full # <<>> => d.text # <<>>)
       /\ d.marker <=> k > 1 \/ d.cut
       /\ k > 1 => tooLong(k - 1)
       /\ d.cut => k = n /\ tooLong(n)

\* What is displayed always fits into a message.  When the turn is over, whatever
\* was throttled before, it has the status the turn ended with and the newest
\* segments of the whole transcript, none missing that would have fitted.
EndShown ==
    /\ Length(display) <= Limit
    /\ cli.over => display.status = cli.ended /\ NewestThatFit(display, Visible(segments))
=============================================================================
