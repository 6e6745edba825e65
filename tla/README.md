# A formal model of the server

The repository is a local server that (1) proxies Claude Code and Codex
requests to many model providers and (2) lets a user drive managed Claude Code
CLI sessions from Telegram or Discord; beside it is (3) a desktop assistant that may use
the server as its model. This directory holds TLA+ models of the
parts of it that are hard to test, the TLC runs that check them on small
instances, and TLAPS proofs of what holds for every instance.

Check a run with `tlc -config <run>.cfg <module>` (the pairs are in
`PROJECT.json`), the proofs with `tlapm <module>Proofs.tla`:

| proofs | about |
|---|---|
| `TreeQueueProofs` | TreeQueue |
| `MessagingProofs` | SessionStore, VoiceNotes, Transcript and ChatWindow: what a conversation keeps, and what it shows |
| `LimiterProofs` | SlidingWindow, OutboxLimiter and ProviderLimiter: the rate limits |
| `ChatStreamProofs` | ChatStream, and that it implements Message |
| `ServerProofs` | Runtime, AdminConfig and Gateway: the server and its configuration |
| `LocalProofs` | CliPool and Desktop: the processes and files of the user's machine |
| `ExchangeProofs` | Exchange: what a native provider is sent of a history, and what the client is given of its answer |
| `SequenceLemmas` | lemmas on sequences for `MessagingProofs` and `ExchangeProofs` |

## Inventory

| component | state | operations | hard behaviour |
|---|---|---|---|
| Tree queue (`messaging/trees`) | trees of message nodes, node state, one FIFO queue, busy flag, current node and current task per tree, two indexes | create/add, enqueue-and-start, process next, cancel node/branch/tree/all, remove branch | cancellation of asyncio tasks in every phase; a tree freed while its task unwinds |
| Turn intake (`turn_intake.py`) | none of its own | resolve the parent, send a status message, admit | the parent can disappear while the status message is sent |
| Node runner (`node_runner.py`, `node_event_pipeline.py`, `event_parser.py`) | session ids, transcript | acquire a session, read CLI events, fail, be cancelled, save | events, errors and cancellations in any order |
| Commands (`commands.py`, `workflow.py`) | the current tree queue manager | `/stop`, `/clear`, scoped to a reply or not | awaits between their steps, new messages in between |
| Session store (`session.py`) | trees, lookups and a message log in memory; a JSON file; a debounce timer | save, remove, clear, flush, load | the timer's thread writes a snapshot taken earlier |
| Outbox limiter (`limiter.py`) | queue of keys, map of latest calls, pause until a flood wait ends | enqueue, compact, retry, shut down | compaction against retry, futures of dropped calls |
| Platforms, voice (`platforms/*`) | pending voice notes, client connections | start, stop, transcribe, cancel | a transcription finishing while it is being cancelled |
| CLI sessions (`cli/managed`) | pool of sessions by temporary and real id, one lock; a process per session | get or create, register the real id, remove, stop all | the lock is held while processes are being stopped |
| Runtime (`api/runtime.py`, `cli/entrypoints.py`) | what has been started | start up, restore, shut down, restart | order of shutdown steps, partial start |
| Provider registry (`providers/registry.py`) | cached providers and model lists | get, refresh, clean up | cleanup racing requests and a changed configuration |
| Rate limits (`core/rate_limit.py`, `providers/rate_limit.py`) | window of timestamps, blocked-until time, semaphore | acquire, block, retry | a block set while others wait, sliding window bound |
| Stream recovery and transports | held-back events, committed output, retry counts | start, hold, commit, retry, recover | failure after part of the output was sent |
| Anthropic stream assembly (`core/anthropic/sse.py`, ...) | open content blocks | start, delta, stop, message stop | blocks left open or interleaved |
| Responses adapter (`core/openai_responses`) | output items, indexes, terminal flag | translate each event | item order, exactly one terminal event |
| Request conversion (`core/anthropic/conversion.py`, ...) | a cache of signatures | pure functions | the order of calls, results and text |
| Transcript (`messaging/transcript.py`) | segments, open blocks, stack of subagents | apply an event, render, edit | parallel subagents, streamed and whole events mixed |
| Admin configuration (`api/admin_config.py`) | env files, template, process environment | scaffold, load, validate, save | five layered sources, masked secrets |
| Model routing and request pipeline (`api/`) | none | list models, resolve, intercept, fetch | ids that outlive a configuration, redirects |
| Desktop assistant (`ai/`) | configuration files and their backups, preferences, a shell, dialogs, a conversation | match a phrase or ask a model, edit a setting, note, confirm, run | a thread per message, files without a lock, a crash between truncation and write |
| Hyprland assistant (`jarvis/`) | command history | interpret, execute | shell I/O |

The components interact in one process on one asyncio event loop: a platform
calls the workflow for each inbound message; the workflow dispatches a command
or lets the intake admit the message to a tree; the tree's processor creates a
task that runs the node runner; the runner takes a session from the CLI pool
and reads its events; every change of a tree is saved to the store, whose
timer thread is the only other thread. The CLI processes call back into the
server's HTTP routes, which resolve a provider, wait for its rate limits and
stream the answer through recovery and assembly.

What can go wrong in each component is listed in `PROJECT.json` under `hazards`
with the line where it bites. What makes it correct, in short:

* tree queue: one live turn per tree, arrival order, no reply starves, the
  indexes and the store know the same trees, `/stop` and `/clear` leave nothing
  of their targets running or waiting;
* session store: what is in memory reaches the file, in order, and survives a
  restart; the log and the set that guards it agree;
* outbox limiter: no caller is lost, the newest text wins, flood waits and the
  rate are kept, everyone is answered;
* provider limiter: slots balance, the rate and a known block are kept, every
  stream ends;
* CLI pool: every process is reachable for `stop_all`, one session per id;
* streams: each message the client sees is well formed and ends once, nothing
  that was sent is sent again, a tool call is complete or reported as an error;
* responses adapter: items in order, exactly one terminal event;
* registry and runtime: whatever was started is closed once, also after a
  failure half way; nothing is saved after the last flush;
* voice notes: handed on or dropped, never both;
* desktop assistant: an edit changes the setting that was meant and no other, nothing
  risky runs without a yes to that very command, what was noted stays noted.

## Modules

| module | models | composed of | run |
|---|---|---|---|
| TreeQueue | trees, turns, commands | | TreeQueueSafety, TreeQueueLive |
| SessionStore | the session store and its timers | | SessionStoreAll |
| OutboxLimiter | the queue before a platform | SlidingWindow | OutboxLimiterAll |
| ProviderLimiter | the limits before a provider | SlidingWindow | ProviderLimiterAll |
| ChatStream | an answer of a chat provider | SseBuilder; refines Message | ChatStreamAll |
| CliPool | CLI sessions and processes | | CliPoolAll |
| Runtime | server, registry, apply and restart | | RuntimeAll |
| Gateway | requests under a configuration | AdminConfig | GatewayAll |
| Exchange | a history and the answer to it | Conversation, NativeStream, Responses | ExchangeAll |
| ChatWindow | what a user sees of the bot | Platforms, VoiceNotes, Transcript | ChatWindowAll |
| Desktop | the desktop assistant | HyprConfig, Assistant | DesktopAll |

The modules `MC...` instantiate a module for TLC, `...Proofs` hold its theorems.

### TreeQueue

`TreeQueue.tla` models messaging from the arrival of a message to the end of
its turn, with `/stop`, `/clear` and a restart of the server.

*Atomicity.* Everything runs on one event loop, so one action is the code
between two awaits that can really suspend. The tree lock and the manager lock
are asyncio locks that are never held across a suspending await, so they never
make anyone wait and do not appear. The awaits that do suspend are named in the
header of the module; status edits go through the outbox limiter's queue and do
not suspend the caller (with a limiter configured, which is what both platforms
do).

*State.* `nodes`, `trees`, `index` are `MessageTree._nodes`,
`TreeRepository._trees` and `_node_to_tree`; `queue`, `busy`, `current` and
`curTask` are the tree's fields of the same names. A queue is the set of its
nodes with a `place` each (the arrival number): nodes only enter at the end, so
the order of the places is the order of the queue. `task[m]` is the phase of the
asyncio task of node m:

    none -> created -> acquiring -> running -> closing -> done
                                    running -> stopping -> closing

`cancelled[m]` says that `Task.cancel()` was called and `CancelledError` has
not been delivered. `home[m]` and `nodes[r]` describe tree *objects*, which
live on in a runner after the repository has dropped them; `trees` and `index`
say what the repository knows. `saved` is what the store holds, so a restart
reads nothing else.

*Actions.* `Receive`/`Drop`/`Admit` are `handle_message` before and after the
status message; `Skip` ... `Finish` are `process_node` around
`_process_node_impl`; `StopNode`, `ClearBranch`/`FinishClearBranch`,
`StopAll`/`SessionsStopped`/`Wipe` are the commands, split at their awaits;
`Restart` is `_restore_tree_state` on the saved trees: `saved` is durable at once, as if
every restart followed the flush of a shutdown or half a second without a change, since
the debounced write (`session.py:127-137`) is the subject of SessionStore. A process
that ends within the debounce may bring back a completed turn as one that was running,
and so as failed; that is outside of `CompletedIsFinal`. The end of every turn
runs `EndTurn`, which is the `finally` clause with `_process_next` - except that
a task cancelled before its first step has no `finally` clause
(`CancelUnstarted`).

*Bounds.* `Msgs` messages, `MaxCommands` commands, `MaxRestarts` restarts. At
most one unscoped command is in progress at a time.

Runs:

| run | question | instance |
|---|---|---|
| TreeQueueSafety | order, branches and cancellation stay consistent, one live turn per tree | 3 messages, any one command, 1.5M states |
| TreeQueueLive | no message starves, busy trees are worked on, completed turns stay completed | 2 messages, 2 unscoped commands, 1 restart, fairness |

Three messages are enough for a running node with two queued ones, a chain, a
fork and two trees, which is where order, orphans and overlaps show; every
property that holds has a mutant that breaks it in the same instance.

*Fairness* (`FairSpec`). Weak fairness of every turn's next step, of the intake
and of the remaining steps of a command: the event loop runs every ready
callback, the platform answers or fails, a killed process dies, and a CLI
process ends. The last one is an assumption on the CLI; the code has no timeout
for it.

*What the properties leave out*, each a finding in `PROJECT.json`. An unscoped
`/stop` marks a tree as free while its cancelled turn still unwinds, so that a
reply runs beside it (`OneTurnPerTree` speaks of the time until then).
A task that is cancelled before its first step leaves its tree busy for ever
(`NoStarvation` excludes it). A CLI run that exits
with an error after it reported a session id is recorded as completed: the
`complete` event that follows the error overwrites it
(`node_event_pipeline.py:95`). An unscoped `/clear` stops all tasks, but a
message admitted while it waits is running when it replaces the queue
(`commands.py:233`). A turn that is cancelled by a reply-scoped `/clear` saves its tree object when it ends
(`node_runner.py:268-272`), which puts the cleared tree back in the store
(`saved` without `index`). A CLI run that ends normally without having reported
a session id leaves its node in progress for ever
(`node_event_pipeline.py:98`).

### TreeQueueProofs

Proved for every set of messages, every set of commands and every bound, from
the assumptions of `TreeQueue` alone (`None` is not a message, the commands are
the four known ones, the bounds are natural numbers):

* `TypeCorrect`: `Spec => []TypeOK`.
* `QueuedWait`, `ArrivalOrder`: `QueuedAreWaiting` and `InArrivalOrder`.
* `TreesWhole`: `NoOrphans`.
* `OneTurn`, `CommandsCancel`: `OneTurnPerTree` and the action property `StopCancels`.
* `CompletedStays`: the action property `CompletedIsFinal`.

Only the types are inductive alone. What the others need, in the order of the proofs:

*The queue* (`QueueInv`). A message is started at once only on a free tree, and that
nothing older is queued there follows from `QueuedAreWaiting` (queued nodes imply a busy
tree); that a node which is started was not queued elsewhere follows from
`home[m] = r` for the nodes of queue r. `Admitted` supplies what links a task to
an admission and a place to the counter of admissions. Most actions are `Calm`:
they start nothing, admit nothing, and shrink queues without freeing a tree
that keeps queued nodes; one lemma treats them all, and only the admission and
the end of a turn need arguments of their own.

*The repository* (`RegistryInv`): a tree that the repository knows is known with all its
nodes, and a node was admitted to the tree that holds it. With it `OrphanInv` says the
same of memory and of what the store would restore (`StoredWhole`): a restart makes
trees of the saved nodes, so an orphan in the store would become one in a tree.

*The turns* (`TurnInv`): until an unscoped command, a turn is alone in its tree, and the
tree, as long as the repository knows it, is busy and names that node and that task as
its current ones (`Steered`). This is what a reply-scoped command relies on when it
marks a node as failed and cancels the current task, so `StopCancels` follows from it,
with the same condition: after an unscoped /stop the `finally` clause of a cancelled turn
may clear the current task of the tree under the next turn, and a command then marks
that turn as failed and does not cancel it (part of the finding at `manager.py:245`).

*The end of turns* (`FinalInv`): a turn is completed only after its CLI process has
exited, and the store and the tree never disagree about a completed turn, whence a
restart cannot take it back.

Model-checked only: `NoStarvation`. Liveness is out of the prover's reach.

### SessionStore

`SessionStore.tla` models `messaging/session.py`. `trees`, `lookup`, `log` and
`known` are `_trees`, `_node_to_tree`, `_message_log` and `_message_log_ids` of
one chat; a tree is abstracted to the number of the edit that saved it last.
`ref`, `armed` and `expired` are the debounce timer, the timers that have not
expired and those whose thread waits for the lock. `writing[t]` is the snapshot
that thread t is writing, with 0 for the event loop, and `disk` is the file.

*Atomicity.* The store is the one place with real threads. The lock makes a
change of the memory, or the copy of it, one action; a write begins under the
lock and ends without it (`Written`, `WriteFails`), so that writes of several
threads are in flight together. While the loop itself writes (`ClearAll`,
`FlushPending`) no other operation of the loop can run (`LoopFree`). A write
replaces the file atomically (`os.replace`) or fails.

*Actions.* `SaveTree`, `RegisterNode`, `RemoveNodeMappings`, `RemoveTree`,
`RecordId`, `ClearAll` and `FlushPending` are the operations; `Expire` and
`Fire` are a timer that runs out and its thread that gets the lock; `Restart`
is the end of the process and `_load`, with the reconciliation of ids and cap.
`RestartStale` is the same when some node was found running or waiting: the
reconciled trees are put back and scheduled (`sync_from_tree_data`). A write
that was in flight at the end of the process may or may not have replaced the
file.

*Runs.* `SessionStoreAll` (one tree, one mapped id, two message ids with a cap
of one, three edits, a failing write, a restart; 0.75M states) shows that the
log agrees with its set, that the file holds the memory once nothing is dirty or in flight and
no writes overlapped, and that changes get written. Three edits give a timer
that is waiting for the lock, another that is armed, and an operation of the
loop between them. With overlapping writes the older snapshot can replace the
newer one, which is a finding.

*Fairness.* Weak fairness of timers, of their threads and of writes: the
operating system runs threads and finishes file operations. None for the
operations, for failures or for the end of the process.

*Proved* (`MessagingProofs.tla`), for any trees, ids, cap and bounds:
`StoreTypeCorrect`, `Scheduled` (`UnsavedIsScheduled`), `LogCorrect`
(`LogAgrees`) and `FilePersisted` (`Persisted`). `LogAgrees` needs that the log
in the file and in every snapshot in flight is a good log as well, because a
restart reads it back (`LogInv`). `Persisted` needs to say what a write in
flight carries: if writes do not overlap, the only snapshot in flight equals
the memory, or the memory is dirty (`FileInv`).

### SlidingWindow and OutboxLimiter

`SlidingWindow.tla` is `StrictSlidingWindowLimiter`, used by both limiters: a
deque of acquisition times, as a sequence of ages. Beside it stands the
specification: the ages of *all* acquisitions of the last window, kept by the
models in the history variable `history`.

`OutboxLimiter.tla` models `messaging/limiter.py` as `PlatformOutbox` uses it.
`queue` and `pend` are `_queue_list` and `_queue_map` (function and waiting
futures per key), `phase`/`hand` the worker and what it took, `pause` the
flood wait, `shown[k]` what the platform shows for a message. Calls are
numbered, and a function is the number of the call it came from: that is all
the properties need to know of a text. `Enqueue` is
`_enqueue_internal_multi`, `Submit` and `Retry` its two callers, `Take` ...
`Fail` the worker between its awaits, `Tick` a second of time.

*Runs.* `OutboxLimiterAll` (two keys, three calls, rate 1 in 2 ticks, flood waits
of one tick, both retries; 0.6M states) checks that no caller is lost,
duplicated or answered for another message, that the newest text is shown unless a retry interferes (a finding),
and that everyone is answered. That the two halves of the queue agree, that the rate is kept, and that
the platform is not called in a flood wait is proved. Three
calls are the least with one in the worker's hand, one queued and one merged
into it.

*Fairness.* Weak fairness of time, of the worker and of retries: the event loop
runs ready callbacks and the platform answers. Not of shutdown. A shutdown
leaves futures unresolved, which the liveness property excludes.

*Proved* (`LimiterProofs.tla`), for any keys,
rate, window, flood waits and number of calls: `OutboxTypeCorrect`,
`WindowHeld`, `PauseHeld`, `QueueMatches`, `NoCallLost`. The window argument
(`WindowInv`) is that the acquisitions of the last window are always the last
entries of the deque, oldest first: then removing stale entries removes nothing
that counts, and an acquisition leaves at most `RateLimit` of them. It is
proved once and used by both limiters. `NoCallLost` follows the waiters: those
of a key are the union of its task and of the worker's hand, and these are
disjoint (`WaitInv`); `QueueMatches` makes sure that a key in the list has a task.
`LastUpdateShown` (the property `LatestShown`) follows the last update of a message
(`LatestInv`): while none of its updates is tried again, it is what is queued for the
message, then what the worker holds of it, and what the platform shows once it was
answered.

### ProviderLimiter

`ProviderLimiter.tla` models `GlobalRateLimiter` with the life of a stream in it
(`providers/transports/*/stream.py`): a stream takes a slot of the semaphore,
looks at the reactive block (`Check`), sleeps (`Unblocked`), waits for the
window (`Call`) and gets an answer: the stream opens, a 429 or 5xx makes it
back off and blocks everyone (`BackOff`), or it is refused. An early retry, a
recovery request or a request with a reduced body is another
`execute_with_retry` in the same slot (`Reopen`). The client may go away in any
of these waits (`Disconnect`). What is inside a stream is the subject of
`ChatStream`.

*Run.* `ProviderLimiterAll`: three streams, two slots, rate 1 in 2 ticks, one
retry, one reopening, blocks of up to two ticks, 99k states. Two slots and three
streams give a queue for slots and two streams racing for the block and the
window; longer blocks than the window let both orders of expiry happen.

*What it shows beside the properties.* A request looks at the block once. If
the block is set while it waits for the window, it calls during the block,
although the class says "pauses all requests when a 429 or 5xx retry backoff is
active" (`rate_limit.py:59`), and `set_blocked` can replace a long block by a
shorter one. `SeenBlockHolds` states what is kept: a block that was seen, and not
replaced since, is waited for.

*Fairness.* Weak fairness of time and of each request's next step: providers
answer or time out and streams end. Not of disconnects.

*Proved* (`LimiterProofs.tla`), for any number of requests and slots and
any rate, window, retries and blocks: `ProviderTypeCorrect`, `SlotsBalanced`,
`UpstreamRate`, `BlockRespected`. The inductive invariant `ProviderInv` adds to
them that the holders are finitely many, the window argument of
`SlidingWindow`, and that a request that saw the current block sleeps at least
as long as it lasts (`SeenInv`). The type of `free` is not inductive by itself:
that a released slot fits needs the balance.

### Message, SseBuilder and ChatStream

`Message.tla` is the abstract specification: what a client may see of one
answer, as `core/anthropic/stream_contracts.py` checks it. A content block is
opened once under a fresh index, changed with deltas of its own type while it is
open, and stopped before the stop reason is told; a message ends once, with at
least one block.

`SseBuilder.tla` is `SSEBuilder` and `ContentBlockManager` of
`core/anthropic/sse.py`, with the assembly of tool calls of
`openai_chat/tool_calls.py`. A builder is a record: the next index, the text and
the thinking block, one `ToolCallState` per call, and what was said. Its methods
are operators from steps to steps, where a step is a builder and the events
emitted so far, so that they chain.

`ChatStream.tla` is `OpenAIChatStreamRunner.run` with `ThinkTagParser`,
`HeuristicToolParser`, `RecoveryHoldbackBuffer`, `StreamRecoverySession` and
`OpenAIChatRecovery`, together with the client.

| model | code |
|---|---|
| `b` | the `SSEBuilder` of the current attempt |
| `inThink`, `tagged` | `ThinkTagParser`: inside a tag, holding what may be one |
| `calling` | `HeuristicToolParser`: inside a call that is written as text |
| `held`, `committed` | `RecoveryHoldbackBuffer`; each event is stamped with its attempt |
| `retries`, `finish` | early retries made, `finish_reason` |
| `out` | events yielded that the client has not taken |
| `stage`, `open`, `used`, `last` | the client's view, the variables of `Message` |
| `got` | history of what the client saw: attempts, inputs of calls, kinds, stop reason |

*Atomicity.* The runner is an async generator: it resumes only when the client
has taken everything it yielded (`Resumed`), so one action is the work on one
piece of the provider's stream. A chunk with several pieces does the same as
several chunks of one piece each. The holdback is released by elapsed time or by
size, hence at any push. The recovery requests and their answers are one step:
everything they touch belongs to this one request, and the slot and the rate
limit they need are in `ProviderLimiter`.

*Actions.* `Begin`, `Connect`; `Reasoning`, `Text`, `TaggedThinking`, `Tag`,
`TextCall`, `ToolChunk`, `FinishReason` for the pieces of a stream; `Complete`
for an end with a finish reason (flush of the parsers, of the buffered arguments
of Task and of renamed arguments, the filler text, closing of all blocks);
`ConnectFails` and `StreamFails`, which lead to `EarlyRetry`, `Recover` or
`FinalError` as `advance_failure` decides; `Deliver` and `Disconnect`.

*Data.* Text is blank or solid. A tool's name is a fragment or in full, its
arguments are a part of their JSON or the whole. Left out: ids, usage numbers,
`extra_content`, the negative index of a malformed tool delta. Text that looks
like the beginning of a call and is still held by the tool parser when the
stream ends is dropped by its `flush` (`tools.py:188`): in the model such text
never comes. Where the code closes tool
blocks in the order of their states, the model uses one fixed order.

*Runs.* `ChatStreamAll` (two calls, one of Task and one with renamed arguments,
up to three pieces in each attempt, one early retry; 0.3M states) shows that the
events form a `Message` at every point (`Contract`, the refinement), that early
retries are invisible and nothing is left in the holdback buffer at the end
(`OneAttempt`), that an answer is of use when it ends (`EndIsOfUse`: salvaged calls are
whole, thinking is not all of it), and that every answer ends (`Answered`). Three pieces are
enough for a thinking block, a text and a call, for two calls side by side, and
for a call whose name, first and second arguments are apart; one retry is enough
for a first attempt that is dropped and a second that is committed.

*What the model shows beside them*: a recovered answer may contain thinking
although thinking is switched off, arguments under renamed
keys are not restored in a repaired call (`recovery.py:170`), and a tool whose
name comes in fragments is started under the first of them (`tool_calls.py:147`);
both are among the findings.

*Fairness.* Weak fairness of the runner, because the provider's stream goes on
or fails at the latest by the timeout of the HTTP client, and of the delivery,
because a client that stays connected reads. None for a disconnect.

*Proved* (`ChatStreamProofs.tla`), for any calls, number of retries and length of the
answer: `StreamTypeCorrect`, `ContentOfOneAttempt` (`OneAttempt`), `EndOfUse`
(`EndIsOfUse`), and `MessageImplemented` (`Contract`): ChatStream implements Message,
every delivery being a step of it and every other step a stutter.

The builder is ahead of the client by the events held back or on their way, so an
invariant must speak of events that have not been seen. `Allowed(v, e)` says that event
e is legal in a client's view v, `After(v, e)` what it does to the view, and
`Toward(v, q, w)` that the events of q lead from v to w, one legal event after the other
(`Leads` names the views between them by a function, so no recursion is needed). The
invariant `StreamInv` is: the events on their way lead the client to some view w0, those
held back from w0 to a view w, and w `Agrees` with the builder: it has seen every index
given out, exactly the builder's open blocks are open in it with their types, and it has
the input that the builder has sent of each call (`OnInv`). As long as nothing has been
let out, w0 agrees with a *new* builder, which is why an attempt may be repeated or the
error tail may start afresh (`stream.py:282`). After the end, the events on their way
lead to a view of the whole message (`OverInv`), and after `message_stop` nothing is legal,
so a client that has seen it has seen all. `TryInv` adds the attempts: what is held back,
on its way or with the client is of the current one.

The builder's part is `Sound` (an open block has an index that was given out, and no two
blocks share one) and `Told` (reasoning and text have their blocks). Each operator of
SseBuilder has a lemma `Good(v, s, n)`: the events it emits are legal, and lead to a view
that agrees with the builder it returns. Indexes stay below `2 * MaxChunks + 4`: a piece of
the stream opens at most one block, the end of an answer at most three. From the
assumptions, the proofs use that `"none"`, which marks events of no call, is not a call.

Model-checked only: `Answered`, a liveness property.

### CliPool

`CliPool.tla` is `ManagedClaudeSessionManager`, `ManagedClaudeSession`, the
process registry, and what a turn does with them. `sessions`, `pending`,
`toReal`, `toTemp` are the maps of the pool, `line` its lock (holder first), `proc`
the process of a session, `user` the holder of a session's `_cli_lock`, `pids` the
registry that `kill_all_best_effort` reads.

*Atomicity.* One action is the code between two awaits that suspend. The pool's
lock is held over such awaits (`remove_session` and `stop_all` stop a process under
it), so it is a queue of waiters here, unlike the locks of TreeQueue.

*Actions.* `Arrive`, `GetSession`, `StartTask`, `Spawned`/`SpawnFails`,
`SessionInfo`, `Register`, `TaskEnds`, `RemoveSession`, `Removed` are a turn;
`Cancelled` delivers `CancelledError` wherever the turn awaits; `Abandoned` is a turn
that leaves `start_task` where it stands. `StopOne`, `StopAll` and the `Sweep...`
actions are the two kinds of /stop; `Shutdown`, `SweepTimesOut`, `LoopEnds`,
`ServerExits` are the end of the server, with its time limit.

*Run.* `CliPoolAll`: two turns, in one conversation or two, one /stop of either
kind, a shutdown that may be cut short, a restart. Two turns give a waiter for the
pool's lock behind a holder, and one session that two turns use in succession.
*Fairness*: weak, for a turn's steps, the sweep, the end of the server and of
processes (a SIGKILL follows after five seconds).

*Proved* (`LocalProofs.tla`), for any turns, session ids and number of /stop commands:
`PoolTypeCorrect`, `NothingRuns` (`NoProcessLeft`) and `StopGoesThrough` (`StopReaches`).
The first two rest on `HoldInv` (who runs inside `start_task` holds the lock of its
session, and who holds it otherwise left `start_task` where it stood), `PidInv` (a running
process is in the registry, or its turn left) and `LockInv` (who awaits a process under the
pool's lock is its holder).

For `StopReaches`, `TargetInv` follows the turns that an unscoped /stop cancelled, and
`TodoInv` says that `stop_all` will get to every session of the pool that runs for one
of them. What remains is that such a session is in the pool. At the first /stop it is:
until then there is one turn of a conversation at a time, and the pool has its session
under the id that the turn knows (`FirstInv`: the four maps and the turns determine each
other), and nothing that happens while `stop_all` waits for the lock takes it away
(`ReachInv`, with `NameInv` and `KeyInv`). From the second /stop on it need not be, in two
ways that are findings, and the property says so: then only a session that the pool had
lost may still run, and its turn is still to be cancelled or has left `start_task`. The run
has one /stop, the theorem any number.

*Findings.* `stop_all` clears the maps also of a session that was handed out while it
waited for the lock and has no process yet, so a second /stop does not find that process
in the pool (`manager.py:145`). `remove_session(id)` removes whatever session is in the pool under
that id, also a successor's; a turn cancelled while it registers its real id
leaves its process running, in spite of the comment at `session.py:181`; a
cancelled `remove_session` leaves an entry in `_temp_to_real`.

### Runtime

`Runtime.tla` is the life of the server: the supervisor loop, start-up with its
validation, the runtime's shutdown, the registry with its providers, requests that
resolve a provider, and the application of a changed configuration. A configuration is a
version number, a provider the number with which it was made; `open` are the
providers that have not been closed, `held[r]` those of registry r.

*Actions.* `Start`, `Validated`, `Serving`, `StartupFails`, `Stop`, `Stopped` are
the server; `RefreshBegins`/`RefreshEnds` the background listing of models; `Read`,
`ReadEnds`, `Resolve`, `Finish` a request, which reads the settings in a worker
thread; `Apply`, `Joined`, `CloseOne`, `Installed` an apply, or the shutdown, that
cleans a registry with an await per provider.

*Run.* `RuntimeAll`: two requests, two applies, one provider id, five providers
made, one restart. Two applies give a second registry beside the one that the
runtime made itself; two requests give one that stands between reading and
resolving while another uses its provider. *Fairness*: weak, of the server's steps,
and of its stop when a restart was requested.

*Proved* (`ServerProofs.tla`), for any requests, applies, providers and bounds, of which
the first three are finite sets and the last naturals (`RuntimeAssumption`):
`RuntimeInvariant`, `NothingOpenHolds` (`NothingOpen`) and `InEffectHolds` (`InEffect`).
Neither property is inductive. `RuntimeInv` has five parts: the values of the variables;
`Staged`, who can be under way in which stage of the server, for example that no request
and no apply outlives the stage `up`, and that the clean-up of the runtime begins to close
only when the background refresh has ended; `Counted`, that there are never more
registries than restarts and applies account for, without which an apply could
reuse a number; `Where`, which says for every stage where an open provider is found while no
apply touched a registry (in the runtime's own, then in what its clean-up has still
to close), so that none is left when the server is off; and `Versions`, that while no
two applies raced, the cache is empty or holds the file, who is reading reads the
file, and the registry that is in effect was built from it.

*Findings.* Providers made after an apply are never closed, because the shutdown
cleans the registry made at start-up; a provider made during a clean-up is dropped
open; a request that began reading before an apply puts the old settings back into
the cache. The properties exclude exactly these overlaps (`touched`, `raced`).

### AdminConfig and Gateway

`AdminConfig.tla` is the configuration: the repository's `.env`, the managed file,
the file of `FCC_ENV_FILE`, the legacy file, the process environment and the
template, how `Settings` layers them, how the admin page layers them, and what a
save writes. A file is a function from the keys that it sets; a value is the
sequence of the parts between its slashes; one field stands for each kind of field.
`Scaffold`, `StartServer`, `StopServer`, `EditRepo` and `Save` (`ApplyUpdates` of what
a page sends) are its actions.

`Gateway.tla` adds the clients: `ListModels` gives them ids, which they keep in
`known`; `Handle` routes a request (`ResolveModel`), refuses or intercepts it
(`Outcome`), or starts a `web_fetch`, whose steps `Resolved`, `Fetched`, `Redirected`
are the look-up, the pinned connection, and a redirect with a host that may answer
with another address the next time.

*Run.* `GatewayAll`: files may set two keys, a save may name three, two saves, one
redirect, one discovered model that cannot think, seven kinds of request. The
two file keys are the pair for which the code migrates a legacy file and the one with
the template's token, two saves are what a stale page needs.

*Proved* (`ServerProofs.tla`), for any files, updates, models, hosts and number of hops
(`GatewayAssumption`: a natural number, and a discovered model begins with the id of its
provider and goes on, which is how `registry.py:327-364` makes the references):
`ChangesAreAskedHolds` (`ChangesAreAsked`), `ListedStaysRoutableHolds`
(`ListedStaysRoutable`) and `FetchStaysInsideHolds` (`FetchStaysInside`). The first
is about one save. It rests on lemmas on the layers (`InUseLayers`, `ShownLayers`,
`TargetLayers`: the first file of the order that sets a key decides), and on the fact that
what was validated is what the server then reads (`ValidatedIsRead`). It is proved of
`AdminSpec`; each step of the gateway is one of the configuration or leaves it alone,
so that `GwSpec` has it too (`GatewayChangesAreAsked`). The second needs that an id
decodes to the model it was made from (`IdsDecode`), and `KnownInv`: what a client
kept is the id of a model that begins with a provider, and does not depend on the
configuration that was in use when it was listed. The third needs `FetchInv`: the addresses
that a request is pinned to are public, at every hop, unless the policy of the fetch allowed
others.

*Findings*, which `ChangesAreAsked` leaves out by name: the seed of the first save
is the template and not the effective values; a token of the process is overridden by
it; an unchanged masked secret is reported as pending; values in quotes or with
`${` do not read back; the refusal of a server tool is skipped when `tool_choice`
names one that is not listed; suggestion mode is looked for in the whole history.

### Responses, NativeStream, Conversation and Exchange

`Conversation.tla` says what a provider is sent of a history. A client of the
Messages API or of the Responses API writes it message by message (`WriteUser`,
`WriteSystem`, `WriteAnswer`, `WriteResults`, `WriteItem`); the converters are pure
operators: `ConvertMessages` for chat providers with the deferral of what follows
a call until its results have come, `Signature` for Gemini, `NativeMessages` and
`DeepSeekBody` for native ones, `AnthropicPayload` for the items of a Responses
client.

`NativeStream.tla` is the second transport. `policy` renumbers the blocks of the
provider, opens what has no start and closes what is overlapped; `tracker`
remembers what was emitted; `held`, `committed`, `retries` are as in `ChatStream`.
The actions read one event of the provider (`Provider`), or end or break the
stream (`Complete`, `Truncated`, `Break`), or recover (`RecoverCalls`, `RecoverText`,
`RecoveryFails`). The provider may overlap blocks, return to a closed one, leave
out the start of a block of any kind, report an error before, in or after its blocks, and
break off anywhere; `quirks` records what it did.

`Responses.tla` is the assembler that turns the events into those of an OpenAI
Responses answer: slots are reserved when a block starts and committed when it is
done. Its state is a record and its handlers are operators, so that
`ResponsesFrom(sent, ...)` is the whole adapter applied to whatever the client was
sent.

`Exchange.tla` composes them: a history is written, asked, and answered.

*Run.* `ExchangeAll`: four messages or five items, three blocks in a message; two
blocks in an attempt, one early retry; 0.74M states. Two blocks are what overlap needs;
four messages are a question, calls, their results and an answer or another call. It checks that the
client's stream is one message (`ClientStreamWhole`), of one attempt
(`AnswerOfOneAttempt`), the same for a Responses client (`ResponsesAgree`), and that
chat and native requests tell all that was written, in order (`ChatTellsAll`,
`NativeTellsAll`). What a provider did that the properties except is named in `quirks`:
`loose`, a thought without a start, which is passed on under the provider's own index;
`early`, an error before `message_start`, which is flushed without one; `returned`, a block
that was closed for another and comes back; `overlap`, whose repaired arguments may reach
a closed block; `late`, a failure after the provider's `message_delta`. All are
findings. No liveness: the runner is the generator of `ChatStream`, where
the end of every answer is checked.

*Proved* (`ExchangeProofs.tla`), for histories of any length with messages of any number of
blocks (`ConversationAssumption`: the bounds are naturals): `HistoryFits` and
`NativeTellsAllHolds` (`NativeTellsAll`). `HistoryInv` says what a client of either API may
have written: blocks that fit their role, and no empty message of the user. The
converters are functions over sequences, so the rest is induction over data, done with
sets (`SequenceInduction` in `SequenceLemmas.tla`: a set that has the empty sequence, and with any sequence those
that are longer by one element, has them all). What is needed of `OfType` is proved once:
it loses no block of its types (`OfTypeKeeps`), keeps two of them in order, has no other
(`OfTypeFits`), and collecting from what was collected changes nothing (`OfTypeWithin`).
Each body is then looked at message by message: what is removed is what its provider
refuses (`SanitizedTells`, `StrippedTells`), and a thought in front of a call stays in
front of it (`DeepThinks`).

`AnswerOfOneAttemptHolds` (`AnswerOfOneAttempt`) is proved for any number of blocks and
attempts, and for every provider but the `loose` one: its theorem is `"loose" \notin quirks =>
AnswerOfOneAttempt`, and of what a thought without a start leads to only TLC has looked. The inductive
invariant is `AnswerInv`: `Frame`, the values that stay what they are whatever the provider
sends, and `StreamInv` unless the provider was loose. As long as an attempt runs, four
records of it say the same of each block (`Live`): the provider's own blocks, the
segments of the policy, the notes of the tracker, and the events that were yielded,
given to the client or held back. Each block of the provider has one segment, or none if its
thoughts were not asked for (`Sorted`, `Wanted`); what the tracker has noted of a block is what the yielded events carry
for it, and all of it is of this attempt (`Witnessed`); and, unless the provider came
back to a block that was closed, each block of the client has just the pieces that one
block of the provider has sent (`Owned`). What lets an attempt be thrown away is the rest
of it: before the holdback ends nothing was sent, and afterwards nothing is held.
The proof has three layers. What the policy makes of one event of the provider: the stops of
other blocks, a start, a delta (`DeltaReaches`, `FollowsOpens`, `FollowsDelta`,
`FollowsStops`). That `Live` survives it: a block more, a block dropped, pieces added
(`StepGrown`, `StepDropping`, `StepFilled`), and so each step of the provider
(`ProviderKeeps`). And the endings: the tails that the proxy writes itself and the
repaired calls add pieces of the recovery only (`ClosingErrorTail`, `RepairsFacts`), so
that what was of one attempt stays so (`Ends`).
What a block is given of a sequence of events is `CarriedIn`, a concatenation,
so it is collected over two sequences as over each (`EachConcat`); what the tracker
knows after them is a recursive function (`ObserveAll`).
The proof takes of the provider what `Provider` in `NativeStream.tla` says: it ends no message with an open
block and closes no half call, and a block has at most two pieces.

*Findings.* A thought without a start, and its stop, reach the client as they are; an
error before `message_start` is given to the client without one; a repair for a call whose
block the policy has closed becomes a delta of a closed block; a tool block to which the provider returns is two calls with the same
id; what follows `message_stop` is read as part of the answer; documents of the user
are lost, parallel calls of a Responses client become one message each, and
`reasoning_content` stays in native bodies. The properties name these cases.

### Platforms, VoiceNotes, Transcript and ChatWindow

`Platforms.tla` are the adapters of Telegram and Discord: three attempts to start,
or a client task that is waited for, the stop, and a call of the outbox with each
answer the platform may give (done, done without an answer, refused, network
error, flood). `VoiceNotes.tla` extends it by the messages of a user: text is handed
on at once; a voice note is announced, registered, downloaded, transcribed, and
admitted unless it was cancelled; `/clear` comes as a reply or for all. Telegram
hands out one update at a time, Discord many (`Accepts`).

`Transcript.tla` is what a turn shows: the CLI's events, streamed or whole, with
parallel subagents, become segments (`ApplyStart`, `ApplyDelta`, `ApplyTask`,
`ApplyTool`, `ApplyResult`), which are rendered into the limit and edited in at
most once a second (`Update`). Of the calls, a CLI gives ids to all, or leaves them out: of
Tasks always, and of any other tool that it likes; a result then has no id either, or one
that was never announced. A call may be a streamed block also while a Task runs, as the
calls of one message are.

`ChatWindow.tla` composes them. Notes and turns meet only in the status message,
which exists before its turn runs, so a behaviour is of one scene or of the other.

*Run.* `ChatWindowAll`: two notes and one command; four events, two block indexes,
four pieces in a message; symmetric in notes and blocks; 0.5M states. Two notes let one be
cancelled while the other is transcribed; four events are two Tasks that overlap and
their results, or a Task without an id, a tool of its subagent, the tool's result and
what the subagent then says. `TranscriptTrue` says that the text is the main agent's, all of
it and in order, and that a subagent shows none, unless the code cannot know: when a
subagent ended before a younger one (`overtaken`), or when, without ids, the result of a tool
was like that of a Task (`guessed`). `EndShown` says that the display always fits and, at
the end of the turn, has the status that ended it and the newest segments of the whole
transcript, none missing that would have fitted; before the end it may lag behind, since
edits within a second are dropped. All are safety properties: nothing forces a user, or a
platform, to go on.

*Proved* (`MessagingProofs.tla`), for any notes and commands, named apart
(`PlatformAssumption`), and any capacities: `ChatInvariant`, `CancelledNeverRunsHolds`
(`CancelledNeverRuns`) and `NothingLeftBehindHolds` (`NothingLeftBehind`). `ChatInv` has four
parts. `ChatTypes`. `ChatNotes` relates how far a note has come to what its
user was told and to the registry of pending notes: a note that is transcribed and
not cancelled is registered, and nothing else is, except one whose file could
not be had; hence a note that a `/clear` found cannot be admitted. `ChatCalls`: a handler
waits for one call at a time, a status message is sent only by the handler that waits for
it, and an answer is for a handler that still waits, so no status message appears
after its deletion was asked for. `ChatDoomed`: the status message of a note that gets no turn
is not there, is about to be deleted, or was kept by the platform, which is
`NothingLeftBehind` before the queue is empty.

For a turn, with any events and subagents and any bounds (`TranscriptAssumption`: a limit
has room for the marker and the least budget, 20 characters, as both platforms' limits of
3900 and 1900 have): `TranscriptTrueHolds` (`TranscriptTrue`) and `EndShownHolds`
(`EndShown`). `TurnInv` says that an open block writes into a segment of its kind
(`OpenInv`), that no segment of text is behind the one the running text block writes into, so that what
the agent says comes last (`LastInv`), and how the stack stands to the subagents that run
(`StackInv`): its entries are theirs, one each, and in their order until one ends before a
younger one; without ids there are as many as subagents until a result was guessed at. Hence no subagent speaks over an
empty stack, and the main agent speaks over no other (`StackAndTasks`). What a
transcript says in all is computed by folds; three lemmas say how it changes when a segment is
added (`PiecesAppend`), when one grows by a piece (`PiecesGrow`) and when neither concerns an agent (`PiecesStay`).
`RenderCases` is the loop of the renderer: everything, the last segments behind the
marker, or the end of the last one; each fits and ends with the newest segment.

*Findings.* A failed status message drops a note silently; an unscoped `/clear`
does not cancel notes that are being transcribed; on Telegram a `/clear` reaches
a note only when it has been transcribed; a subagent that ends before a younger one
takes that one off the stack; without ids, the result of a subagent's own tool ends the
subagent's context, and what it says next is shown as the main agent's; Telegram's "not modified" is retried before it
is recognised; a Discord client that comes up late is running unknown to the runtime.

### HyprConfig, Assistant and Desktop

`HyprConfig.tla` models `ai/lib/hypr_config.py` and the tools on top of it. A file is a
sequence of lines (the head or end of a block, an assignment, a bind, an unbind, a rule, a
comment with or without a brace), of which the last may lack its newline (`Unended`); the
edits are pure operators on it (`SetFirst`, `SetInSection`, `SetNested`, `SetValue`,
`CommentOut`, `Put`, `Rewritten`) that look at the text as the code does, block by block and
name by name: a dot in a key makes it nested (`hypr_config.py:148`), whether the window
manager has such a block or, as for `col.active_border`, has not; braces are counted in
comments too. `Effective` is what the window manager makes of a file: it is external, and
no edit looks at it. A thread makes an edit in steps: `Backup`, `Read`, `Empty` (the
file is opened for writing), `Fill`, `Reload`; or `Add`, which appends. A preset is a
sequence of such edits. The file exists and is not read-only.

`Assistant.tla` models the thread of a message (`jarvis.py`, `agent.py`, `intent.py`,
`terminal.py`, the preferences of `system_state.py`): it records the message, does what a
phrase asks, or puts it to a model that asks for tools, with `Load`/`Save`/`Write` of
the preferences, the dialogs of `_confirm` (`Show`, `Answer`, `Decide`), the lock of the
shell (`Run`, `RunEnds`) and `Kill`, the end of the process. `Dispatch` sends each act its
way: what the patterns of `terminal.py` or a tool of power asks about (`Dangerous`) is
asked, but for the three ways that ask nobody (`Unasked`): `smart_open` for a command that
begins with xdg-open, gio open or gtk-launch, before `safety_check`; `execute_command`,
which looks at the beginning of a command only; and suspending. `WithNote` keeps the
newest `MaxNotes` notes, 50 in the code. `prefs_set`, whose key may be `notes`, is left out.

`Desktop.tla` puts the two side by side: an edit asks nobody and touches nothing the
threads share, so a behaviour is of one scene or of the other.

*Run.* `DesktopAll`: 2.1M states, symmetric in messages and threads. Two edits at a
time, of files made of one or two blocks out of four, of a block with a dotted name or a
brace in a comment and another one, or of two lines out of six, or a comment and one of
them with an unended last line; two messages of two turns with one act each, two notes
kept, one kill. Two threads are what it takes for an edit between the steps of another one,
for a dialog within a dialog, and for a load between a truncation and a write; two blocks
hold a namesake and a block that is there twice; two messages note up to four times, more
than are kept. `EditsAreExact` compares what the window manager reads before and after an
edit. One that no other got in between of (`alone`) makes the change that was asked for and
no other if its setting is clear in the file (`Clear`), and else still touches nothing of
another name (`Confined`); edits that append, with only such edits in between (`calm`), lose
no line (`Added`). `OnlyGrantedRuns` follows an answer through nested dialogs to the act it
was given for. `Remembered` says when the file of preferences is whole and that each of
the newest `MaxNotes` confirmed notes is in it, unless a thread wrote the file that had read
it before the note was confirmed, or had found it cut off: `missed[m]` are the notes that m
has not read, `lost` those that somebody wrote the file without. Both only record; no guard
looks at them. No liveness: a user may never answer.

*Proved* (`LocalProofs.tla`), for any messages and any number of turns, acts and ends of
the process (`TalkBounds`: the bounds are naturals) and any limit of notes (`SomeNotes`: it is
positive): `TalkTypeCorrect`,
`NothingWithoutLeave` (`OnlyGrantedRuns`) and `NotesRemembered` (`Remembered`).
`TalkInv` is the types, that a thread which is at an act has one, and that a dialog is on
the screen once, for a thread that waits for it: so the answer to the uppermost dialog goes
to the thread that asked. `GrantInv` adds that an answered thread has its result from its
own dialog and that one which waits for the shell has leave. `PrefsInv` is about the file:
it is cut off only while its writer holds the lock, and what a thread is about to write is
whole (`WriterInv`); of the notes the user was told of, newest first, the i-th is among the
first i of the file unless it is lost, and a file about to be written has the same of those
that its thread has not missed, one place further back if it has a note of its own in front
(`Holds`, `CopyHolds`, `NotesInv`), so that cutting off what is beyond the limit takes no newer note
away. `EditsAreExact` is checked only: it is about folds over lines.

*Findings*, which the properties leave out by name (`Clear`, `Ended`, `alone`, `Unasked`,
`lost`, `hurt`). A namesake in a nested block is overwritten; a name with a dot is taken for a
nested block, so that the colours of the borders are never set; braces in comments are
counted; a line is appended to a last one without a newline; a head with its brace on the
next line is not found; a missing inner block is added once per key; edits of the same file
at the same time undo each other; backups of a second replace each other; `smart_open` and
`execute_command` start what the patterns ask about without a question; two threads,
or a crash, lose preferences. Others concern phrases and tools beside the model and
are in `PROJECT.json` only.

## What is proved, and what is not

The theorems are listed in `PROJECT.json`. They rest on the assumptions of the
modules' constants, which TLC evaluates in each run, and on nothing else. Each argument
is in the section of its module.

| module | proved | model-checked only |
|---|---|---|
| TreeQueue | types, `InArrivalOrder`, `NoOrphans`, `OneTurnPerTree`, `StopCancels`, `CompletedIsFinal`, `QueuedAreWaiting` | `NoStarvation` |
| SessionStore | types, `LogAgrees`, `UnsavedIsScheduled`, `Persisted` | `ChangesGetWritten` |
| OutboxLimiter | types, `WaitsOnce`, `LatestShown`, `QueueAgrees`, `WindowBound`, `NoCallDuringPause` | `AllAnswered` |
| ProviderLimiter | types, `SlotsBalance`, `UpstreamBound`, `SeenBlockHolds` | `AllEnd` |
| ChatStream | types, `OneAttempt`, `EndIsOfUse`, `Contract` (refinement of Message) | `Answered` |
| CliPool | types, `NoProcessLeft`, `StopReaches` | `EveryTurnEnds` |
| Desktop | types, `OnlyGrantedRuns`, `Remembered` | `EditsAreExact` |
| Runtime | types, `NothingOpen`, `InEffect` | `RestartWorks` |
| AdminConfig, Gateway | `ChangesAreAsked`, `ListedStaysRoutable`, `FetchStaysInside` | |
| VoiceNotes, Transcript, ChatWindow | types, `CancelledNeverRuns`, `NothingLeftBehind`, `TranscriptTrue`, `EndShown` | |
| Exchange (Conversation, NativeStream, Responses) | histories, `NativeTellsAll`, `AnswerOfOneAttempt` (of a provider that is not `loose`) | `ClientStreamWhole`, `ResponsesAgree`, `ChatTellsAll` |

Where the proofs showed that a property did not hold of the code in general, the property
now says what does: `StopCancels` holds up to the first unscoped command, `StopReaches` has
an exception from the second /stop on. TLC had not met either case, because the runs stop
at one such command. Both cases are findings.

The proofs cover safety. Liveness under fairness and `ENABLED` are outside what
TLAPS does with the installed backends and are checked by TLC only
(`NoStarvation`, `ChangesGetWritten`, `AllAnswered`, `AllEnd`, `Answered`,
`EveryTurnEnds`, `RestartWorks`). Library theorems that take an operator as a
parameter cannot be instantiated, so induction over data is done over sets, from
well-foundedness: `NumberInduction` and `SequenceInduction` (`SequenceLemmas`), `LeastNatural` and
`SequenceOf` (`LimiterProofs`). The definition of a recursive function is shown to have a
solution (`RecursionExists`) before it is used. `SelectSeq` and `FoldSet` cannot be
unfolded, so what is proved about is written with `FlattenSeq` and recursive functions
(`OfType`, `Conversed`, `Visible`, `Joined`). The longer folds, of a chat request
(`ChatTellsAll`), of a client's stream (`ClientStreamWhole`, `ResponsesAgree`) and of a configuration file (`EditsAreExact`), are checked over bounded
inputs and not proved. No module declares
a RECURSIVE operator.

## Plan

The modules of the first plan are written, and the components with the most
interleavings have their safety proved, and so has the server with its configuration. What could follow, in this order:

1. `ClientStreamWhole`: `StreamInv` says what was told of each block; the order of the
   starts, the deltas and the stops of a block needs a prefix invariant beside it.
2. `ChatTellsAll`: as for native requests, block by block and then message by message; a
   chat request also moves results in front of the answers that follow calls.
3. The replacement of a provider's limiter while streams hold slots of the old one.

## Not modelled, and why

The client libraries of the platforms, the upstream APIs and the Claude CLI are
external: the models give them every answer the code distinguishes. Markdown, display
names, token counts, usage numbers, error texts, tracing and logging change no state
that a property is about. The launchers set up the environment of a child process
and exec it. Of the desktop assistant (`ai/`) the table of phrases, the tools that find,
open, copy and move files, the scanner and the window are left out: they are regular
expressions, searches of the disk and commands of the shell. So are the Hyprland routes
(`jarvis/`). Smoke tests and scripts are
a test harness. The exact components are in `PROJECT.json` under `components`.
