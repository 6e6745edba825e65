------------------------------ MODULE TreeQueue ------------------------------
(***************************************************************************)
(* The messaging tree queue: MessageTree, TreeRepository, TreeQueueManager *)
(* and TreeQueueProcessor of messaging/trees, driven by the inbound turn   *)
(* intake, the node runner and the /stop and /clear commands.              *)
(*                                                                         *)
(* Everything runs on one asyncio event loop, so a step of this module is  *)
(* the code between two awaits that can really suspend.  The tree lock and *)
(* the manager lock are never held across such an await, hence a locked    *)
(* section is (part of) one step.  The suspending awaits are: sending the  *)
(* status message (Receive .. Admit), the first run of a created task      *)
(* (Start), the CLI session pool lock (Start .. Acquire), the CLI event    *)
(* stream (Acquire .. Exit), stopping the CLI process after a cancellation *)
(* (DeliverCancel .. Stopped), removing the session (.. Finish), stopping  *)
(* every session in /stop, and deleting messages in /clear.                *)
(*                                                                         *)
(* A message is a node; a tree is named by its root message.  The FIFO     *)
(* queue of a tree is the set of its queued nodes ordered by place, the    *)
(* order in which the nodes were admitted.                                 *)
(***************************************************************************)
EXTENDS Naturals

CONSTANTS
    Msgs,         \* inbound messages; each becomes at most one node
    None,         \* Python's None
    Commands,     \* the commands users issue
    MaxCommands,  \* bound: commands issued in a behaviour
    MaxRestarts   \* bound: restarts of the server in a behaviour

ASSUME NoneAssumption == None \notin Msgs
ASSUME CommandsAssumption ==
    Commands \subseteq {"stopNode", "stopAll", "clearBranch", "clearAll"}
ASSUME BoundsAssumption == MaxCommands \in Nat /\ MaxRestarts \in Nat

VARIABLES
    intake,     \* intake[m]: how far handle_message got with m
    parent,     \* parent[m]: the node m replies to, None for a root
    home,       \* home[m]: root of the tree object m was added to
    nodes,      \* nodes[r]: MessageTree._nodes of the tree object rooted at r
    trees,      \* TreeRepository._trees: the roots the repository knows
    index,      \* TreeRepository._node_to_tree
    state,      \* MessageNode.state
    queue,      \* queue[r]: MessageTree._queue
    place,      \* place[m]: arrival number of m, the order of the queues
    arrivals,   \* number of admitted messages
    busy,       \* MessageTree._is_processing
    current,    \* MessageTree._current_node_id
    curTask,    \* MessageTree._current_task, named by the node it runs
    task,       \* task[m]: phase of the asyncio task running m
    cancelled,  \* cancelled[m]: Task.cancel() called, not delivered yet
    bound,      \* bound[m]: the runner of m found its tree when it started
    captured,   \* captured[m]: the runner of m holds a real session id
    cli,        \* cli[m]: how the CLI process of m exited
    saved,      \* saved[m]: state of m in the SessionStore
    clearing,   \* branch roots whose reply-scoped /clear awaits deletions
    global,     \* phase of the last unscoped /stop or /clear
    reported,   \* the nodes cancel_all returned to that command
    commands,   \* commands issued so far
    restarts    \* restarts so far

intakeVars == <<intake, parent>>
treeVars   == <<home, nodes, trees, index>>
queueVars  == <<queue, busy, current, curTask>>
orderVars  == <<place, arrivals>>
runVars    == <<bound, captured, cli>>
cmdVars    == <<clearing, global, reported, commands>>
vars == <<intakeVars, treeVars, state, queueVars, orderVars, task, cancelled,
          runVars, saved, cmdVars, restarts>>

States   == {"pending", "in_progress", "completed", "error"}
Active   == {"pending", "in_progress"}
Live     == {"created", "acquiring", "running", "stopping", "closing"}
Phases   == Live \cup {"none", "done"}

TypeOK ==
    /\ intake \in [Msgs -> {"new", "sending", "in", "lost"}]
    /\ parent \in [Msgs -> Msgs \cup {None}]
    /\ home \in [Msgs -> Msgs \cup {None}]
    /\ nodes \in [Msgs -> SUBSET Msgs]
    /\ trees \subseteq Msgs
    /\ index \in [Msgs -> Msgs \cup {None}]
    /\ state \in [Msgs -> States]
    /\ queue \in [Msgs -> SUBSET Msgs]
    /\ place \in [Msgs -> Nat]
    /\ arrivals \in Nat
    /\ busy \in [Msgs -> BOOLEAN]
    /\ current \in [Msgs -> Msgs \cup {None}]
    /\ curTask \in [Msgs -> Msgs \cup {None}]
    /\ task \in [Msgs -> Phases]
    /\ cancelled \in [Msgs -> BOOLEAN]
    /\ bound \in [Msgs -> BOOLEAN]
    /\ captured \in [Msgs -> BOOLEAN]
    /\ cli \in [Msgs -> {"none", "ok", "failed"}]
    /\ saved \in [Msgs -> States \cup {"absent"}]
    /\ clearing \subseteq Msgs
    /\ global \in {"never", "idle", "stop", "clear", "wipe"}
    /\ reported \subseteq Msgs
    /\ commands \in 0..MaxCommands
    /\ restarts \in 0..MaxRestarts

Init ==
    /\ intake = [m \in Msgs |-> "new"]
    /\ parent = [m \in Msgs |-> None]
    /\ home = [m \in Msgs |-> None]
    /\ nodes = [r \in Msgs |-> {}]
    /\ trees = {}
    /\ index = [m \in Msgs |-> None]
    /\ state = [m \in Msgs |-> "pending"]
    /\ queue = [r \in Msgs |-> {}]
    /\ place = [m \in Msgs |-> 0]
    /\ arrivals = 0
    /\ busy = [r \in Msgs |-> FALSE]
    /\ current = [r \in Msgs |-> None]
    /\ curTask = [r \in Msgs |-> None]
    /\ task = [m \in Msgs |-> "none"]
    /\ cancelled = [m \in Msgs |-> FALSE]
    /\ bound = [m \in Msgs |-> FALSE]
    /\ captured = [m \in Msgs |-> FALSE]
    /\ cli = [m \in Msgs |-> "none"]
    /\ saved = [m \in Msgs |-> "absent"]
    /\ clearing = {}
    /\ global = "never"
    /\ reported = {}
    /\ commands = 0
    /\ restarts = 0

-----------------------------------------------------------------------------
(***************************************************************************)
(* Trees and queues.                                                       *)
(***************************************************************************)

\* (A definition called XDefect is X with a slip the code could have made;
\* checking with it in the place of X shows that a property notices.)

\* Defect: the descendants are forgotten.
BelowDefect(b) == {b}

\* The nodes of b's subtree that its tree still holds: the least set that
\* contains b and the children of its members.
Below(b) ==
    {d \in nodes[home[b]] :
        \A S \in SUBSET nodes[home[b]] :
            (/\ b \in S
             /\ \A c \in nodes[home[b]] : parent[c] \in S => c \in S)
            => d \in S}

\* Pending descendants of m reached through pending nodes only.
PendingBelow(m) ==
    LET pending == {c \in nodes[home[m]] : state[c] = "pending"}
    IN {d \in pending :
          \A S \in SUBSET pending :
              (\A c \in pending : parent[c] \in S \cup {m} => c \in S)
              => d \in S}

\* What Task.cancel() on the current task of the trees in R marks.
CancelCurrent(R) ==
    {m \in Msgs : task[m] \in Live /\ \E r \in R : curTask[r] = m}

\* update_state, a no-op for a node its tree no longer holds.
Marked(m, s) ==
    IF bound[m] /\ m \in nodes[home[m]] THEN [state EXCEPT ![m] = s] ELSE state

\* save_tree for every tree in R: the store takes the tree as it then is.
Save(R) ==
    saved' = [m \in Msgs |->
                IF home'[m] \notin R THEN saved[m]
                ELSE IF m \in nodes'[home'[m]] THEN state'[m] ELSE "absent"]

\* The runner saves the tree object it holds, if it found one.
SaveOwn(m) == Save(IF bound[m] THEN {home[m]} ELSE {})

\* Defect: the busy flag is left set.
IdleDefect(r) ==
    /\ queue' = [queue EXCEPT ![r] = {}]
    /\ current' = [current EXCEPT ![r] = None]
    /\ UNCHANGED <<busy, curTask>>

\* The tree r has nothing left to run.
Idle(r) ==
    /\ queue' = [queue EXCEPT ![r] = {}]
    /\ busy' = [busy EXCEPT ![r] = FALSE]
    /\ current' = [current EXCEPT ![r] = None]
    /\ UNCHANGED curTask

\* A task is created for n and recorded as the tree's current one; waiting
\* is what stays in the queue.
Launch(r, n, waiting) ==
    /\ queue' = [queue EXCEPT ![r] = waiting]
    /\ busy' = [busy EXCEPT ![r] = TRUE]
    /\ current' = [current EXCEPT ![r] = n]
    /\ curTask' = [curTask EXCEPT ![r] = n]

\* Defect: pop() for popleft().
PoppedDefect(r, n, rest) ==
    /\ n \in queue[r] \cap nodes[r]
    /\ \A o \in queue[r] \cap nodes[r] : place[n] >= place[o]
    /\ rest = {q \in queue[r] : place[q] < place[n]}

\* n is the first queued node of r that the tree still holds; the ids before
\* it are discarded and rest stays queued.
Popped(r, n, rest) ==
    /\ n \in queue[r] \cap nodes[r]
    /\ \A o \in queue[r] \cap nodes[r] : place[n] <= place[o]
    /\ rest = {q \in queue[r] : place[q] > place[n]}

\* The task of m ends: clear_current_node, then _process_next drops stale
\* ids and starts the first node left, or marks the tree as free.
EndTurn(m) ==
    LET r == home[m] IN
    /\ \/ /\ queue[r] \cap nodes[r] = {}
          /\ Idle(r)
          /\ task' = [task EXCEPT ![m] = "done"]
       \/ \E n \in queue[r], rest \in SUBSET queue[r] :
             /\ Popped(r, n, rest)
             /\ Launch(r, n, rest)
             /\ task' = [task EXCEPT ![m] = "done", ![n] = "created"]
    /\ cancelled' = [cancelled EXCEPT ![m] = FALSE]

-----------------------------------------------------------------------------
(***************************************************************************)
(* Turn intake.                                                            *)
(***************************************************************************)

\* handle_message up to the status message: the reply is resolved against
\* the repository as it is now.
Receive(m) ==
    /\ intake[m] = "new"
    /\ intake' = [intake EXCEPT ![m] = "sending"]
    /\ \E p \in {n \in Msgs : index[n] # None} \cup {None} :
          parent' = [parent EXCEPT ![m] = p]
    /\ UNCHANGED <<treeVars, state, queueVars, orderVars, task, cancelled,
                   runVars, saved, cmdVars, restarts>>

\* The turn is dropped: the status message could not be sent, or the parent
\* was cleared meanwhile and add_to_tree raises ValueError.
Drop(m) ==
    /\ intake[m] = "sending"
    /\ intake' = [intake EXCEPT ![m] = "lost"]
    /\ UNCHANGED <<parent, treeVars, state, queueVars, orderVars, task,
                   cancelled, runVars, saved, cmdVars, restarts>>

\* The tree a message joins: its parent's, or a new one of its own.
Root(m) == IF parent[m] = None THEN m ELSE index[parent[m]]

\* add_to_tree or create_tree, the registrations, save_tree and
\* enqueue_and_start, with no suspension in between.
Admit(m) ==
    LET r == Root(m) IN
    /\ intake[m] = "sending"
    /\ r # None
    /\ intake' = [intake EXCEPT ![m] = "in"]
    /\ home' = [home EXCEPT ![m] = r]
    /\ nodes' = [nodes EXCEPT ![r] = @ \cup {m}]
    /\ trees' = trees \cup {r}
    /\ index' = [index EXCEPT ![m] = r]
    /\ arrivals' = arrivals + 1
    /\ place' = [place EXCEPT ![m] = arrivals + 1]
    /\ \/ /\ busy[r]
          /\ queue' = [queue EXCEPT ![r] = @ \cup {m}]
          /\ UNCHANGED <<busy, current, curTask, task>>
       \/ /\ ~busy[r]
          /\ Launch(r, m, queue[r])
          /\ task' = [task EXCEPT ![m] = "created"]
    /\ UNCHANGED <<parent, state, cancelled, runVars, cmdVars, restarts>>
    /\ Save({r})

-----------------------------------------------------------------------------
(***************************************************************************)
(* The task of a node: TreeQueueProcessor.process_node around              *)
(* MessagingNodeRunner.process_node.                                       *)
(***************************************************************************)

\* A node already in error is not run.
MayRun(m) == state[m] # "error"

Skip(m) ==
    /\ task[m] = "created"
    /\ ~cancelled[m]
    /\ ~MayRun(m)
    /\ EndTurn(m)
    /\ UNCHANGED <<intakeVars, treeVars, state, orderVars, runVars, saved,
                   cmdVars, restarts>>

\* The runner looks its tree up, marks the node and asks for a session.
Start(m) ==
    /\ task[m] = "created"
    /\ ~cancelled[m]
    /\ MayRun(m)
    /\ task' = [task EXCEPT ![m] = "acquiring"]
    /\ bound' = [bound EXCEPT ![m] = index[m] # None]
    /\ state' = IF index[m] # None
                THEN [state EXCEPT ![m] = "in_progress"] ELSE state
    /\ UNCHANGED <<intakeVars, treeVars, queueVars, orderVars, cancelled,
                   captured, cli, saved, cmdVars, restarts>>

\* get_or_create_session answers.  A session that another turn of the same
\* conversation left in the pool is reused and its id is already real.
Acquire(m) ==
    /\ task[m] = "acquiring"
    /\ ~cancelled[m]
    /\ task' = [task EXCEPT ![m] = "running"]
    /\ \E reused \in {parent[m] # None, FALSE} :
          captured' = [captured EXCEPT ![m] = reused]
    /\ UNCHANGED <<intakeVars, treeVars, state, queueVars, orderVars,
                   cancelled, bound, cli, saved, cmdVars, restarts>>

\* get_or_create_session raises RuntimeError: the node fails, nothing to
\* remove from the pool.
AcquireFails(m) ==
    /\ task[m] = "acquiring"
    /\ ~cancelled[m]
    /\ state' = Marked(m, "error")
    /\ EndTurn(m)
    /\ UNCHANGED <<intakeVars, treeVars, orderVars, runVars, cmdVars, restarts>>
    /\ SaveOwn(m)

\* The runner reads the next CLI event.
Reading(m) == task[m] = "running" /\ ~cancelled[m]

SessionInfo(m) ==
    /\ Reading(m)
    /\ ~captured[m]
    /\ captured' = [captured EXCEPT ![m] = TRUE]
    /\ state' = Marked(m, "in_progress")
    /\ UNCHANGED <<intakeVars, treeVars, queueVars, orderVars, task,
                   cancelled, bound, cli, cmdVars, restarts>>
    /\ SaveOwn(m)

\* propagate_error_to_children through the current manager: m and its
\* pending descendants fail.
Failed(m) ==
    IF bound[m] /\ index[m] # None THEN {m} \cup PendingBelow(m) ELSE {}

SaveFailed(m) == Save(IF Failed(m) # {} THEN {home[m]} ELSE {})

FailAll(F) == [n \in Msgs |-> IF n \in F THEN "error" ELSE state[n]]

\* A CLI error event in mid-stream, or text on stderr at its end.
ErrorEvent(m) ==
    /\ Reading(m)
    /\ state' = FailAll(Failed(m))
    /\ UNCHANGED <<intakeVars, treeVars, queueVars, orderVars, task,
                   cancelled, runVars, cmdVars, restarts>>
    /\ SaveFailed(m)

\* The exit event is parsed into "complete", after an "error" when the code
\* is not zero; "complete" marks the node whenever a session was captured.
Completes(m) == bound[m] /\ captured[m] /\ m \in nodes[home[m]]

AfterExit(m, code) ==
    LET failed == IF code = "ok" THEN state ELSE FailAll(Failed(m))
    IN IF Completes(m) THEN [failed EXCEPT ![m] = "completed"] ELSE failed

Exit(m, code) ==
    /\ Reading(m)
    /\ cli' = [cli EXCEPT ![m] = code]
    /\ state' = AfterExit(m, code)
    /\ task' = [task EXCEPT ![m] = "closing"]
    /\ UNCHANGED <<intakeVars, treeVars, queueVars, orderVars, cancelled,
                   bound, captured, cmdVars, restarts>>
    /\ IF bound[m] /\ captured[m] THEN SaveOwn(m)
       ELSE IF code = "failed" THEN SaveFailed(m) ELSE UNCHANGED saved

\* start_task raises (the CLI cannot be launched, a broken event).
Crash(m) ==
    /\ Reading(m)
    /\ cli' = [cli EXCEPT ![m] = "failed"]
    /\ state' = FailAll(Failed(m))
    /\ task' = [task EXCEPT ![m] = "closing"]
    /\ UNCHANGED <<intakeVars, treeVars, queueVars, orderVars, cancelled,
                   bound, captured, cmdVars, restarts>>
    /\ SaveFailed(m)

\* CancelledError reaches a task that never ran: its body, and so its
\* finally clause, is never entered.
CancelUnstarted(m) ==
    /\ task[m] = "created"
    /\ cancelled[m]
    /\ task' = [task EXCEPT ![m] = "done"]
    /\ cancelled' = [cancelled EXCEPT ![m] = FALSE]
    /\ UNCHANGED <<intakeVars, treeVars, state, queueVars, orderVars,
                   runVars, saved, cmdVars, restarts>>

\* CancelledError while waiting for a session: the handler marks the node
\* and the turn ends at once.
CancelAcquiring(m) ==
    /\ task[m] = "acquiring"
    /\ cancelled[m]
    /\ state' = Marked(m, "error")
    /\ EndTurn(m)
    /\ UNCHANGED <<intakeVars, treeVars, orderVars, runVars, cmdVars, restarts>>
    /\ SaveOwn(m)

\* CancelledError in the event stream: the CLI process is being stopped.
DeliverCancel(m) ==
    /\ task[m] = "running"
    /\ cancelled[m]
    /\ task' = [task EXCEPT ![m] = "stopping"]
    /\ cancelled' = [cancelled EXCEPT ![m] = FALSE]
    /\ UNCHANGED <<intakeVars, treeVars, state, queueVars, orderVars,
                   runVars, saved, cmdVars, restarts>>

\* The process is gone: the handler marks and saves the node and swallows
\* the cancellation, then waits for the pool to drop the session.
Stopped(m) ==
    /\ task[m] = "stopping"
    /\ state' = Marked(m, "error")
    /\ task' = [task EXCEPT ![m] = "closing"]
    /\ cancelled' = [cancelled EXCEPT ![m] = FALSE]
    /\ UNCHANGED <<intakeVars, treeVars, queueVars, orderVars, runVars,
                   cmdVars, restarts>>
    /\ SaveOwn(m)

\* remove_session returned (or was cancelled): process_node's finally.
Finish(m) ==
    /\ task[m] = "closing"
    /\ EndTurn(m)
    /\ UNCHANGED <<intakeVars, treeVars, state, orderVars, runVars, saved,
                   cmdVars, restarts>>

-----------------------------------------------------------------------------
(***************************************************************************)
(* Commands.                                                               *)
(***************************************************************************)

Issue(c) ==
    /\ c \in Commands
    /\ commands < MaxCommands
    /\ commands' = commands + 1

\* The nodes of S that cancelling marks.
Cancellable(S) == {n \in S : state[n] \in Active}

\* Defect: the nodes are marked but the running task is not cancelled.
CancelNodesKeptRunning(r, S) ==
    /\ queue' = [queue EXCEPT ![r] = @ \ S]
    /\ state' = FailAll(S)
    /\ UNCHANGED <<cancelled, busy, current, curTask>>

\* Defect: the tree is marked as free although the task still unwinds.
CancelNodesFreed(r, S) ==
    /\ cancelled' = [m \in Msgs |-> cancelled[m] \/
                       (current[r] \in S /\ m \in CancelCurrent({r}))]
    /\ queue' = [queue EXCEPT ![r] = @ \ S]
    /\ state' = FailAll(S)
    /\ busy' = [busy EXCEPT ![r] = FALSE]
    /\ UNCHANGED <<current, curTask>>

\* cancel_node and cancel_branch: the current task is cancelled if it runs a
\* node of S, the others leave the queue, and all of S fails.
CancelNodes(r, S) ==
    /\ cancelled' = [m \in Msgs |-> cancelled[m] \/
                       (current[r] \in S /\ m \in CancelCurrent({r}))]
    /\ queue' = [queue EXCEPT ![r] = @ \ S]
    /\ state' = FailAll(S)
    /\ UNCHANGED <<busy, current, curTask>>

\* Reply-scoped /stop.
StopNode(m) ==
    /\ Issue("stopNode")
    /\ index[m] # None
    /\ state[m] \in Active
    /\ CancelNodes(home[m], {m})
    /\ UNCHANGED <<intakeVars, treeVars, orderVars, task, runVars, clearing,
                   global, reported, restarts>>
    /\ Save({home[m]})

\* Reply-scoped /clear, up to the deletion of the messages.
ClearBranch(b) ==
    LET S == Cancellable(Below(b)) IN
    /\ Issue("clearBranch")
    /\ index[b] # None
    /\ CancelNodes(home[b], S)
    /\ clearing' = clearing \cup {b}
    /\ UNCHANGED <<intakeVars, treeVars, orderVars, task, runVars, global,
                   reported, restarts>>
    /\ Save(IF S = {} THEN {} ELSE {home[b]})

\* cancel_tree for every tree in R: cancel the current task, drain the
\* queue, fail whatever is still active, mark the tree as free.
CancelTrees(R) ==
    /\ cancelled' = [m \in Msgs |-> cancelled[m] \/ m \in CancelCurrent(R)]
    /\ state' = FailAll({n \in Msgs : \E r \in R :
                  n \in nodes[r] /\ (state[n] \in Active \/ n \in queue[r])})
    /\ queue' = [r \in Msgs |-> IF r \in R THEN {} ELSE queue[r]]
    /\ busy' = [r \in Msgs |-> busy[r] /\ r \notin R]
    /\ current' = [r \in Msgs |-> IF r \in R THEN None ELSE current[r]]
    /\ UNCHANGED curTask

\* The nodes cancel_tree returns: the current one, if its task was cancelled
\* and it was active, and the queued ones.
Returned(R) ==
    UNION {(queue[r] \cap nodes[r]) \cup
           Cancellable({n \in nodes[r] : n = current[r] /\
                                         CancelCurrent({r}) # {}}) : r \in R}

\* unregister_node_lookups.
Forget(gone) == index' = [m \in Msgs |-> IF m \in gone THEN None ELSE index[m]]

\* The rest of a reply-scoped /clear: remove_branch and the store update.
FinishClearBranch(b) ==
    LET r == home[b]
        gone == IF b = r THEN nodes[r] ELSE Below(b) IN
    /\ b \in clearing
    /\ clearing' = clearing \ {b}
    /\ \/ /\ index[b] = None
          /\ UNCHANGED <<nodes, trees, index, state, queueVars, cancelled, saved>>
       \/ /\ index[b] # None
          /\ Forget(gone)
          /\ \/ /\ b = r
                /\ CancelTrees({r})
                /\ trees' = trees \ {r}
                /\ saved' = [m \in Msgs |->
                               IF home[m] = r THEN "absent" ELSE saved[m]]
                /\ UNCHANGED nodes
             \/ /\ b # r
                /\ nodes' = [nodes EXCEPT ![r] = @ \ gone]
                /\ saved' = [m \in Msgs |->
                               IF home[m] # r THEN saved[m]
                               ELSE IF m \in nodes[r] \ gone THEN state[m] ELSE "absent"]
                /\ UNCHANGED <<trees, state, queueVars, cancelled>>
    /\ UNCHANGED <<intakeVars, home, orderVars, task, runVars, global,
                   reported, commands, restarts>>

\* Unscoped /stop or /clear (and POST /stop): cancel_all, then the pool is
\* asked to stop every session.
StopAll ==
    /\ global \in {"never", "idle"}
    /\ \/ Issue("stopAll") /\ global' = "stop"
       \/ Issue("clearAll") /\ global' = "clear"
    /\ reported' = Returned(trees)
    /\ CancelTrees(trees)
    /\ UNCHANGED <<intakeVars, treeVars, orderVars, task, runVars, saved,
                   clearing, restarts>>

\* The pool stopped its sessions: the trees of the cancelled nodes that the
\* repository still knows are saved.
SessionsStopped ==
    /\ global \in {"stop", "clear"}
    /\ global' = IF global = "stop" THEN "idle" ELSE "wipe"
    /\ reported' = {}
    /\ UNCHANGED <<intakeVars, treeVars, state, queueVars, orderVars, task,
                   cancelled, runVars, clearing, commands, restarts>>
    /\ Save({index[m] : m \in reported} \ {None})

\* The messages of the chat are deleted: the store is cleared and the tree
\* queue manager replaced by an empty one.
Wipe ==
    /\ global = "wipe"
    /\ global' = "idle"
    /\ trees' = {}
    /\ index' = [m \in Msgs |-> None]
    /\ saved' = [m \in Msgs |-> "absent"]
    /\ UNCHANGED <<intakeVars, home, nodes, state, queueVars, orderVars,
                   task, cancelled, runVars, clearing, reported, commands,
                   restarts>>

-----------------------------------------------------------------------------
(***************************************************************************)
(* Restart: the trees in the store are restored and the turns that were    *)
(* running or waiting are reconciled; everything else is forgotten.  What  *)
(* was saved is restored: the store writes its file half a second after    *)
(* the last change, or when the server shuts down (flush_pending_save).    *)
(* What a process that ends sooner loses is left to SessionStore.          *)
(***************************************************************************)

\* Defect: finished turns are reconciled too.
ReconciledDefect(s) == "error"

\* cleanup_stale_nodes.
Reconciled(s) == IF s \in Active THEN "error" ELSE s

Restart ==
    /\ restarts < MaxRestarts
    /\ restarts' = restarts + 1
    /\ intake' = [m \in Msgs |-> IF intake[m] = "sending" THEN "lost"
                                 ELSE intake[m]]
    /\ nodes' = [r \in Msgs |-> {m \in Msgs : saved[m] # "absent" /\ home[m] = r}]
    /\ trees' = {r \in Msgs : nodes'[r] # {}}
    /\ index' = [m \in Msgs |-> IF saved[m] # "absent" THEN home[m] ELSE None]
    /\ state' = [m \in Msgs |-> IF saved[m] # "absent" THEN Reconciled(saved[m])
                                ELSE state[m]]
    /\ saved' = [m \in Msgs |-> IF saved[m] # "absent" THEN state'[m]
                                ELSE "absent"]
    /\ queue' = [r \in Msgs |-> {}]
    /\ busy' = [r \in Msgs |-> FALSE]
    /\ current' = [r \in Msgs |-> None]
    /\ curTask' = [r \in Msgs |-> None]
    /\ task' = [m \in Msgs |-> IF task[m] \in Live THEN "done" ELSE task[m]]
    /\ cancelled' = [m \in Msgs |-> FALSE]
    /\ clearing' = {}
    /\ global' = "never"
    /\ reported' = {}
    /\ UNCHANGED <<parent, home, orderVars, runVars, commands>>

-----------------------------------------------------------------------------
TurnStep(m) ==
    \/ Skip(m) \/ Start(m) \/ Acquire(m) \/ AcquireFails(m)
    \/ SessionInfo(m) \/ ErrorEvent(m)
    \/ Exit(m, "ok") \/ Exit(m, "failed") \/ Crash(m)
    \/ CancelUnstarted(m) \/ CancelAcquiring(m) \/ DeliverCancel(m)
    \/ Stopped(m) \/ Finish(m)

Next ==
    \/ \E m \in Msgs :
         \/ Receive(m) \/ Drop(m) \/ Admit(m)
         \/ TurnStep(m)
         \/ StopNode(m) \/ ClearBranch(m) \/ FinishClearBranch(m)
    \/ StopAll \/ SessionsStopped \/ Wipe
    \/ Restart

Spec == Init /\ [][Next]_vars

(***************************************************************************)
(* Fairness: the event loop runs every ready task, the platform answers a  *)
(* status send, a killed process dies, the pool lock is released, and a    *)
(* CLI process exits (or fails) in the end.                                *)
(***************************************************************************)
Progress(m) ==
    \/ Drop(m) \/ Admit(m)
    \/ Skip(m) \/ Start(m) \/ Acquire(m) \/ AcquireFails(m)
    \/ Exit(m, "ok") \/ Exit(m, "failed") \/ Crash(m)
    \/ CancelUnstarted(m) \/ CancelAcquiring(m) \/ DeliverCancel(m)
    \/ Stopped(m) \/ Finish(m)
    \/ FinishClearBranch(m)

FairSpec ==
    /\ Spec
    /\ \A m \in Msgs : WF_vars(Progress(m))
    /\ WF_vars(SessionsStopped) /\ WF_vars(Wipe)

-----------------------------------------------------------------------------
(***************************************************************************)
(* Safety.                                                                 *)
(***************************************************************************)

\* Removing a branch takes the replies admitted while its messages were being
\* deleted with it: no tree ever holds a node whose parent is gone.
NoOrphans ==
    \A r \in Msgs : \A m \in nodes[r] : m = r \/ parent[m] \in nodes[r]

\* A queued node was admitted to that tree, has not been started (so no
\* message is ever run twice), and its tree is busy: the queue is only drained
\* by the end of a turn, so a queue on a free tree would wait for ever.
QueuedAreWaiting ==
    \A r \in Msgs : \A m \in queue[r] :
        /\ intake[m] = "in"
        /\ home[m] = r
        /\ task[m] = "none"
        /\ busy[r]

\* A conversation runs in arrival order: nothing still queued arrived before
\* a node of the same tree that has been started.
InArrivalOrder ==
    \A r \in Msgs : \A q \in queue[r], m \in Msgs :
        home[m] = r /\ task[m] # "none" => place[m] < place[q]

\* Until an unscoped /stop or /clear, each tree processes one node at a time, also
\* while the turn that a reply-scoped /stop or /clear cancelled unwinds.
OneTurnPerTree ==
    global = "never" => \A m, n \in Msgs :
        home[m] # None /\ home[m] = home[n] /\ task[m] \in Live
            /\ task[n] \in Live => m = n

(***************************************************************************)
(* Action properties.                                                      *)
(***************************************************************************)

\* A completed turn is never reported as failed later, by a late
\* cancellation, an error of its parent, a cleanup or a restart from a file that was
\* written since it completed.
CompletedIsFinal ==
    [][\A m \in Msgs : state[m] = "completed" => state'[m] = "completed"]_vars

\* Up to the first unscoped /stop or /clear, a command that marks a node whose turn is
\* going on as failed also cancels that turn (unless the turn is already ending).
StopCancels ==
    [][global = "never" /\ commands' # commands =>
         \A m \in Msgs :
            state[m] # "error" /\ state'[m] = "error"
              /\ task[m] \in {"created", "acquiring", "running"}
            => cancelled'[m]]_vars

(***************************************************************************)
(* Liveness.                                                               *)
(***************************************************************************)

Pending(m) == index[m] # None /\ state[m] = "pending"

\* No queued message waits for ever.
NoStarvation == \A m \in Msgs : Pending(m) ~> ~Pending(m)

=============================================================================
