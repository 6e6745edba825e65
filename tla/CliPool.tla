-------------------------------- MODULE CliPool --------------------------------
(***************************************************************************)
(* The pool of managed Claude Code sessions (cli/managed/manager.py), the  *)
(* sessions with their processes (cli/managed/session.py), the turns that  *)
(* use them (messaging/node_runner.py), and the ways all of them are       *)
(* stopped: /stop, the shutdown of the runtime and the end of the event    *)
(* loop.                                                                   *)
(*                                                                         *)
(* One action is the code between two awaits that suspend.  The lock of    *)
(* the pool is held across such awaits while a process is being stopped,   *)
(* so it is a queue of waiters here.  A session is named by the turn that  *)
(* created it, and the id its CLI reports by the turn as well.             *)
(***************************************************************************)
EXTENDS Naturals, Sequences

CONSTANTS
    Turns,      \* turns of the conversations
    Keys,       \* session ids known from earlier conversations, and new ones
    All,        \* stop_all, as a user of the lock
    None,
    MaxStops    \* bound: cancellations by /stop

ASSUME CliPoolAssumption ==
    /\ Turns \cap Keys = {}
    /\ All \notin Turns /\ None \notin Turns \cup Keys
    /\ MaxStops \in Nat

Ids == Turns \cup Keys

VARIABLES
    key,        \* the id a turn asks with: its parent's session, or a new one
    phase,      \* where process_node is with respect to the pool
    due,        \* Task.cancel() was called, CancelledError is not delivered yet
    used,       \* the session of a turn
    temp, capt, \* temp_session_id and captured_session_id of a turn
    extracted,  \* ManagedClaudeParseState.session_id_extracted
    sessions, pending, toReal, toTemp,   \* the maps of the pool
    line,       \* the holder of the pool's lock and those who wait for it
    proc,       \* process of a session: "none", "live", "termed", "dead"
    user,       \* the turn that holds the _cli_lock of a session
    pids,       \* sessions whose pid is in the process registry
    sweep,      \* stop_all: "idle", "asking", "sweeping"
    todo,       \* sessions it has still to stop
    cur,        \* the session whose end the holder of the lock awaits
    server,     \* "up", "stopping", "draining", "closing", "down", "restarted"
    stops,      \* number of /stop commands so far
    targets,    \* history: turns that the last unscoped /stop cancelled
    left        \* history: sessions whose turn left start_task where it stood

turnVars == <<key, phase, due, used, temp, capt, extracted>>
poolVars == <<sessions, pending, toReal, toTemp>>
procVars == <<proc, user, pids>>
stopVars == <<sweep, todo, cur, server, stops>>
history == <<targets, left>>
vars == <<turnVars, poolVars, line, procVars, stopVars, history>>

Phases == {"none", "asking", "ready", "starting", "reading", "registering",
           "stopping", "removing", "closing", "done"}

\* A map without a key, and with one more.
Without(f, k) == [x \in DOMAIN f \ {k} |-> f[x]]
With(f, k, v) == [x \in DOMAIN f \cup {k} |-> IF x = k THEN v ELSE f[x]]
Values(f) == {f[x] : x \in DOMAIN f}

TypeOK ==
    /\ key \in [Turns -> Ids]
    /\ phase \in [Turns -> Phases]
    /\ due \in [Turns -> BOOLEAN] /\ extracted \in [Turns -> BOOLEAN]
    /\ used \in [Turns -> Turns \cup {None}]
    /\ temp \in [Turns -> Ids \cup {None}] /\ capt \in [Turns -> Ids \cup {None}]
    /\ Values(sessions) \cup Values(pending) \cup Values(toReal) \subseteq Turns
    /\ line \in Seq(Turns \cup {All})
    /\ proc \in [Turns -> {"none", "live", "termed", "dead"}]
    /\ user \in [Turns -> Turns \cup {None}]
    /\ pids \subseteq Turns /\ todo \subseteq Turns /\ targets \subseteq Turns /\ left \subseteq Turns
    /\ cur \in Turns \cup {None}
    /\ sweep \in {"idle", "asking", "sweeping"}
    /\ server \in {"up", "stopping", "draining", "closing", "down", "restarted"}
    /\ stops \in 0..MaxStops

\* A turn that replies to another one asks with the id of that one's session.
Init ==
    /\ key \in {k \in [Turns -> Ids] :
                   \A t \in Turns : k[t] \in Turns => k[k[t]] \in Keys}
    /\ phase = [t \in Turns |-> "none"]
    /\ due = [t \in Turns |-> FALSE] /\ extracted = [t \in Turns |-> FALSE]
    /\ used = [t \in Turns |-> None]
    /\ temp = [t \in Turns |-> None] /\ capt = [t \in Turns |-> None]
    /\ sessions = <<>> /\ pending = <<>> /\ toReal = <<>> /\ toTemp = <<>>
    /\ line = <<>>
    /\ proc = [t \in Turns |-> "none"]
    /\ user = [t \in Turns |-> None]
    /\ pids = {}
    /\ sweep = "idle" /\ todo = {} /\ cur = None /\ targets = {} /\ left = {}
    /\ server = "up" /\ stops = 0

Root(t) == IF key[t] \in Turns THEN key[key[t]] ELSE key[t]
Active(t) == phase[t] \notin {"none", "done"}

-----------------------------------------------------------------------------
(***************************************************************************)
(* The lock of the pool is fair: it goes to those who wait, in order.      *)
(***************************************************************************)

InLine == {line[i] : i \in DOMAIN line}
HasLock(u) == IF line = <<>> THEN TRUE ELSE Head(line) = u

\* Defect: one that is cancelled keeps its place.
ReleasedDefect(u) == IF line # <<>> /\ Head(line) = u THEN Tail(line) ELSE line

\* The lock is released, and u, if it waited, no longer waits.
Released(u) ==
    LET i == CHOOSE j \in DOMAIN line : line[j] = u
    IN IF u \in InLine THEN SubSeq(line, 1, i - 1) \o SubSeq(line, i + 1, Len(line)) ELSE line

Held(u) == IF line = <<>> THEN <<u>> ELSE line

Wants(u) ==
    IF u = All THEN sweep = "asking" ELSE phase[u] \in {"asking", "registering", "removing"}

Wait(u) ==
    /\ Wants(u) /\ line # <<>> /\ u \notin InLine
    /\ line' = Append(line, u)
    /\ UNCHANGED <<turnVars, poolVars, procVars, stopVars, history>>

-----------------------------------------------------------------------------
(***************************************************************************)
(* A turn.                                                                 *)
(***************************************************************************)

\* A tree runs one turn at a time, but a cancelled one may still unwind when the
\* next one starts (cancel_tree frees the tree at once).  At shutdown queued turns
\* still start.
Arrive(t) ==
    /\ server \in {"up", "stopping"} /\ phase[t] = "none"
    /\ key[t] \in Turns => capt[key[t]] = key[t]
    /\ \A u \in Turns : Active(u) /\ Root(u) = Root(t) => u \in targets
    /\ phase' = [phase EXCEPT ![t] = "asking"]
    /\ UNCHANGED <<key, due, used, temp, capt, extracted, poolVars, line, procVars, stopVars, history>>

\* get_or_create_session.
Pool == Values(sessions) \cup Values(pending)

Looked(t) == IF key[t] \in DOMAIN toReal THEN toReal[key[t]] ELSE key[t]

Found(t) == Looked(t) \in DOMAIN sessions \cup DOMAIN pending

Reuse(t) ==
    /\ Found(t)
    /\ used' = [used EXCEPT ![t] = IF Looked(t) \in DOMAIN sessions
                                   THEN sessions[Looked(t)] ELSE pending[Looked(t)]]
    /\ capt' = [capt EXCEPT ![t] = Looked(t)]
    /\ UNCHANGED <<pending, temp>>

Create(t) ==
    /\ ~Found(t)
    /\ used' = [used EXCEPT ![t] = t]
    /\ temp' = [temp EXCEPT ![t] = key[t]]
    /\ pending' = With(pending, key[t], t)
    /\ UNCHANGED capt

GetSession(t) ==
    /\ phase[t] = "asking" /\ ~due[t] /\ HasLock(t)
    /\ Reuse(t) \/ Create(t)
    /\ phase' = [phase EXCEPT ![t] = "ready"]
    /\ line' = Released(t)
    /\ UNCHANGED <<key, due, extracted, sessions, toReal, toTemp, procVars, stopVars, history>>

\* start_task gets the _cli_lock of its session.
StartTask(t) ==
    /\ phase[t] = "ready" /\ ~due[t] /\ user[used[t]] = None
    /\ user' = [user EXCEPT ![used[t]] = t]
    /\ phase' = [phase EXCEPT ![t] = "starting"]
    /\ UNCHANGED <<key, due, used, temp, capt, extracted, poolVars, line, proc, pids, stopVars, history>>

Spawned(t) ==
    /\ phase[t] = "starting" /\ ~due[t]
    /\ proc' = [proc EXCEPT ![used[t]] = "live"]
    /\ pids' = pids \cup {used[t]}
    /\ phase' = [phase EXCEPT ![t] = "reading"]
    /\ UNCHANGED <<key, due, used, temp, capt, extracted, poolVars, line, user, stopVars, history>>

SpawnFails(t) ==
    /\ phase[t] = "starting" /\ ~due[t]
    /\ user' = [user EXCEPT ![used[t]] = None]
    /\ phase' = [phase EXCEPT ![t] = "removing"]
    /\ UNCHANGED <<key, due, used, temp, capt, extracted, poolVars, line, proc, pids, stopVars, history>>

\* The first line with a session id.  A turn that found a session ignores it.
SessionInfo(t) ==
    /\ phase[t] = "reading" /\ ~due[t] /\ ~extracted[t] /\ proc[used[t]] \in {"live", "termed"}
    /\ extracted' = [extracted EXCEPT ![t] = TRUE]
    /\ phase' = [phase EXCEPT ![t] = IF temp[t] = None THEN "reading" ELSE "registering"]
    /\ UNCHANGED <<key, due, used, temp, capt, poolVars, line, procVars, stopVars, history>>

\* register_real_session_id; the turn takes the new id also if it failed.
Register(t) ==
    /\ phase[t] = "registering" /\ HasLock(t)
    /\ due[t] => t \notin InLine
    /\ IF temp[t] \in DOMAIN pending
       THEN /\ sessions' = With(sessions, t, pending[temp[t]])
            /\ pending' = Without(pending, temp[t])
            /\ toReal' = With(toReal, temp[t], t)
            /\ toTemp' = With(toTemp, t, temp[t])
       ELSE UNCHANGED poolVars
    /\ capt' = [capt EXCEPT ![t] = t]
    /\ temp' = [temp EXCEPT ![t] = None]
    /\ phase' = [phase EXCEPT ![t] = "reading"]
    /\ line' = Released(t)
    /\ UNCHANGED <<key, due, used, extracted, procVars, stopVars, history>>

\* The process has ended and its output is read.
TaskEnds(t) ==
    /\ phase[t] \in {"reading", "stopping"} /\ proc[used[t]] = "dead"
    /\ phase[t] = "reading" => ~due[t]
    /\ user' = [user EXCEPT ![used[t]] = None]
    /\ pids' = pids \ {used[t]}
    /\ phase' = [phase EXCEPT ![t] = "removing"]
    /\ UNCHANGED <<key, due, used, temp, capt, extracted, poolVars, line, proc, stopVars, history>>

\* Handling an event raises: start_task is left where it stands.
EventFails(t) ==
    /\ phase[t] = "reading" /\ ~due[t]
    /\ phase' = [phase EXCEPT ![t] = "removing"]
    /\ left' = left \cup {used[t]}
    /\ UNCHANGED <<key, due, used, temp, capt, extracted, poolVars, line, procVars, stopVars, targets>>

\* An abandoned start_task is closed when its turn is over: it waits for the end of
\* the error output, or for the end of the event loop, which cancels that reader.
Abandoned(t) ==
    /\ phase[t] = "done" /\ used[t] # None /\ user[used[t]] = t
    /\ proc[used[t]] = "dead" \/ server = "closing"
    /\ user' = [user EXCEPT ![used[t]] = None]
    /\ pids' = pids \ {used[t]}
    /\ UNCHANGED <<turnVars, poolVars, line, proc, stopVars, history>>

\* Session.stop sends SIGTERM and waits, at most five seconds, before SIGKILL.
Terminated(s) == IF proc[s] = "live" THEN [proc EXCEPT ![s] = "termed"] ELSE proc
Lives(s) == proc[s] \in {"live", "termed"}

\* remove_session.
Id(t) == IF capt[t] # None THEN capt[t] ELSE temp[t]

Forget(id) ==
    /\ toTemp' = Without(toTemp, id)
    /\ toReal' = IF id \in DOMAIN toTemp THEN Without(toReal, toTemp[id]) ELSE toReal

RemoveSession(t) ==
    /\ phase[t] = "removing" /\ ~due[t] /\ HasLock(t)
    /\ LET id == Id(t)
           new == id \in DOMAIN pending
           s == IF new THEN pending[id] ELSE sessions[id]
       IN IF id \notin DOMAIN pending \cup DOMAIN sessions
          THEN /\ phase' = [phase EXCEPT ![t] = "done"]
               /\ line' = Released(t)
               /\ UNCHANGED <<poolVars, proc, cur>>
          ELSE /\ pending' = Without(pending, id)
               /\ sessions' = IF new THEN sessions ELSE Without(sessions, id)
               /\ proc' = Terminated(s)
               /\ phase' = [phase EXCEPT ![t] = IF Lives(s) THEN "closing" ELSE "done"]
               /\ line' = IF Lives(s) THEN Held(t) ELSE Released(t)
               /\ cur' = IF Lives(s) THEN s ELSE None
               /\ IF new \/ Lives(s) THEN UNCHANGED <<toReal, toTemp>> ELSE Forget(id)
    /\ UNCHANGED <<key, due, used, temp, capt, extracted, user, pids,
                   sweep, todo, server, stops, history>>

\* The process that remove_session stops is dead.
Removed(t) ==
    /\ phase[t] = "closing" /\ ~due[t] /\ proc[cur] = "dead"
    /\ phase' = [phase EXCEPT ![t] = "done"]
    /\ line' = Released(t)
    /\ cur' = None
    /\ pids' = pids \ {cur}
    /\ IF capt[t] = None THEN UNCHANGED <<toReal, toTemp>> ELSE Forget(capt[t])
    /\ UNCHANGED <<key, due, used, temp, capt, extracted, sessions, pending, proc, user,
                   sweep, todo, server, stops, history>>

\* CancelledError is delivered.  Only a turn that reads output stops its process
\* itself; one that waits for the lock in remove_session does not remove.
AfterCancel(t) ==
    CASE phase[t] \in {"asking", "closing", "done"} -> "done"
      [] phase[t] = "removing" -> IF t \in InLine THEN "done" ELSE "removing"
      [] phase[t] \in {"ready", "starting", "registering"} -> "removing"
      [] phase[t] \in {"reading", "stopping"} -> "stopping"

\* Defect: a turn that reads output closes start_task without stopping the process.
CancelledDefect(t) ==
    /\ due[t] /\ phase[t] \in {"reading", "stopping", "done"}
    /\ due' = [due EXCEPT ![t] = FALSE]
    /\ phase' = [phase EXCEPT ![t] = IF @ = "done" THEN "done" ELSE "removing"]
    /\ user' = [user EXCEPT ![used[t]] = None]
    /\ pids' = pids \ {used[t]}
    /\ UNCHANGED <<key, used, temp, capt, extracted, poolVars, line, proc, stopVars, history>>

Cancelled(t) ==
    /\ due[t]
    /\ phase[t] = "registering" => t \in InLine
    /\ due' = [due EXCEPT ![t] = FALSE]
    /\ phase' = [phase EXCEPT ![t] = AfterCancel(t)]
    /\ user' = IF phase[t] = "starting" THEN [user EXCEPT ![used[t]] = None] ELSE user
    /\ proc' = IF phase[t] = "reading" THEN Terminated(used[t]) ELSE proc
    /\ line' = Released(t)
    /\ cur' = IF phase[t] = "closing" THEN None ELSE cur
    /\ left' = IF phase[t] = "registering" THEN left \cup {used[t]} ELSE left
    /\ UNCHANGED <<key, used, temp, capt, extracted, poolVars, pids,
                   sweep, todo, server, stops, targets>>

-----------------------------------------------------------------------------
(***************************************************************************)
(* The processes.                                                          *)
(***************************************************************************)

ProcessEnds(s) ==
    /\ Lives(s)
    /\ proc' = [proc EXCEPT ![s] = "dead"]
    /\ UNCHANGED <<turnVars, poolVars, line, user, pids, stopVars, history>>

-----------------------------------------------------------------------------
(***************************************************************************)
(* Stopping.                                                               *)
(***************************************************************************)

CancelAll == due' = [t \in Turns |-> due[t] \/ Active(t)]

\* A /stop in reply to a message: cancel_node.
StopOne(t) ==
    /\ server = "up" /\ stops < MaxStops /\ Active(t)
    /\ stops' = stops + 1
    /\ due' = [due EXCEPT ![t] = TRUE]
    /\ UNCHANGED <<key, phase, used, temp, capt, extracted, poolVars, line, procVars,
                   sweep, todo, cur, server, history>>

\* stop_all_tasks cancels every turn and then stops all sessions.
StopAll ==
    /\ server = "up" /\ stops < MaxStops /\ sweep = "idle"
    /\ stops' = stops + 1
    /\ CancelAll
    /\ targets' = {t \in Turns : Active(t)}
    /\ sweep' = "asking"
    /\ UNCHANGED <<key, phase, used, temp, capt, extracted, poolVars, line, procVars,
                   todo, cur, server, left>>

\* Defect: sessions without a real id are not stopped.
SweepDefect ==
    /\ sweep = "asking" /\ HasLock(All)
    /\ sweep' = "sweeping"
    /\ todo' = Values(sessions)
    /\ line' = Held(All)
    /\ UNCHANGED <<turnVars, poolVars, procVars, cur, server, stops, history>>

\* Manager.stop_all: a list of the sessions, which are stopped one by one.
SweepBegins ==
    /\ sweep = "asking" /\ HasLock(All)
    /\ sweep' = "sweeping"
    /\ todo' = Pool
    /\ line' = Held(All)
    /\ UNCHANGED <<turnVars, poolVars, procVars, cur, server, stops, history>>

SweepNext(s) ==
    /\ sweep = "sweeping" /\ cur = None /\ s \in todo
    /\ todo' = todo \ {s}
    /\ proc' = Terminated(s)
    /\ cur' = IF Lives(s) THEN s ELSE None
    /\ UNCHANGED <<turnVars, poolVars, line, user, pids, sweep, server, stops, history>>

SweepStopped ==
    /\ sweep = "sweeping" /\ cur # None /\ proc[cur] = "dead"
    /\ cur' = None
    /\ pids' = pids \ {cur}
    /\ UNCHANGED <<turnVars, poolVars, line, proc, user, sweep, todo, server, stops, history>>

SweepEnds ==
    /\ sweep = "sweeping" /\ cur = None /\ todo = {}
    /\ sessions' = <<>> /\ pending' = <<>> /\ toReal' = <<>> /\ toTemp' = <<>>
    /\ sweep' = "idle"
    /\ line' = Released(All)
    /\ server' = IF server = "stopping" THEN "draining" ELSE server
    /\ UNCHANGED <<turnVars, procVars, todo, cur, stops, history>>

\* AppRuntime.shutdown; it cancels no turn.
Shutdown ==
    /\ server = "up" /\ sweep = "idle"
    /\ server' = "stopping" /\ sweep' = "asking"
    /\ UNCHANGED <<turnVars, poolVars, line, procVars, todo, cur, stops, history>>

\* best_effort gives a step of the shutdown five seconds.
SweepTimesOut ==
    /\ server = "stopping"
    /\ sweep = "asking" \/ cur # None
    /\ server' = "draining" /\ sweep' = "idle"
    /\ todo' = {} /\ cur' = IF sweep = "sweeping" THEN None ELSE cur
    /\ line' = Released(All)
    /\ UNCHANGED <<turnVars, poolVars, procVars, stops, history>>

\* The event loop ends: all its tasks are cancelled and awaited.
LoopEnds ==
    /\ server = "draining"
    /\ server' = "closing"
    /\ CancelAll
    /\ UNCHANGED <<key, phase, used, temp, capt, extracted, poolVars, line, procVars,
                   sweep, todo, cur, stops, history>>

KillAll == [s \in Turns |-> IF s \in pids /\ proc[s] = "live" THEN "termed" ELSE proc[s]]

\* serve: a restart goes on in the same process, otherwise kill_all_best_effort
\* sends SIGTERM to the processes in the registry.
ServerExits(restart) ==
    /\ server = "closing" /\ \A t \in Turns : ~Active(t)
    /\ \A t \in Turns : used[t] # None => user[used[t]] # t
    /\ server' = IF restart THEN "restarted" ELSE "down"
    /\ proc' = IF restart THEN proc ELSE KillAll
    /\ pids' = IF restart THEN pids ELSE {}
    /\ UNCHANGED <<turnVars, poolVars, line, user, sweep, todo, cur, stops, history>>

-----------------------------------------------------------------------------
TurnStep(t) ==
    \/ Wait(t) \/ GetSession(t) \/ StartTask(t) \/ Spawned(t) \/ SpawnFails(t)
    \/ Register(t) \/ TaskEnds(t) \/ Abandoned(t) \/ RemoveSession(t) \/ Removed(t)
    \/ Cancelled(t)

Sweep ==
    \/ Wait(All) \/ SweepBegins \/ SweepStopped \/ SweepEnds
    \/ \E s \in Turns : SweepNext(s)

ServerStep ==
    \/ SweepTimesOut \/ LoopEnds
    \/ \E restart \in BOOLEAN : ServerExits(restart)

Next ==
    \/ \E t \in Turns : TurnStep(t) \/ Arrive(t) \/ SessionInfo(t) \/ EventFails(t) \/ StopOne(t)
    \/ \E s \in Turns : ProcessEnds(s)
    \/ StopAll \/ Sweep \/ Shutdown \/ ServerStep

Spec == Init /\ [][Next]_vars

\* The event loop runs what is ready, and processes end.
Fairness ==
    /\ \A t \in Turns : WF_vars(TurnStep(t)) /\ WF_vars(ProcessEnds(t))
    /\ WF_vars(Sweep) /\ WF_vars(ServerStep)

-----------------------------------------------------------------------------
(***************************************************************************)
(* Properties                                                              *)
(***************************************************************************)

\* When the server has exited no Claude process runs, except one whose turn left
\* start_task where it stood: however the shutdown, its time limit, turns that
\* start or end meanwhile and the end of the loop interleave, cancelling a turn that
\* reads output (session.py:181) and kill_all_best_effort reach the others.
NoProcessLeft == server = "down" => \A s \in Turns : proc[s] = "live" => s \in left

\* When an unscoped /stop has gone through the pool, no turn that it cancelled still
\* holds a running process, whether its session was pending, registered or just
\* handed out when stop_all looked.  A later /stop may miss one, but only a session
\* that the pool had lost before (stop_all clears its maps, and a late
\* remove_session takes a newer session of the same id), and then the CancelledError
\* of its turn, which stops it, is still to come, or the turn left start_task.
Runs(t) == used[t] # None /\ user[used[t]] = t /\ proc[used[t]] = "live"

StopReaches ==
    [][sweep = "sweeping" /\ sweep' = "idle" /\ server = "up" =>
        \A t \in targets : Runs(t) =>
            stops > 1 /\ used[t] \notin Pool /\ (due[t] \/ used[t] \in left)]_vars

\* A turn that asks for a session is over some day: the lock of the pool, the lock of
\* a session and the wait for a process never hold it for ever.
EveryTurnEnds == \A t \in Turns : phase[t] = "asking" ~> phase[t] = "done"
=============================================================================
