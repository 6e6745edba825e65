----------------------------- MODULE LocalProofs ------------------------------
(***************************************************************************)
(* Proofs about the two parts that start programs on the user's machine.   *)
(*                                                                         *)
(* The pool of managed Claude Code sessions: its types, that no process    *)
(* outlives the server, and what an unscoped /stop reaches.                *)
(*                                                                         *)
(* The threads of the desktop assistant: what they guarantee for any       *)
(* messages, any number of turns and of acts, and however often the        *)
(* process ends.                                                           *)
(***************************************************************************)
EXTENDS CliPool, Desktop, SequenceTheorems, TLAPS

-----------------------------------------------------------------------------
(***************************************************************************)
(* The invariants.                                                         *)
(***************************************************************************)

Busy == {"starting", "reading", "registering", "stopping"}
Over == {"removing", "closing", "done"}

\* Only a turn that has started can be cancelled, and one that uses a session has one.
TypeInv ==
    /\ TypeOK
    /\ \A t \in Turns : due[t] => phase[t] # "none"
    /\ \A t \in Turns : phase[t] \in Busy \cup {"ready"} => used[t] \in Turns

\* Who runs inside start_task holds the lock of its session; who holds it otherwise
\* left start_task where it stood.
HoldInv ==
    /\ \A t \in Turns : phase[t] \in Busy => user[used[t]] = t
    /\ \A s, t \in Turns : user[s] = t =>
          used[t] = s /\ (phase[t] \in Busy \/ (s \in left /\ phase[t] \in Over))

\* The process registry knows every running process that it may have to kill.
PidInv ==
    /\ \A s \in Turns : proc[s] = "live" => s \in pids \cup left
    /\ server \in {"down", "restarted"} => \A t \in Turns : ~Active(t)
    /\ server = "down" => pids = {}

\* The lock of the pool is with the sweep, or the turn, that awaits a process.
LockInv ==
    /\ sweep = "sweeping" => line # <<>> /\ Head(line) = All
    /\ \A t \in Turns : phase[t] = "closing" => line # <<>> /\ Head(line) = t

\* A session is named by a turn that has been given it; a turn registers once.
NameInv ==
    /\ \A s \in Turns : phase[s] \in {"none", "asking"} =>
          s \notin Pool /\ \A t \in Turns : used[t] # s
    /\ \A t \in Turns : phase[t] = "registering" => extracted[t]
    /\ \A id \in DOMAIN sessions : id \in Turns /\ extracted[id] /\ phase[id] # "registering"

\* A turn that an unscoped /stop cancelled, until the next one.
Stopped(t) == due[t] \/ phase[t] \in {"stopping"} \cup Over

TargetInv ==
    /\ \A t \in targets : Stopped(t)
    /\ \A t \in Turns : phase[t] = "stopping" => proc[used[t]] # "live"

\* stop_all will get to every session of the pool that runs for such a turn.
TodoInv ==
    sweep = "sweeping" => \A t \in targets : Runs(t) /\ used[t] \in Pool => used[t] \in todo

\* Before the first /stop there is one turn of a conversation at a time, and the pool
\* has its session, under the id that the turn knows, from GetSession to RemoveSession.
InPool == {"ready", "starting", "reading", "registering", "removing"}

Known(t) ==
    \/ capt[t] = None /\ temp[t] = key[t] /\ key[t] \in DOMAIN pending /\ pending[key[t]] = t
    \/ capt[t] = t /\ temp[t] = None /\ t \in DOMAIN sessions /\ sessions[t] = t

KeyInv == \A t \in Turns : key[t] \in Turns => key[key[t]] \in Keys

FirstTurns ==
    /\ \A t, u \in Turns : Active(t) /\ Active(u) /\ Root(t) = Root(u) => t = u
    /\ \A t \in Turns :
          /\ ~due[t] /\ phase[t] # "stopping"
          /\ phase[t] \in InPool => used[t] = t /\ Known(t)
          /\ phase[t] \in {"none", "asking", "registering"} => capt[t] = None
          /\ phase[t] = "closing" => used[t] = t /\ proc[t] # "live" /\ capt[t] \in {t, None}

FirstMaps ==
    /\ \A id \in DOMAIN pending :
          \E t \in Turns : phase[t] \in InPool /\ capt[t] = None /\ key[t] = id
    /\ \A id \in DOMAIN sessions : phase[id] \in InPool /\ capt[id] = id
    /\ \A id \in DOMAIN toReal :
          LET t == toReal[id]
          IN /\ key[t] = id /\ capt[t] = t
             /\ phase[t] \in InPool \cup {"closing"}
             /\ t \in DOMAIN toTemp /\ toTemp[t] = id
    /\ \A t \in DOMAIN toTemp : toTemp[t] \in DOMAIN toReal /\ toReal[toTemp[t]] = t

FirstInv == targets = {} /\ sweep = "idle" /\ FirstTurns /\ FirstMaps

\* Until the first unscoped /stop has gone through the pool, the sessions of the turns
\* that it cancelled are in the pool, or are still to be stopped.
ReachInv ==
    /\ sweep = "asking" => \A t \in targets : Runs(t) => used[t] \in Pool
    /\ sweep = "asking" => \A t \in targets : \A id \in DOMAIN pending :
          Runs(t) /\ pending[id] = used[t] => id \notin DOMAIN toReal
    /\ sweep = "sweeping" => \A t \in targets : Runs(t) => used[t] \in todo

StopInv ==
    /\ KeyInv /\ NameInv /\ TargetInv /\ TodoInv
    /\ server = "up" /\ stops = 0 => FirstInv
    /\ server = "up" /\ stops = 1 => ReachInv

-----------------------------------------------------------------------------
(***************************************************************************)
(* The line of those who wait for the lock of the pool.                    *)
(***************************************************************************)

Users == Turns \cup {All}

\* Who joins the line, or becomes the holder of a free lock, goes to its end.
LEMMA Joined ==
    ASSUME line \in Seq(Users), NEW u \in Users
    PROVE  /\ Append(line, u) \in Seq(Users)
           /\ Held(u) \in Seq(Users) /\ Held(u) # <<>>
           /\ line = <<>> => Head(Held(u)) = u
           /\ line # <<>> => /\ Append(line, u) # <<>>
                             /\ Head(Append(line, u)) = Head(line)
                             /\ Head(Held(u)) = Head(line)
<1>1. CASE line = <<>>
  BY <1>1 DEF Held
<1>2. CASE line # <<>>
  BY <1>2 DEF Held
<1> QED
  BY <1>1, <1>2

\* Leaving the line keeps the others in it, in order: the holder of the lock, if it
\* is another one, still holds it.
LEMMA ReleasedLine ==
    ASSUME line \in Seq(Users), NEW u \in Users
    PROVE  /\ Released(u) \in Seq(Users)
           /\ line # <<>> /\ Head(line) # u =>
                  Released(u) # <<>> /\ Head(Released(u)) = Head(line)
<1> DEFINE i == CHOOSE j \in DOMAIN line : line[j] = u
<1> DEFINE n == Len(line)
<1>1. CASE u \notin InLine
  BY <1>1 DEF Released
<1>2. CASE u \in InLine
  <2>1. i \in 1 .. n /\ line[i] = u /\ n \in Nat
    BY <1>2 DEF InLine
  <2>2. Released(u) = SubSeq(line, 1, i - 1) \o SubSeq(line, i + 1, n)
    BY <1>2 DEF Released
  <2> HIDE DEF i, n
  <2> DEFINE a == SubSeq(line, 1, i - 1)
  <2> DEFINE b == SubSeq(line, i + 1, n)
  <2>3. a \in Seq(Users) /\ b \in Seq(Users)
    <3>1. \A j \in 1 .. i - 1 : line[j] \in Users
      BY <2>1 DEF n
    <3>2. \A j \in i + 1 .. n : line[j] \in Users
      BY <2>1 DEF n
    <3>3. 1 \in Int /\ i - 1 \in Int /\ i + 1 \in Int /\ n \in Int
      BY <2>1
    <3> QED
      BY <3>1, <3>2, <3>3, SubSeqProperties
  <2>4. Len(a) = i - 1
    BY <2>1 DEF n
  <2>5. i > 1 => a[1] = line[1]
    BY <2>1 DEF n
  <2>0. Released(u) = a \o b
    BY <2>2
  <2> HIDE DEF a, b
  <2>6. i = 1 => Head(line) = u
    BY <2>1 DEF n
  <2>7. i > 1 => (a \o b) # <<>> /\ Head(a \o b) = line[1]
    <3>1. SUFFICES ASSUME i > 1 PROVE (a \o b) # <<>> /\ Head(a \o b) = line[1]
      OBVIOUS
    <3>2. Len(a \o b) > 0 /\ (a \o b)[1] = a[1] /\ (a \o b) \in Seq(Users)
      BY <2>1, <2>3, <2>4, <3>1
    <3> DEFINE c == a \o b
    <3>3. c \in Seq(Users) /\ Len(c) > 0 /\ c[1] = line[1]
      BY <2>5, <3>1, <3>2
    <3> HIDE DEF c
    <3>4. c # <<>> /\ Head(c) = line[1]
      BY <3>3
    <3> QED
      BY <3>4 DEF c
  <2>8. a \o b \in Seq(Users)
    BY <2>3
  <2>9. line # <<>> => Head(line) = line[1]
    OBVIOUS
  <2> QED
    BY <2>1, <2>6, <2>7, <2>8, <2>9, <2>0
<1> QED
  BY <1>1, <1>2

-----------------------------------------------------------------------------
(***************************************************************************)
(* Types.                                                                  *)
(***************************************************************************)

\* A map with one key more or less has the same values, but for the new one.
LEMMA Maps ==
    ASSUME NEW f, NEW k, NEW v
    PROVE  /\ Values(With(f, k, v)) \subseteq Values(f) \cup {v}
           /\ Values(Without(f, k)) \subseteq Values(f)
BY DEF Values, With, Without

\* Every step keeps the types.
LEMMA TypeStep ==
    ASSUME TypeInv, [Next]_vars
    PROVE  TypeInv'
<1>1. ASSUME NEW t \in Turns, Wait(t) PROVE TypeInv'
  BY <1>1, CliPoolAssumption, Joined DEF Wait, TypeInv, TypeOK, Phases, Ids, Users, Busy, vars, turnVars, poolVars, procVars, stopVars, history
<1>2. ASSUME NEW t \in Turns, GetSession(t) PROVE TypeInv'
  <2>1. temp' \in [Turns -> Ids \cup {None}] /\ capt' \in [Turns -> Ids \cup {None}]
    BY <1>2 DEF GetSession, Reuse, Create, Looked, Values, TypeInv, TypeOK, Ids
  <2>2. Values(sessions') \cup Values(pending') \cup Values(toReal') \subseteq Turns
    BY <1>2, Maps DEF GetSession, Reuse, Create, TypeInv, TypeOK
  <2>3. used' \in [Turns -> Turns \cup {None}] /\ used'[t] \in Turns
    BY <1>2 DEF GetSession, Reuse, Create, Found, Values, TypeInv, TypeOK
  <2>4. line' \in Seq(Users)
    BY <1>2, ReleasedLine DEF GetSession, TypeInv, TypeOK, Users
  <2>5. \A u \in Turns : u # t => phase'[u] = phase[u] /\ used'[u] = used[u]
    BY <1>2 DEF GetSession, Reuse, Create, TypeInv, TypeOK
  <2> QED
    BY <1>2, <2>1, <2>2, <2>3, <2>4, <2>5
    DEF GetSession, TypeInv, TypeOK, Phases, Users, Busy, vars, turnVars, poolVars, procVars, stopVars, history
<1>3. ASSUME NEW t \in Turns, StartTask(t) PROVE TypeInv'
  BY <1>3, CliPoolAssumption DEF StartTask, TypeInv, TypeOK, Phases, Ids, Users, Busy, vars, turnVars, poolVars, procVars, stopVars, history
<1>4. ASSUME NEW t \in Turns, Spawned(t) PROVE TypeInv'
  BY <1>4, CliPoolAssumption DEF Spawned, TypeInv, TypeOK, Phases, Ids, Users, Busy, vars, turnVars, poolVars, procVars, stopVars, history
<1>5. ASSUME NEW t \in Turns, SpawnFails(t) PROVE TypeInv'
  BY <1>5, CliPoolAssumption DEF SpawnFails, TypeInv, TypeOK, Phases, Ids, Users, Busy, vars, turnVars, poolVars, procVars, stopVars, history
<1>6. ASSUME NEW t \in Turns, Register(t) PROVE TypeInv'
  <2>1. /\ \/ temp[t] \in DOMAIN pending /\ sessions' = With(sessions, t, pending[temp[t]])
           \/ sessions' = sessions
        /\ pending' = Without(pending, temp[t]) \/ pending' = pending
        /\ toReal' = With(toReal, temp[t], t) \/ toReal' = toReal
    BY <1>6 DEF Register, poolVars
  <2>2. Values(sessions') \cup Values(pending') \cup Values(toReal') \subseteq Turns
    <3>0. temp[t] \in DOMAIN pending => pending[temp[t]] \in Turns
      BY DEF TypeInv, TypeOK, Values
    <3>1. Values(sessions') \subseteq Turns
      BY <2>1, <3>0, Maps DEF TypeInv, TypeOK
    <3>2. Values(pending') \subseteq Turns
      BY <2>1, Maps DEF TypeInv, TypeOK
    <3>3. Values(toReal') \subseteq Turns
      BY <2>1, Maps DEF TypeInv, TypeOK
    <3> QED
      BY <3>1, <3>2, <3>3
  <2>3. line' \in Seq(Users)
    BY <1>6, ReleasedLine DEF Register, TypeInv, TypeOK, Users
  <2> QED
    BY <1>6, <2>2, <2>3 DEF Register, TypeInv, TypeOK, Phases, Ids, Users, Busy, vars, turnVars, poolVars, procVars, stopVars, history
<1>7. ASSUME NEW t \in Turns, TaskEnds(t) PROVE TypeInv'
  BY <1>7, CliPoolAssumption DEF TaskEnds, TypeInv, TypeOK, Phases, Ids, Users, Busy, vars, turnVars, poolVars, procVars, stopVars, history
<1>8. ASSUME NEW t \in Turns, Abandoned(t) PROVE TypeInv'
  BY <1>8, CliPoolAssumption DEF Abandoned, TypeInv, TypeOK, Phases, Ids, Users, Busy, vars, turnVars, poolVars, procVars, stopVars, history
<1>9. ASSUME NEW t \in Turns, RemoveSession(t) PROVE TypeInv'
  <2>1. /\ sessions' = Without(sessions, Id(t)) \/ sessions' = sessions
        /\ pending' = Without(pending, Id(t)) \/ pending' = pending
        /\ toReal' = toReal \/ toReal' = Without(toReal, toTemp[Id(t)])
    BY <1>9 DEF RemoveSession, Forget, poolVars
  <2>2. Values(sessions') \cup Values(pending') \cup Values(toReal') \subseteq Turns
    <3>1. Values(sessions') \subseteq Turns
      BY <2>1, Maps DEF TypeInv, TypeOK
    <3>2. Values(pending') \subseteq Turns
      BY <2>1, Maps DEF TypeInv, TypeOK
    <3>3. Values(toReal') \subseteq Turns
      BY <2>1, Maps DEF TypeInv, TypeOK
    <3> QED
      BY <3>1, <3>2, <3>3
  <2>3. line' \in Seq(Users)
    BY <1>9, ReleasedLine, Joined DEF RemoveSession, TypeInv, TypeOK, Users
  <2>4. cur' \in Turns \cup {None}
    BY <1>9 DEF RemoveSession, TypeInv, TypeOK, Values
  <2>5. proc' \in [Turns -> {"none", "live", "termed", "dead"}]
    BY <1>9 DEF RemoveSession, Terminated, TypeInv, TypeOK
  <2>6. phase' \in [Turns -> Phases] /\ \A u \in Turns : u # t => phase'[u] = phase[u]
    BY <1>9 DEF RemoveSession, TypeInv, TypeOK, Phases
  <2>7. phase'[t] \in {"closing", "done"}
    BY <1>9 DEF RemoveSession, TypeInv, TypeOK
  <2> QED
    BY <1>9, <2>2, <2>3, <2>4, <2>5, <2>6, <2>7
    DEF RemoveSession, TypeInv, TypeOK, Users, Busy, vars, turnVars, poolVars, procVars, stopVars, history
<1>10. ASSUME NEW t \in Turns, Removed(t) PROVE TypeInv'
  BY <1>10, CliPoolAssumption, ReleasedLine DEF Removed, Without, Values, Forget, TypeInv, TypeOK, Phases, Ids, Users, Busy, vars, turnVars, poolVars, procVars, stopVars, history
<1>11. ASSUME NEW t \in Turns, Cancelled(t) PROVE TypeInv'
  BY <1>11, CliPoolAssumption, ReleasedLine DEF Cancelled, AfterCancel, Terminated, TypeInv, TypeOK, Phases, Ids, Users, Busy, vars, turnVars, poolVars, procVars, stopVars, history
<1>12. ASSUME NEW t \in Turns, Arrive(t) PROVE TypeInv'
  BY <1>12, CliPoolAssumption DEF Arrive, TypeInv, TypeOK, Phases, Ids, Users, Busy, vars, turnVars, poolVars, procVars, stopVars, history
<1>13. ASSUME NEW t \in Turns, SessionInfo(t) PROVE TypeInv'
  BY <1>13, CliPoolAssumption DEF SessionInfo, TypeInv, TypeOK, Phases, Ids, Users, Busy, vars, turnVars, poolVars, procVars, stopVars, history
<1>14. ASSUME NEW t \in Turns, EventFails(t) PROVE TypeInv'
  BY <1>14, CliPoolAssumption DEF EventFails, TypeInv, TypeOK, Phases, Ids, Users, Busy, vars, turnVars, poolVars, procVars, stopVars, history
<1>15. ASSUME NEW t \in Turns, StopOne(t) PROVE TypeInv'
  BY <1>15, CliPoolAssumption DEF StopOne, Active, TypeInv, TypeOK, Phases, Ids, Users, Busy, vars, turnVars, poolVars, procVars, stopVars, history
<1>16. ASSUME NEW t \in Turns, ProcessEnds(t) PROVE TypeInv'
  BY <1>16, CliPoolAssumption DEF ProcessEnds, TypeInv, TypeOK, Phases, Ids, Users, Busy, vars, turnVars, poolVars, procVars, stopVars, history
<1>17. CASE StopAll
  BY <1>17, CliPoolAssumption DEF StopAll, CancelAll, Active, TypeInv, TypeOK, Phases, Ids, Users, Busy, vars, turnVars, poolVars, procVars, stopVars, history
<1>18. CASE Wait(All)
  BY <1>18, CliPoolAssumption, Joined DEF Wait, TypeInv, TypeOK, Phases, Ids, Users, Busy, vars, turnVars, poolVars, procVars, stopVars, history
<1>19. CASE SweepBegins
  BY <1>19, CliPoolAssumption, Joined DEF SweepBegins, Pool, TypeInv, TypeOK, Phases, Ids, Users, Busy, vars, turnVars, poolVars, procVars, stopVars, history
<1>20. CASE SweepStopped
  BY <1>20, CliPoolAssumption DEF SweepStopped, TypeInv, TypeOK, Phases, Ids, Users, Busy, vars, turnVars, poolVars, procVars, stopVars, history
<1>21. CASE SweepEnds
  BY <1>21, CliPoolAssumption, ReleasedLine DEF SweepEnds, Values, TypeInv, TypeOK, Phases, Ids, Users, Busy, vars, turnVars, poolVars, procVars, stopVars, history
<1>22. ASSUME NEW t \in Turns, SweepNext(t) PROVE TypeInv'
  BY <1>22, CliPoolAssumption DEF SweepNext, Terminated, Lives, TypeInv, TypeOK, Phases, Ids, Users, Busy, vars, turnVars, poolVars, procVars, stopVars, history
<1>23. CASE Shutdown
  BY <1>23, CliPoolAssumption DEF Shutdown, TypeInv, TypeOK, Phases, Ids, Users, Busy, vars, turnVars, poolVars, procVars, stopVars, history
<1>24. CASE SweepTimesOut
  BY <1>24, CliPoolAssumption, ReleasedLine DEF SweepTimesOut, TypeInv, TypeOK, Phases, Ids, Users, Busy, vars, turnVars, poolVars, procVars, stopVars, history
<1>25. CASE LoopEnds
  BY <1>25, CliPoolAssumption DEF LoopEnds, CancelAll, Active, TypeInv, TypeOK, Phases, Ids, Users, Busy, vars, turnVars, poolVars, procVars, stopVars, history
<1>26. ASSUME NEW r \in BOOLEAN, ServerExits(r) PROVE TypeInv'
  BY <1>26, CliPoolAssumption DEF ServerExits, KillAll, TypeInv, TypeOK, Phases, Ids, Users, Busy, vars, turnVars, poolVars, procVars, stopVars, history
<1>27. CASE UNCHANGED vars
  BY <1>27, CliPoolAssumption DEF TypeInv, TypeOK, Phases, Ids, Users, Busy, vars, turnVars, poolVars, procVars, stopVars, history
<1> QED
  BY <1>1, <1>2, <1>3, <1>4, <1>5, <1>6, <1>7, <1>8, <1>9, <1>10, <1>11,
     <1>12, <1>13, <1>14, <1>15, <1>16, <1>17, <1>18, <1>19, <1>20,
     <1>21, <1>22, <1>23, <1>24, <1>25, <1>26, <1>27
     DEF Next, TurnStep, Sweep, ServerStep

\* The types hold from the start.
LEMMA TypeInit == Init => TypeInv
BY CliPoolAssumption, EmptySeq DEF Init, TypeInv, TypeOK, Phases, Ids, Busy, Values

\* PoolTypeCorrect: the types hold in every state.
THEOREM PoolTypeCorrect == Spec => []TypeInv
<1>1. TypeInv /\ [Next]_vars => TypeInv'
  BY TypeStep
<1> QED
  BY <1>1, TypeInit, PTL DEF Spec

-----------------------------------------------------------------------------
(***************************************************************************)
(* No process outlives the server.                                         *)
(***************************************************************************)

\* Every step keeps HoldInv.
LEMMA HoldStep ==
    ASSUME TypeInv, HoldInv, [Next]_vars
    PROVE  HoldInv'
<1>1. ASSUME NEW t \in Turns, Wait(t) PROVE HoldInv'
  BY <1>1, CliPoolAssumption DEF Wait, HoldInv, Busy, Over, TypeInv, TypeOK, vars, turnVars, poolVars, procVars, stopVars, history
<1>2. ASSUME NEW t \in Turns, GetSession(t) PROVE HoldInv'
  BY <1>2, CliPoolAssumption DEF GetSession, Reuse, Create, HoldInv, Busy, Over, TypeInv, TypeOK, vars, turnVars, poolVars, procVars, stopVars, history
<1>3. ASSUME NEW t \in Turns, StartTask(t) PROVE HoldInv'
  BY <1>3, CliPoolAssumption DEF StartTask, HoldInv, Busy, Over, TypeInv, TypeOK, vars, turnVars, poolVars, procVars, stopVars, history
<1>4. ASSUME NEW t \in Turns, Spawned(t) PROVE HoldInv'
  BY <1>4, CliPoolAssumption DEF Spawned, HoldInv, Busy, Over, TypeInv, TypeOK, vars, turnVars, poolVars, procVars, stopVars, history
<1>5. ASSUME NEW t \in Turns, SpawnFails(t) PROVE HoldInv'
  BY <1>5, CliPoolAssumption DEF SpawnFails, HoldInv, Busy, Over, TypeInv, TypeOK, vars, turnVars, poolVars, procVars, stopVars, history
<1>6. ASSUME NEW t \in Turns, Register(t) PROVE HoldInv'
  BY <1>6, CliPoolAssumption DEF Register, HoldInv, Busy, Over, TypeInv, TypeOK, vars, turnVars, poolVars, procVars, stopVars, history
<1>7. ASSUME NEW t \in Turns, TaskEnds(t) PROVE HoldInv'
  BY <1>7, CliPoolAssumption DEF TaskEnds, HoldInv, Busy, Over, TypeInv, TypeOK, vars, turnVars, poolVars, procVars, stopVars, history
<1>8. ASSUME NEW t \in Turns, Abandoned(t) PROVE HoldInv'
  BY <1>8, CliPoolAssumption DEF Abandoned, HoldInv, Busy, Over, TypeInv, TypeOK, vars, turnVars, poolVars, procVars, stopVars, history
<1>9. ASSUME NEW t \in Turns, RemoveSession(t) PROVE HoldInv'
  BY <1>9, CliPoolAssumption DEF RemoveSession, HoldInv, Busy, Over, TypeInv, TypeOK, vars, turnVars, poolVars, procVars, stopVars, history
<1>10. ASSUME NEW t \in Turns, Removed(t) PROVE HoldInv'
  BY <1>10, CliPoolAssumption DEF Removed, HoldInv, Busy, Over, TypeInv, TypeOK, vars, turnVars, poolVars, procVars, stopVars, history
<1>11. ASSUME NEW t \in Turns, Cancelled(t) PROVE HoldInv'
  <2>1. /\ used' = used /\ left \subseteq left'
        /\ \A u \in Turns : u # t => phase'[u] = phase[u]
        /\ phase[t] \in Phases \ {"none"} /\ phase'[t] = AfterCancel(t)
    BY <1>11 DEF Cancelled, Phases, TypeInv, TypeOK
  <2>2. /\ phase[t] = "starting" => phase'[t] = "removing" /\ user' = [user EXCEPT ![used[t]] = None]
        /\ phase[t] = "registering" => phase'[t] = "removing" /\ used[t] \in left'
        /\ phase[t] \in {"reading", "stopping"} => phase'[t] = "stopping"
        /\ phase[t] \in Over => phase'[t] \in Over
        /\ phase[t] # "starting" => user' = user
        /\ phase[t] \in {"asking", "ready"} => phase'[t] \in {"removing", "done"}
    BY <1>11, <2>1 DEF Cancelled, AfterCancel, Over, TypeInv, TypeOK
  <2> QED
    BY <1>11, <2>1, <2>2, CliPoolAssumption DEF HoldInv, Busy, Over, Phases, TypeInv, TypeOK
<1>12. ASSUME NEW t \in Turns, Arrive(t) PROVE HoldInv'
  BY <1>12, CliPoolAssumption DEF Arrive, HoldInv, Busy, Over, TypeInv, TypeOK, vars, turnVars, poolVars, procVars, stopVars, history
<1>13. ASSUME NEW t \in Turns, SessionInfo(t) PROVE HoldInv'
  BY <1>13, CliPoolAssumption DEF SessionInfo, HoldInv, Busy, Over, TypeInv, TypeOK, vars, turnVars, poolVars, procVars, stopVars, history
<1>14. ASSUME NEW t \in Turns, EventFails(t) PROVE HoldInv'
  BY <1>14, CliPoolAssumption DEF EventFails, HoldInv, Busy, Over, TypeInv, TypeOK, vars, turnVars, poolVars, procVars, stopVars, history
<1>15. ASSUME NEW t \in Turns, StopOne(t) PROVE HoldInv'
  BY <1>15, CliPoolAssumption DEF StopOne, HoldInv, Busy, Over, TypeInv, TypeOK, vars, turnVars, poolVars, procVars, stopVars, history
<1>16. ASSUME NEW t \in Turns, ProcessEnds(t) PROVE HoldInv'
  BY <1>16, CliPoolAssumption DEF ProcessEnds, HoldInv, Busy, Over, TypeInv, TypeOK, vars, turnVars, poolVars, procVars, stopVars, history
<1>17. CASE StopAll
  BY <1>17, CliPoolAssumption DEF StopAll, HoldInv, Busy, Over, TypeInv, TypeOK, vars, turnVars, poolVars, procVars, stopVars, history
<1>18. CASE Wait(All)
  BY <1>18, CliPoolAssumption DEF Wait, HoldInv, Busy, Over, TypeInv, TypeOK, vars, turnVars, poolVars, procVars, stopVars, history
<1>19. CASE SweepBegins
  BY <1>19, CliPoolAssumption DEF SweepBegins, HoldInv, Busy, Over, TypeInv, TypeOK, vars, turnVars, poolVars, procVars, stopVars, history
<1>20. CASE SweepStopped
  BY <1>20, CliPoolAssumption DEF SweepStopped, HoldInv, Busy, Over, TypeInv, TypeOK, vars, turnVars, poolVars, procVars, stopVars, history
<1>21. CASE SweepEnds
  BY <1>21, CliPoolAssumption DEF SweepEnds, HoldInv, Busy, Over, TypeInv, TypeOK, vars, turnVars, poolVars, procVars, stopVars, history
<1>22. ASSUME NEW t \in Turns, SweepNext(t) PROVE HoldInv'
  BY <1>22, CliPoolAssumption DEF SweepNext, HoldInv, Busy, Over, TypeInv, TypeOK, vars, turnVars, poolVars, procVars, stopVars, history
<1>23. CASE Shutdown
  BY <1>23, CliPoolAssumption DEF Shutdown, HoldInv, Busy, Over, TypeInv, TypeOK, vars, turnVars, poolVars, procVars, stopVars, history
<1>24. CASE SweepTimesOut
  BY <1>24, CliPoolAssumption DEF SweepTimesOut, HoldInv, Busy, Over, TypeInv, TypeOK, vars, turnVars, poolVars, procVars, stopVars, history
<1>25. CASE LoopEnds
  BY <1>25, CliPoolAssumption DEF LoopEnds, HoldInv, Busy, Over, TypeInv, TypeOK, vars, turnVars, poolVars, procVars, stopVars, history
<1>26. ASSUME NEW r \in BOOLEAN, ServerExits(r) PROVE HoldInv'
  BY <1>26, CliPoolAssumption DEF ServerExits, HoldInv, Busy, Over, TypeInv, TypeOK, vars, turnVars, poolVars, procVars, stopVars, history
<1>27. CASE UNCHANGED vars
  BY <1>27, CliPoolAssumption DEF HoldInv, Busy, Over, TypeInv, TypeOK, vars, turnVars, poolVars, procVars, stopVars, history
<1> QED
  BY <1>1, <1>2, <1>3, <1>4, <1>5, <1>6, <1>7, <1>8, <1>9, <1>10, <1>11,
     <1>12, <1>13, <1>14, <1>15, <1>16, <1>17, <1>18, <1>19, <1>20,
     <1>21, <1>22, <1>23, <1>24, <1>25, <1>26, <1>27
     DEF Next, TurnStep, Sweep, ServerStep

\* Every step keeps PidInv.
LEMMA PidStep ==
    ASSUME TypeInv, HoldInv, PidInv, [Next]_vars
    PROVE  PidInv'
<1>1. ASSUME NEW t \in Turns, Wait(t) PROVE PidInv'
  BY <1>1, CliPoolAssumption DEF Wait, HoldInv, PidInv, Busy, Over, Active, TypeInv, TypeOK, vars, turnVars, poolVars, procVars, stopVars, history
<1>2. ASSUME NEW t \in Turns, GetSession(t) PROVE PidInv'
  BY <1>2, CliPoolAssumption DEF GetSession, HoldInv, PidInv, Busy, Over, Active, TypeInv, TypeOK, vars, turnVars, poolVars, procVars, stopVars, history
<1>3. ASSUME NEW t \in Turns, StartTask(t) PROVE PidInv'
  BY <1>3, CliPoolAssumption DEF StartTask, HoldInv, PidInv, Busy, Over, Active, TypeInv, TypeOK, vars, turnVars, poolVars, procVars, stopVars, history
<1>4. ASSUME NEW t \in Turns, Spawned(t) PROVE PidInv'
  BY <1>4, CliPoolAssumption DEF Spawned, HoldInv, PidInv, Busy, Over, Active, TypeInv, TypeOK, vars, turnVars, poolVars, procVars, stopVars, history
<1>5. ASSUME NEW t \in Turns, SpawnFails(t) PROVE PidInv'
  BY <1>5, CliPoolAssumption DEF SpawnFails, HoldInv, PidInv, Busy, Over, Active, TypeInv, TypeOK, vars, turnVars, poolVars, procVars, stopVars, history
<1>6. ASSUME NEW t \in Turns, Register(t) PROVE PidInv'
  BY <1>6, CliPoolAssumption DEF Register, HoldInv, PidInv, Busy, Over, Active, TypeInv, TypeOK, vars, turnVars, poolVars, procVars, stopVars, history
<1>7. ASSUME NEW t \in Turns, TaskEnds(t) PROVE PidInv'
  BY <1>7, CliPoolAssumption DEF TaskEnds, HoldInv, PidInv, Busy, Over, Active, TypeInv, TypeOK, vars, turnVars, poolVars, procVars, stopVars, history
<1>8. ASSUME NEW t \in Turns, Abandoned(t) PROVE PidInv'
  BY <1>8, CliPoolAssumption DEF Abandoned, HoldInv, PidInv, Busy, Over, Active, TypeInv, TypeOK, vars, turnVars, poolVars, procVars, stopVars, history
<1>9. ASSUME NEW t \in Turns, RemoveSession(t) PROVE PidInv'
  BY <1>9, CliPoolAssumption DEF RemoveSession, Terminated, HoldInv, PidInv, Busy, Over, Active, TypeInv, TypeOK, vars, turnVars, poolVars, procVars, stopVars, history
<1>10. ASSUME NEW t \in Turns, Removed(t) PROVE PidInv'
  BY <1>10, CliPoolAssumption DEF Removed, HoldInv, PidInv, Busy, Over, Active, TypeInv, TypeOK, vars, turnVars, poolVars, procVars, stopVars, history
<1>11. ASSUME NEW t \in Turns, Cancelled(t) PROVE PidInv'
  BY <1>11, CliPoolAssumption DEF Cancelled, AfterCancel, Terminated, HoldInv, PidInv, Busy, Over, Active, TypeInv, TypeOK, vars, turnVars, poolVars, procVars, stopVars, history
<1>12. ASSUME NEW t \in Turns, Arrive(t) PROVE PidInv'
  BY <1>12, CliPoolAssumption DEF Arrive, HoldInv, PidInv, Busy, Over, Active, TypeInv, TypeOK, vars, turnVars, poolVars, procVars, stopVars, history
<1>13. ASSUME NEW t \in Turns, SessionInfo(t) PROVE PidInv'
  BY <1>13, CliPoolAssumption DEF SessionInfo, HoldInv, PidInv, Busy, Over, Active, TypeInv, TypeOK, vars, turnVars, poolVars, procVars, stopVars, history
<1>14. ASSUME NEW t \in Turns, EventFails(t) PROVE PidInv'
  BY <1>14, CliPoolAssumption DEF EventFails, HoldInv, PidInv, Busy, Over, Active, TypeInv, TypeOK, vars, turnVars, poolVars, procVars, stopVars, history
<1>15. ASSUME NEW t \in Turns, StopOne(t) PROVE PidInv'
  BY <1>15, CliPoolAssumption DEF StopOne, HoldInv, PidInv, Busy, Over, Active, TypeInv, TypeOK, vars, turnVars, poolVars, procVars, stopVars, history
<1>16. ASSUME NEW t \in Turns, ProcessEnds(t) PROVE PidInv'
  BY <1>16, CliPoolAssumption DEF ProcessEnds, Lives, HoldInv, PidInv, Busy, Over, Active, TypeInv, TypeOK, vars, turnVars, poolVars, procVars, stopVars, history
<1>17. CASE StopAll
  BY <1>17, CliPoolAssumption DEF StopAll, HoldInv, PidInv, Busy, Over, Active, TypeInv, TypeOK, vars, turnVars, poolVars, procVars, stopVars, history
<1>18. CASE Wait(All)
  BY <1>18, CliPoolAssumption DEF Wait, HoldInv, PidInv, Busy, Over, Active, TypeInv, TypeOK, vars, turnVars, poolVars, procVars, stopVars, history
<1>19. CASE SweepBegins
  BY <1>19, CliPoolAssumption DEF SweepBegins, HoldInv, PidInv, Busy, Over, Active, TypeInv, TypeOK, vars, turnVars, poolVars, procVars, stopVars, history
<1>20. CASE SweepStopped
  BY <1>20, CliPoolAssumption DEF SweepStopped, HoldInv, PidInv, Busy, Over, Active, TypeInv, TypeOK, vars, turnVars, poolVars, procVars, stopVars, history
<1>21. CASE SweepEnds
  BY <1>21, CliPoolAssumption DEF SweepEnds, HoldInv, PidInv, Busy, Over, Active, TypeInv, TypeOK, vars, turnVars, poolVars, procVars, stopVars, history
<1>22. ASSUME NEW t \in Turns, SweepNext(t) PROVE PidInv'
  BY <1>22, CliPoolAssumption DEF SweepNext, Terminated, HoldInv, PidInv, Busy, Over, Active, TypeInv, TypeOK, vars, turnVars, poolVars, procVars, stopVars, history
<1>23. CASE Shutdown
  BY <1>23, CliPoolAssumption DEF Shutdown, HoldInv, PidInv, Busy, Over, Active, TypeInv, TypeOK, vars, turnVars, poolVars, procVars, stopVars, history
<1>24. CASE SweepTimesOut
  BY <1>24, CliPoolAssumption DEF SweepTimesOut, HoldInv, PidInv, Busy, Over, Active, TypeInv, TypeOK, vars, turnVars, poolVars, procVars, stopVars, history
<1>25. CASE LoopEnds
  BY <1>25, CliPoolAssumption DEF LoopEnds, HoldInv, PidInv, Busy, Over, Active, TypeInv, TypeOK, vars, turnVars, poolVars, procVars, stopVars, history
<1>26. ASSUME NEW r \in BOOLEAN, ServerExits(r) PROVE PidInv'
  BY <1>26, CliPoolAssumption DEF ServerExits, KillAll, HoldInv, PidInv, Busy, Over, Active, TypeInv, TypeOK, vars, turnVars, poolVars, procVars, stopVars, history
<1>27. CASE UNCHANGED vars
  BY <1>27, CliPoolAssumption DEF HoldInv, PidInv, Busy, Over, Active, TypeInv, TypeOK, vars, turnVars, poolVars, procVars, stopVars, history
<1> QED
  BY <1>1, <1>2, <1>3, <1>4, <1>5, <1>6, <1>7, <1>8, <1>9, <1>10, <1>11,
     <1>12, <1>13, <1>14, <1>15, <1>16, <1>17, <1>18, <1>19, <1>20,
     <1>21, <1>22, <1>23, <1>24, <1>25, <1>26, <1>27
     DEF Next, TurnStep, Sweep, ServerStep

\* NothingRuns: NoProcessLeft holds.  Who holds a session works on it or left
\* start_task, so only then does a pid leave the registry before its process ends.
THEOREM NothingRuns == Spec => []NoProcessLeft
<1> DEFINE I == TypeInv /\ HoldInv /\ PidInv
<1>1. Init => HoldInv /\ PidInv
  BY CliPoolAssumption DEF Init, HoldInv, PidInv, Busy, Over, Active
<1>2. I /\ [Next]_vars => I'
  BY TypeStep, HoldStep, PidStep
<1>3. I => NoProcessLeft
  BY DEF PidInv, NoProcessLeft
<1> QED
  BY <1>1, <1>2, <1>3, TypeInit, PTL DEF Spec

-----------------------------------------------------------------------------
(***************************************************************************)
(* What an unscoped /stop reaches.                                         *)
(***************************************************************************)

\* Every step keeps LockInv.
LEMMA LockStep ==
    ASSUME TypeInv, LockInv, [Next]_vars
    PROVE  LockInv'
<1>1. ASSUME NEW t \in Turns, Wait(t) PROVE LockInv'
  BY <1>1, CliPoolAssumption, Joined DEF Wait, LockInv, Users, HasLock, TypeInv, TypeOK, vars, turnVars, poolVars, procVars, stopVars, history
<1>2. ASSUME NEW t \in Turns, GetSession(t) PROVE LockInv'
  BY <1>2, CliPoolAssumption, ReleasedLine DEF GetSession, Reuse, Create, LockInv, Users, HasLock, TypeInv, TypeOK, vars, turnVars, poolVars, procVars, stopVars, history
<1>3. ASSUME NEW t \in Turns, StartTask(t) PROVE LockInv'
  BY <1>3, CliPoolAssumption DEF StartTask, LockInv, Users, HasLock, TypeInv, TypeOK, vars, turnVars, poolVars, procVars, stopVars, history
<1>4. ASSUME NEW t \in Turns, Spawned(t) PROVE LockInv'
  BY <1>4, CliPoolAssumption DEF Spawned, LockInv, Users, HasLock, TypeInv, TypeOK, vars, turnVars, poolVars, procVars, stopVars, history
<1>5. ASSUME NEW t \in Turns, SpawnFails(t) PROVE LockInv'
  BY <1>5, CliPoolAssumption DEF SpawnFails, LockInv, Users, HasLock, TypeInv, TypeOK, vars, turnVars, poolVars, procVars, stopVars, history
<1>6. ASSUME NEW t \in Turns, Register(t) PROVE LockInv'
  BY <1>6, CliPoolAssumption, ReleasedLine DEF Register, LockInv, Users, HasLock, TypeInv, TypeOK, vars, turnVars, poolVars, procVars, stopVars, history
<1>7. ASSUME NEW t \in Turns, TaskEnds(t) PROVE LockInv'
  BY <1>7, CliPoolAssumption DEF TaskEnds, LockInv, Users, HasLock, TypeInv, TypeOK, vars, turnVars, poolVars, procVars, stopVars, history
<1>8. ASSUME NEW t \in Turns, Abandoned(t) PROVE LockInv'
  BY <1>8, CliPoolAssumption DEF Abandoned, LockInv, Users, HasLock, TypeInv, TypeOK, vars, turnVars, poolVars, procVars, stopVars, history
<1>9. ASSUME NEW t \in Turns, RemoveSession(t) PROVE LockInv'
  <2>1. /\ \A u \in Turns : u # t => phase'[u] = phase[u]
        /\ sweep' = sweep /\ t # All
        /\ line' = Released(t) \/ line' = Held(t)
        /\ phase'[t] = "closing" => line' = Held(t)
        /\ line # <<>> => Head(line) = t
        /\ line \in Seq(Users) /\ t \in Users
    BY <1>9, CliPoolAssumption DEF RemoveSession, HasLock, Users, TypeInv, TypeOK
  <2>2. sweep # "sweeping" /\ \A u \in Turns : u # t => phase[u] # "closing"
    BY <1>9, <2>1, CliPoolAssumption DEF LockInv
  <2>3. Held(t) # <<>> /\ Head(Held(t)) = t
    BY <2>1, Joined
  <2> QED
    BY <2>1, <2>2, <2>3 DEF LockInv
<1>10. ASSUME NEW t \in Turns, Removed(t) PROVE LockInv'
  BY <1>10, CliPoolAssumption, ReleasedLine DEF Removed, LockInv, Users, HasLock, TypeInv, TypeOK, vars, turnVars, poolVars, procVars, stopVars, history
<1>11. ASSUME NEW t \in Turns, Cancelled(t) PROVE LockInv'
  <2>1. /\ \A u \in Turns : u # t => phase'[u] = phase[u]
        /\ sweep' = sweep /\ t # All
        /\ line' = Released(t)
        /\ phase'[t] # "closing"
        /\ line \in Seq(Users) /\ t \in Users
    BY <1>11, CliPoolAssumption DEF Cancelled, AfterCancel, Users, Phases, TypeInv, TypeOK
  <2> QED
    BY <1>11, <2>1, ReleasedLine, CliPoolAssumption DEF LockInv
<1>12. ASSUME NEW t \in Turns, Arrive(t) PROVE LockInv'
  BY <1>12, CliPoolAssumption DEF Arrive, LockInv, Users, HasLock, TypeInv, TypeOK, vars, turnVars, poolVars, procVars, stopVars, history
<1>13. ASSUME NEW t \in Turns, SessionInfo(t) PROVE LockInv'
  BY <1>13, CliPoolAssumption DEF SessionInfo, LockInv, Users, HasLock, TypeInv, TypeOK, vars, turnVars, poolVars, procVars, stopVars, history
<1>14. ASSUME NEW t \in Turns, EventFails(t) PROVE LockInv'
  BY <1>14, CliPoolAssumption DEF EventFails, LockInv, Users, HasLock, TypeInv, TypeOK, vars, turnVars, poolVars, procVars, stopVars, history
<1>15. ASSUME NEW t \in Turns, StopOne(t) PROVE LockInv'
  BY <1>15, CliPoolAssumption DEF StopOne, LockInv, Users, HasLock, TypeInv, TypeOK, vars, turnVars, poolVars, procVars, stopVars, history
<1>16. ASSUME NEW t \in Turns, ProcessEnds(t) PROVE LockInv'
  BY <1>16, CliPoolAssumption DEF ProcessEnds, LockInv, Users, HasLock, TypeInv, TypeOK, vars, turnVars, poolVars, procVars, stopVars, history
<1>17. CASE StopAll
  BY <1>17, CliPoolAssumption DEF StopAll, LockInv, Users, HasLock, TypeInv, TypeOK, vars, turnVars, poolVars, procVars, stopVars, history
<1>18. CASE Wait(All)
  BY <1>18, CliPoolAssumption, Joined DEF Wait, LockInv, Users, HasLock, TypeInv, TypeOK, vars, turnVars, poolVars, procVars, stopVars, history
<1>19. CASE SweepBegins
  BY <1>19, CliPoolAssumption, Joined DEF SweepBegins, LockInv, Users, HasLock, TypeInv, TypeOK, vars, turnVars, poolVars, procVars, stopVars, history
<1>20. CASE SweepStopped
  BY <1>20, CliPoolAssumption DEF SweepStopped, LockInv, Users, HasLock, TypeInv, TypeOK, vars, turnVars, poolVars, procVars, stopVars, history
<1>21. CASE SweepEnds
  BY <1>21, CliPoolAssumption, ReleasedLine DEF SweepEnds, LockInv, Users, HasLock, TypeInv, TypeOK, vars, turnVars, poolVars, procVars, stopVars, history
<1>22. ASSUME NEW t \in Turns, SweepNext(t) PROVE LockInv'
  BY <1>22, CliPoolAssumption DEF SweepNext, LockInv, Users, HasLock, TypeInv, TypeOK, vars, turnVars, poolVars, procVars, stopVars, history
<1>23. CASE Shutdown
  BY <1>23, CliPoolAssumption DEF Shutdown, LockInv, Users, HasLock, TypeInv, TypeOK, vars, turnVars, poolVars, procVars, stopVars, history
<1>24. CASE SweepTimesOut
  BY <1>24, CliPoolAssumption, ReleasedLine DEF SweepTimesOut, LockInv, Users, HasLock, TypeInv, TypeOK, vars, turnVars, poolVars, procVars, stopVars, history
<1>25. CASE LoopEnds
  BY <1>25, CliPoolAssumption DEF LoopEnds, LockInv, Users, HasLock, TypeInv, TypeOK, vars, turnVars, poolVars, procVars, stopVars, history
<1>26. ASSUME NEW r \in BOOLEAN, ServerExits(r) PROVE LockInv'
  BY <1>26, CliPoolAssumption DEF ServerExits, LockInv, Users, HasLock, TypeInv, TypeOK, vars, turnVars, poolVars, procVars, stopVars, history
<1>27. CASE UNCHANGED vars
  BY <1>27, CliPoolAssumption DEF LockInv, Users, HasLock, TypeInv, TypeOK, vars, turnVars, poolVars, procVars, stopVars, history
<1> QED
  BY <1>1, <1>2, <1>3, <1>4, <1>5, <1>6, <1>7, <1>8, <1>9, <1>10, <1>11,
     <1>12, <1>13, <1>14, <1>15, <1>16, <1>17, <1>18, <1>19, <1>20,
     <1>21, <1>22, <1>23, <1>24, <1>25, <1>26, <1>27
     DEF Next, TurnStep, Sweep, ServerStep

\* Every step keeps NameInv.
LEMMA NameStep ==
    ASSUME TypeInv, NameInv, [Next]_vars
    PROVE  NameInv'
<1>1. ASSUME NEW t \in Turns, Wait(t) PROVE NameInv'
  BY <1>1, CliPoolAssumption DEF Wait, NameInv, Values, Pool, TypeInv, TypeOK, vars, turnVars, poolVars, procVars, stopVars, history
<1>2. ASSUME NEW t \in Turns, GetSession(t) PROVE NameInv'
  BY <1>2, CliPoolAssumption DEF GetSession, Reuse, Create, Found, Looked, With, NameInv, Values, Pool, TypeInv, TypeOK, vars, turnVars, poolVars, procVars, stopVars, history
<1>3. ASSUME NEW t \in Turns, StartTask(t) PROVE NameInv'
  BY <1>3, CliPoolAssumption DEF StartTask, NameInv, Values, Pool, TypeInv, TypeOK, vars, turnVars, poolVars, procVars, stopVars, history
<1>4. ASSUME NEW t \in Turns, Spawned(t) PROVE NameInv'
  BY <1>4, CliPoolAssumption DEF Spawned, NameInv, Values, Pool, TypeInv, TypeOK, vars, turnVars, poolVars, procVars, stopVars, history
<1>5. ASSUME NEW t \in Turns, SpawnFails(t) PROVE NameInv'
  BY <1>5, CliPoolAssumption DEF SpawnFails, NameInv, Values, Pool, TypeInv, TypeOK, vars, turnVars, poolVars, procVars, stopVars, history
<1>6. ASSUME NEW t \in Turns, Register(t) PROVE NameInv'
  <2>1. /\ phase' = [phase EXCEPT ![t] = "reading"]
        /\ phase[t] = "registering"
        /\ UNCHANGED <<extracted, used>>
    BY <1>6 DEF Register
  <2>2. Pool' \subseteq Pool
    <3>1. CASE temp[t] \in DOMAIN pending
      <4>1. pending[temp[t]] \in Pool
        BY <3>1 DEF Pool, Values
      <4>2. /\ sessions' = With(sessions, t, pending[temp[t]])
            /\ pending' = Without(pending, temp[t])
        BY <1>6, <3>1 DEF Register
      <4> QED
        <5>1. Values(sessions') \subseteq Values(sessions) \cup {pending[temp[t]]}
          BY <4>2, Maps
        <5>2. Values(pending') \subseteq Values(pending)
          BY <4>2, Maps
        <5> QED
          BY <4>1, <5>1, <5>2 DEF Pool
    <3>2. CASE temp[t] \notin DOMAIN pending
      BY <1>6, <3>2 DEF Register, Pool, Values, poolVars
    <3> QED
      BY <3>1, <3>2
  <2>3. DOMAIN sessions' \subseteq DOMAIN sessions \cup {t}
    BY <1>6 DEF Register, With, poolVars
  <2>4. extracted[t]
    BY <2>1 DEF NameInv
  <2> QED
    BY <2>1, <2>2, <2>3, <2>4 DEF NameInv, TypeInv, TypeOK
<1>7. ASSUME NEW t \in Turns, TaskEnds(t) PROVE NameInv'
  BY <1>7, CliPoolAssumption DEF TaskEnds, NameInv, Values, Pool, TypeInv, TypeOK, vars, turnVars, poolVars, procVars, stopVars, history
<1>8. ASSUME NEW t \in Turns, Abandoned(t) PROVE NameInv'
  BY <1>8, CliPoolAssumption DEF Abandoned, NameInv, Values, Pool, TypeInv, TypeOK, vars, turnVars, poolVars, procVars, stopVars, history
<1>9. ASSUME NEW t \in Turns, RemoveSession(t) PROVE NameInv'
  BY <1>9, CliPoolAssumption DEF RemoveSession, Without, NameInv, Values, Pool, TypeInv, TypeOK, vars, turnVars, poolVars, procVars, stopVars, history
<1>10. ASSUME NEW t \in Turns, Removed(t) PROVE NameInv'
  BY <1>10, CliPoolAssumption DEF Removed, NameInv, Values, Pool, TypeInv, TypeOK, vars, turnVars, poolVars, procVars, stopVars, history
<1>11. ASSUME NEW t \in Turns, Cancelled(t) PROVE NameInv'
  <2>1. /\ \A u \in Turns : u # t => phase'[u] = phase[u]
        /\ phase'[t] \notin {"none", "asking", "registering"}
    BY <1>11 DEF Cancelled, AfterCancel, Phases, TypeInv, TypeOK
  <2> QED
    BY <1>11, <2>1 DEF Cancelled, NameInv, Pool, Values, poolVars, TypeInv, TypeOK
<1>12. ASSUME NEW t \in Turns, Arrive(t) PROVE NameInv'
  BY <1>12, CliPoolAssumption DEF Arrive, NameInv, Values, Pool, TypeInv, TypeOK, vars, turnVars, poolVars, procVars, stopVars, history
<1>13. ASSUME NEW t \in Turns, SessionInfo(t) PROVE NameInv'
  BY <1>13, CliPoolAssumption DEF SessionInfo, NameInv, Values, Pool, TypeInv, TypeOK, vars, turnVars, poolVars, procVars, stopVars, history
<1>14. ASSUME NEW t \in Turns, EventFails(t) PROVE NameInv'
  BY <1>14, CliPoolAssumption DEF EventFails, NameInv, Values, Pool, TypeInv, TypeOK, vars, turnVars, poolVars, procVars, stopVars, history
<1>15. ASSUME NEW t \in Turns, StopOne(t) PROVE NameInv'
  BY <1>15, CliPoolAssumption DEF StopOne, NameInv, Values, Pool, TypeInv, TypeOK, vars, turnVars, poolVars, procVars, stopVars, history
<1>16. ASSUME NEW t \in Turns, ProcessEnds(t) PROVE NameInv'
  BY <1>16, CliPoolAssumption DEF ProcessEnds, NameInv, Values, Pool, TypeInv, TypeOK, vars, turnVars, poolVars, procVars, stopVars, history
<1>17. CASE StopAll
  BY <1>17, CliPoolAssumption DEF StopAll, NameInv, Values, Pool, TypeInv, TypeOK, vars, turnVars, poolVars, procVars, stopVars, history
<1>18. CASE Wait(All)
  BY <1>18, CliPoolAssumption DEF Wait, NameInv, Values, Pool, TypeInv, TypeOK, vars, turnVars, poolVars, procVars, stopVars, history
<1>19. CASE SweepBegins
  BY <1>19, CliPoolAssumption DEF SweepBegins, NameInv, Values, Pool, TypeInv, TypeOK, vars, turnVars, poolVars, procVars, stopVars, history
<1>20. CASE SweepStopped
  BY <1>20, CliPoolAssumption DEF SweepStopped, NameInv, Values, Pool, TypeInv, TypeOK, vars, turnVars, poolVars, procVars, stopVars, history
<1>21. CASE SweepEnds
  BY <1>21, CliPoolAssumption DEF SweepEnds, NameInv, Values, Pool, TypeInv, TypeOK, vars, turnVars, poolVars, procVars, stopVars, history
<1>22. ASSUME NEW t \in Turns, SweepNext(t) PROVE NameInv'
  BY <1>22, CliPoolAssumption DEF SweepNext, NameInv, Values, Pool, TypeInv, TypeOK, vars, turnVars, poolVars, procVars, stopVars, history
<1>23. CASE Shutdown
  BY <1>23, CliPoolAssumption DEF Shutdown, NameInv, Values, Pool, TypeInv, TypeOK, vars, turnVars, poolVars, procVars, stopVars, history
<1>24. CASE SweepTimesOut
  BY <1>24, CliPoolAssumption DEF SweepTimesOut, NameInv, Values, Pool, TypeInv, TypeOK, vars, turnVars, poolVars, procVars, stopVars, history
<1>25. CASE LoopEnds
  BY <1>25, CliPoolAssumption DEF LoopEnds, NameInv, Values, Pool, TypeInv, TypeOK, vars, turnVars, poolVars, procVars, stopVars, history
<1>26. ASSUME NEW r \in BOOLEAN, ServerExits(r) PROVE NameInv'
  BY <1>26, CliPoolAssumption DEF ServerExits, NameInv, Values, Pool, TypeInv, TypeOK, vars, turnVars, poolVars, procVars, stopVars, history
<1>27. CASE UNCHANGED vars
  BY <1>27, CliPoolAssumption DEF NameInv, Values, Pool, TypeInv, TypeOK, vars, turnVars, poolVars, procVars, stopVars, history
<1> QED
  BY <1>1, <1>2, <1>3, <1>4, <1>5, <1>6, <1>7, <1>8, <1>9, <1>10, <1>11,
     <1>12, <1>13, <1>14, <1>15, <1>16, <1>17, <1>18, <1>19, <1>20,
     <1>21, <1>22, <1>23, <1>24, <1>25, <1>26, <1>27
     DEF Next, TurnStep, Sweep, ServerStep

\* Every step keeps TargetInv.
LEMMA TargetStep ==
    ASSUME TypeInv, HoldInv, TargetInv, [Next]_vars
    PROVE  TargetInv'
<1>1. ASSUME NEW t \in Turns, Wait(t) PROVE TargetInv'
  BY <1>1, CliPoolAssumption DEF Wait, TargetInv, Stopped, Over, TypeInv, TypeOK, vars, turnVars, poolVars, procVars, stopVars, history
<1>2. ASSUME NEW t \in Turns, GetSession(t) PROVE TargetInv'
  BY <1>2, CliPoolAssumption DEF GetSession, Reuse, Create, TargetInv, Stopped, Over, TypeInv, TypeOK, vars, turnVars, poolVars, procVars, stopVars, history
<1>3. ASSUME NEW t \in Turns, StartTask(t) PROVE TargetInv'
  BY <1>3, CliPoolAssumption DEF StartTask, TargetInv, Stopped, Over, TypeInv, TypeOK, vars, turnVars, poolVars, procVars, stopVars, history
<1>4. ASSUME NEW t \in Turns, Spawned(t) PROVE TargetInv'
  BY <1>4, CliPoolAssumption DEF Spawned, HoldInv, Busy, TargetInv, Stopped, Over, TypeInv, TypeOK, vars, turnVars, poolVars, procVars, stopVars, history
<1>5. ASSUME NEW t \in Turns, SpawnFails(t) PROVE TargetInv'
  BY <1>5, CliPoolAssumption DEF SpawnFails, TargetInv, Stopped, Over, TypeInv, TypeOK, vars, turnVars, poolVars, procVars, stopVars, history
<1>6. ASSUME NEW t \in Turns, Register(t) PROVE TargetInv'
  BY <1>6, CliPoolAssumption DEF Register, TargetInv, Stopped, Over, TypeInv, TypeOK, vars, turnVars, poolVars, procVars, stopVars, history
<1>7. ASSUME NEW t \in Turns, TaskEnds(t) PROVE TargetInv'
  BY <1>7, CliPoolAssumption DEF TaskEnds, TargetInv, Stopped, Over, TypeInv, TypeOK, vars, turnVars, poolVars, procVars, stopVars, history
<1>8. ASSUME NEW t \in Turns, Abandoned(t) PROVE TargetInv'
  BY <1>8, CliPoolAssumption DEF Abandoned, TargetInv, Stopped, Over, TypeInv, TypeOK, vars, turnVars, poolVars, procVars, stopVars, history
<1>9. ASSUME NEW t \in Turns, RemoveSession(t) PROVE TargetInv'
  <2>1. /\ \A s \in Turns : proc'[s] = "live" => proc[s] = "live"
        /\ UNCHANGED <<due, targets, used>>
        /\ \A u \in Turns : u # t => phase'[u] = phase[u]
        /\ phase'[t] \in {"closing", "done"}
    BY <1>9 DEF RemoveSession, Terminated, history, TypeInv, TypeOK
  <2>2. \A u \in Turns : phase'[u] = "stopping" =>
            phase[u] = "stopping" /\ used'[u] \in Turns /\ used'[u] = used[u]
    BY <2>1 DEF Busy, TypeInv
  <2>3. \A u \in Turns : phase'[u] = "stopping" => proc'[used'[u]] # "live"
    BY <2>1, <2>2 DEF TargetInv
  <2>4. \A u \in targets' : Stopped(u)'
    BY <1>9, <2>1 DEF RemoveSession, TargetInv, Stopped, Over, TypeInv, TypeOK
  <2> QED
    BY <2>3, <2>4 DEF TargetInv
<1>10. ASSUME NEW t \in Turns, Removed(t) PROVE TargetInv'
  BY <1>10, CliPoolAssumption DEF Removed, TargetInv, Stopped, Over, TypeInv, TypeOK, vars, turnVars, poolVars, procVars, stopVars, history
<1>11. ASSUME NEW t \in Turns, Cancelled(t) PROVE TargetInv'
  <2>1. /\ \A u \in Turns : u # t => phase'[u] = phase[u] /\ due'[u] = due[u]
        /\ phase'[t] \in {"stopping"} \cup Over
        /\ phase'[t] = "stopping" => phase[t] \in {"reading", "stopping"} /\ used[t] \in Turns
        /\ targets' = targets /\ used' = used
    BY <1>11 DEF Cancelled, AfterCancel, Phases, Busy, Over, TypeInv, TypeOK
  <2>2. /\ \A s \in Turns : proc'[s] = "live" => proc[s] = "live"
        /\ phase[t] = "reading" => proc'[used[t]] # "live"
    BY <1>11 DEF Cancelled, Terminated, Busy, TypeInv, TypeOK
  <2> QED
    BY <1>11, <2>1, <2>2 DEF TargetInv, Stopped, Over, Busy, TypeInv, TypeOK
<1>12. ASSUME NEW t \in Turns, Arrive(t) PROVE TargetInv'
  BY <1>12, CliPoolAssumption DEF Arrive, TargetInv, Stopped, Over, TypeInv, TypeOK, vars, turnVars, poolVars, procVars, stopVars, history
<1>13. ASSUME NEW t \in Turns, SessionInfo(t) PROVE TargetInv'
  BY <1>13, CliPoolAssumption DEF SessionInfo, TargetInv, Stopped, Over, TypeInv, TypeOK, vars, turnVars, poolVars, procVars, stopVars, history
<1>14. ASSUME NEW t \in Turns, EventFails(t) PROVE TargetInv'
  BY <1>14, CliPoolAssumption DEF EventFails, TargetInv, Stopped, Over, TypeInv, TypeOK, vars, turnVars, poolVars, procVars, stopVars, history
<1>15. ASSUME NEW t \in Turns, StopOne(t) PROVE TargetInv'
  BY <1>15, CliPoolAssumption DEF StopOne, TargetInv, Stopped, Over, TypeInv, TypeOK, vars, turnVars, poolVars, procVars, stopVars, history
<1>16. ASSUME NEW t \in Turns, ProcessEnds(t) PROVE TargetInv'
  BY <1>16, CliPoolAssumption DEF ProcessEnds, TargetInv, Stopped, Over, TypeInv, TypeOK, vars, turnVars, poolVars, procVars, stopVars, history
<1>17. CASE StopAll
  BY <1>17, CliPoolAssumption DEF StopAll, CancelAll, Active, TargetInv, Stopped, Over, TypeInv, TypeOK, vars, turnVars, poolVars, procVars, stopVars, history
<1>18. CASE Wait(All)
  BY <1>18, CliPoolAssumption DEF Wait, TargetInv, Stopped, Over, TypeInv, TypeOK, vars, turnVars, poolVars, procVars, stopVars, history
<1>19. CASE SweepBegins
  BY <1>19, CliPoolAssumption DEF SweepBegins, TargetInv, Stopped, Over, TypeInv, TypeOK, vars, turnVars, poolVars, procVars, stopVars, history
<1>20. CASE SweepStopped
  BY <1>20, CliPoolAssumption DEF SweepStopped, TargetInv, Stopped, Over, TypeInv, TypeOK, vars, turnVars, poolVars, procVars, stopVars, history
<1>21. CASE SweepEnds
  BY <1>21, CliPoolAssumption DEF SweepEnds, TargetInv, Stopped, Over, TypeInv, TypeOK, vars, turnVars, poolVars, procVars, stopVars, history
<1>22. ASSUME NEW t \in Turns, SweepNext(t) PROVE TargetInv'
  BY <1>22, CliPoolAssumption DEF SweepNext, Terminated, TargetInv, Stopped, Over, TypeInv, TypeOK, vars, turnVars, poolVars, procVars, stopVars, history
<1>23. CASE Shutdown
  BY <1>23, CliPoolAssumption DEF Shutdown, TargetInv, Stopped, Over, TypeInv, TypeOK, vars, turnVars, poolVars, procVars, stopVars, history
<1>24. CASE SweepTimesOut
  BY <1>24, CliPoolAssumption DEF SweepTimesOut, TargetInv, Stopped, Over, TypeInv, TypeOK, vars, turnVars, poolVars, procVars, stopVars, history
<1>25. CASE LoopEnds
  BY <1>25, CliPoolAssumption DEF LoopEnds, CancelAll, Active, TargetInv, Stopped, Over, TypeInv, TypeOK, vars, turnVars, poolVars, procVars, stopVars, history
<1>26. ASSUME NEW r \in BOOLEAN, ServerExits(r) PROVE TargetInv'
  <2>1. \A s \in Turns : proc'[s] = "live" => proc[s] = "live"
    BY <1>26 DEF ServerExits, KillAll, TypeInv, TypeOK
  <2>2. \A u \in Turns : phase'[u] = "stopping" =>
            phase[u] = "stopping" /\ used'[u] \in Turns /\ used'[u] = used[u]
    BY <1>26 DEF ServerExits, turnVars, Busy, TypeInv
  <2>3. \A u \in Turns : phase'[u] = "stopping" => proc'[used'[u]] # "live"
    BY <2>1, <2>2 DEF TargetInv
  <2> QED
    BY <1>26, <2>3 DEF ServerExits, turnVars, history, TargetInv, Stopped, Over
<1>27. CASE UNCHANGED vars
  BY <1>27, CliPoolAssumption DEF TargetInv, Stopped, Over, TypeInv, TypeOK, vars, turnVars, poolVars, procVars, stopVars, history
<1> QED
  BY <1>1, <1>2, <1>3, <1>4, <1>5, <1>6, <1>7, <1>8, <1>9, <1>10, <1>11,
     <1>12, <1>13, <1>14, <1>15, <1>16, <1>17, <1>18, <1>19, <1>20,
     <1>21, <1>22, <1>23, <1>24, <1>25, <1>26, <1>27
     DEF Next, TurnStep, Sweep, ServerStep

\* A turn that a /stop cancelled starts no process, and takes no session.
LEMMA RunsStep ==
    ASSUME TypeInv, HoldInv, TargetInv, NEW u \in targets, Runs(u)', [Next]_vars
    PROVE  StopAll \/ (Runs(u) /\ used'[u] = used[u])
<1>1. ASSUME NEW t \in Turns, Wait(t) PROVE StopAll \/ (Runs(u) /\ used'[u] = used[u])
  BY <1>1, CliPoolAssumption DEF Wait, Runs, TargetInv, Stopped, Over, TypeInv, TypeOK, vars, turnVars, poolVars, procVars, stopVars, history
<1>2. ASSUME NEW t \in Turns, GetSession(t) PROVE StopAll \/ (Runs(u) /\ used'[u] = used[u])
  BY <1>2, CliPoolAssumption DEF GetSession, Reuse, Create, Runs, TargetInv, Stopped, Over, TypeInv, TypeOK, vars, turnVars, poolVars, procVars, stopVars, history
<1>3. ASSUME NEW t \in Turns, StartTask(t) PROVE StopAll \/ (Runs(u) /\ used'[u] = used[u])
  BY <1>3, CliPoolAssumption DEF StartTask, Runs, TargetInv, Stopped, Over, TypeInv, TypeOK, vars, turnVars, poolVars, procVars, stopVars, history
<1>4. ASSUME NEW t \in Turns, Spawned(t) PROVE StopAll \/ (Runs(u) /\ used'[u] = used[u])
  BY <1>4, CliPoolAssumption DEF Spawned, HoldInv, Busy, Runs, TargetInv, Stopped, Over, TypeInv, TypeOK, vars, turnVars, poolVars, procVars, stopVars, history
<1>5. ASSUME NEW t \in Turns, SpawnFails(t) PROVE StopAll \/ (Runs(u) /\ used'[u] = used[u])
  BY <1>5, CliPoolAssumption DEF SpawnFails, Runs, TargetInv, Stopped, Over, TypeInv, TypeOK, vars, turnVars, poolVars, procVars, stopVars, history
<1>6. ASSUME NEW t \in Turns, Register(t) PROVE StopAll \/ (Runs(u) /\ used'[u] = used[u])
  BY <1>6, CliPoolAssumption DEF Register, HoldInv, Runs, TargetInv, Stopped, Over, TypeInv, TypeOK, vars, turnVars, poolVars, procVars, stopVars, history
<1>7. ASSUME NEW t \in Turns, TaskEnds(t) PROVE StopAll \/ (Runs(u) /\ used'[u] = used[u])
  BY <1>7, CliPoolAssumption DEF TaskEnds, Runs, TargetInv, Stopped, Over, TypeInv, TypeOK, vars, turnVars, poolVars, procVars, stopVars, history
<1>8. ASSUME NEW t \in Turns, Abandoned(t) PROVE StopAll \/ (Runs(u) /\ used'[u] = used[u])
  BY <1>8, CliPoolAssumption DEF Abandoned, Runs, TargetInv, Stopped, Over, TypeInv, TypeOK, vars, turnVars, poolVars, procVars, stopVars, history
<1>9. ASSUME NEW t \in Turns, RemoveSession(t) PROVE StopAll \/ (Runs(u) /\ used'[u] = used[u])
  BY <1>9, CliPoolAssumption DEF RemoveSession, Terminated, Runs, TargetInv, Stopped, Over, TypeInv, TypeOK, vars, turnVars, poolVars, procVars, stopVars, history
<1>10. ASSUME NEW t \in Turns, Removed(t) PROVE StopAll \/ (Runs(u) /\ used'[u] = used[u])
  BY <1>10, CliPoolAssumption DEF Removed, Runs, TargetInv, Stopped, Over, TypeInv, TypeOK, vars, turnVars, poolVars, procVars, stopVars, history
<1>11. ASSUME NEW t \in Turns, Cancelled(t) PROVE StopAll \/ (Runs(u) /\ used'[u] = used[u])
  BY <1>11, CliPoolAssumption DEF Cancelled, Terminated, Runs, TargetInv, Stopped, Over, TypeInv, TypeOK, vars, turnVars, poolVars, procVars, stopVars, history
<1>12. ASSUME NEW t \in Turns, Arrive(t) PROVE StopAll \/ (Runs(u) /\ used'[u] = used[u])
  BY <1>12, CliPoolAssumption DEF Arrive, Runs, TargetInv, Stopped, Over, TypeInv, TypeOK, vars, turnVars, poolVars, procVars, stopVars, history
<1>13. ASSUME NEW t \in Turns, SessionInfo(t) PROVE StopAll \/ (Runs(u) /\ used'[u] = used[u])
  BY <1>13, CliPoolAssumption DEF SessionInfo, Runs, TargetInv, Stopped, Over, TypeInv, TypeOK, vars, turnVars, poolVars, procVars, stopVars, history
<1>14. ASSUME NEW t \in Turns, EventFails(t) PROVE StopAll \/ (Runs(u) /\ used'[u] = used[u])
  BY <1>14, CliPoolAssumption DEF EventFails, Runs, TargetInv, Stopped, Over, TypeInv, TypeOK, vars, turnVars, poolVars, procVars, stopVars, history
<1>15. ASSUME NEW t \in Turns, StopOne(t) PROVE StopAll \/ (Runs(u) /\ used'[u] = used[u])
  BY <1>15, CliPoolAssumption DEF StopOne, Runs, TargetInv, Stopped, Over, TypeInv, TypeOK, vars, turnVars, poolVars, procVars, stopVars, history
<1>16. ASSUME NEW t \in Turns, ProcessEnds(t) PROVE StopAll \/ (Runs(u) /\ used'[u] = used[u])
  BY <1>16, CliPoolAssumption DEF ProcessEnds, Runs, TargetInv, Stopped, Over, TypeInv, TypeOK, vars, turnVars, poolVars, procVars, stopVars, history
<1>17. CASE StopAll
  BY <1>17, CliPoolAssumption DEF StopAll, Runs, TargetInv, Stopped, Over, TypeInv, TypeOK, vars, turnVars, poolVars, procVars, stopVars, history
<1>18. CASE Wait(All)
  BY <1>18, CliPoolAssumption DEF Wait, Runs, TargetInv, Stopped, Over, TypeInv, TypeOK, vars, turnVars, poolVars, procVars, stopVars, history
<1>19. CASE SweepBegins
  BY <1>19, CliPoolAssumption DEF SweepBegins, Runs, TargetInv, Stopped, Over, TypeInv, TypeOK, vars, turnVars, poolVars, procVars, stopVars, history
<1>20. CASE SweepStopped
  BY <1>20, CliPoolAssumption DEF SweepStopped, Runs, TargetInv, Stopped, Over, TypeInv, TypeOK, vars, turnVars, poolVars, procVars, stopVars, history
<1>21. CASE SweepEnds
  BY <1>21, CliPoolAssumption DEF SweepEnds, Runs, TargetInv, Stopped, Over, TypeInv, TypeOK, vars, turnVars, poolVars, procVars, stopVars, history
<1>22. ASSUME NEW t \in Turns, SweepNext(t) PROVE StopAll \/ (Runs(u) /\ used'[u] = used[u])
  BY <1>22, CliPoolAssumption DEF SweepNext, Terminated, Runs, TargetInv, Stopped, Over, TypeInv, TypeOK, vars, turnVars, poolVars, procVars, stopVars, history
<1>23. CASE Shutdown
  BY <1>23, CliPoolAssumption DEF Shutdown, Runs, TargetInv, Stopped, Over, TypeInv, TypeOK, vars, turnVars, poolVars, procVars, stopVars, history
<1>24. CASE SweepTimesOut
  BY <1>24, CliPoolAssumption DEF SweepTimesOut, Runs, TargetInv, Stopped, Over, TypeInv, TypeOK, vars, turnVars, poolVars, procVars, stopVars, history
<1>25. CASE LoopEnds
  BY <1>25, CliPoolAssumption DEF LoopEnds, Runs, TargetInv, Stopped, Over, TypeInv, TypeOK, vars, turnVars, poolVars, procVars, stopVars, history
<1>26. ASSUME NEW r \in BOOLEAN, ServerExits(r) PROVE StopAll \/ (Runs(u) /\ used'[u] = used[u])
  BY <1>26, CliPoolAssumption DEF ServerExits, KillAll, Runs, TargetInv, Stopped, Over, TypeInv, TypeOK, vars, turnVars, poolVars, procVars, stopVars, history
<1>27. CASE UNCHANGED vars
  BY <1>27, CliPoolAssumption DEF Runs, TargetInv, Stopped, Over, TypeInv, TypeOK, vars, turnVars, poolVars, procVars, stopVars, history
<1> QED
  BY <1>1, <1>2, <1>3, <1>4, <1>5, <1>6, <1>7, <1>8, <1>9, <1>10, <1>11,
     <1>12, <1>13, <1>14, <1>15, <1>16, <1>17, <1>18, <1>19, <1>20,
     <1>21, <1>22, <1>23, <1>24, <1>25, <1>26, <1>27
     DEF Next, TurnStep, Sweep, ServerStep

\* Every step keeps TodoInv.
LEMMA TodoStep ==
    ASSUME TypeInv, HoldInv, LockInv, TargetInv, TodoInv, [Next]_vars
    PROVE  TodoInv'
<1> SUFFICES ASSUME sweep' = "sweeping", NEW u \in targets', Runs(u)', used'[u] \in Pool'
             PROVE  used'[u] \in todo'
  BY DEF TodoInv
<1>0. u \in targets => Runs(u) /\ used'[u] = used[u]
  BY RunsStep DEF StopAll
<1>1. ASSUME NEW t \in Turns, Wait(t) PROVE used'[u] \in todo'
  BY <1>1, <1>0, CliPoolAssumption DEF Wait, TodoInv, LockInv, HasLock, Pool, Values, vars, turnVars, poolVars, procVars, stopVars, history
<1>2. ASSUME NEW t \in Turns, GetSession(t) PROVE used'[u] \in todo'
  BY <1>2, <1>0, CliPoolAssumption DEF GetSession, TodoInv, LockInv, HasLock, Pool, Values, vars, turnVars, poolVars, procVars, stopVars, history
<1>3. ASSUME NEW t \in Turns, StartTask(t) PROVE used'[u] \in todo'
  BY <1>3, <1>0, CliPoolAssumption DEF StartTask, TodoInv, LockInv, HasLock, Pool, Values, vars, turnVars, poolVars, procVars, stopVars, history
<1>4. ASSUME NEW t \in Turns, Spawned(t) PROVE used'[u] \in todo'
  BY <1>4, <1>0, CliPoolAssumption DEF Spawned, TodoInv, LockInv, HasLock, Pool, Values, vars, turnVars, poolVars, procVars, stopVars, history
<1>5. ASSUME NEW t \in Turns, SpawnFails(t) PROVE used'[u] \in todo'
  BY <1>5, <1>0, CliPoolAssumption DEF SpawnFails, TodoInv, LockInv, HasLock, Pool, Values, vars, turnVars, poolVars, procVars, stopVars, history
<1>6. ASSUME NEW t \in Turns, Register(t) PROVE used'[u] \in todo'
  BY <1>6, <1>0, CliPoolAssumption DEF Register, TodoInv, LockInv, HasLock, Pool, Values, vars, turnVars, poolVars, procVars, stopVars, history
<1>7. ASSUME NEW t \in Turns, TaskEnds(t) PROVE used'[u] \in todo'
  BY <1>7, <1>0, CliPoolAssumption DEF TaskEnds, TodoInv, LockInv, HasLock, Pool, Values, vars, turnVars, poolVars, procVars, stopVars, history
<1>8. ASSUME NEW t \in Turns, Abandoned(t) PROVE used'[u] \in todo'
  BY <1>8, <1>0, CliPoolAssumption DEF Abandoned, TodoInv, LockInv, HasLock, Pool, Values, vars, turnVars, poolVars, procVars, stopVars, history
<1>9. ASSUME NEW t \in Turns, RemoveSession(t) PROVE used'[u] \in todo'
  BY <1>9, <1>0, CliPoolAssumption DEF RemoveSession, TodoInv, LockInv, HasLock, Pool, Values, vars, turnVars, poolVars, procVars, stopVars, history
<1>10. ASSUME NEW t \in Turns, Removed(t) PROVE used'[u] \in todo'
  BY <1>10, <1>0, CliPoolAssumption DEF Removed, TodoInv, LockInv, HasLock, Pool, Values, vars, turnVars, poolVars, procVars, stopVars, history
<1>11. ASSUME NEW t \in Turns, Cancelled(t) PROVE used'[u] \in todo'
  BY <1>11, <1>0, CliPoolAssumption DEF Cancelled, TodoInv, LockInv, HasLock, Pool, Values, vars, turnVars, poolVars, procVars, stopVars, history
<1>12. ASSUME NEW t \in Turns, Arrive(t) PROVE used'[u] \in todo'
  BY <1>12, <1>0, CliPoolAssumption DEF Arrive, TodoInv, LockInv, HasLock, Pool, Values, vars, turnVars, poolVars, procVars, stopVars, history
<1>13. ASSUME NEW t \in Turns, SessionInfo(t) PROVE used'[u] \in todo'
  BY <1>13, <1>0, CliPoolAssumption DEF SessionInfo, TodoInv, LockInv, HasLock, Pool, Values, vars, turnVars, poolVars, procVars, stopVars, history
<1>14. ASSUME NEW t \in Turns, EventFails(t) PROVE used'[u] \in todo'
  BY <1>14, <1>0, CliPoolAssumption DEF EventFails, TodoInv, LockInv, HasLock, Pool, Values, vars, turnVars, poolVars, procVars, stopVars, history
<1>15. ASSUME NEW t \in Turns, StopOne(t) PROVE used'[u] \in todo'
  BY <1>15, <1>0, CliPoolAssumption DEF StopOne, TodoInv, LockInv, HasLock, Pool, Values, vars, turnVars, poolVars, procVars, stopVars, history
<1>16. ASSUME NEW t \in Turns, ProcessEnds(t) PROVE used'[u] \in todo'
  BY <1>16, <1>0, CliPoolAssumption DEF ProcessEnds, TodoInv, LockInv, HasLock, Pool, Values, vars, turnVars, poolVars, procVars, stopVars, history
<1>17. CASE StopAll
  BY <1>17, <1>0, CliPoolAssumption DEF StopAll, TodoInv, LockInv, HasLock, Pool, Values, vars, turnVars, poolVars, procVars, stopVars, history
<1>18. CASE Wait(All)
  BY <1>18, <1>0, CliPoolAssumption DEF Wait, TodoInv, LockInv, HasLock, Pool, Values, vars, turnVars, poolVars, procVars, stopVars, history
<1>19. CASE SweepBegins
  BY <1>19, <1>0, CliPoolAssumption DEF SweepBegins, TodoInv, LockInv, HasLock, Pool, Values, vars, turnVars, poolVars, procVars, stopVars, history
<1>20. CASE SweepStopped
  BY <1>20, <1>0, CliPoolAssumption DEF SweepStopped, TodoInv, LockInv, HasLock, Pool, Values, vars, turnVars, poolVars, procVars, stopVars, history
<1>21. CASE SweepEnds
  BY <1>21, <1>0, CliPoolAssumption DEF SweepEnds, TodoInv, LockInv, HasLock, Pool, Values, vars, turnVars, poolVars, procVars, stopVars, history
<1>22. ASSUME NEW t \in Turns, SweepNext(t) PROVE used'[u] \in todo'
  BY <1>22, <1>0, CliPoolAssumption DEF SweepNext, Terminated, Runs, TypeInv, TypeOK, TodoInv, LockInv, HasLock, Pool, Values, vars, turnVars, poolVars, procVars, stopVars, history
<1>23. CASE Shutdown
  BY <1>23, <1>0, CliPoolAssumption DEF Shutdown, TodoInv, LockInv, HasLock, Pool, Values, vars, turnVars, poolVars, procVars, stopVars, history
<1>24. CASE SweepTimesOut
  BY <1>24, <1>0, CliPoolAssumption DEF SweepTimesOut, TodoInv, LockInv, HasLock, Pool, Values, vars, turnVars, poolVars, procVars, stopVars, history
<1>25. CASE LoopEnds
  BY <1>25, <1>0, CliPoolAssumption DEF LoopEnds, TodoInv, LockInv, HasLock, Pool, Values, vars, turnVars, poolVars, procVars, stopVars, history
<1>26. ASSUME NEW r \in BOOLEAN, ServerExits(r) PROVE used'[u] \in todo'
  BY <1>26, <1>0, CliPoolAssumption DEF ServerExits, TodoInv, LockInv, HasLock, Pool, Values, vars, turnVars, poolVars, procVars, stopVars, history
<1>27. CASE UNCHANGED vars
  BY <1>27, <1>0, CliPoolAssumption DEF TodoInv, LockInv, HasLock, Pool, Values, vars, turnVars, poolVars, procVars, stopVars, history
<1> QED
  BY <1>1, <1>2, <1>3, <1>4, <1>5, <1>6, <1>7, <1>8, <1>9, <1>10, <1>11,
     <1>12, <1>13, <1>14, <1>15, <1>16, <1>17, <1>18, <1>19, <1>20,
     <1>21, <1>22, <1>23, <1>24, <1>25, <1>26, <1>27
     DEF Next, TurnStep, Sweep, ServerStep

\* Turns of one conversation have one root.
LEMMA Roots ==
    ASSUME KeyInv, CliPoolAssumption, NEW t \in Turns, NEW u \in Turns
    PROVE  /\ key[t] = key[u] => Root(t) = Root(u)
           /\ key[u] = t => Root(u) = Root(t) /\ u # t
BY DEF KeyInv, Root, CliPoolAssumption

\* A turn that asks for its session finds none, nor anything under its id.
LEMMA NotFound ==
    ASSUME TypeInv, KeyInv, NameInv, FirstInv, NEW t \in Turns, phase[t] = "asking"
    PROVE  ~Found(t) /\ key[t] \notin DOMAIN pending \cup DOMAIN toReal
<1>1. \A u \in Turns : phase[u] \in InPool \cup {"closing"} => Active(u) /\ u # t
  BY DEF InPool, Active
<1>2. Active(t)
  BY DEF Active
<1>3. \A u \in Turns : phase[u] \in InPool \cup {"closing"} => Root(u) # Root(t)
  BY <1>1, <1>2 DEF FirstInv, FirstTurns
<1>4. key[t] \notin DOMAIN toReal
  <2>1. SUFFICES ASSUME key[t] \in DOMAIN toReal PROVE FALSE
    OBVIOUS
  <2>2. toReal[key[t]] \in Turns
    BY <2>1 DEF TypeInv, TypeOK, Values
  <2>3. key[toReal[key[t]]] = key[t] /\ phase[toReal[key[t]]] \in InPool \cup {"closing"}
    BY <2>1 DEF FirstInv, FirstMaps
  <2> QED
    BY <1>3, <2>2, <2>3, Roots, CliPoolAssumption
<1>5. key[t] \notin DOMAIN pending
  BY <1>3, Roots, CliPoolAssumption DEF FirstInv, FirstMaps
<1>6. key[t] \notin DOMAIN sessions
  <2>1. SUFFICES ASSUME key[t] \in DOMAIN sessions PROVE FALSE
    OBVIOUS
  <2>2. phase[key[t]] \in InPool /\ capt[key[t]] = key[t]
    BY <2>1 DEF FirstInv, FirstMaps
  <2>3. key[t] \in Turns
    BY <2>1 DEF NameInv
  <2> QED
    BY <1>3, <2>2, <2>3, Roots, CliPoolAssumption
<1> QED
  BY <1>4, <1>5, <1>6 DEF Found, Looked

\* Forgetting the id of a turn drops its pair of ids, and keeps the others.
LEMMA Forgotten ==
    ASSUME FirstMaps, NEW t \in Turns, Forget(t)
    PROVE  /\ \A id \in DOMAIN toReal' :
                 id \in DOMAIN toReal /\ toReal'[id] = toReal[id] /\ toReal[id] # t
           /\ DOMAIN toTemp' = DOMAIN toTemp \ {t}
           /\ \A u \in DOMAIN toTemp' : /\ toTemp'[u] = toTemp[u]
                                        /\ toTemp[u] \in DOMAIN toReal'
BY DEF Forget, FirstMaps, Without

\* Until the first /stop, every step keeps FirstInv.
LEMMA FirstStep ==
    ASSUME TypeInv, KeyInv, HoldInv, NameInv, FirstInv, server' = "up", stops' = 0, [Next]_vars
    PROVE  FirstInv'
<1>1. ASSUME NEW t \in Turns, Wait(t) PROVE FirstInv'
  BY <1>1, CliPoolAssumption DEF Wait, FirstInv, FirstTurns, Active, FirstMaps, Known, InPool, Root, TypeInv, TypeOK, vars, turnVars, poolVars, procVars, stopVars, history
<1>2. ASSUME NEW t \in Turns, GetSession(t) PROVE FirstInv'
  <2>1. /\ ~Found(t) /\ key[t] \notin DOMAIN pending \cup DOMAIN toReal
    BY <1>2, NotFound DEF GetSession
  <2>2. /\ phase[t] = "asking" /\ phase' = [phase EXCEPT ![t] = "ready"]
        /\ used' = [used EXCEPT ![t] = t] /\ temp' = [temp EXCEPT ![t] = key[t]]
        /\ pending' = With(pending, key[t], t)
        /\ UNCHANGED <<key, due, capt, extracted, sessions, toReal, toTemp, proc, sweep, targets>>
    BY <1>2, <2>1 DEF GetSession, Reuse, Create, procVars, stopVars, history
  <2>3. /\ DOMAIN pending' = DOMAIN pending \cup {key[t]} /\ pending'[key[t]] = t
        /\ \A id \in DOMAIN pending : pending'[id] = pending[id]
    BY <2>1, <2>2 DEF With
  <2>4. capt[t] = None /\ Active(t) /\ t \in Turns
    BY <2>2 DEF FirstInv, FirstTurns, Active
  <2>5. FirstTurns'
    <3>1. \A u \in Turns : Active(u)' = Active(u) /\ Root(u)' = Root(u)
      BY <2>2 DEF Active, Root, TypeInv, TypeOK
    <3>2. Known(t)' /\ used'[t] = t
      BY <2>2, <2>3, <2>4 DEF Known, TypeInv, TypeOK
    <3>3. \A u \in Turns : u # t /\ Known(u) => Known(u)'
      BY <2>2, <2>3 DEF Known, TypeInv, TypeOK
    <3> QED
      BY <2>2, <2>4, <3>1, <3>2, <3>3 DEF FirstInv, FirstTurns, InPool, TypeInv, TypeOK
  <2>6. FirstMaps'
    <3>1. \A u \in Turns : phase[u] \in InPool \cup {"closing"} => phase'[u] = phase[u]
      BY <2>2 DEF InPool, TypeInv, TypeOK
    <3>2. \A id \in DOMAIN toReal : toReal[id] \in Turns
      BY DEF TypeInv, TypeOK, Values
    <3>3. phase'[t] \in InPool
      BY <2>2 DEF InPool, TypeInv, TypeOK
    <3> QED
      BY <2>2, <2>3, <2>4, <3>1, <3>2, <3>3 DEF FirstInv, FirstMaps, NameInv
  <2> QED
    BY <2>2, <2>5, <2>6 DEF FirstInv
<1>3. ASSUME NEW t \in Turns, StartTask(t) PROVE FirstInv'
  BY <1>3, CliPoolAssumption DEF StartTask, FirstInv, FirstTurns, Active, FirstMaps, Known, InPool, Root, TypeInv, TypeOK, vars, turnVars, poolVars, procVars, stopVars, history
<1>4. ASSUME NEW t \in Turns, Spawned(t) PROVE FirstInv'
  BY <1>4, CliPoolAssumption DEF Spawned, FirstInv, FirstTurns, Active, FirstMaps, Known, InPool, Root, TypeInv, TypeOK, vars, turnVars, poolVars, procVars, stopVars, history
<1>5. ASSUME NEW t \in Turns, SpawnFails(t) PROVE FirstInv'
  BY <1>5, CliPoolAssumption DEF SpawnFails, FirstInv, FirstTurns, Active, FirstMaps, Known, InPool, Root, TypeInv, TypeOK, vars, turnVars, poolVars, procVars, stopVars, history
<1>6. ASSUME NEW t \in Turns, Register(t) PROVE FirstInv'
  <2>1. phase[t] = "registering" /\ capt[t] = None /\ used[t] = t /\ Known(t) /\ extracted[t]
    BY <1>6 DEF Register, FirstInv, FirstTurns, InPool, NameInv
  <2>2. temp[t] = key[t] /\ key[t] \in DOMAIN pending /\ pending[key[t]] = t
    BY <2>1, CliPoolAssumption DEF Known
  <2>3. /\ phase' = [phase EXCEPT ![t] = "reading"]
        /\ capt' = [capt EXCEPT ![t] = t] /\ temp' = [temp EXCEPT ![t] = None]
        /\ sessions' = With(sessions, t, t)
        /\ pending' = Without(pending, key[t])
        /\ toReal' = With(toReal, key[t], t)
        /\ toTemp' = With(toTemp, t, key[t])
        /\ UNCHANGED <<key, due, used, extracted, proc, sweep, targets>>
    BY <1>6, <2>2 DEF Register, procVars, stopVars, history
  <2>4. \A u \in Turns : u # t /\ phase[u] \in InPool \cup {"closing"} => key[u] # key[t]
    BY <2>1, Roots, CliPoolAssumption DEF FirstInv, FirstTurns, Active, InPool
  <2>5. FirstTurns'
    <3>1. \A u \in Turns : Active(u)' = Active(u) /\ Root(u)' = Root(u)
      BY <2>1, <2>3 DEF Active, Root, TypeInv, TypeOK
    <3>2. Known(t)'
      BY <2>3 DEF Known, With, TypeInv, TypeOK
    <3>3. \A u \in Turns : u # t /\ phase[u] \in InPool /\ Known(u) => Known(u)'
      BY <2>3, <2>4 DEF Known, With, Without, TypeInv, TypeOK
    <3> QED
      BY <2>1, <2>3, <3>1, <3>2, <3>3 DEF FirstInv, FirstTurns, InPool, TypeInv, TypeOK
  <2>6. \A u \in Turns : phase[u] \in InPool \cup {"closing"} => phase'[u] \in InPool \cup {"closing"} /\ (u # t => phase'[u] = phase[u])
    BY <2>3 DEF InPool, TypeInv, TypeOK
  <2>7. \A id \in DOMAIN toReal : toReal[id] \in Turns
    BY DEF TypeInv, TypeOK, Values
  <2>8. phase'[t] \in InPool /\ capt'[t] = t /\ \A u \in Turns : u # t => capt'[u] = capt[u]
    BY <2>3 DEF InPool, TypeInv, TypeOK
  <2>9. key[t] \notin DOMAIN toReal
    BY <2>1, <2>4, <2>7, CliPoolAssumption DEF FirstInv, FirstMaps
  <2>10. FirstMaps'
    <3>1. /\ DOMAIN pending' = DOMAIN pending \ {key[t]}
          /\ DOMAIN sessions' = DOMAIN sessions \cup {t}
          /\ DOMAIN toReal' = DOMAIN toReal \cup {key[t]} /\ toReal'[key[t]] = t
          /\ DOMAIN toTemp' = DOMAIN toTemp \cup {t} /\ toTemp'[t] = key[t]
      BY <2>3 DEF With, Without
    <3>2. /\ \A id \in DOMAIN toReal : toReal'[id] = toReal[id]
          /\ \A u \in DOMAIN toTemp : u # t => toTemp'[u] = toTemp[u]
      BY <2>3, <2>9 DEF With
    <3>3. \A id \in DOMAIN toReal : toReal[id] # t
      BY <2>1, CliPoolAssumption DEF FirstInv, FirstMaps
    <3>4. \A id \in DOMAIN pending' :
             \E u \in Turns : phase'[u] \in InPool /\ capt'[u] = None /\ key'[u] = id
      BY <2>1, <2>3, <2>6, <2>8, <3>1 DEF FirstInv, FirstMaps, InPool
    <3>5. \A id \in DOMAIN sessions' : phase'[id] \in InPool /\ capt'[id] = id
      BY <2>3, <2>6, <2>8, <3>1 DEF FirstInv, FirstMaps, NameInv, InPool
    <3>6. \A id \in DOMAIN toReal' :
             /\ key'[toReal'[id]] = id /\ capt'[toReal'[id]] = toReal'[id]
             /\ phase'[toReal'[id]] \in InPool \cup {"closing"}
             /\ toReal'[id] \in DOMAIN toTemp' /\ toTemp'[toReal'[id]] = id
      BY <2>3, <2>6, <2>7, <2>8, <3>1, <3>2, <3>3 DEF FirstInv, FirstMaps
    <3>7. \A u \in DOMAIN toTemp' : toTemp'[u] \in DOMAIN toReal' /\ toReal'[toTemp'[u]] = u
      BY <3>1, <3>2 DEF FirstInv, FirstMaps
    <3> QED
      BY <3>4, <3>5, <3>6, <3>7 DEF FirstMaps
  <2> QED
    BY <2>3, <2>5, <2>10 DEF FirstInv
<1>7. ASSUME NEW t \in Turns, TaskEnds(t) PROVE FirstInv'
  BY <1>7, CliPoolAssumption DEF TaskEnds, FirstInv, FirstTurns, Active, FirstMaps, Known, InPool, Root, TypeInv, TypeOK, vars, turnVars, poolVars, procVars, stopVars, history
<1>8. ASSUME NEW t \in Turns, Abandoned(t) PROVE FirstInv'
  BY <1>8, CliPoolAssumption DEF Abandoned, FirstInv, FirstTurns, Active, FirstMaps, Known, InPool, Root, TypeInv, TypeOK, vars, turnVars, poolVars, procVars, stopVars, history
<1>9. ASSUME NEW t \in Turns, RemoveSession(t) PROVE FirstInv'
  <2>1. phase[t] = "removing" /\ used[t] = t /\ Known(t)
    BY <1>9 DEF RemoveSession, FirstInv, FirstTurns, InPool
  <2>2. \A u \in Turns : u # t /\ phase[u] \in InPool \cup {"closing"} =>
            Root(u) # Root(t) /\ key[u] # key[t] /\ key[u] # t
    BY <2>1, Roots, CliPoolAssumption DEF FirstInv, FirstTurns, Active, InPool
  <2>3. t \in DOMAIN pending => capt[t] = None
    <3>1. SUFFICES ASSUME t \in DOMAIN pending PROVE FALSE
      OBVIOUS
    <3>2. PICK u \in Turns : phase[u] \in InPool /\ key[u] = t
      BY <3>1 DEF FirstInv, FirstMaps
    <3> QED
      BY <2>2, <3>2, Roots, CliPoolAssumption
  <2>4. /\ proc' = Terminated(t)
        /\ phase' = [phase EXCEPT ![t] = IF Lives(t) THEN "closing" ELSE "done"]
        /\ UNCHANGED <<key, due, used, temp, capt, extracted, sweep, targets>>
        /\ \/ /\ capt[t] = None /\ pending' = Without(pending, key[t])
              /\ UNCHANGED <<sessions, toReal, toTemp>>
           \/ /\ capt[t] = t /\ pending' = Without(pending, t) /\ t \notin DOMAIN pending
              /\ sessions' = Without(sessions, t)
              /\ IF Lives(t) THEN UNCHANGED <<toReal, toTemp>> ELSE Forget(t)
    BY <1>9, <2>1, <2>3, CliPoolAssumption DEF RemoveSession, Id, Known, history
  <2>5. FirstTurns'
    <3>1. \A u \in Turns : (Active(u)' => Active(u)) /\ Root(u)' = Root(u)
      BY <2>1, <2>4 DEF Active, Root, TypeInv, TypeOK
    <3>2. proc'[t] # "live" /\ \A u \in Turns : proc'[u] = "live" => proc[u] = "live"
      BY <2>4 DEF Terminated, TypeInv, TypeOK
    <3>3. \A u \in Turns : u # t /\ phase[u] \in InPool /\ Known(u) => Known(u)'
      BY <2>2, <2>4 DEF Known, Without, TypeInv, TypeOK
    <3>4. capt[t] \in {t, None}
      BY <2>4
    <3> QED
      BY <2>1, <2>4, <3>1, <3>2, <3>3, <3>4 DEF FirstInv, FirstTurns, InPool, TypeInv, TypeOK
  <2>6. /\ phase'[t] \in {"closing", "done"}
        /\ \A u \in Turns : u # t => phase'[u] = phase[u]
    BY <2>4 DEF TypeInv, TypeOK
  <2>7. /\ \A id \in DOMAIN pending' : id \in DOMAIN pending /\ (capt[t] = None => id # key[t])
        /\ \A id \in DOMAIN sessions' : id \in DOMAIN sessions /\ id # t
    BY <2>4, CliPoolAssumption DEF Without, FirstInv, FirstMaps
  <2>8. \A id \in DOMAIN toReal : toReal[id] \in Turns
    BY DEF TypeInv, TypeOK, Values
  <2>9. FirstMaps'
    <3>1. \A id \in DOMAIN pending' :
             \E u \in Turns : phase'[u] \in InPool /\ capt'[u] = None /\ key'[u] = id
      <4>1. SUFFICES ASSUME NEW id \in DOMAIN pending'
                     PROVE  \E u \in Turns : phase'[u] \in InPool /\ capt[u] = None /\ key[u] = id
        BY <2>4
      <4>2. PICK u \in Turns : phase[u] \in InPool /\ capt[u] = None /\ key[u] = id
        BY <2>7 DEF FirstInv, FirstMaps
      <4>3. u # t
        BY <2>7, <4>2
      <4> QED
        BY <2>6, <4>2, <4>3
    <3>2. \A id \in DOMAIN sessions' : phase'[id] \in InPool /\ capt'[id] = id
      BY <2>4, <2>6, <2>7 DEF FirstInv, FirstMaps, NameInv
    <3>3. CASE UNCHANGED <<toReal, toTemp>> /\ (Lives(t) \/ capt[t] = None)
      <4>1. \A id \in DOMAIN toReal : toReal[id] = t => phase'[t] = "closing"
        BY <2>4, <3>3, CliPoolAssumption DEF FirstInv, FirstMaps, TypeInv, TypeOK
      <4> QED
        BY <2>4, <2>6, <2>8, <3>1, <3>2, <3>3, <4>1 DEF FirstInv, FirstMaps
    <3>4. CASE Forget(t)
      <4>1. /\ \A id \in DOMAIN toReal' :
               id \in DOMAIN toReal /\ toReal'[id] = toReal[id] /\ toReal[id] # t
            /\ DOMAIN toTemp' = DOMAIN toTemp \ {t}
            /\ \A u \in DOMAIN toTemp' : toTemp'[u] = toTemp[u] /\ toTemp[u] \in DOMAIN toReal'
        BY <3>4, Forgotten DEF FirstInv
      <4> QED
        BY <2>4, <2>6, <2>8, <3>1, <3>2, <4>1 DEF FirstInv, FirstMaps
    <3> QED
      BY <2>4, <3>3, <3>4
  <2> QED
    BY <2>4, <2>5, <2>9 DEF FirstInv
<1>10. ASSUME NEW t \in Turns, Removed(t) PROVE FirstInv'
  <2>1. /\ phase[t] = "closing" /\ phase' = [phase EXCEPT ![t] = "done"]
        /\ UNCHANGED <<key, due, used, temp, capt, extracted, sessions, pending, proc, sweep, targets>>
        /\ IF capt[t] = None THEN UNCHANGED <<toReal, toTemp>> ELSE Forget(t)
    BY <1>10 DEF Removed, FirstInv, FirstTurns, history
  <2>2. \A u \in Turns : (Active(u)' => Active(u)) /\ Root(u)' = Root(u) /\ Known(u)' = Known(u)
    BY <2>1 DEF Active, Root, Known, TypeInv, TypeOK
  <2>3. FirstTurns'
    BY <2>1, <2>2 DEF FirstInv, FirstTurns, InPool, TypeInv, TypeOK
  <2>4. /\ phase'[t] = "done"
        /\ \A u \in Turns : u # t => phase'[u] = phase[u]
    BY <2>1 DEF TypeInv, TypeOK
  <2>5. \A id \in DOMAIN toReal : toReal[id] \in Turns
    BY DEF TypeInv, TypeOK, Values
  <2>6. FirstMaps'
    <3>1. /\ \A id \in DOMAIN pending' :
                \E u \in Turns : phase'[u] \in InPool /\ capt'[u] = None /\ key'[u] = id
          /\ \A id \in DOMAIN sessions' : phase'[id] \in InPool /\ capt'[id] = id
      BY <2>1, <2>4 DEF FirstInv, FirstMaps, NameInv, InPool
    <3>2. CASE capt[t] = None
      BY <2>1, <2>4, <2>5, <3>1, <3>2, CliPoolAssumption DEF FirstInv, FirstMaps
    <3>3. CASE capt[t] # None
      <4>1. /\ \A id \in DOMAIN toReal' :
               id \in DOMAIN toReal /\ toReal'[id] = toReal[id] /\ toReal[id] # t
            /\ DOMAIN toTemp' = DOMAIN toTemp \ {t}
            /\ \A u \in DOMAIN toTemp' : toTemp'[u] = toTemp[u] /\ toTemp[u] \in DOMAIN toReal'
        BY <2>1, <3>3, Forgotten DEF FirstInv
      <4> QED
        BY <2>1, <2>4, <2>5, <3>1, <4>1 DEF FirstInv, FirstMaps
    <3> QED
      BY <3>2, <3>3
  <2> QED
    BY <2>1, <2>3, <2>6 DEF FirstInv
<1>11. ASSUME NEW t \in Turns, Cancelled(t) PROVE FirstInv'
  BY <1>11, CliPoolAssumption DEF Cancelled, FirstInv, FirstTurns, Active, FirstMaps, Known, InPool, Root, TypeInv, TypeOK, vars, turnVars, poolVars, procVars, stopVars, history
<1>12. ASSUME NEW t \in Turns, Arrive(t) PROVE FirstInv'
  <2>1. /\ phase' = [phase EXCEPT ![t] = "asking"] /\ phase[t] = "none"
        /\ UNCHANGED <<key, due, used, temp, capt, extracted, poolVars, proc, sweep, targets>>
        /\ \A u \in Turns : Active(u) => Root(u) # Root(t)
    BY <1>12 DEF Arrive, FirstInv, procVars, stopVars, history
  <2>2. FirstTurns'
    BY <2>1 DEF FirstInv, FirstTurns, Active, Root, Known, InPool, poolVars, TypeInv, TypeOK
  <2>3. FirstMaps'
    <3>1. \A u \in Turns : phase[u] \in InPool \cup {"closing"} => phase'[u] = phase[u]
      BY <2>1 DEF InPool, TypeInv, TypeOK
    <3>2. \A id \in DOMAIN toReal : toReal[id] \in Turns
      BY DEF TypeInv, TypeOK, Values
    <3> QED
      BY <2>1, <3>1, <3>2 DEF FirstInv, FirstMaps, NameInv, poolVars
  <2> QED
    BY <2>1, <2>2, <2>3 DEF FirstInv
<1>13. ASSUME NEW t \in Turns, SessionInfo(t) PROVE FirstInv'
  BY <1>13, CliPoolAssumption DEF SessionInfo, FirstInv, FirstTurns, Active, FirstMaps, Known, InPool, Root, TypeInv, TypeOK, vars, turnVars, poolVars, procVars, stopVars, history
<1>14. ASSUME NEW t \in Turns, EventFails(t) PROVE FirstInv'
  BY <1>14, CliPoolAssumption DEF EventFails, FirstInv, FirstTurns, Active, FirstMaps, Known, InPool, Root, TypeInv, TypeOK, vars, turnVars, poolVars, procVars, stopVars, history
<1>15. ASSUME NEW t \in Turns, StopOne(t) PROVE FirstInv'
  BY <1>15, CliPoolAssumption DEF StopOne, Active, FirstInv, FirstTurns, Active, FirstMaps, Known, InPool, Root, TypeInv, TypeOK, vars, turnVars, poolVars, procVars, stopVars, history
<1>16. ASSUME NEW t \in Turns, ProcessEnds(t) PROVE FirstInv'
  BY <1>16, CliPoolAssumption DEF ProcessEnds, FirstInv, FirstTurns, Active, FirstMaps, Known, InPool, Root, TypeInv, TypeOK, vars, turnVars, poolVars, procVars, stopVars, history
<1>17. CASE StopAll
  BY <1>17, CliPoolAssumption DEF StopAll, Active, FirstInv, FirstTurns, Active, FirstMaps, Known, InPool, Root, TypeInv, TypeOK, vars, turnVars, poolVars, procVars, stopVars, history
<1>18. CASE Wait(All)
  BY <1>18, CliPoolAssumption DEF Wait, FirstInv, FirstTurns, Active, FirstMaps, Known, InPool, Root, TypeInv, TypeOK, vars, turnVars, poolVars, procVars, stopVars, history
<1>19. CASE SweepBegins
  BY <1>19, CliPoolAssumption DEF SweepBegins, FirstInv, FirstTurns, Active, FirstMaps, Known, InPool, Root, TypeInv, TypeOK, vars, turnVars, poolVars, procVars, stopVars, history
<1>20. CASE SweepStopped
  BY <1>20, CliPoolAssumption DEF SweepStopped, FirstInv, FirstTurns, Active, FirstMaps, Known, InPool, Root, TypeInv, TypeOK, vars, turnVars, poolVars, procVars, stopVars, history
<1>21. CASE SweepEnds
  BY <1>21, CliPoolAssumption DEF SweepEnds, FirstInv, FirstTurns, Active, FirstMaps, Known, InPool, Root, TypeInv, TypeOK, vars, turnVars, poolVars, procVars, stopVars, history
<1>22. ASSUME NEW t \in Turns, SweepNext(t) PROVE FirstInv'
  BY <1>22, CliPoolAssumption DEF SweepNext, FirstInv, FirstTurns, Active, FirstMaps, Known, InPool, Root, TypeInv, TypeOK, vars, turnVars, poolVars, procVars, stopVars, history
<1>23. CASE Shutdown
  BY <1>23, CliPoolAssumption DEF Shutdown, FirstInv, FirstTurns, Active, FirstMaps, Known, InPool, Root, TypeInv, TypeOK, vars, turnVars, poolVars, procVars, stopVars, history
<1>24. CASE SweepTimesOut
  BY <1>24, CliPoolAssumption DEF SweepTimesOut, FirstInv, FirstTurns, Active, FirstMaps, Known, InPool, Root, TypeInv, TypeOK, vars, turnVars, poolVars, procVars, stopVars, history
<1>25. CASE LoopEnds
  BY <1>25, CliPoolAssumption DEF LoopEnds, FirstInv, FirstTurns, Active, FirstMaps, Known, InPool, Root, TypeInv, TypeOK, vars, turnVars, poolVars, procVars, stopVars, history
<1>26. ASSUME NEW r \in BOOLEAN, ServerExits(r) PROVE FirstInv'
  BY <1>26, CliPoolAssumption DEF ServerExits, FirstInv, FirstTurns, Active, FirstMaps, Known, InPool, Root, TypeInv, TypeOK, vars, turnVars, poolVars, procVars, stopVars, history
<1>27. CASE UNCHANGED vars
  BY <1>27, CliPoolAssumption DEF FirstInv, FirstTurns, Active, FirstMaps, Known, InPool, Root, TypeInv, TypeOK, vars, turnVars, poolVars, procVars, stopVars, history
<1> QED
  BY <1>1, <1>2, <1>3, <1>4, <1>5, <1>6, <1>7, <1>8, <1>9, <1>10, <1>11,
     <1>12, <1>13, <1>14, <1>15, <1>16, <1>17, <1>18, <1>19, <1>20,
     <1>21, <1>22, <1>23, <1>24, <1>25, <1>26, <1>27
     DEF Next, TurnStep, Sweep, ServerStep

\* Every step keeps ReachInv.
LEMMA ReachStep ==
    ASSUME TypeInv, KeyInv, HoldInv, NameInv, TargetInv,
           server = "up" /\ stops = 0 => FirstInv,
           server = "up" /\ stops = 1 => ReachInv, server' = "up", stops' = 1, [Next]_vars
    PROVE  ReachInv'
<1>0. \A u \in targets : Runs(u)' => StopAll \/ (Runs(u) /\ used'[u] = used[u])
  BY RunsStep
<1>a. StopAll => sweep' = "asking" /\ stops # 1
  BY DEF StopAll, TypeInv, TypeOK
<1>1. ASSUME NEW t \in Turns, Wait(t) PROVE ReachInv'
  BY <1>1, <1>0, <1>a, CliPoolAssumption DEF Wait, ReachInv, Pool, Values, vars, turnVars, poolVars, procVars, stopVars, history
<1>2. ASSUME NEW t \in Turns, GetSession(t) PROVE ReachInv'
  <2>1. /\ stops = 1 /\ server = "up"
        /\ UNCHANGED <<sweep, todo, targets, sessions, toReal>>
        /\ phase[t] = "asking"
        /\ \/ pending' = pending
           \/ ~Found(t) /\ pending' = With(pending, key[t], t)
    BY <1>2 DEF GetSession, Reuse, Create, stopVars, history
  <2>2. ReachInv
    BY <2>1
  <2>3. CASE pending' = pending
    BY <1>0, <1>a, <2>1, <2>2, <2>3 DEF ReachInv, Pool, Values
  <2>4. CASE ~Found(t) /\ pending' = With(pending, key[t], t)
    <3>1. /\ DOMAIN pending' = DOMAIN pending \cup {key[t]} /\ pending'[key[t]] = t
          /\ \A id \in DOMAIN pending : id # key[t] => pending'[id] = pending[id]
      BY <2>4 DEF With
    <3>2. key[t] \in DOMAIN pending => key[t] \in DOMAIN toReal
      BY <2>4 DEF Found, Looked
    <3>3. \A u \in targets : used[u] # t
      BY <2>1 DEF NameInv, TypeInv, TypeOK
    <3>4. ASSUME sweep = "asking", NEW u \in targets, Runs(u)' PROVE used'[u] \in Pool'
      <4>1. Runs(u) /\ used'[u] = used[u] /\ used[u] \in Pool
        BY <1>0, <1>a, <2>1, <2>2, <3>4 DEF ReachInv
      <4>2. CASE used[u] \in Values(sessions)
        BY <2>1, <4>1, <4>2 DEF Pool
      <4>3. CASE used[u] \in Values(pending)
        <5>1. PICK id \in DOMAIN pending : pending[id] = used[u]
          BY <4>3 DEF Values
        <5>2. id # key[t]
          BY <2>2, <3>2, <3>4, <4>1, <5>1 DEF ReachInv
        <5> QED
          BY <3>1, <4>1, <5>1, <5>2 DEF Pool, Values
      <4> QED
        BY <4>1, <4>2, <4>3 DEF Pool
    <3> QED
      BY <1>0, <1>a, <2>1, <2>2, <3>1, <3>3, <3>4 DEF ReachInv
  <2> QED
    BY <2>1, <2>3, <2>4
<1>3. ASSUME NEW t \in Turns, StartTask(t) PROVE ReachInv'
  BY <1>3, <1>0, <1>a, CliPoolAssumption DEF StartTask, ReachInv, Pool, Values, vars, turnVars, poolVars, procVars, stopVars, history
<1>4. ASSUME NEW t \in Turns, Spawned(t) PROVE ReachInv'
  BY <1>4, <1>0, <1>a, CliPoolAssumption DEF Spawned, ReachInv, Pool, Values, vars, turnVars, poolVars, procVars, stopVars, history
<1>5. ASSUME NEW t \in Turns, SpawnFails(t) PROVE ReachInv'
  BY <1>5, <1>0, <1>a, CliPoolAssumption DEF SpawnFails, ReachInv, Pool, Values, vars, turnVars, poolVars, procVars, stopVars, history
<1>6. ASSUME NEW t \in Turns, Register(t) PROVE ReachInv'
  <2>1. /\ stops = 1 /\ server = "up"
        /\ UNCHANGED <<sweep, todo, targets>>
        /\ phase[t] = "registering"
        /\ \/ /\ temp[t] \in DOMAIN pending
              /\ sessions' = With(sessions, t, pending[temp[t]])
              /\ pending' = Without(pending, temp[t])
              /\ toReal' = With(toReal, temp[t], t)
           \/ UNCHANGED <<sessions, pending, toReal>>
    BY <1>6 DEF Register, stopVars, history, poolVars
  <2>2. ReachInv
    BY <2>1
  <2>3. t \notin DOMAIN sessions
    BY <2>1 DEF NameInv
  <2>4. Pool \subseteq Pool'
    <3>1. \A id \in DOMAIN sessions : id \in DOMAIN sessions' /\ sessions'[id] = sessions[id]
      BY <2>1, <2>3 DEF With
    <3>2. \A id \in DOMAIN pending :
             \/ id \in DOMAIN pending' /\ pending'[id] = pending[id]
             \/ t \in DOMAIN sessions' /\ sessions'[t] = pending[id]
      BY <2>1, <2>3 DEF With, Without
    <3> QED
      BY <3>1, <3>2 DEF Pool, Values
  <2>5. \A id \in DOMAIN pending' :
           id \in DOMAIN pending /\ pending'[id] = pending[id] /\ (id \in DOMAIN toReal' => id \in DOMAIN toReal)
    BY <2>1 DEF With, Without
  <2> QED
    BY <1>0, <1>a, <2>1, <2>2, <2>4, <2>5 DEF ReachInv
<1>7. ASSUME NEW t \in Turns, TaskEnds(t) PROVE ReachInv'
  BY <1>7, <1>0, <1>a, CliPoolAssumption DEF TaskEnds, ReachInv, Pool, Values, vars, turnVars, poolVars, procVars, stopVars, history
<1>8. ASSUME NEW t \in Turns, Abandoned(t) PROVE ReachInv'
  BY <1>8, <1>0, <1>a, CliPoolAssumption DEF Abandoned, ReachInv, Pool, Values, vars, turnVars, poolVars, procVars, stopVars, history
<1>9. ASSUME NEW t \in Turns, RemoveSession(t) PROVE ReachInv'
  <2>1. /\ stops = 1 /\ server = "up"
        /\ UNCHANGED <<sweep, todo, targets, used>>
        /\ \/ UNCHANGED <<sessions, pending, toReal, proc>>
           \/ /\ Id(t) \in DOMAIN pending /\ proc' = Terminated(pending[Id(t)])
              /\ pending' = Without(pending, Id(t)) /\ UNCHANGED <<sessions, toReal>>
           \/ /\ Id(t) \in DOMAIN sessions /\ proc' = Terminated(sessions[Id(t)])
              /\ pending' = pending \/ pending' = Without(pending, Id(t))
              /\ Id(t) \notin DOMAIN pending
              /\ sessions' = Without(sessions, Id(t))
              /\ toReal' = toReal \/ toReal' = Without(toReal, toTemp[Id(t)])
    BY <1>9 DEF RemoveSession, Forget, history, poolVars
  <2>2. ReachInv
    BY <2>1
  <2>3. ASSUME NEW u \in targets, Runs(u)', used[u] \in Pool PROVE used[u] \in Pool'
    <3>1. used[u] \in Turns /\ proc'[used[u]] = "live"
      BY <2>1, <2>3 DEF Runs, TypeInv, TypeOK
    <3>2. /\ \A id \in DOMAIN pending : pending[id] = used[u] =>
                id \in DOMAIN pending' /\ pending'[id] = used[u]
          /\ \A id \in DOMAIN sessions : sessions[id] = used[u] =>
                id \in DOMAIN sessions' /\ sessions'[id] = used[u]
      BY <2>1, <3>1 DEF Terminated, Without, TypeInv, TypeOK
    <3> QED
      BY <2>3, <3>2 DEF Pool, Values
  <2>4. /\ \A id \in DOMAIN pending' : id \in DOMAIN pending /\ pending'[id] = pending[id]
        /\ DOMAIN toReal' \subseteq DOMAIN toReal
    BY <2>1 DEF Without
  <2> QED
    BY <1>0, <1>a, <2>1, <2>2, <2>3, <2>4 DEF ReachInv
<1>10. ASSUME NEW t \in Turns, Removed(t) PROVE ReachInv'
  <2>1. /\ stops = 1 /\ server = "up"
        /\ UNCHANGED <<sweep, todo, targets, sessions, pending>>
        /\ DOMAIN toReal' \subseteq DOMAIN toReal
    BY <1>10 DEF Removed, Forget, Without, history
  <2> QED
    BY <1>0, <1>a, <2>1 DEF ReachInv, Pool, Values
<1>11. ASSUME NEW t \in Turns, Cancelled(t) PROVE ReachInv'
  BY <1>11, <1>0, <1>a, CliPoolAssumption DEF Cancelled, ReachInv, Pool, Values, vars, turnVars, poolVars, procVars, stopVars, history
<1>12. ASSUME NEW t \in Turns, Arrive(t) PROVE ReachInv'
  BY <1>12, <1>0, <1>a, CliPoolAssumption DEF Arrive, ReachInv, Pool, Values, vars, turnVars, poolVars, procVars, stopVars, history
<1>13. ASSUME NEW t \in Turns, SessionInfo(t) PROVE ReachInv'
  BY <1>13, <1>0, <1>a, CliPoolAssumption DEF SessionInfo, ReachInv, Pool, Values, vars, turnVars, poolVars, procVars, stopVars, history
<1>14. ASSUME NEW t \in Turns, EventFails(t) PROVE ReachInv'
  BY <1>14, <1>0, <1>a, CliPoolAssumption DEF EventFails, ReachInv, Pool, Values, vars, turnVars, poolVars, procVars, stopVars, history
<1>15. ASSUME NEW t \in Turns, StopOne(t) PROVE ReachInv'
  <2>1. stops = 0 /\ sweep' = sweep
    BY <1>15 DEF StopOne, TypeInv, TypeOK
  <2>2. sweep = "idle"
    BY <1>15, <2>1 DEF StopOne, FirstInv
  <2> QED
    BY <2>1, <2>2 DEF ReachInv
<1>16. ASSUME NEW t \in Turns, ProcessEnds(t) PROVE ReachInv'
  BY <1>16, <1>0, <1>a, CliPoolAssumption DEF ProcessEnds, ReachInv, Pool, Values, vars, turnVars, poolVars, procVars, stopVars, history
<1>17. CASE StopAll
  <2>1. /\ targets' = {u \in Turns : Active(u)} /\ sweep' = "asking" /\ stops = 0
        /\ UNCHANGED <<phase, used, user, proc, sessions, pending, toReal, temp, capt, key>>
    BY <1>17 DEF StopAll, TypeInv, TypeOK, procVars, poolVars
  <2>2. FirstInv
    BY <1>17, <2>1 DEF StopAll
  <2>3. ASSUME NEW u \in Turns, Active(u), Runs(u) PROVE phase[u] \in InPool /\ used[u] = u
    <3>1. phase[u] \in Busy \cup Over /\ used[u] \in Turns
      BY <2>3 DEF HoldInv, Runs, TypeInv, TypeOK
    <3>2. phase[u] # "stopping"
      BY <2>2 DEF FirstInv, FirstTurns
    <3>3. phase[u] # "closing"
      BY <2>2, <2>3 DEF FirstInv, FirstTurns, Runs
    <3> QED
      BY <2>2, <2>3, <3>1, <3>2, <3>3 DEF FirstInv, FirstTurns, Busy, Over, InPool, Active
  <2>4. \A u \in targets' : Runs(u)' => used'[u] \in Pool'
    <3>1. ASSUME NEW u \in Turns, phase[u] \in InPool PROVE u \in Pool
      BY <2>2, <3>1 DEF FirstInv, FirstTurns, Known, Pool, Values
    <3>2. Pool' = Pool /\ \A u \in Turns : Runs(u)' = Runs(u)
      BY <2>1 DEF Pool, Values, Runs
    <3> QED
      BY <2>1, <2>3, <3>1, <3>2
  <2>5. \A id \in DOMAIN pending : id \notin DOMAIN toReal
    <3>1. SUFFICES ASSUME NEW id \in DOMAIN pending, id \in DOMAIN toReal PROVE FALSE
      OBVIOUS
    <3>2. PICK u \in Turns : phase[u] \in InPool /\ capt[u] = None /\ key[u] = id
      BY <2>2 DEF FirstInv, FirstMaps
    <3>3. toReal[id] \in Turns
      BY <3>1 DEF TypeInv, TypeOK, Values
    <3>4. /\ key[toReal[id]] = id /\ capt[toReal[id]] = toReal[id]
          /\ phase[toReal[id]] \in InPool \cup {"closing"}
      BY <2>2, <3>1 DEF FirstInv, FirstMaps
    <3>5. u = toReal[id]
      BY <2>2, <3>2, <3>3, <3>4, Roots, CliPoolAssumption
      DEF FirstInv, FirstTurns, Active, InPool
    <3> QED
      BY <3>2, <3>3, <3>4, <3>5, CliPoolAssumption
  <2> QED
    BY <2>1, <2>4, <2>5 DEF ReachInv
<1>18. CASE Wait(All)
  BY <1>18, <1>0, <1>a, CliPoolAssumption DEF Wait, ReachInv, Pool, Values, vars, turnVars, poolVars, procVars, stopVars, history
<1>19. CASE SweepBegins
  BY <1>19, <1>0, <1>a, CliPoolAssumption DEF SweepBegins, ReachInv, Pool, Values, vars, turnVars, poolVars, procVars, stopVars, history
<1>20. CASE SweepStopped
  BY <1>20, <1>0, <1>a, CliPoolAssumption DEF SweepStopped, ReachInv, Pool, Values, vars, turnVars, poolVars, procVars, stopVars, history
<1>21. CASE SweepEnds
  BY <1>21, <1>0, <1>a, CliPoolAssumption DEF SweepEnds, ReachInv, Pool, Values, vars, turnVars, poolVars, procVars, stopVars, history
<1>22. ASSUME NEW t \in Turns, SweepNext(t) PROVE ReachInv'
  BY <1>22, <1>0, <1>a, CliPoolAssumption DEF SweepNext, Terminated, Runs, TypeInv, TypeOK, ReachInv, Pool, Values, vars, turnVars, poolVars, procVars, stopVars, history
<1>23. CASE Shutdown
  BY <1>23, <1>0, <1>a, CliPoolAssumption DEF Shutdown, ReachInv, Pool, Values, vars, turnVars, poolVars, procVars, stopVars, history
<1>24. CASE SweepTimesOut
  BY <1>24, <1>0, <1>a, CliPoolAssumption DEF SweepTimesOut, ReachInv, Pool, Values, vars, turnVars, poolVars, procVars, stopVars, history
<1>25. CASE LoopEnds
  BY <1>25, <1>0, <1>a, CliPoolAssumption DEF LoopEnds, ReachInv, Pool, Values, vars, turnVars, poolVars, procVars, stopVars, history
<1>26. ASSUME NEW r \in BOOLEAN, ServerExits(r) PROVE ReachInv'
  BY <1>26, <1>0, <1>a, CliPoolAssumption DEF ServerExits, ReachInv, Pool, Values, vars, turnVars, poolVars, procVars, stopVars, history
<1>27. CASE UNCHANGED vars
  BY <1>27, <1>0, <1>a, CliPoolAssumption DEF ReachInv, Pool, Values, vars, turnVars, poolVars, procVars, stopVars, history
<1> QED
  BY <1>1, <1>2, <1>3, <1>4, <1>5, <1>6, <1>7, <1>8, <1>9, <1>10, <1>11,
     <1>12, <1>13, <1>14, <1>15, <1>16, <1>17, <1>18, <1>19, <1>20,
     <1>21, <1>22, <1>23, <1>24, <1>25, <1>26, <1>27
     DEF Next, TurnStep, Sweep, ServerStep

\* The parts together, from the first state on.
AllInv == TypeInv /\ HoldInv /\ LockInv /\ StopInv

\* At the start there is no session, so that all parts of the invariant hold.
LEMMA StopInit == Init => AllInv
<1> SUFFICES ASSUME Init PROVE AllInv
  OBVIOUS
<1>1. HoldInv /\ LockInv /\ NameInv /\ TargetInv /\ TodoInv
  BY CliPoolAssumption
  DEF Init, HoldInv, LockInv, NameInv, TargetInv, TodoInv, Busy, Over, Pool, Values
<1>2. KeyInv
  BY DEF Init, KeyInv
<1>3. FirstInv
  BY CliPoolAssumption
  DEF Init, FirstInv, FirstTurns, FirstMaps, Active, InPool, Values
<1>4. stops = 0
  BY DEF Init
<1> QED
  BY <1>1, <1>2, <1>3, <1>4, TypeInit DEF AllInv, StopInv

\* Every step of the pool, of a turn, or of a stop keeps the invariant.
LEMMA StopStep == AllInv /\ [Next]_vars => AllInv'
<1> SUFFICES ASSUME AllInv, [Next]_vars PROVE AllInv'
  OBVIOUS
<1> USE DEF AllInv, StopInv
<1>1. TypeInv' /\ HoldInv' /\ LockInv'
  BY TypeStep, HoldStep, LockStep
<1>2. NameInv' /\ TargetInv' /\ TodoInv'
  BY NameStep, TargetStep, TodoStep
<1>3. KeyInv'
  <2>1. key' = key
    BY DEF Next, TurnStep, Sweep, ServerStep, vars, turnVars,
           Wait, GetSession, StartTask, Spawned, SpawnFails, Register, TaskEnds, Abandoned,
           RemoveSession, Removed, Cancelled, Arrive, SessionInfo, EventFails, StopOne,
           ProcessEnds, StopAll, SweepBegins, SweepStopped, SweepEnds, SweepNext, Shutdown,
           SweepTimesOut, LoopEnds, ServerExits
  <2> QED
    BY <2>1 DEF KeyInv
<1>4. ASSUME server' = "up", stops' = 0 PROVE FirstInv'
  <2>1. server = "up" /\ stops = 0
    BY <1>4
    DEF TypeInv, TypeOK, Next, TurnStep, Sweep, ServerStep, vars, turnVars, stopVars,
           Wait, GetSession, StartTask, Spawned, SpawnFails, Register, TaskEnds, Abandoned,
           RemoveSession, Removed, Cancelled, Arrive, SessionInfo, EventFails, StopOne,
           ProcessEnds, StopAll, SweepBegins, SweepStopped, SweepEnds, SweepNext, Shutdown,
           SweepTimesOut, LoopEnds, ServerExits
  <2> QED
    BY <1>4, <2>1, FirstStep
<1>5. ASSUME server' = "up", stops' = 1 PROVE ReachInv'
  BY <1>5, ReachStep
<1> QED
  BY <1>1, <1>2, <1>3, <1>4, <1>5

\* What the end of a sweep leaves: the first one no running process of a turn that it
\* cancelled, a later one only such that the pool had lost.
LEMMA SweepReaches ==
    ASSUME AllInv, [Next]_vars, sweep = "sweeping", sweep' = "idle", server = "up",
           NEW t \in targets, Runs(t)
    PROVE  stops > 1 /\ used[t] \notin Pool /\ (due[t] \/ used[t] \in left)
<1>1. todo = {}
  BY DEF AllInv, TypeInv, TypeOK, Next, TurnStep, Sweep, ServerStep, vars, turnVars, stopVars,
         Wait, GetSession, StartTask, Spawned, SpawnFails, Register, TaskEnds, Abandoned,
         RemoveSession, Removed, Cancelled, Arrive, SessionInfo, EventFails, StopOne,
         ProcessEnds, StopAll, SweepBegins, SweepStopped, SweepEnds, SweepNext, Shutdown,
         SweepTimesOut, LoopEnds, ServerExits
<1>2. used[t] \notin Pool
  BY <1>1 DEF AllInv, StopInv, TodoInv
<1>3. stops # 1
  BY <1>1 DEF AllInv, StopInv, ReachInv
<1>4. stops # 0
  BY DEF AllInv, StopInv, FirstInv
<1>5. due[t] \/ used[t] \in left
  <2>1. t \in Turns /\ used[t] \in Turns
    BY DEF AllInv, TypeInv, TypeOK, Runs
  <2>2. phase[t] \in Busy \/ used[t] \in left
    BY <2>1 DEF AllInv, HoldInv, Runs
  <2>3. Stopped(t)
    BY DEF AllInv, StopInv, TargetInv
  <2>4. phase[t] # "stopping"
    BY <2>1 DEF AllInv, StopInv, TargetInv, Runs
  <2> QED
    BY <2>2, <2>3, <2>4 DEF Stopped, Busy, Over
<1>6. stops \in Nat
  BY CliPoolAssumption DEF AllInv, TypeInv, TypeOK
<1> QED
  BY <1>2, <1>3, <1>4, <1>5, <1>6

\* StopGoesThrough: StopReaches holds, for every number of turns and of /stop commands.
\* The first unscoped /stop finds every running session in the pool, because a
\* conversation has one turn at a time and the pool its session under the id it knows;
\* after that only the CancelledError of the turn itself is sure to come.
THEOREM StopGoesThrough == Spec => StopReaches
<1> DEFINE A == sweep = "sweeping" /\ sweep' = "idle" /\ server = "up" =>
        \A t \in targets : Runs(t) =>
            stops > 1 /\ used[t] \notin Pool /\ (due[t] \/ used[t] \in left)
<1>1. AllInv /\ [Next]_vars => [A]_vars
  BY SweepReaches
<1> QED
  BY <1>1, StopInit, StopStep, PTL DEF Spec, StopReaches

-----------------------------------------------------------------------------
(***************************************************************************)
(* The desktop assistant (Desktop).                                        *)
(***************************************************************************)

ActIds == Messages \X Nat \X Nat
Prefs == [notes : Seq(ActIds), whole : BOOLEAN]

Places == {"idle", "load", "save", "write", "match", "ask", "act", "asking", "asked",
           "answered", "lock", "running", "reply", "done"}

Threads == [at : Places, todo : Seq(Tools), turn : Nat, copy : Prefs]

\* The types of what the threads share.
SharedOK ==
    /\ prefs \in Prefs
    /\ saver \in SUBSET Messages
    /\ result \in [Messages -> BOOLEAN]
    /\ dialogs \in Seq(Messages)
    /\ granted \in SUBSET ActIds
    /\ ran \in SUBSET [id : ActIds, act : Tools]
    /\ told \in Seq(ActIds)
    /\ missed \in [Messages -> SUBSET ActIds] /\ lost \in SUBSET ActIds
    /\ hurt \in BOOLEAN

TalkTypeOK == thread \in [Messages -> Threads] /\ SharedOK

\* A thread at an act has one.
HasAct(t) ==
    t.at \in {"act", "asking", "asked", "answered", "lock", "running"} => t.todo # <<>>

\* A dialog is on the screen once, for a thread that waits for its answer.
DialogsOK ==
    /\ \A i \in 1 .. Len(dialogs) : thread[dialogs[i]].at = "asked"
    /\ \A i, j \in 1 .. Len(dialogs) : dialogs[i] = dialogs[j] => i = j

TalkInv == TalkTypeOK /\ DialogsOK /\ \A m \in Messages : HasAct(thread[m])

-----------------------------------------------------------------------------
(***************************************************************************)
(* Type correctness.                                                       *)
(***************************************************************************)

\* Where an act leads to is a thread.
LEMMA OnwardType ==
    ASSUME NEW t \in Threads, t.todo # <<>>
    PROVE  /\ Onward(t) \in Threads
           /\ HasAct(Onward(t))
           /\ Onward(t).at \in {"act", "ask", "reply"}
<1>1. Tail(t.todo) \in Seq(Tools) /\ Len(Tail(t.todo)) = Len(t.todo) - 1 /\ Len(t.todo) \in Nat
  BY DEF Threads
<1>2. Onward(t).at \in {"act", "ask", "reply"} /\ Onward(t).todo = Tail(t.todo)
  BY DEF Onward, Threads
<1>3. Onward(t) \in Threads
  BY <1>1 DEF Onward, Threads, Places
<1>4. Onward(t).at = "act" => Len(t.todo) > 1
  BY <1>1 DEF Onward, Threads
<1>5. Len(t.todo) > 1 => Tail(t.todo) # <<>>
  <2> DEFINE rest == Tail(t.todo)
  <2>1. rest \in Seq(Tools) /\ Len(rest) = Len(t.todo) - 1
    BY <1>1
  <2> HIDE DEF rest
  <2>2. Len(t.todo) > 1 => rest # <<>>
    BY <1>1, <2>1, EmptySeq
  <2> QED
    BY <2>2 DEF rest
<1> QED
  BY <1>1, <1>2, <1>3, <1>4, <1>5 DEF HasAct

\* The identity of the act of a thread.
LEMMA ActIdType ==
    ASSUME TalkTypeOK, NEW m \in Messages
    PROVE  ActId(m) \in ActIds
BY DEF TalkTypeOK, Threads, ActId, ActIds

\* The act of a thread that has one.
LEMMA ActType ==
    ASSUME TalkTypeOK, NEW m \in Messages, thread[m].todo # <<>>
    PROVE  Act(m) \in Tools
BY DEF TalkTypeOK, Threads, Act

\* A sequence with one more in front.
LEMMA ConsFacts ==
    ASSUME NEW S, NEW e \in S, NEW s \in Seq(S)
    PROVE  /\ Cons(e, s) \in Seq(S) /\ Len(Cons(e, s)) = Len(s) + 1 /\ Len(s) \in Nat
           /\ Cons(e, s)[1] = e /\ \A i \in 1 .. Len(s) : Cons(e, s)[i + 1] = s[i]
<1> DEFINE d == <<e>>
           c == d \o s
<1>1. d \in Seq(S) /\ Len(d) = 1 /\ d[1] = e /\ Len(s) \in Nat
  OBVIOUS
<1> HIDE DEF d
<1>2. /\ c \in Seq(S) /\ Len(c) = Len(d) + Len(s)
      /\ \A i \in 1 .. Len(d) + Len(s) : c[i] = IF i <= Len(d) THEN d[i] ELSE s[i - Len(d)]
  BY <1>1, ConcatProperties
<1> HIDE DEF c
<1>3. c \in Seq(S) /\ Len(c) = Len(s) + 1 /\ c[1] = e /\ \A i \in 1 .. Len(s) : c[i + 1] = s[i]
  BY <1>1, <1>2
<1>4. Cons(e, s) = c
  BY DEF Cons, c, d
<1> QED
  BY <1>1, <1>3, <1>4

\* The smaller one of two numbers.
LEMMA MinOfTwo ==
    ASSUME NEW i \in Nat, NEW j \in Nat
    PROVE  Min({i, j}) = IF i <= j THEN i ELSE j
<1> DEFINE least == IF i <= j THEN i ELSE j
<1>1. least \in {i, j} /\ \A y \in {i, j} : least <= y
  OBVIOUS
<1>2. \A x \in {i, j} : (\A y \in {i, j} : x <= y) => x = least
  OBVIOUS
<1> QED
  BY <1>1, <1>2 DEF Min

\* The file with one more note: it is the first, and the others follow, as far as they
\* are kept.
LEMMA WithNoteFacts ==
    ASSUME NEW p \in Prefs, NEW id \in ActIds
    PROVE  /\ WithNote(p, id) \in Prefs /\ WithNote(p, id).whole = p.whole
           /\ Len(WithNote(p, id).notes) \in Nat /\ Len(WithNote(p, id).notes) >= 1
           /\ WithNote(p, id).notes[1] = id
           /\ \A i \in 1 .. Len(p.notes) : i + 1 <= MaxNotes =>
                  i + 1 <= Len(WithNote(p, id).notes) /\ WithNote(p, id).notes[i + 1] = p.notes[i]
<1> DEFINE all == Cons(id, p.notes)
           n == IF MaxNotes <= Len(all) THEN MaxNotes ELSE Len(all)
           cut == SubSeq(all, 1, n)
<1>1. p.notes \in Seq(ActIds) /\ p.whole \in BOOLEAN /\ p = [notes |-> p.notes, whole |-> p.whole]
  BY DEF Prefs
<1>2. /\ all \in Seq(ActIds) /\ Len(all) = Len(p.notes) + 1 /\ Len(p.notes) \in Nat /\ all[1] = id
      /\ \A i \in 1 .. Len(p.notes) : all[i + 1] = p.notes[i]
  BY <1>1, ConsFacts
<1> HIDE DEF all
<1>3. n \in Nat /\ 1 <= n /\ n <= Len(all) /\ n <= MaxNotes /\ MaxNotes \in Nat
      /\ (n = MaxNotes \/ n = Len(all)) /\ Min({MaxNotes, Len(all)}) = n
  BY <1>2, SomeNotes, MinOfTwo
<1> HIDE DEF n
<1>4. cut \in Seq(ActIds) /\ Len(cut) = n /\ \A i \in 1 .. n : cut[i] = all[i]
  <2>1. \A i \in 1 .. n : all[i] \in ActIds
    BY <1>2, <1>3
  <2>2. /\ cut \in Seq(ActIds) /\ Len(cut) = (IF 1 <= n THEN n - 1 + 1 ELSE 0)
        /\ \A i \in 1 .. (n - 1 + 1) : cut[i] = all[1 + i - 1]
    BY <1>3, <2>1, SubSeqProperties
  <2> HIDE DEF cut
  <2>3. \A i \in 1 .. n : i \in 1 .. (n - 1 + 1) /\ 1 + i - 1 = i
    BY <1>3
  <2> QED
    BY <1>3, <2>2, <2>3
<1>5. WithNote(p, id) = [p EXCEPT !.notes = cut]
  BY <1>3 DEF WithNote, all
<1> HIDE DEF cut
<1>6. WithNote(p, id).notes = cut /\ WithNote(p, id).whole = p.whole /\ WithNote(p, id) \in Prefs
  BY <1>1, <1>4, <1>5 DEF Prefs
<1>7. \A i \in 1 .. Len(p.notes) : i + 1 <= MaxNotes => i + 1 <= n /\ cut[i + 1] = p.notes[i]
  BY <1>2, <1>3, <1>4
<1> QED
  BY <1>2, <1>3, <1>4, <1>6, <1>7

\* The files the assistant knows of itself, and what load returns.
LEMMA KnownPrefs ==
    /\ Cut \in Prefs /\ Defaults \in Prefs /\ ~Cut.whole /\ Defaults.whole
    /\ prefs \in Prefs => Loaded \in Prefs /\ Loaded.whole /\ (prefs.whole => Loaded = prefs)
<1>1. <<>> \in Seq(ActIds)
  OBVIOUS
<1>2. Cut \in Prefs /\ Defaults \in Prefs /\ ~Cut.whole /\ Defaults.whole
  BY <1>1 DEF Cut, Defaults, Prefs
<1> QED
  BY <1>2 DEF Loaded

\* The assistant starts with variables of their types.
LEMMA TalkTypeInit == TalkInit => TalkInv
<1> SUFFICES ASSUME TalkInit PROVE TalkInv
  OBVIOUS
<1>1. Defaults \in Prefs
  BY KnownPrefs
<1>2. New \in Threads /\ HasAct(New)
  BY <1>1 DEF New, Threads, Places, HasAct
<1>3. thread \in [Messages -> Threads] /\ \A m \in Messages : HasAct(thread[m])
  BY <1>2 DEF TalkInit
<1>4. <<>> \in Seq(Messages) /\ <<>> \in Seq(ActIds)
  OBVIOUS
<1>5. SharedOK
  BY <1>1, <1>4 DEF TalkInit, SharedOK
<1> QED
  <2>1. Len(dialogs) = 0
    BY EmptySeq DEF TalkInit
  <2> QED
    BY <1>3, <1>5, <2>1 DEF TalkInv, TalkTypeOK, DialogsOK

\* A thread goes to a place where it needs no act, or keeps the one it has.
LEMMA GoesType ==
    ASSUME TalkInv, NEW m \in Messages, NEW at \in Places, Goes(m, at),
           HasAct([thread[m] EXCEPT !.at = at])
    PROVE  thread' \in [Messages -> Threads] /\ \A n \in Messages : HasAct(thread'[n])
BY DEF TalkInv, TalkTypeOK, Goes, Threads, HasAct

\* A thread goes on after an act.
LEMMA OnwardStep ==
    ASSUME TalkInv, NEW m \in Messages, thread[m].todo # <<>>,
           thread' = [thread EXCEPT ![m] = Onward(@)]
    PROVE  thread' \in [Messages -> Threads] /\ \A n \in Messages : HasAct(thread'[n])
BY OnwardType DEF TalkInv, TalkTypeOK

\* The acts of a sentence or of an answer.
LEMMA ActsType ==
    ASSUME NEW n \in 0..MaxCalls, NEW list \in [1..n -> Tools]
    PROVE  list \in Seq(Tools) /\ (n > 0 => list # <<>>)
<1>1. list \in Seq(Tools) /\ Len(list) = n
  BY TalkBounds
<1> QED
  BY <1>1, EmptySeq

\* An act that is done.
LEMMA DoneType ==
    ASSUME TalkInv, NEW m \in Messages, thread[m].todo # <<>>, Done(m)
    PROVE  ran' \in SUBSET [id : ActIds, act : Tools]
BY ActIdType, ActType DEF Done, TalkInv, TalkTypeOK, SharedOK

\* The last of a sequence, and what is before it.
LEMMA LastFront ==
    ASSUME NEW S, NEW s \in Seq(S), s # <<>>
    PROVE  /\ Last(s) \in S /\ Front(s) \in Seq(S)
           /\ Len(s) \in Nat \ {0} /\ Len(Front(s)) = Len(s) - 1
           /\ Last(s) = s[Len(s)]
           /\ \A i \in 1 .. Len(s) - 1 : Front(s)[i] = s[i]
<1>1. Len(s) \in Nat \ {0} /\ \A i \in 1 .. Len(s) : s[i] \in S
  BY EmptySeq
<1>2. Last(s) \in S /\ Last(s) = s[Len(s)]
  BY <1>1 DEF Last
<1>3. \A i \in 1 .. Len(s) - 1 : s[i] \in S
  BY <1>1
<1>4. /\ SubSeq(s, 1, Len(s) - 1) \in Seq(S)
      /\ Len(SubSeq(s, 1, Len(s) - 1)) = Len(s) - 1
      /\ \A i \in 1 .. Len(s) - 1 : SubSeq(s, 1, Len(s) - 1)[i] = s[i]
  <2> DEFINE n == Len(s) - 1
  <2>1. 1 \in Int /\ n \in Int /\ n >= 0 /\ \A i \in 1 .. n : s[i] \in S
    BY <1>1, <1>3
  <2> HIDE DEF n
  <2>2. SubSeq(s, 1, n) \in Seq(S)
    BY <2>1
  <2>3. Len(SubSeq(s, 1, n)) = n
    BY <2>1
  <2>4. \A i \in 1 .. n : SubSeq(s, 1, n)[i] = s[i]
    BY <2>1
  <2> QED
    BY <2>2, <2>3, <2>4 DEF n
<1> QED
  BY <1>1, <1>2, <1>4 DEF Front

\* Every step keeps the types, and a thread at an act has one.
LEMMA TypesKept ==
    ASSUME TalkInv, [TalkNext]_talkVars
    PROVE  /\ thread' \in [Messages -> Threads] /\ \A n \in Messages : HasAct(thread'[n])
           /\ SharedOK'
<1> DEFINE ThreadsOK == thread' \in [Messages -> Threads] /\ \A n \in Messages : HasAct(thread'[n])
<1>1. ASSUME NEW m \in Messages, Send(m) PROVE ThreadsOK /\ SharedOK'
  BY <1>1, GoesType DEF Send, Places, HasAct, TalkInv, TalkTypeOK, SharedOK
<1>2. ASSUME NEW m \in Messages, Load(m) PROVE ThreadsOK /\ SharedOK'
  <2>1. Loaded \in Prefs /\ WithNote(Loaded, ActId(m)) \in Prefs
    BY KnownPrefs, WithNoteFacts, ActIdType DEF TalkInv, TalkTypeOK, SharedOK
  <2>3. ThreadsOK
    BY <1>2, <2>1 DEF Load, Threads, Places, HasAct, TalkInv, TalkTypeOK
  <2>4. SharedOK'
    <3>1. Unread \in SUBSET ActIds
      BY DEF Unread, ToSet, TalkInv, TalkTypeOK, SharedOK
    <3> QED
      BY <1>2, <3>1 DEF Load, TalkInv, TalkTypeOK, SharedOK
  <2> QED
    BY <2>3, <2>4
<1>3. ASSUME NEW m \in Messages, Save(m) PROVE ThreadsOK /\ SharedOK'
  <2>1. ThreadsOK
    BY <1>3, GoesType DEF Save, Places, HasAct
  <2>2. SharedOK'
    BY <1>3, KnownPrefs DEF Save, TalkInv, TalkTypeOK, SharedOK
  <2> QED
    BY <2>1, <2>2
<1>4. ASSUME NEW m \in Messages, Write(m) PROVE ThreadsOK /\ SharedOK'
  <2>1. ThreadsOK
    BY <1>4, GoesType, OnwardStep DEF Write, Places, HasAct
  <2>2. told' \in Seq(ActIds) /\ missed' \in [Messages -> SUBSET ActIds]
    <3>1. told \in Seq(ActIds) /\ missed \in [Messages -> SUBSET ActIds] /\ ActId(m) \in ActIds
      BY ActIdType DEF TalkInv, TalkTypeOK, SharedOK
    <3>2. Cons(ActId(m), told) \in Seq(ActIds)
      BY <3>1, ConsFacts
    <3> QED
      BY <1>4, <3>1, <3>2 DEF Write
  <2>3. SharedOK'
    BY <1>4, <2>2 DEF Write, Threads, TalkInv, TalkTypeOK, SharedOK
  <2> QED
    BY <2>1, <2>3
<1>5. ASSUME NEW m \in Messages, Match(m) PROVE ThreadsOK /\ SharedOK'
  <2>1. SharedOK'
    BY <1>5 DEF Match, TalkInv, TalkTypeOK, SharedOK
  <2>2. CASE Goes(m, "ask")
    BY <2>1, <2>2, GoesType DEF Places, HasAct
  <2>3. ASSUME NEW n \in 1..MaxCalls, NEW list \in [1..n -> Phrases],
               thread' = [thread EXCEPT ![m].at = "act", ![m].todo = list]
        PROVE  ThreadsOK
    <3>1. n \in 0..MaxCalls /\ n > 0 /\ list \in [1..n -> Tools]
      BY TalkBounds DEF Tools
    <3>2. list \in Seq(Tools) /\ list # <<>>
      BY <3>1, ActsType
    <3> QED
      BY <2>3, <3>2 DEF TalkInv, TalkTypeOK, Threads, Places, HasAct
  <2> QED
    BY <1>5, <2>1, <2>2, <2>3 DEF Match
<1>6. ASSUME NEW m \in Messages, Chat(m) PROVE ThreadsOK /\ SharedOK'
  <2>1. SharedOK'
    BY <1>6 DEF Chat, TalkInv, TalkTypeOK, SharedOK
  <2>2. PICK n \in 0..MaxCalls : \E list \in [1..n -> Tools] :
            thread' = [thread EXCEPT ![m].at = IF n = 0 THEN "reply" ELSE "act",
                                     ![m].todo = list, ![m].turn = @ + 1]
    BY <1>6 DEF Chat
  <2>3. PICK list \in [1..n -> Tools] :
            thread' = [thread EXCEPT ![m].at = IF n = 0 THEN "reply" ELSE "act",
                                     ![m].todo = list, ![m].turn = @ + 1]
    BY <2>2
  <2>4. list \in Seq(Tools) /\ (n > 0 => list # <<>>)
    BY ActsType
  <2>5. n # 0 => n > 0
    BY TalkBounds
  <2>6. CASE n = 0
    BY <2>1, <2>3, <2>4, <2>6 DEF TalkInv, TalkTypeOK, Threads, Places, HasAct
  <2>7. CASE n # 0
    BY <2>1, <2>3, <2>4, <2>5, <2>7 DEF TalkInv, TalkTypeOK, Threads, Places, HasAct
  <2> QED
    BY <2>6, <2>7
<1>7. ASSUME NEW m \in Messages, Reply(m) PROVE ThreadsOK /\ SharedOK'
  BY <1>7, GoesType DEF Reply, Places, HasAct, TalkInv, TalkTypeOK, SharedOK
<1>8. ASSUME NEW m \in Messages, Dispatch(m) PROVE ThreadsOK /\ SharedOK'
  <2>1. thread[m].todo # <<>>
    BY <1>8 DEF Dispatch, TalkInv, HasAct
  <2>2. Act(m) \in Tools
    BY <2>1, ActType DEF TalkInv
  <2>3. \/ Goes(m, "load") \/ Goes(m, "lock") \/ Goes(m, "asking")
        \/ thread' = [thread EXCEPT ![m] = Onward(@)]
    BY <1>8 DEF Dispatch
  <2>4. ran' = ran \/ Done(m)
    BY <1>8 DEF Dispatch
  <2>5. SharedOK'
    BY <1>8, <2>1, <2>4, DoneType DEF Dispatch, TalkInv, TalkTypeOK, SharedOK
  <2>6. HasAct([thread[m] EXCEPT !.at = "lock"]) /\ HasAct([thread[m] EXCEPT !.at = "load"])
        /\ HasAct([thread[m] EXCEPT !.at = "asking"])
    BY <2>1 DEF HasAct, TalkInv, TalkTypeOK, Threads
  <2> QED
    BY <2>1, <2>3, <2>5, <2>6, GoesType, OnwardStep DEF Places
<1>9. ASSUME NEW m \in Messages, Show(m) PROVE ThreadsOK /\ SharedOK'
  <2>1. ThreadsOK
    BY <1>9, GoesType DEF Show, Places, HasAct, TalkInv
  <2>2. SharedOK'
    BY <1>9 DEF Show, TalkInv, TalkTypeOK, SharedOK
  <2> QED
    BY <2>1, <2>2
<1>10. ASSUME NEW m \in Messages, Decide(m) PROVE ThreadsOK /\ SharedOK'
  <2>1. thread[m].todo # <<>>
    BY <1>10 DEF Decide, TalkInv, HasAct
  <2>2. ThreadsOK
    BY <1>10, <2>1, GoesType, OnwardStep DEF Decide, Places, HasAct
  <2>3. SharedOK'
    BY <1>10, <2>1, DoneType DEF Decide, TalkInv, TalkTypeOK, SharedOK
  <2> QED
    BY <2>2, <2>3
<1>11. ASSUME NEW m \in Messages, Run(m) PROVE ThreadsOK /\ SharedOK'
  <2>1. thread[m].todo # <<>>
    BY <1>11 DEF Run, TalkInv, HasAct
  <2> QED
    BY <1>11, <2>1, GoesType, DoneType DEF Run, Places, HasAct, TalkInv, TalkTypeOK, SharedOK
<1>12. ASSUME NEW m \in Messages, RunEnds(m) PROVE ThreadsOK /\ SharedOK'
  <2>1. thread[m].todo # <<>>
    BY <1>12 DEF RunEnds, TalkInv, HasAct
  <2> QED
    BY <1>12, <2>1, OnwardStep DEF RunEnds, TalkInv, TalkTypeOK, SharedOK
<1>13. ASSUME NEW yes \in BOOLEAN, Answer(yes) PROVE ThreadsOK /\ SharedOK'
  <2> DEFINE m == Last(dialogs)
  <2>1. m \in Messages /\ Front(dialogs) \in Seq(Messages)
    BY <1>13, LastFront DEF Answer, TalkInv, TalkTypeOK, SharedOK
  <2> HIDE DEF m
  <2>2. /\ result' = [result EXCEPT ![m] = yes]
        /\ granted' = IF yes THEN granted \cup {ActId(m)} ELSE granted
        /\ Goes(m, "answered")
        /\ dialogs' = Front(dialogs)
        /\ UNCHANGED <<prefs, saver, shell, kills, ran, told, missed, lost, hurt>>
    BY <1>13 DEF Answer, m
  <2>3. SharedOK'
    BY <2>1, <2>2, ActIdType DEF TalkInv, TalkTypeOK, SharedOK
  <2>4. thread[m].at = "asked"
    BY <1>13, LastFront DEF m, Answer, TalkInv, TalkTypeOK, SharedOK, DialogsOK
  <2>5. HasAct([thread[m] EXCEPT !.at = "answered"])
    BY <2>1, <2>4 DEF HasAct, TalkInv, TalkTypeOK, Threads
  <2> QED
    BY <2>1, <2>2, <2>3, <2>5, GoesType DEF Places
<1>14. ASSUME Kill PROVE ThreadsOK /\ SharedOK'
  <2>1. Defaults \in Prefs
    BY KnownPrefs
  <2>2. [New EXCEPT !.at = "done"] \in Threads /\ HasAct([New EXCEPT !.at = "done"])
    <3>1. New \in Threads
      BY <2>1 DEF New, Threads, Places
    <3>2. [New EXCEPT !.at = "done"] \in Threads /\ [New EXCEPT !.at = "done"].at = "done"
      BY <3>1 DEF Threads, Places
    <3> QED
      BY <3>2 DEF HasAct
  <2>3. ThreadsOK
    BY <1>14, <2>2 DEF Kill, TalkInv, TalkTypeOK
  <2>4. <<>> \in Seq(Messages)
    OBVIOUS
  <2>5. SharedOK'
    BY <1>14, <2>4 DEF Kill, TalkInv, TalkTypeOK, SharedOK
  <2> QED
    BY <2>3, <2>5
<1>15. CASE UNCHANGED talkVars
  BY <1>15 DEF talkVars, TalkInv, TalkTypeOK, SharedOK
<1> QED
  BY <1>1, <1>2, <1>3, <1>4, <1>5, <1>6, <1>7, <1>8, <1>9, <1>10, <1>11, <1>12, <1>13, <1>14, <1>15
     DEF TalkNext

\* Only what becomes of the threads that wait matters to the dialogs.
LEMMA DialogsStay ==
    ASSUME TalkInv, UNCHANGED dialogs,
           \A n \in Messages : thread[n].at = "asked" => thread'[n] = thread[n]
    PROVE  DialogsOK'
BY DEF TalkInv, TalkTypeOK, SharedOK, DialogsOK

\* Every step keeps the dialogs.
LEMMA DialogsKept ==
    ASSUME TalkInv, [TalkNext]_talkVars
    PROVE  DialogsOK'
<1>1. ASSUME NEW m \in Messages,
             Send(m) \/ Load(m) \/ Save(m) \/ Write(m) \/ Match(m) \/ Chat(m) \/ Reply(m)
      PROVE  DialogsOK'
  <2>1. \A n \in Messages : thread[n].at = "asked" => thread'[n] = thread[n]
    BY <1>1 DEF Send, Load, Save, Write, Match, Chat, Reply, Goes, TalkInv, TalkTypeOK
  <2>2. UNCHANGED dialogs
    BY <1>1 DEF Send, Load, Save, Write, Match, Chat, Reply
  <2> QED
    BY <2>1, <2>2, DialogsStay
<1>2. ASSUME NEW m \in Messages, Dispatch(m) \/ Decide(m) \/ Run(m) \/ RunEnds(m)
      PROVE  DialogsOK'
  <2>1. CASE Dispatch(m)
    <3>1. Act(m) \in Tools
      BY <2>1, ActType DEF Dispatch, TalkInv, HasAct
    <3>2. \A n \in Messages \ {m} : thread'[n] = thread[n]
      BY <2>1, <3>1 DEF Dispatch, Goes, TalkInv, TalkTypeOK
    <3> QED
      BY <2>1, <3>2, DialogsStay DEF Dispatch
  <2>2. CASE Decide(m) \/ Run(m) \/ RunEnds(m)
    <3>1. \A n \in Messages : thread[n].at = "asked" => thread'[n] = thread[n]
      BY <2>2 DEF Decide, Run, RunEnds, Goes, TalkInv, TalkTypeOK
    <3> QED
      BY <2>2, <3>1, DialogsStay DEF Decide, Run, RunEnds
  <2> QED
    BY <1>2, <2>1, <2>2
<1>3. ASSUME NEW m \in Messages, Show(m) PROVE DialogsOK'
  <2>1. /\ dialogs \in Seq(Messages) /\ dialogs' = Append(dialogs, m)
        /\ Len(dialogs') = Len(dialogs) + 1 /\ dialogs'[Len(dialogs) + 1] = m
        /\ \A i \in 1 .. Len(dialogs) : dialogs'[i] = dialogs[i]
    BY <1>3 DEF Show, TalkInv, TalkTypeOK, SharedOK
  <2>2. \A i \in 1 .. Len(dialogs) : dialogs[i] # m /\ dialogs[i] \in Messages
    BY <1>3, <2>1 DEF Show, TalkInv, DialogsOK
  <2>3. thread'[m].at = "asked" /\ \A n \in Messages \ {m} : thread'[n] = thread[n]
    BY <1>3 DEF Show, Goes, TalkInv, TalkTypeOK, Threads
  <2>4. \A i \in 1 .. Len(dialogs') : i \in 1 .. Len(dialogs) \/ i = Len(dialogs) + 1
    BY <2>1
  <2>5. \A i \in 1 .. Len(dialogs') : thread'[dialogs'[i]].at = "asked"
    BY <2>1, <2>2, <2>3, <2>4 DEF TalkInv, DialogsOK
  <2>6. \A i, j \in 1 .. Len(dialogs') : dialogs'[i] = dialogs'[j] => i = j
    BY <2>1, <2>2, <2>4 DEF TalkInv, DialogsOK
  <2> QED
    BY <2>5, <2>6 DEF DialogsOK
<1>4. ASSUME NEW yes \in BOOLEAN, Answer(yes) PROVE DialogsOK'
  <2> DEFINE m == Last(dialogs)
  <2>1. /\ m \in Messages /\ dialogs' \in Seq(Messages)
        /\ Len(dialogs) \in Nat \ {0} /\ Len(dialogs') = Len(dialogs) - 1
        /\ m = dialogs[Len(dialogs)]
        /\ \A i \in 1 .. Len(dialogs) - 1 : dialogs'[i] = dialogs[i]
    BY <1>4, LastFront DEF Answer, TalkInv, TalkTypeOK, SharedOK
  <2> HIDE DEF m
  <2>2. \A i \in 1 .. Len(dialogs) - 1 : dialogs[i] # m
    BY <2>1 DEF TalkInv, DialogsOK
  <2>3. \A n \in Messages \ {m} : thread'[n] = thread[n]
    BY <1>4 DEF m, Answer, Goes, TalkInv, TalkTypeOK
  <2>4. \A i \in 1 .. Len(dialogs') : i \in 1 .. Len(dialogs) /\ dialogs'[i] = dialogs[i]
            /\ dialogs[i] \in Messages \ {m}
    BY <2>1, <2>2 DEF TalkInv, TalkTypeOK, SharedOK
  <2> QED
    BY <2>3, <2>4 DEF TalkInv, DialogsOK
<1>5. ASSUME Kill PROVE DialogsOK'
  <2>1. Len(dialogs') = 0
    BY <1>5, EmptySeq DEF Kill
  <2> QED
    BY <2>1 DEF DialogsOK
<1>6. CASE UNCHANGED talkVars
  BY <1>6 DEF talkVars, TalkInv, DialogsOK
<1> QED
  BY <1>1, <1>2, <1>3, <1>4, <1>5, <1>6 DEF TalkNext

\* The invariant the others rest on.
LEMMA TalkInvNext == TalkInv /\ [TalkNext]_talkVars => TalkInv'
BY TypesKept, DialogsKept DEF TalkInv, TalkTypeOK

\* The types, the acts and the dialogs are right in every state.
THEOREM TalkTypeCorrect == DesktopSpec => []TalkInv
<1>1. DesktopInit => TalkInv
  BY TalkTypeInit DEF DesktopInit
<1>2. TalkInv /\ [DesktopNext]_<<configVars, talkVars, scene>> => TalkInv'
  BY TalkInvNext DEF DesktopNext
<1> QED
  BY <1>1, <1>2, PTL DEF DesktopSpec

-----------------------------------------------------------------------------
(***************************************************************************)
(* Nothing that asks is done unless the user said yes to it.               *)
(***************************************************************************)

\* A thread asks for what must be asked for, its result is the answer to its own dialog,
\* and one that waits for the shell has leave.
Consent(m) ==
    /\ thread[m].at \in {"asking", "asked", "answered"} => Asks(Act(m))
    /\ thread[m].at = "answered" /\ result[m] => ActId(m) \in granted
    /\ thread[m].at = "lock" => Act(m) # "blocked" /\ (Asks(Act(m)) => ActId(m) \in granted)

GrantInv == OnlyGrantedRuns /\ \A m \in Messages : Consent(m)

\* A thread whose acts and result stay keeps its leave.
LEMMA ConsentStays ==
    ASSUME TalkInv, NEW n \in Messages, Consent(n), thread'[n] = thread[n],
           result'[n] = result[n], granted \subseteq granted'
    PROVE  Consent(n)'
BY DEF Consent, Act, ActId

\* A thread at a place where nothing is asked for needs no leave.
LEMMA ConsentIdle ==
    ASSUME NEW n, thread'[n].at \notin {"asking", "asked", "answered", "lock"}
    PROVE  Consent(n)'
BY DEF Consent

\* A thread that goes to another place keeps its act.
LEMMA GoesAct ==
    ASSUME TalkInv, NEW m \in Messages, NEW at \in Places, Goes(m, at)
    PROVE  /\ thread'[m].at = at /\ Act(m)' = Act(m) /\ ActId(m)' = ActId(m)
           /\ \A n \in Messages \ {m} : thread'[n] = thread[n]
BY DEF Goes, Act, ActId, TalkInv, TalkTypeOK, Threads

\* So does one that goes on.
LEMMA OnwardIdle ==
    ASSUME TalkInv, NEW m \in Messages, thread[m].todo # <<>>,
           thread' = [thread EXCEPT ![m] = Onward(@)]
    PROVE  /\ thread'[m].at \in {"act", "ask", "reply"}
           /\ \A n \in Messages \ {m} : thread'[n] = thread[n]
BY OnwardType DEF TalkInv, TalkTypeOK

\* What is done had leave.
LEMMA DoneGranted ==
    ASSUME OnlyGrantedRuns, NEW m \in Messages, Done(m), granted' = granted,
           Act(m) # "blocked", Asks(Act(m)) => ActId(m) \in granted
    PROVE  OnlyGrantedRuns'
BY DEF OnlyGrantedRuns, Done, Asks

\* Every step keeps the leave of what was done and of what waits.
LEMMA GrantNext == TalkInv /\ GrantInv /\ [TalkNext]_talkVars => GrantInv'
<1> SUFFICES ASSUME TalkInv, GrantInv, [TalkNext]_talkVars
             PROVE  OnlyGrantedRuns' /\ \A n \in Messages : Consent(n)'
  BY DEF GrantInv
<1> DEFINE Kept == OnlyGrantedRuns' /\ \A n \in Messages : Consent(n)'
<1>1. ASSUME NEW m \in Messages,
             Send(m) \/ Load(m) \/ Save(m) \/ Write(m) \/ Match(m) \/ Chat(m) \/ Reply(m)
      PROVE  Kept
  <2>1. /\ thread'[m].at \notin {"asking", "asked", "answered", "lock"}
        /\ \A n \in Messages \ {m} : thread'[n] = thread[n]
    <3>1. CASE Send(m) \/ Load(m) \/ Save(m) \/ Reply(m)
      BY <3>1 DEF Send, Load, Save, Reply, Goes, TalkInv, TalkTypeOK, Threads
    <3>2. CASE Write(m)
      BY <3>2, OnwardIdle DEF Write, Goes, TalkInv, TalkTypeOK, Threads
    <3>3. CASE Match(m)
      BY <3>3 DEF Match, Goes, TalkInv, TalkTypeOK, Threads
    <3>4. CASE Chat(m)
      BY <3>4 DEF Chat, TalkInv, TalkTypeOK, Threads
    <3> QED
      BY <1>1, <3>1, <3>2, <3>3, <3>4
  <2>2. UNCHANGED <<result, granted, ran>>
    BY <1>1 DEF Send, Load, Save, Write, Match, Chat, Reply
  <2> QED
    BY <2>1, <2>2, ConsentStays, ConsentIdle DEF GrantInv, OnlyGrantedRuns
<1>2. ASSUME NEW m \in Messages, Dispatch(m) PROVE Kept
  <2>1. thread[m].todo # <<>> /\ Act(m) \in Tools /\ UNCHANGED <<result, granted>>
    BY <1>2, ActType DEF Dispatch, TalkInv, HasAct
  <2>2. CASE Act(m) = "note" /\ Goes(m, "load") /\ UNCHANGED ran
    BY <2>1, <2>2, GoesAct, ConsentStays, ConsentIdle DEF GrantInv, OnlyGrantedRuns, Places
  <2>3. CASE Act(m) = "harmless" /\ Goes(m, "lock") /\ UNCHANGED ran
    <3>1. Consent(m)'
      BY <2>3, GoesAct DEF Consent, Asks, Dangerous, Places
    <3> QED
      BY <2>1, <2>3, <3>1, GoesAct, ConsentStays DEF GrantInv, OnlyGrantedRuns, Places
  <2>4. CASE Asks(Act(m)) /\ Goes(m, "asking") /\ UNCHANGED ran
    <3>1. Consent(m)'
      BY <2>4, GoesAct DEF Consent, Asks, Places
    <3> QED
      BY <2>1, <2>4, <3>1, GoesAct, ConsentStays DEF GrantInv, OnlyGrantedRuns, Places
  <2>5. CASE /\ thread' = [thread EXCEPT ![m] = Onward(@)]
             /\ UNCHANGED ran \/ (Act(m) # "blocked" /\ ~Asks(Act(m)) /\ Done(m))
    <3>1. OnlyGrantedRuns'
      BY <2>1, <2>5, DoneGranted DEF GrantInv, OnlyGrantedRuns
    <3> QED
      BY <2>1, <2>5, <3>1, OnwardIdle, ConsentStays, ConsentIdle DEF GrantInv
  <2> QED
    BY <1>2, <2>1, <2>2, <2>3, <2>4, <2>5 DEF Dispatch
<1>3. ASSUME NEW m \in Messages, Show(m) PROVE Kept
  <2>1. Goes(m, "asked") /\ thread[m].at = "asking" /\ UNCHANGED <<result, granted, ran>>
    BY <1>3 DEF Show
  <2>2. Consent(m)'
    BY <2>1, GoesAct DEF GrantInv, Consent, Places
  <2> QED
    BY <2>1, <2>2, GoesAct, ConsentStays DEF GrantInv, OnlyGrantedRuns, Places
<1>4. ASSUME NEW m \in Messages, Decide(m) PROVE Kept
  <2>1. /\ thread[m].todo # <<>> /\ UNCHANGED <<result, granted>>
        /\ Asks(Act(m)) /\ (result[m] => ActId(m) \in granted)
    BY <1>4 DEF Decide, TalkInv, HasAct, GrantInv, Consent
  <2>2. CASE ~result[m] /\ thread' = [thread EXCEPT ![m] = Onward(@)] /\ UNCHANGED ran
    BY <2>1, <2>2, OnwardIdle, ConsentStays, ConsentIdle DEF GrantInv, OnlyGrantedRuns
  <2>3. CASE /\ result[m] /\ Act(m) = "poweroff"
             /\ thread' = [thread EXCEPT ![m] = Onward(@)] /\ Done(m)
    <3>1. OnlyGrantedRuns'
      BY <2>1, <2>3, DoneGranted DEF GrantInv
    <3> QED
      BY <2>1, <2>3, <3>1, OnwardIdle, ConsentStays, ConsentIdle DEF GrantInv
  <2>4. CASE result[m] /\ Act(m) = "risky" /\ Goes(m, "lock") /\ UNCHANGED ran
    <3>1. Consent(m)'
      BY <2>1, <2>4, GoesAct DEF Consent, Places
    <3> QED
      BY <2>1, <2>4, <3>1, GoesAct, ConsentStays DEF GrantInv, OnlyGrantedRuns, Places
  <2> QED
    BY <1>4, <2>2, <2>3, <2>4 DEF Decide
<1>5. ASSUME NEW m \in Messages, Run(m) PROVE Kept
  <2>1. Goes(m, "running") /\ Done(m) /\ UNCHANGED <<result, granted>>
    BY <1>5 DEF Run
  <2>2. OnlyGrantedRuns'
    BY <1>5, <2>1, DoneGranted DEF Run, GrantInv, Consent
  <2> QED
    BY <2>1, <2>2, GoesAct, ConsentStays, ConsentIdle DEF GrantInv, Places
<1>6. ASSUME NEW m \in Messages, RunEnds(m) PROVE Kept
  <2>1. thread[m].todo # <<>>
    BY <1>6 DEF RunEnds, TalkInv, HasAct
  <2> QED
    BY <1>6, <2>1, OnwardIdle, ConsentStays, ConsentIdle DEF RunEnds, GrantInv, OnlyGrantedRuns
<1>7. ASSUME NEW yes \in BOOLEAN, Answer(yes) PROVE Kept
  <2>1. PICK m \in Messages : m = Last(dialogs) /\ thread[m].at = "asked"
    BY <1>7, LastFront DEF Answer, TalkInv, TalkTypeOK, SharedOK, DialogsOK
  <2>2. /\ result' = [result EXCEPT ![m] = yes]
        /\ granted' = IF yes THEN granted \cup {ActId(m)} ELSE granted
        /\ Goes(m, "answered") /\ UNCHANGED ran
    BY <1>7, <2>1 DEF Answer
  <2>3. result'[m] = yes /\ \A n \in Messages \ {m} : result'[n] = result[n]
    BY <2>1, <2>2 DEF TalkInv, TalkTypeOK, SharedOK
  <2>4. Consent(m)'
    BY <2>1, <2>2, <2>3, GoesAct DEF GrantInv, Consent, Places
  <2>5. OnlyGrantedRuns'
    BY <2>2 DEF GrantInv, OnlyGrantedRuns
  <2> QED
    BY <2>1, <2>2, <2>3, <2>4, <2>5, GoesAct, ConsentStays DEF GrantInv, Places
<1>8. ASSUME Kill PROVE Kept
  <2>1. ASSUME NEW n \in Messages PROVE Consent(n)'
    BY <1>8, ConsentIdle DEF Kill, New
  <2> QED
    BY <1>8, <2>1 DEF Kill, GrantInv, OnlyGrantedRuns
<1>9. CASE UNCHANGED talkVars
  BY <1>9, ConsentStays DEF talkVars, GrantInv, OnlyGrantedRuns
<1> QED
  BY <1>1, <1>2, <1>3, <1>4, <1>5, <1>6, <1>7, <1>8, <1>9 DEF TalkNext

\* A risky command runs and the machine is switched off only with the user's leave for
\* that very act, and a blocked command never runs, however many dialogs are open and in
\* whatever order they are answered.
THEOREM NothingWithoutLeave == DesktopSpec => []OnlyGrantedRuns
<1>1. DesktopInit => TalkInv /\ GrantInv
  BY TalkTypeInit DEF DesktopInit, TalkInit, GrantInv, OnlyGrantedRuns, Consent, New
<1>2. TalkInv /\ GrantInv /\ [DesktopNext]_<<configVars, talkVars, scene>> => (TalkInv /\ GrantInv)'
  BY TalkInvNext, GrantNext DEF DesktopNext
<1>3. GrantInv => OnlyGrantedRuns
  BY DEF GrantInv
<1> QED
  BY <1>1, <1>2, <1>3, PTL DEF DesktopSpec

-----------------------------------------------------------------------------
(***************************************************************************)
(* The file of preferences.                                                *)
(***************************************************************************)

\* Threads between the reading and the writing of the file.
Updating == {m \in Messages : thread[m].at \in {"save", "write"}}

\* The lock is held by the thread that writes, and the file is cut off only then.
WriterInv ==
    /\ \A m \in Messages : thread[m].at = "write" => saver = {m}
    /\ saver # {} => \E m \in Messages : thread[m].at = "write"
    /\ \A m \in Updating : thread[m].copy.whole
    /\ ~hurt /\ saver = {} => prefs.whole

\* The notes of a file that is one by k newer than those the user was told of: each of
\* these that is still kept and not excused is at its place or further to the front.
Holds(notes, heard, excused, k) ==
    \A i \in 1 .. Len(heard) :
       i + k <= MaxNotes /\ heard[i] \notin excused =>
         \E j \in 1 .. Len(notes) : j <= i + k /\ notes[j] = heard[i]

\* A file that is about to be written holds what is not missed, and the note that it is
\* written for in front.
CopyHolds(t, heard, id, excused) ==
    IF t.todo = <<>>
    THEN Holds(t.copy.notes, heard, excused, 0)
    ELSE /\ Holds(t.copy.notes, heard, excused, 1)
         /\ Len(t.copy.notes) >= 1 /\ t.copy.notes[1] = id

NotesInv ==
    /\ \A m \in Updating : CopyHolds(thread[m], told, ActId(m), lost \cup missed[m])
    /\ prefs.whole => Holds(prefs.notes, told, lost, 0)

PrefsInv == WriterInv /\ NotesInv

\* With more that is excused, no less is held.
LEMMA HoldsLess ==
    ASSUME NEW s, NEW heard, NEW X, NEW Y, NEW k, Holds(s, heard, X, k), X \subseteq Y
    PROVE  Holds(s, heard, Y, k)
BY DEF Holds

\* What the user was told of, with one more note.
LEMMA ToldFacts ==
    ASSUME NEW id \in ActIds, NEW heard \in Seq(ActIds)
    PROVE  /\ Len(Cons(id, heard)) = Len(heard) + 1 /\ Len(heard) \in Nat /\ Cons(id, heard)[1] = id
           /\ \A i \in 1 .. Len(heard) : Cons(id, heard)[i + 1] = heard[i]
<1> DEFINE A == ActIds
<1>1. id \in A /\ heard \in Seq(A)
  OBVIOUS
<1> HIDE DEF A
<1>2. /\ Cons(id, heard) \in Seq(A) /\ Len(Cons(id, heard)) = Len(heard) + 1 /\ Len(heard) \in Nat
      /\ Cons(id, heard)[1] = id /\ \A i \in 1 .. Len(heard) : Cons(id, heard)[i + 1] = heard[i]
  BY <1>1, ConsFacts
<1> QED
  BY <1>2

\* A note that is told of and excused moves the others to places further back.
LEMMA HoldsGrow ==
    ASSUME NEW s \in Seq(ActIds), NEW heard \in Seq(ActIds), NEW X, NEW Y, NEW k \in {0, 1},
           NEW id \in ActIds, Holds(s, heard, X, k), X \subseteq Y, id \in Y
    PROVE  Holds(s, Cons(id, heard), Y, k)
<1> DEFINE more == Cons(id, heard)
<1>0. /\ Len(Cons(id, heard)) = Len(heard) + 1 /\ Len(heard) \in Nat /\ Cons(id, heard)[1] = id
      /\ \A i \in 1 .. Len(heard) : Cons(id, heard)[i + 1] = heard[i]
  BY ToldFacts
<1>1. /\ Len(more) = Len(heard) + 1 /\ Len(heard) \in Nat /\ more[1] = id
      /\ \A i \in 1 .. Len(heard) : more[i + 1] = heard[i]
  BY <1>0
<1> HIDE DEF more
<1>2. MaxNotes \in Nat /\ Len(s) \in Nat
  BY SomeNotes
<1>3. ASSUME NEW i \in 1 .. Len(more), i + k <= MaxNotes, more[i] \notin Y
      PROVE  \E j \in 1 .. Len(s) : j <= i + k /\ s[j] = more[i]
  <2>1. i - 1 \in 1 .. Len(heard) /\ more[i] = heard[i - 1]
    <3>1. i # 1
      BY <1>1, <1>3
    <3>2. i - 1 \in 1 .. Len(heard) /\ (i - 1) + 1 = i
      BY <1>1, <3>1
    <3> QED
      BY <1>1, <3>2
  <2>2. (i - 1) + k <= MaxNotes /\ heard[i - 1] \notin X
    BY <1>2, <1>3, <2>1
  <2>3. PICK j \in 1 .. Len(s) : j <= (i - 1) + k /\ s[j] = heard[i - 1]
    BY <2>1, <2>2 DEF Holds
  <2>4. j <= i + k
    BY <1>2, <2>3
  <2> QED
    BY <2>1, <2>3, <2>4
<1> QED
  BY <1>3 DEF Holds, more

\* A file with a note in front holds that note and what it held before.
LEMMA HoldsNote ==
    ASSUME NEW s \in Seq(ActIds), NEW heard \in Seq(ActIds), NEW X, NEW id \in ActIds,
           Holds(s, heard, X, 1), Len(s) >= 1, s[1] = id
    PROVE  Holds(s, Cons(id, heard), X, 0)
<1> DEFINE more == Cons(id, heard)
<1>0. /\ Len(Cons(id, heard)) = Len(heard) + 1 /\ Len(heard) \in Nat /\ Cons(id, heard)[1] = id
      /\ \A i \in 1 .. Len(heard) : Cons(id, heard)[i + 1] = heard[i]
  BY ToldFacts
<1>1. /\ Len(more) = Len(heard) + 1 /\ Len(heard) \in Nat /\ more[1] = id
      /\ \A i \in 1 .. Len(heard) : more[i + 1] = heard[i]
  BY <1>0
<1> HIDE DEF more
<1>2. MaxNotes \in Nat /\ Len(s) \in Nat
  BY SomeNotes
<1>3. ASSUME NEW i \in 1 .. Len(more), i + 0 <= MaxNotes, more[i] \notin X
      PROVE  \E j \in 1 .. Len(s) : j <= i + 0 /\ s[j] = more[i]
  <2>1. CASE i = 1
    <3>1. 1 \in 1 .. Len(s) /\ 1 <= i + 0 /\ s[1] = more[i]
      BY <1>1, <1>2, <2>1
    <3> QED
      BY <3>1
  <2>2. CASE i # 1
    <3>1. i - 1 \in 1 .. Len(heard) /\ (i - 1) + 1 = i
      BY <1>1, <2>2
    <3>2. more[i] = heard[i - 1]
      BY <1>1, <3>1
    <3>3. (i - 1) + 1 <= MaxNotes /\ heard[i - 1] \notin X
      BY <1>3, <3>1, <3>2
    <3>4. PICK j \in 1 .. Len(s) : j <= (i - 1) + 1 /\ s[j] = heard[i - 1]
      BY <3>1, <3>3 DEF Holds
    <3> QED
      BY <3>1, <3>2, <3>4
  <2> QED
    BY <2>1, <2>2
<1> QED
  BY <1>3 DEF Holds, more

\* What is read for a note holds one place further back what the file held.
LEMMA HoldsRead ==
    ASSUME NEW p \in Prefs, NEW heard \in Seq(ActIds), NEW X, NEW id \in ActIds,
           Holds(p.notes, heard, X, 0)
    PROVE  Holds(WithNote(p, id).notes, heard, X, 1)
<1> DEFINE s == WithNote(p, id).notes
<1>1. /\ Len(s) \in Nat
      /\ \A i \in 1 .. Len(p.notes) : i + 1 <= MaxNotes =>
             i + 1 <= Len(s) /\ s[i + 1] = p.notes[i]
  BY WithNoteFacts
<1> HIDE DEF s
<1>2. MaxNotes \in Nat /\ Len(p.notes) \in Nat /\ Len(heard) \in Nat
  BY SomeNotes DEF Prefs
<1>3. ASSUME NEW i \in 1 .. Len(heard), i + 1 <= MaxNotes, heard[i] \notin X
      PROVE  \E j \in 1 .. Len(s) : j <= i + 1 /\ s[j] = heard[i]
  <2>1. PICK j \in 1 .. Len(p.notes) : j <= i + 0 /\ p.notes[j] = heard[i]
    BY <1>2, <1>3 DEF Holds
  <2>2. j + 1 \in 1 .. Len(s) /\ s[j + 1] = heard[i] /\ j + 1 <= i + 1
    BY <1>1, <1>2, <1>3, <2>1
  <2> QED
    BY <2>2
<1> QED
  BY <1>3 DEF Holds, s

\* Nothing must be held of what is excused.
LEMMA HoldsNothing ==
    ASSUME NEW s, NEW heard \in Seq(ActIds), NEW X, ToSet(heard) \subseteq X, NEW k
    PROVE  Holds(s, heard, X, k)
BY DEF Holds, ToSet

\* Steps that leave the file, its lock and what was told alone, and bring no thread
\* between the reading and the writing.
LEMMA PrefsStay ==
    ASSUME TalkInv, PrefsInv, UNCHANGED <<prefs, saver, told, missed, lost, hurt>>,
           \A n \in Messages :
              \/ thread'[n] = thread[n]
              \/ thread[n].at \notin {"save", "write"} /\ thread'[n].at \notin {"save", "write"}
    PROVE  PrefsInv'
<1>1. \A n \in Messages : \/ thread'[n] = thread[n] /\ ActId(n)' = ActId(n)
                          \/ n \notin Updating /\ n \notin Updating'
  BY DEF Updating, ActId
<1>2. Updating' = Updating /\ \A n \in Updating : thread'[n] = thread[n] /\ ActId(n)' = ActId(n)
  BY <1>1 DEF Updating
<1>3. WriterInv'
  <2>1. \A n \in Messages : thread'[n].at = "write" <=> thread[n].at = "write"
    OBVIOUS
  <2> QED
    BY <1>2, <2>1 DEF PrefsInv, WriterInv
<1>4. NotesInv'
  BY <1>2 DEF PrefsInv, NotesInv
<1> QED
  BY <1>3, <1>4 DEF PrefsInv

\* Reading.
LEMMA PrefsLoad ==
    ASSUME TalkInv, PrefsInv, NEW m \in Messages, Load(m)
    PROVE  PrefsInv'
<1>1. /\ thread'[m].at = "save" /\ thread'[m].todo = thread[m].todo
      /\ ActId(m)' = ActId(m)
      /\ \A n \in Messages \ {m} : thread'[n] = thread[n] /\ ActId(n)' = ActId(n)
      /\ thread'[m].copy = IF thread[m].todo = <<>> THEN Loaded ELSE WithNote(Loaded, ActId(m))
      /\ UNCHANGED <<prefs, saver, told, lost, hurt>>
      /\ missed'[m] = Unread /\ \A n \in Messages \ {m} : missed'[n] = missed[n]
  BY DEF Load, ActId, TalkInv, TalkTypeOK, SharedOK, Threads
<1>2. Loaded \in Prefs /\ Loaded.whole /\ (prefs.whole => Loaded = prefs)
  BY KnownPrefs DEF TalkInv, TalkTypeOK, SharedOK
<1>3. ActId(m) \in ActIds /\ told \in Seq(ActIds)
  BY ActIdType DEF TalkInv, TalkTypeOK, SharedOK
<1>4. m \notin Updating /\ Updating' = Updating \cup {m}
  BY <1>1 DEF Updating, Load
<1>5. WriterInv'
  <2>1. \A n \in Messages : thread'[n].at = "write" <=> thread[n].at = "write"
    BY <1>1 DEF Load
  <2>2. thread'[m].copy.whole
    BY <1>1, <1>2, <1>3, WithNoteFacts
  <2>3. \A n \in Updating' : thread'[n].copy.whole
    BY <1>1, <1>4, <2>2 DEF PrefsInv, WriterInv, Updating
  <2> QED
    BY <1>1, <2>1, <2>3 DEF PrefsInv, WriterInv
<1>6. Holds(Loaded.notes, told, lost \cup Unread, 0)
  <2>1. CASE prefs.whole
    BY <1>2, <2>1, HoldsLess DEF PrefsInv, NotesInv
  <2>2. CASE ~prefs.whole
    BY <1>3, <2>2, HoldsNothing DEF Unread
  <2> QED
    BY <2>1, <2>2
<1>7. CopyHolds(thread'[m], told, ActId(m), lost \cup Unread)
  <2>1. CASE thread[m].todo = <<>>
    BY <1>1, <1>6, <2>1 DEF CopyHolds
  <2>2. CASE thread[m].todo # <<>>
    <3>1. Holds(WithNote(Loaded, ActId(m)).notes, told, lost \cup Unread, 1)
      BY <1>2, <1>3, <1>6, HoldsRead
    <3>2. /\ Len(WithNote(Loaded, ActId(m)).notes) >= 1
          /\ WithNote(Loaded, ActId(m)).notes[1] = ActId(m)
      BY <1>2, <1>3, WithNoteFacts
    <3> QED
      BY <1>1, <2>2, <3>1, <3>2 DEF CopyHolds
  <2> QED
    BY <2>1, <2>2
<1>8. NotesInv'
  <2>1. ASSUME NEW n \in Updating'
        PROVE  CopyHolds(thread'[n], told', ActId(n)', lost' \cup missed'[n])
    <3>1. CASE n = m
      BY <1>1, <1>7, <3>1
    <3>2. CASE n # m
      <4>1. n \in Updating /\ n \in Messages \ {m}
        BY <1>4, <3>2 DEF Updating
      <4> QED
        BY <1>1, <4>1 DEF PrefsInv, NotesInv
    <3> QED
      BY <3>1, <3>2
  <2>2. prefs'.whole => Holds(prefs'.notes, told', lost', 0)
    BY <1>1 DEF PrefsInv, NotesInv
  <2> QED
    BY <2>1, <2>2 DEF NotesInv
<1> QED
  BY <1>5, <1>8 DEF PrefsInv

\* Opening the file, which empties it.
LEMMA PrefsSave ==
    ASSUME TalkInv, PrefsInv, NEW m \in Messages, Save(m)
    PROVE  PrefsInv'
<1>1. /\ thread[m].at = "save" /\ thread'[m].at = "write" /\ thread'[m].copy = thread[m].copy
      /\ thread'[m].todo = thread[m].todo /\ ActId(m)' = ActId(m)
      /\ \A n \in Messages \ {m} : thread'[n] = thread[n] /\ ActId(n)' = ActId(n)
      /\ UNCHANGED <<told, missed, lost, hurt>> /\ saver = {} /\ saver' = {m} /\ ~prefs'.whole
  BY KnownPrefs DEF Save, Goes, ActId, TalkInv, TalkTypeOK, Threads
<1>2. Updating' = Updating
  BY <1>1 DEF Updating
<1>3. WriterInv'
  <2>1. \A n \in Messages : thread'[n].at = "write" => n = m
    BY <1>1 DEF PrefsInv, WriterInv
  <2>2. \A n \in Updating' : thread'[n].copy.whole
    BY <1>1, <1>2 DEF PrefsInv, WriterInv, Updating
  <2> QED
    BY <1>1, <2>1, <2>2 DEF WriterInv
<1>4. NotesInv'
  <2>1. \A n \in Updating : /\ thread'[n].copy = thread[n].copy /\ thread'[n].todo = thread[n].todo
                            /\ ActId(n)' = ActId(n)
    BY <1>1 DEF Updating
  <2> QED
    BY <1>1, <1>2, <2>1 DEF PrefsInv, NotesInv, CopyHolds
<1> QED
  BY <1>3, <1>4 DEF PrefsInv

\* Closing the file.
LEMMA PrefsWrite ==
    ASSUME TalkInv, PrefsInv, NEW m \in Messages, Write(m)
    PROVE  PrefsInv'
<1>1. /\ thread[m].at = "write" /\ prefs' = thread[m].copy /\ saver' = {}
      /\ UNCHANGED hurt /\ lost' = lost \cup missed[m]
      /\ thread[m].todo = <<>> => UNCHANGED <<told, missed>>
      /\ thread[m].todo # <<>> => /\ told' = Cons(ActId(m), told)
                                  /\ \A n \in Messages : missed'[n] = missed[n] \cup {ActId(m)}
  BY DEF Write
<1>2. /\ thread'[m].at \notin {"save", "write"}
      /\ \A n \in Messages \ {m} : thread'[n] = thread[n] /\ ActId(n)' = ActId(n)
  BY OnwardIdle DEF Write, Goes, ActId, TalkInv, TalkTypeOK, Threads
<1>3. m \in Updating /\ Updating' = Updating \ {m}
  BY <1>1, <1>2 DEF Updating
<1>4. saver = {m} /\ thread[m].copy.whole
  BY <1>1, <1>3 DEF PrefsInv, WriterInv
<1>5. WriterInv'
  <2>1. \A n \in Messages : thread'[n].at # "write"
    BY <1>2, <1>4 DEF PrefsInv, WriterInv
  <2>2. \A n \in Updating' : thread'[n].copy.whole
    BY <1>2, <1>3 DEF PrefsInv, WriterInv, Updating
  <2> QED
    BY <1>1, <1>4, <2>1, <2>2 DEF WriterInv
<1>6. /\ ActId(m) \in ActIds /\ told \in Seq(ActIds)
      /\ \A n \in Messages : thread[n].copy.notes \in Seq(ActIds)
  BY ActIdType DEF TalkInv, TalkTypeOK, SharedOK, Threads, Prefs
<1>7. \A n \in Updating : CopyHolds(thread[n], told, ActId(n), lost \cup missed[n])
  BY DEF PrefsInv, NotesInv
<1>8. Holds(prefs'.notes, told', lost', 0)
  <2>1. CASE thread[m].todo = <<>>
    BY <1>1, <1>3, <1>7, <2>1 DEF CopyHolds
  <2>2. CASE thread[m].todo # <<>>
    <3>1. /\ Holds(thread[m].copy.notes, told, lost', 1)
          /\ Len(thread[m].copy.notes) >= 1 /\ thread[m].copy.notes[1] = ActId(m)
          /\ thread[m].copy.notes \in Seq(ActIds)
      BY <1>1, <1>3, <1>6, <1>7, <2>2 DEF CopyHolds
    <3>2. Holds(thread[m].copy.notes, Cons(ActId(m), told), lost', 0)
      BY <1>6, <3>1, HoldsNote
    <3> QED
      BY <1>1, <2>2, <3>2
  <2> QED
    BY <2>1, <2>2
<1>9. ASSUME NEW n \in Updating'
      PROVE  CopyHolds(thread'[n], told', ActId(n)', lost' \cup missed'[n])
  <2> DEFINE X == lost \cup missed[n]
             Y == lost' \cup missed'[n]
             s == thread[n].copy.notes
  <2>1. n \in Updating /\ n \in Messages \ {m} /\ thread'[n] = thread[n] /\ ActId(n)' = ActId(n)
    BY <1>2, <1>3 DEF Updating
  <2>2. X \subseteq Y /\ s \in Seq(ActIds)
    BY <1>1, <1>6, <2>1
  <2>3. CopyHolds(thread[n], told, ActId(n), X)
    BY <1>7, <2>1
  <2>4. \A k \in {0, 1} : Holds(s, told, X, k) => Holds(s, told', Y, k)
    <3>1. CASE thread[m].todo = <<>>
      BY <1>1, <2>2, <3>1, HoldsLess
    <3>2. CASE thread[m].todo # <<>>
      <4>1. ActId(m) \in Y /\ told' = Cons(ActId(m), told)
        BY <1>1, <2>1, <3>2
      <4> HIDE DEF X, Y, s
      <4> QED
        BY <1>6, <2>2, <4>1, HoldsGrow
    <3> QED
      BY <3>1, <3>2
  <2> HIDE DEF X, Y
  <2>5. CopyHolds(thread[n], told', ActId(n), Y)
    BY <2>3, <2>4 DEF CopyHolds
  <2> QED
    BY <2>1, <2>5 DEF Y
<1>10. NotesInv'
  BY <1>8, <1>9 DEF NotesInv
<1> QED
  BY <1>5, <1>10 DEF PrefsInv

\* Every step keeps the file and the notes.
LEMMA PrefsNext == TalkInv /\ PrefsInv /\ [TalkNext]_talkVars => PrefsInv'
<1> SUFFICES ASSUME TalkInv, PrefsInv, [TalkNext]_talkVars PROVE PrefsInv'
  OBVIOUS
<1> DEFINE Away(m) == /\ \A n \in Messages \ {m} : thread'[n] = thread[n]
                      /\ thread[m].at \notin {"save", "write"}
                      /\ thread'[m].at \notin {"save", "write"}
<1>1. ASSUME NEW m \in Messages, Send(m) \/ Match(m) \/ Chat(m) \/ Reply(m) PROVE PrefsInv'
  <2>1. Away(m)
    <3>1. CASE Send(m) \/ Reply(m)
      BY <3>1 DEF Send, Reply, Goes, TalkInv, TalkTypeOK, Threads
    <3>2. CASE Match(m)
      BY <3>2 DEF Match, Goes, TalkInv, TalkTypeOK, Threads
    <3>3. CASE Chat(m)
      BY <3>3 DEF Chat, TalkInv, TalkTypeOK, Threads
    <3> QED
      BY <1>1, <3>1, <3>2, <3>3
  <2> QED
    BY <1>1, <2>1, PrefsStay DEF Send, Match, Chat, Reply
<1>2. ASSUME NEW m \in Messages, Dispatch(m) PROVE PrefsInv'
  <2>1. thread[m].todo # <<>> /\ Act(m) \in Tools
    BY <1>2, ActType DEF Dispatch, TalkInv, HasAct
  <2>2. \/ Goes(m, "load") \/ Goes(m, "lock") \/ Goes(m, "asking")
        \/ thread' = [thread EXCEPT ![m] = Onward(@)]
    BY <1>2, <2>1 DEF Dispatch
  <2>3. Away(m)
    BY <1>2, <2>1, <2>2, GoesAct, OnwardIdle DEF Dispatch, Places
  <2> QED
    BY <1>2, <2>3, PrefsStay DEF Dispatch
<1>3. ASSUME NEW m \in Messages, Show(m) \/ Run(m) PROVE PrefsInv'
  <2>1. Away(m)
    BY <1>3, GoesAct DEF Show, Run, Places
  <2> QED
    BY <1>3, <2>1, PrefsStay DEF Show, Run
<1>4. ASSUME NEW m \in Messages, Decide(m) \/ RunEnds(m) PROVE PrefsInv'
  <2>1. thread[m].todo # <<>> /\ thread[m].at \notin {"save", "write"}
    BY <1>4 DEF Decide, RunEnds, TalkInv, HasAct
  <2>2. Away(m)
    BY <1>4, <2>1, GoesAct, OnwardIdle DEF Decide, RunEnds, Places
  <2> QED
    BY <1>4, <2>2, PrefsStay DEF Decide, RunEnds
<1>5. ASSUME NEW yes \in BOOLEAN, Answer(yes) PROVE PrefsInv'
  <2>1. PICK m \in Messages : m = Last(dialogs) /\ thread[m].at = "asked"
    BY <1>5, LastFront DEF Answer, TalkInv, TalkTypeOK, SharedOK, DialogsOK
  <2>2. Away(m)
    BY <1>5, <2>1, GoesAct DEF Answer, Places
  <2> QED
    BY <1>5, <2>2, PrefsStay DEF Answer
<1>6. ASSUME Kill PROVE PrefsInv'
  <2>1. /\ saver' = {} /\ UNCHANGED <<prefs, told, lost>> /\ hurt' = (hurt \/ ~prefs.whole)
        /\ \A n \in Messages : thread'[n].at \notin {"save", "write"}
    BY <1>6 DEF Kill, New
  <2>2. Updating' = {}
    BY <2>1 DEF Updating
  <2> QED
    BY <2>1, <2>2 DEF PrefsInv, WriterInv, NotesInv
<1>7. CASE UNCHANGED talkVars
  BY <1>7, PrefsStay DEF talkVars
<1> QED
  BY <1>1, <1>2, <1>3, <1>4, <1>5, <1>6, <1>7, PrefsLoad, PrefsSave, PrefsWrite DEF TalkNext

\* The preferences are never found cut off unless somebody writes them or the process
\* ended while somebody did, and each of the newest MaxNotes notes the user was told of
\* is in them, unless a thread wrote them that had not read it.
THEOREM NotesRemembered == DesktopSpec => []Remembered
<1>1. DesktopInit => TalkInv /\ PrefsInv
  <2>1. TalkInit => Updating = {} /\ prefs.whole /\ saver = {} /\ Len(told) = 0
    BY KnownPrefs, EmptySeq DEF TalkInit, Updating, New
  <2>2. TalkInit => PrefsInv
    BY <2>1 DEF TalkInit, New, PrefsInv, WriterInv, NotesInv, Holds
  <2> QED
    BY <2>2, TalkTypeInit DEF DesktopInit
<1>2. TalkInv /\ PrefsInv /\ [DesktopNext]_<<configVars, talkVars, scene>> => (TalkInv /\ PrefsInv)'
  BY TalkInvNext, PrefsNext DEF DesktopNext
<1>3. TalkInv /\ PrefsInv => Remembered
  <2> SUFFICES ASSUME TalkInv, PrefsInv PROVE Remembered
    OBVIOUS
  <2>1. /\ told \in Seq(ActIds) /\ Len(told) \in Nat /\ MaxNotes \in Nat
        /\ prefs.notes \in Seq(ActIds) /\ DOMAIN prefs.notes = 1 .. Len(prefs.notes)
    BY SomeNotes DEF TalkInv, TalkTypeOK, SharedOK, Prefs
  <2>2. ASSUME prefs.whole, NEW i \in 1 .. Min({MaxNotes, Len(told)}), told[i] \notin lost
        PROVE  told[i] \in ToSet(prefs.notes)
    <3>1. i \in 1 .. Len(told) /\ i + 0 <= MaxNotes
      BY <2>1, MinOfTwo
    <3>2. PICK j \in 1 .. Len(prefs.notes) : prefs.notes[j] = told[i]
      BY <2>2, <3>1 DEF PrefsInv, NotesInv, Holds
    <3> QED
      BY <2>1, <3>2 DEF ToSet
  <2> QED
    BY <2>2 DEF PrefsInv, WriterInv, Remembered
<1> QED
  BY <1>1, <1>2, <1>3, PTL DEF DesktopSpec
=============================================================================
