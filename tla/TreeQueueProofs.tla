--------------------------- MODULE TreeQueueProofs ---------------------------
(***************************************************************************)
(* What TreeQueue guarantees for any set of messages, any commands and any *)
(* bounds.                                                                 *)
(***************************************************************************)
EXTENDS TreeQueue, TLAPS

\* What the end of a turn does to the types it touches.
LEMMA EndTurnType ==
    ASSUME TypeOK, NEW m \in Msgs, EndTurn(m)
    PROVE  /\ queue' \in [Msgs -> SUBSET Msgs]
           /\ busy' \in [Msgs -> BOOLEAN]
           /\ current' \in [Msgs -> Msgs \cup {None}]
           /\ curTask' \in [Msgs -> Msgs \cup {None}]
           /\ task' \in [Msgs -> Phases]
           /\ cancelled' \in [Msgs -> BOOLEAN]
<1> DEFINE r == home[m]
<1>1. cancelled' \in [Msgs -> BOOLEAN]
  BY DEF EndTurn, TypeOK
<1>2. CASE /\ Idle(r)
           /\ task' = [task EXCEPT ![m] = "done"]
  BY <1>1, <1>2 DEF Idle, TypeOK, Phases
<1>3. ASSUME NEW n \in queue[r], NEW rest \in SUBSET queue[r],
             Popped(r, n, rest), Launch(r, n, rest),
             task' = [task EXCEPT ![m] = "done", ![n] = "created"]
      PROVE  /\ queue' \in [Msgs -> SUBSET Msgs]
             /\ busy' \in [Msgs -> BOOLEAN]
             /\ current' \in [Msgs -> Msgs \cup {None}]
             /\ curTask' \in [Msgs -> Msgs \cup {None}]
             /\ task' \in [Msgs -> Phases]
  <2>1. r \in Msgs => queue[r] \subseteq Msgs
    BY DEF TypeOK
  <2>2. queue' \in [Msgs -> SUBSET Msgs]
    BY <1>3, <2>1 DEF Launch, TypeOK
  <2>3. current' \in [Msgs -> Msgs \cup {None}]
    BY <1>3, <2>1 DEF Launch, TypeOK
  <2>4. curTask' \in [Msgs -> Msgs \cup {None}]
    BY <1>3, <2>1 DEF Launch, TypeOK
  <2>5. busy' \in [Msgs -> BOOLEAN]
    BY <1>3 DEF Launch, TypeOK
  <2>6. task' \in [Msgs -> Phases]
    BY <1>3 DEF TypeOK, Phases, Live
  <2> QED
    BY <2>2, <2>3, <2>4, <2>5, <2>6
<1> QED
  BY <1>1, <1>2, <1>3 DEF EndTurn

\* Saving trees keeps the store well typed.
LEMMA SaveType ==
    ASSUME TypeOK, NEW R, Save(R), state' \in [Msgs -> States]
    PROVE  saved' \in [Msgs -> States \cup {"absent"}]
BY DEF Save, TypeOK

\* Marking nodes keeps their states well typed.
LEMMA StateType ==
    ASSUME TypeOK
    PROVE  /\ \A m \in Msgs : Marked(m, "error") \in [Msgs -> States]
           /\ \A m \in Msgs : Marked(m, "in_progress") \in [Msgs -> States]
           /\ \A F : FailAll(F) \in [Msgs -> States]
           /\ \A m \in Msgs : \A c : AfterExit(m, c) \in [Msgs -> States]
<1>1. \A m \in Msgs : Marked(m, "error") \in [Msgs -> States]
  BY DEF Marked, TypeOK, States
<1>2. \A m \in Msgs : Marked(m, "in_progress") \in [Msgs -> States]
  BY DEF Marked, TypeOK, States
<1>3. \A F : FailAll(F) \in [Msgs -> States]
  BY DEF FailAll, TypeOK, States
<1>4. ASSUME NEW m \in Msgs, NEW c
      PROVE  AfterExit(m, c) \in [Msgs -> States]
  <2> DEFINE failed == IF c = "ok" THEN state ELSE FailAll(Failed(m))
  <2>1. failed \in [Msgs -> States]
    BY <1>3 DEF TypeOK
  <2> HIDE DEF failed
  <2>2. [failed EXCEPT ![m] = "completed"] \in [Msgs -> States]
    BY <2>1 DEF States
  <2>3. AfterExit(m, c) = IF Completes(m)
                          THEN [failed EXCEPT ![m] = "completed"] ELSE failed
    BY DEF AfterExit, failed
  <2> QED
    BY <2>1, <2>2, <2>3
<1> QED
  BY <1>1, <1>2, <1>3, <1>4

\* Cancelling the nodes of a tree, or whole trees, keeps the types.
LEMMA CancelType ==
    ASSUME TypeOK,
           \/ \E r, S : CancelNodes(r, S)
           \/ \E R : CancelTrees(R)
    PROVE  /\ queue' \in [Msgs -> SUBSET Msgs]
           /\ busy' \in [Msgs -> BOOLEAN]
           /\ current' \in [Msgs -> Msgs \cup {None}]
           /\ curTask' \in [Msgs -> Msgs \cup {None}]
           /\ cancelled' \in [Msgs -> BOOLEAN]
           /\ state' \in [Msgs -> States]
<1>1. ASSUME NEW r, NEW S, CancelNodes(r, S)
      PROVE  /\ queue' \in [Msgs -> SUBSET Msgs]
             /\ busy' \in [Msgs -> BOOLEAN]
             /\ current' \in [Msgs -> Msgs \cup {None}]
             /\ curTask' \in [Msgs -> Msgs \cup {None}]
             /\ cancelled' \in [Msgs -> BOOLEAN]
             /\ state' \in [Msgs -> States]
  <2>1. state' \in [Msgs -> States]
    BY <1>1, StateType DEF CancelNodes
  <2>2. queue' \in [Msgs -> SUBSET Msgs]
    BY <1>1 DEF CancelNodes, TypeOK
  <2>3. cancelled' \in [Msgs -> BOOLEAN]
    BY <1>1 DEF CancelNodes, TypeOK
  <2> QED
    BY <1>1, <2>1, <2>2, <2>3 DEF CancelNodes, TypeOK
<1>2. ASSUME NEW R, CancelTrees(R)
      PROVE  /\ queue' \in [Msgs -> SUBSET Msgs]
             /\ busy' \in [Msgs -> BOOLEAN]
             /\ current' \in [Msgs -> Msgs \cup {None}]
             /\ curTask' \in [Msgs -> Msgs \cup {None}]
             /\ cancelled' \in [Msgs -> BOOLEAN]
             /\ state' \in [Msgs -> States]
  <2>1. state' \in [Msgs -> States]
    BY <1>2, StateType DEF CancelTrees
  <2>2. queue' \in [Msgs -> SUBSET Msgs]
    BY <1>2 DEF CancelTrees, TypeOK
  <2>3. cancelled' \in [Msgs -> BOOLEAN]
    BY <1>2 DEF CancelTrees, TypeOK
  <2>4. busy' \in [Msgs -> BOOLEAN]
    BY <1>2 DEF CancelTrees, TypeOK
  <2> QED
    BY <1>2, <2>1, <2>2, <2>3, <2>4 DEF CancelTrees, TypeOK
<1> QED
  BY <1>1, <1>2

-----------------------------------------------------------------------------
(***************************************************************************)
(* Type correctness.                                                       *)
(***************************************************************************)

\* The queue starts with variables of their types.
LEMMA TypeInit == Init => TypeOK
BY BoundsAssumption DEF Init, TypeOK, States, Phases, Live

\* Intake: receiving, dropping and admitting a message.
LEMMA TypeIntake ==
    ASSUME TypeOK, NEW m \in Msgs, Receive(m) \/ Drop(m) \/ Admit(m)
    PROVE  TypeOK'
<1>1. CASE Receive(m)
  BY <1>1 DEF Receive, TypeOK, treeVars, queueVars, orderVars, runVars, cmdVars
<1>2. CASE Drop(m)
  BY <1>2 DEF Drop, TypeOK, treeVars, queueVars, orderVars, runVars, cmdVars
<1>3. CASE Admit(m)
  <2> DEFINE r == Root(m)
  <2>1. r \in Msgs
    BY <1>3 DEF Admit, Root, TypeOK
  <2>2. /\ intake' \in [Msgs -> {"new", "sending", "in", "lost"}]
        /\ home' \in [Msgs -> Msgs \cup {None}]
        /\ index' \in [Msgs -> Msgs \cup {None}]
        /\ trees' \subseteq Msgs
        /\ arrivals' \in Nat
        /\ place' \in [Msgs -> Nat]
    BY <1>3, <2>1 DEF Admit, TypeOK
  <2>3. nodes' \in [Msgs -> SUBSET Msgs]
    BY <1>3, <2>1 DEF Admit, TypeOK
  <2>4. /\ queue' \in [Msgs -> SUBSET Msgs]
        /\ busy' \in [Msgs -> BOOLEAN]
        /\ current' \in [Msgs -> Msgs \cup {None}]
        /\ curTask' \in [Msgs -> Msgs \cup {None}]
        /\ task' \in [Msgs -> Phases]
    <3>1. CASE /\ queue' = [queue EXCEPT ![r] = @ \cup {m}]
               /\ UNCHANGED <<busy, current, curTask, task>>
      BY <2>1, <3>1 DEF TypeOK
    <3>2. CASE Launch(r, m, queue[r]) /\ task' = [task EXCEPT ![m] = "created"]
      BY <2>1, <3>2 DEF TypeOK, Launch, Phases, Live
    <3> QED
      BY <1>3, <3>1, <3>2 DEF Admit
  <2>5. UNCHANGED <<parent, state, cancelled, runVars, cmdVars, restarts>>
    BY <1>3 DEF Admit
  <2>6. saved' \in [Msgs -> States \cup {"absent"}]
    BY <1>3, <2>5, SaveType DEF Admit, TypeOK
  <2> QED
    BY <2>2, <2>3, <2>4, <2>5, <2>6 DEF TypeOK, runVars, cmdVars
<1> QED
  BY <1>1, <1>2, <1>3

\* The steps of a turn.
LEMMA TypeTurn ==
    ASSUME TypeOK, NEW m \in Msgs, TurnStep(m)
    PROVE  TypeOK'
<1> USE DEF intakeVars, treeVars, queueVars, orderVars, runVars, cmdVars
<1>1. CASE Skip(m)
  BY <1>1, EndTurnType DEF Skip, TypeOK
<1>2. CASE Start(m)
  BY <1>2 DEF Start, TypeOK, States, Phases, Live
<1>3. CASE Acquire(m)
  <2>1. PICK reused \in BOOLEAN : captured' = [captured EXCEPT ![m] = reused]
    BY <1>3, Zenon DEF Acquire
  <2>2. captured' \in [Msgs -> BOOLEAN]
    BY <2>1 DEF TypeOK
  <2>3. task' \in [Msgs -> Phases]
    BY <1>3 DEF Acquire, TypeOK, Phases, Live
  <2> QED
    BY <1>3, <2>2, <2>3 DEF Acquire, TypeOK
<1>4. CASE AcquireFails(m)
  <2>1. state' \in [Msgs -> States]
    BY <1>4, StateType DEF AcquireFails
  <2>2. saved' \in [Msgs -> States \cup {"absent"}]
    BY <1>4, <2>1, SaveType DEF AcquireFails, SaveOwn
  <2> QED
    BY <1>4, <2>1, <2>2, EndTurnType DEF AcquireFails, TypeOK
<1>5. CASE SessionInfo(m)
  <2>1. state' \in [Msgs -> States]
    BY <1>5, StateType DEF SessionInfo
  <2>2. saved' \in [Msgs -> States \cup {"absent"}]
    BY <1>5, <2>1, SaveType DEF SessionInfo, SaveOwn
  <2> QED
    BY <1>5, <2>1, <2>2 DEF SessionInfo, TypeOK
<1>6. CASE ErrorEvent(m)
  <2>1. state' \in [Msgs -> States]
    BY <1>6, StateType DEF ErrorEvent
  <2>2. saved' \in [Msgs -> States \cup {"absent"}]
    BY <1>6, <2>1, SaveType DEF ErrorEvent, SaveFailed
  <2> QED
    BY <1>6, <2>1, <2>2 DEF ErrorEvent, TypeOK
<1>7. ASSUME NEW c \in {"ok", "failed"}, Exit(m, c)
      PROVE  TypeOK'
  <2>1. state' \in [Msgs -> States]
    BY <1>7, StateType DEF Exit
  <2>2. saved' \in [Msgs -> States \cup {"absent"}]
    <3>1. CASE UNCHANGED saved
      BY <3>1 DEF TypeOK
    <3>2. CASE SaveOwn(m) \/ SaveFailed(m)
      BY <3>2, <2>1, SaveType DEF SaveOwn, SaveFailed
    <3> QED
      BY <1>7, <3>1, <3>2 DEF Exit
  <2> QED
    BY <1>7, <2>1, <2>2 DEF Exit, TypeOK, Phases, Live
<1>8. CASE Crash(m)
  <2>1. state' \in [Msgs -> States]
    BY <1>8, StateType DEF Crash
  <2>2. saved' \in [Msgs -> States \cup {"absent"}]
    BY <1>8, <2>1, SaveType DEF Crash, SaveFailed
  <2> QED
    BY <1>8, <2>1, <2>2 DEF Crash, TypeOK, Phases, Live
<1>9. CASE CancelUnstarted(m)
  BY <1>9 DEF CancelUnstarted, TypeOK, Phases
<1>10. CASE CancelAcquiring(m)
  <2>1. state' \in [Msgs -> States]
    BY <1>10, StateType DEF CancelAcquiring
  <2>2. saved' \in [Msgs -> States \cup {"absent"}]
    BY <1>10, <2>1, SaveType DEF CancelAcquiring, SaveOwn
  <2> QED
    BY <1>10, <2>1, <2>2, EndTurnType DEF CancelAcquiring, TypeOK
<1>11. CASE DeliverCancel(m)
  BY <1>11 DEF DeliverCancel, TypeOK, Phases, Live
<1>12. CASE Stopped(m)
  <2>1. state' \in [Msgs -> States]
    BY <1>12, StateType DEF Stopped
  <2>2. saved' \in [Msgs -> States \cup {"absent"}]
    BY <1>12, <2>1, SaveType DEF Stopped, SaveOwn
  <2> QED
    BY <1>12, <2>1, <2>2 DEF Stopped, TypeOK, Phases, Live
<1>13. CASE Finish(m)
  BY <1>13, EndTurnType DEF Finish, TypeOK
<1> QED
  BY <1>1, <1>2, <1>3, <1>4, <1>5, <1>6, <1>7, <1>8, <1>9, <1>10, <1>11,
     <1>12, <1>13 DEF TurnStep

\* The commands.
LEMMA TypeCommand ==
    ASSUME TypeOK,
           \/ \E m \in Msgs : StopNode(m) \/ ClearBranch(m) \/ FinishClearBranch(m)
           \/ StopAll \/ SessionsStopped \/ Wipe
    PROVE  TypeOK'
<1> USE DEF intakeVars, treeVars, queueVars, orderVars, runVars, cmdVars
<1>0. ASSUME NEW c, Issue(c)
      PROVE  commands' \in 0..MaxCommands
  BY <1>0, BoundsAssumption DEF Issue, TypeOK
<1>1. ASSUME NEW m \in Msgs, StopNode(m) PROVE TypeOK'
  <2>1. saved' \in [Msgs -> States \cup {"absent"}]
    BY <1>1, CancelType, SaveType DEF StopNode
  <2> QED
    BY <1>0, <1>1, <2>1, CancelType DEF StopNode, TypeOK
<1>2. ASSUME NEW m \in Msgs, ClearBranch(m) PROVE TypeOK'
  <2>1. saved' \in [Msgs -> States \cup {"absent"}]
    BY <1>2, CancelType, SaveType DEF ClearBranch
  <2> QED
    BY <1>0, <1>2, <2>1, CancelType DEF ClearBranch, TypeOK
<1>3. ASSUME NEW b \in Msgs, FinishClearBranch(b) PROVE TypeOK'
  <2> DEFINE r == home[b]
             gone == IF b = r THEN nodes[r] ELSE Below(b)
  <2>1. CASE UNCHANGED <<nodes, trees, index, state, queueVars, cancelled, saved>>
    BY <1>3, <2>1 DEF FinishClearBranch, TypeOK
  <2>2. CASE /\ Forget(gone)
             /\ CancelTrees({r})
             /\ trees' = trees \ {r}
             /\ saved' = [m \in Msgs |-> IF home[m] = r THEN "absent" ELSE saved[m]]
             /\ UNCHANGED nodes
    <3>1. saved' \in [Msgs -> States \cup {"absent"}]
      BY <2>2 DEF TypeOK
    <3>2. index' \in [Msgs -> Msgs \cup {None}]
      BY <2>2 DEF Forget, TypeOK
    <3> QED
      BY <1>3, <2>2, <3>1, <3>2, CancelType DEF FinishClearBranch, TypeOK
  <2>3. CASE /\ Forget(gone)
             /\ nodes' = [nodes EXCEPT ![r] = @ \ gone]
             /\ saved' = [m \in Msgs |->
                            IF home[m] # r THEN saved[m]
                            ELSE IF m \in nodes[r] \ gone THEN state[m] ELSE "absent"]
             /\ UNCHANGED <<trees, state, queueVars, cancelled>>
    <3>1. saved' \in [Msgs -> States \cup {"absent"}]
      BY <2>3 DEF TypeOK
    <3>2. index' \in [Msgs -> Msgs \cup {None}]
      BY <2>3 DEF Forget, TypeOK
    <3>3. nodes' \in [Msgs -> SUBSET Msgs]
      BY <2>3 DEF TypeOK
    <3> QED
      BY <1>3, <2>3, <3>1, <3>2, <3>3 DEF FinishClearBranch, TypeOK
  <2> QED
    BY <1>3, <2>1, <2>2, <2>3 DEF FinishClearBranch
<1>4. CASE StopAll
  <2>1. reported' \subseteq Msgs
    <3>1. ASSUME NEW R \in SUBSET Msgs
          PROVE  Returned(R) \subseteq Msgs
      <4>1. \A r \in R : nodes[r] \subseteq Msgs
        BY <3>1 DEF TypeOK
      <4>2. \A x \in Returned(R) : \E r \in R : x \in nodes[r]
        BY DEF Returned, Cancellable
      <4> QED
        BY <4>1, <4>2
    <3>2. trees \in SUBSET Msgs /\ reported' = Returned(trees)
      BY <1>4 DEF StopAll, TypeOK
    <3> QED
      BY <3>1, <3>2
  <2>2. commands' \in 0..MaxCommands /\ global' \in {"stop", "clear"}
    BY <1>0, <1>4 DEF StopAll
  <2> QED
    BY <1>4, <2>1, <2>2, CancelType DEF StopAll, TypeOK
<1>5. CASE SessionsStopped
  <2>1. saved' \in [Msgs -> States \cup {"absent"}]
    BY <1>5, SaveType DEF SessionsStopped, TypeOK
  <2> QED
    BY <1>5, <2>1 DEF SessionsStopped, TypeOK
<1>6. CASE Wipe
  BY <1>6 DEF Wipe, TypeOK
<1> QED
  BY <1>1, <1>2, <1>3, <1>4, <1>5, <1>6

\* A restart, which rebuilds the trees from the file, keeps the types.
LEMMA TypeRestart ==
    ASSUME TypeOK, Restart
    PROVE  TypeOK'
<1>1. state' \in [Msgs -> States]
  BY DEF Restart, TypeOK, Reconciled, States, Active
<1>2. saved' \in [Msgs -> States \cup {"absent"}]
  BY <1>1 DEF Restart, TypeOK
<1>3. /\ restarts' \in 0..MaxRestarts
      /\ intake' \in [Msgs -> {"new", "sending", "in", "lost"}]
      /\ task' \in [Msgs -> Phases]
  BY BoundsAssumption DEF Restart, TypeOK, Phases
<1>4. nodes' \in [Msgs -> SUBSET Msgs] /\ trees' \subseteq Msgs
  BY DEF Restart, TypeOK
<1>5. index' \in [Msgs -> Msgs \cup {None}]
  BY DEF Restart, TypeOK
<1> QED
  BY <1>1, <1>2, <1>3, <1>4, <1>5
     DEF Restart, TypeOK, orderVars, runVars

\* The variables always hold values of their types.
THEOREM TypeCorrect == Spec => []TypeOK
<1>1. Init => TypeOK
  BY TypeInit
<1>2. TypeOK /\ [Next]_vars => TypeOK'
  <2> SUFFICES ASSUME TypeOK, [Next]_vars PROVE TypeOK'
    OBVIOUS
  <2>1. CASE UNCHANGED vars
    BY <2>1 DEF vars, TypeOK, intakeVars, treeVars, queueVars, orderVars,
                runVars, cmdVars
  <2>2. CASE Next
    BY <2>2, TypeIntake, TypeTurn, TypeCommand, TypeRestart DEF Next
  <2> QED
    BY <2>1, <2>2
<1> QED
  BY <1>1, <1>2, PTL DEF Spec

-----------------------------------------------------------------------------
(***************************************************************************)
(* The queues.  QueuedAreWaiting and InArrivalOrder need each other: a     *)
(* message is started at once only on a free tree, whose queue is empty    *)
(* because queued nodes imply a busy tree; and a node leaves the queue     *)
(* only as the oldest one, so nothing that stays behind arrived before it. *)
(* Admitted links a task and a place to the admission of the message.      *)
(***************************************************************************)
\* A started message was admitted, and an admitted one has a tree and a place.
Admitted ==
    \A m \in Msgs :
        /\ task[m] # "none" => intake[m] = "in"
        /\ intake[m] = "in" => home[m] \in Msgs /\ place[m] <= arrivals

QueueInv == QueuedAreWaiting /\ InArrivalOrder /\ Admitted

\* What most steps do to the queues: they only shrink, a tree that keeps
\* queued nodes stays as busy as it was, and no message is admitted or
\* started for the first time.
Calm ==
    /\ \A r \in Msgs : queue'[r] \subseteq queue[r]
    /\ \A r \in Msgs : queue'[r] = {} \/ busy'[r] = busy[r]
    /\ \A m \in Msgs : task'[m] = "none" <=> task[m] = "none"
    /\ \A m \in Msgs : intake'[m] = "in" <=> intake[m] = "in"
    /\ UNCHANGED <<home, place, arrivals>>

\* A calm step preserves the invariant.
LEMMA CalmStep ==
    ASSUME TypeOK, QueueInv, Calm
    PROVE  QueueInv'
<1> USE DEF Calm, QueueInv
<1>1. \A r \in Msgs : queue[r] \subseteq Msgs
  BY DEF TypeOK
<1>2. QueuedAreWaiting'
  <2> SUFFICES ASSUME NEW r \in Msgs, NEW m \in queue'[r]
               PROVE  /\ intake'[m] = "in"
                      /\ home'[m] = r
                      /\ task'[m] = "none"
                      /\ busy'[r]
    BY DEF QueuedAreWaiting
  <2>1. m \in queue[r] /\ m \in Msgs /\ busy'[r] = busy[r]
    BY <1>1
  <2> QED
    BY <2>1 DEF QueuedAreWaiting
<1>3. InArrivalOrder'
  BY <1>1 DEF InArrivalOrder
<1>4. Admitted'
  BY DEF Admitted
<1> QED
  BY <1>2, <1>3, <1>4

\* The end of a turn preserves the invariant.
LEMMA EndTurnStep ==
    ASSUME TypeOK, QueueInv, NEW m \in Msgs, task[m] # "none", EndTurn(m),
           UNCHANGED <<intake, home, place, arrivals>>
    PROVE  QueueInv'
<1> USE DEF QueueInv
<1> DEFINE r == home[m]
<1>1. /\ r \in Msgs
      /\ \A q \in Msgs : queue[q] \subseteq Msgs
      /\ place \in [Msgs -> Nat]
  BY DEF Admitted, TypeOK
<1>2. CASE /\ Idle(r)
           /\ task' = [task EXCEPT ![m] = "done"]
  <2>1. Calm
    BY <1>1, <1>2 DEF Calm, Idle, TypeOK
  <2> QED
    BY <2>1, CalmStep
<1>3. ASSUME NEW n \in queue[r], NEW rest \in SUBSET queue[r],
             Popped(r, n, rest), Launch(r, n, rest),
             task' = [task EXCEPT ![m] = "done", ![n] = "created"]
      PROVE  QueueInv'
  <2>1. /\ n \in Msgs
        /\ home[n] = r
        /\ intake[n] = "in"
        /\ n \notin rest
        /\ \A q \in rest : place[n] < place[q]
    BY <1>1, <1>3 DEF Popped, QueuedAreWaiting
  <2>2. /\ queue'[r] = rest
        /\ \A s \in Msgs \ {r} : queue'[s] = queue[s] /\ busy'[s] = busy[s]
        /\ busy'[r]
    BY <1>1, <1>3 DEF Launch, TypeOK
  <2>3. \A x \in Msgs : (task'[x] = "none" <=> task[x] = "none") \/ x = n
    BY <1>3, <2>1 DEF TypeOK
  <2>4. QueuedAreWaiting'
    <3> SUFFICES ASSUME NEW s \in Msgs, NEW x \in queue'[s]
                 PROVE  /\ intake'[x] = "in"
                        /\ home'[x] = s
                        /\ task'[x] = "none"
                        /\ busy'[s]
      BY DEF QueuedAreWaiting
    <3>1. x \in queue[s] /\ x \in Msgs
      BY <1>1, <1>3, <2>2
    <3>2. intake[x] = "in" /\ home[x] = s /\ task[x] = "none" /\ busy[s]
      BY <3>1 DEF QueuedAreWaiting
    <3>3. x # n
      BY <2>1, <2>2, <3>2
    <3> QED
      BY <2>2, <2>3, <3>1, <3>2, <3>3
  <2>5. InArrivalOrder'
    <3> SUFFICES ASSUME NEW s \in Msgs, NEW q \in queue'[s], NEW x \in Msgs,
                        home[x] = s, task'[x] # "none"
                 PROVE  place[x] < place[q]
      BY DEF InArrivalOrder
    <3>1. q \in queue[s]
      BY <1>3, <2>2
    <3>2. CASE x = n
      BY <2>1, <2>2, <3>2
    <3>3. CASE x # n
      BY <2>3, <3>1, <3>3 DEF InArrivalOrder
    <3> QED
      BY <3>2, <3>3
  <2>6. Admitted'
    BY <2>1, <2>3 DEF Admitted
  <2> QED
    BY <2>4, <2>5, <2>6
<1> QED
  BY <1>2, <1>3 DEF EndTurn

\* Admitting a message preserves the invariant.
LEMMA AdmitStep ==
    ASSUME TypeOK, QueueInv, NEW m \in Msgs, Admit(m)
    PROVE  QueueInv'
<1> USE DEF QueueInv
<1> DEFINE r == Root(m)
<1>1. /\ r \in Msgs
      /\ \A q \in Msgs : queue[q] \subseteq Msgs
      /\ place \in [Msgs -> Nat]
      /\ arrivals \in Nat
  BY DEF Admit, Root, TypeOK
<1>2. /\ intake[m] # "in" /\ intake'[m] = "in"
      /\ home'[m] = r
      /\ place'[m] = arrivals + 1
      /\ arrivals' = arrivals + 1
      /\ \A x \in Msgs \ {m} : /\ intake'[x] = intake[x]
                               /\ home'[x] = home[x]
                               /\ place'[x] = place[x]
  BY DEF Admit, TypeOK
<1>3. task[m] = "none" /\ \A q \in Msgs : m \notin queue[q]
  BY <1>2 DEF Admitted, QueuedAreWaiting
<1>4. \A x \in Msgs : intake[x] = "in" => place[x] < arrivals + 1
  BY <1>1 DEF Admitted
<1>5. CASE /\ busy[r]
           /\ queue' = [queue EXCEPT ![r] = @ \cup {m}]
           /\ UNCHANGED <<busy, current, curTask, task>>
  <2>1. \A s \in Msgs : \A q \in queue'[s] : (q = m /\ s = r) \/ (q # m /\ q \in queue[s])
    BY <1>1, <1>3, <1>5 DEF TypeOK
  <2>2. QueuedAreWaiting'
    <3> SUFFICES ASSUME NEW s \in Msgs, NEW q \in queue'[s]
                 PROVE  /\ intake'[q] = "in"
                        /\ home'[q] = s
                        /\ task'[q] = "none"
                        /\ busy'[s]
      BY DEF QueuedAreWaiting
    <3>1. CASE q = m /\ s = r
      BY <1>2, <1>3, <1>5, <3>1
    <3>2. CASE q # m /\ q \in queue[s]
      BY <1>1, <1>2, <1>5, <3>2 DEF QueuedAreWaiting
    <3> QED
      BY <2>1, <3>1, <3>2
  <2>3. InArrivalOrder'
    <3> SUFFICES ASSUME NEW s \in Msgs, NEW q \in queue'[s], NEW x \in Msgs,
                        home'[x] = s, task'[x] # "none"
                 PROVE  place'[x] < place'[q]
      BY DEF InArrivalOrder
    <3>1. x # m /\ task[x] # "none" /\ home[x] = s /\ intake[x] = "in"
      BY <1>2, <1>3, <1>5 DEF Admitted
    <3>2. CASE q = m
      BY <1>2, <1>4, <3>1, <3>2
    <3>3. CASE q # m /\ q \in queue[s]
      BY <1>1, <1>2, <3>1, <3>3 DEF InArrivalOrder
    <3> QED
      BY <2>1, <3>2, <3>3
  <2>4. Admitted'
    BY <1>1, <1>2, <1>3, <1>4, <1>5 DEF Admitted
  <2> QED
    BY <2>2, <2>3, <2>4
<1>6. CASE /\ ~busy[r]
           /\ Launch(r, m, queue[r])
           /\ task' = [task EXCEPT ![m] = "created"]
  <2>1. queue[r] = {}
    BY <1>1, <1>6 DEF QueuedAreWaiting
  <2>2. /\ queue'[r] = {}
        /\ \A s \in Msgs \ {r} : queue'[s] = queue[s] /\ busy'[s] = busy[s]
    BY <1>1, <1>6, <2>1 DEF Launch, TypeOK
  <2>3. \A x \in Msgs \ {m} : task'[x] = task[x]
    BY <1>6 DEF TypeOK
  <2>4. QueuedAreWaiting'
    <3> SUFFICES ASSUME NEW s \in Msgs, NEW q \in queue'[s]
                 PROVE  /\ intake'[q] = "in"
                        /\ home'[q] = s
                        /\ task'[q] = "none"
                        /\ busy'[s]
      BY DEF QueuedAreWaiting
    <3>1. s # r /\ q \in queue[s] /\ q # m /\ q \in Msgs
      BY <1>1, <1>3, <2>2
    <3> QED
      BY <1>2, <2>2, <2>3, <3>1 DEF QueuedAreWaiting
  <2>5. InArrivalOrder'
    <3> SUFFICES ASSUME NEW s \in Msgs, NEW q \in queue'[s], NEW x \in Msgs,
                        home'[x] = s, task'[x] # "none"
                 PROVE  place'[x] < place'[q]
      BY DEF InArrivalOrder
    <3>1. s # r /\ q \in queue[s] /\ q # m /\ q \in Msgs
      BY <1>1, <1>3, <2>2
    <3>2. x # m
      BY <1>2, <3>1
    <3> QED
      BY <1>2, <2>3, <3>1, <3>2 DEF InArrivalOrder
  <2>6. Admitted'
    BY <1>1, <1>2, <1>4, <2>3 DEF Admitted
  <2> QED
    BY <2>4, <2>5, <2>6
<1> QED
  BY <1>5, <1>6 DEF Admit

\* The steps of a turn preserve the invariant.
LEMMA TurnStepKeeps ==
    ASSUME TypeOK, QueueInv, NEW m \in Msgs, TurnStep(m)
    PROVE  QueueInv'
<1> USE DEF intakeVars, treeVars, queueVars, orderVars
<1>1. CASE Skip(m) \/ AcquireFails(m) \/ CancelAcquiring(m) \/ Finish(m)
  <2>1. /\ task[m] # "none"
        /\ EndTurn(m)
        /\ UNCHANGED <<intake, home, place, arrivals>>
    BY <1>1 DEF Skip, AcquireFails, CancelAcquiring, Finish
  <2> QED
    BY <2>1, EndTurnStep
<1>2. CASE SessionInfo(m) \/ ErrorEvent(m)
  <2>1. Calm
    BY <1>2 DEF SessionInfo, ErrorEvent, Calm
  <2> QED
    BY <2>1, CalmStep
<1>3. CASE \/ Start(m) \/ Acquire(m) \/ Exit(m, "ok") \/ Exit(m, "failed")
           \/ Crash(m) \/ CancelUnstarted(m) \/ DeliverCancel(m) \/ Stopped(m)
  <2>1. /\ \E p \in {"acquiring", "running", "closing", "done", "stopping"} :
              task' = [task EXCEPT ![m] = p]
        /\ task[m] # "none"
        /\ UNCHANGED <<intake, home, place, arrivals, queue, busy>>
    BY <1>3 DEF Start, Acquire, Exit, Crash, CancelUnstarted, DeliverCancel,
                Stopped, Reading
  <2>2. Calm
    BY <2>1 DEF Calm, TypeOK
  <2> QED
    BY <2>2, CalmStep
<1> QED
  BY <1>1, <1>2, <1>3 DEF TurnStep

\* Commands and restarts preserve the invariant.
LEMMA CommandKeeps ==
    ASSUME TypeOK, QueueInv,
           \/ \E m \in Msgs : StopNode(m) \/ ClearBranch(m) \/ FinishClearBranch(m)
           \/ StopAll \/ SessionsStopped \/ Wipe \/ Restart
    PROVE  QueueInv'
<1> USE DEF intakeVars, treeVars, queueVars, orderVars
<1>1. ASSUME NEW r, NEW S, CancelNodes(r, S),
             UNCHANGED <<intake, home, place, arrivals, task>>
      PROVE  Calm
  BY <1>1 DEF CancelNodes, Calm, TypeOK
<1>2. ASSUME NEW R, CancelTrees(R),
             UNCHANGED <<intake, home, place, arrivals, task>>
      PROVE  Calm
  BY <1>2 DEF CancelTrees, Calm, TypeOK
<1>3. ASSUME UNCHANGED <<intake, home, place, arrivals, task, queue, busy>>
      PROVE  Calm
  BY <1>3 DEF Calm
<1>4. ASSUME NEW m \in Msgs, StopNode(m) PROVE Calm
  BY <1>1, <1>4 DEF StopNode
<1>5. ASSUME NEW m \in Msgs, ClearBranch(m) PROVE Calm
  BY <1>1, <1>5 DEF ClearBranch
<1>6. ASSUME NEW m \in Msgs, FinishClearBranch(m) PROVE Calm
  BY <1>2, <1>3, <1>6 DEF FinishClearBranch
<1>7. ASSUME StopAll PROVE Calm
  BY <1>2, <1>7 DEF StopAll
<1>8. ASSUME SessionsStopped \/ Wipe PROVE Calm
  BY <1>3, <1>8 DEF SessionsStopped, Wipe
<1>9. ASSUME Restart PROVE Calm
  BY <1>9 DEF Restart, Calm, Live, TypeOK
<1> QED
  BY <1>4, <1>5, <1>6, <1>7, <1>8, <1>9, CalmStep

\* The invariant of the queues.
LEMMA QueueInvariant == Spec => []QueueInv
<1>1. Init => QueueInv
  BY DEF Init, QueueInv, QueuedAreWaiting, InArrivalOrder, Admitted
<1>2. TypeOK /\ QueueInv /\ [Next]_vars => QueueInv'
  <2> SUFFICES ASSUME TypeOK, QueueInv, [Next]_vars PROVE QueueInv'
    OBVIOUS
  <2>1. CASE UNCHANGED vars
    <3>1. Calm
      BY <2>1 DEF vars, intakeVars, treeVars, queueVars, orderVars, Calm
    <3> QED
      BY <3>1, CalmStep
  <2>2. ASSUME NEW m \in Msgs, Receive(m) \/ Drop(m)
        PROVE  QueueInv'
    <3>1. Calm
      BY <2>2 DEF Receive, Drop, treeVars, queueVars, orderVars, Calm, TypeOK
    <3> QED
      BY <3>1, CalmStep
  <2> QED
    BY <2>1, <2>2, AdmitStep, TurnStepKeeps, CommandKeeps DEF Next
<1> QED
  BY <1>1, <1>2, TypeCorrect, PTL DEF Spec

\* A queued message belongs to a busy tree and has not been started, so no
\* message is run twice and none is left behind on a free tree.
THEOREM QueuedWait == Spec => []QueuedAreWaiting
BY QueueInvariant, PTL DEF QueueInv

\* Each tree starts its messages in the order in which they arrived.
THEOREM ArrivalOrder == Spec => []InArrivalOrder
BY QueueInvariant, PTL DEF QueueInv

-----------------------------------------------------------------------------
(***************************************************************************)
(* The repository.  A tree it knows is known with all its nodes, and a     *)
(* node of a tree was admitted to that tree.                               *)
(***************************************************************************)
RegistryInv ==
    /\ \A r \in Msgs : \A m \in nodes[r] : home[m] = r /\ intake[m] = "in"
    /\ \A m \in Msgs : home[m] # None => intake[m] = "in" /\ intake[home[m]] = "in"
    /\ \A m \in Msgs : index[m] # None =>
          index[m] = home[m] /\ index[m] \in trees /\ m \in nodes[index[m]]
    /\ \A r \in trees : \A m \in nodes[r] : index[m] = r

\* Steps that leave the repository alone.
LEMMA RegistryStays ==
    ASSUME RegistryInv, UNCHANGED <<home, nodes, trees, index>>,
           \A m \in Msgs : intake[m] = "in" => intake'[m] = "in",
           TypeOK
    PROVE  RegistryInv'
BY DEF RegistryInv, TypeOK

\* What admitting a message does to the repository.
LEMMA AdmitRegisters ==
    ASSUME TypeOK, RegistryInv, NEW m \in Msgs, Admit(m)
    PROVE  \E r \in Msgs :
              /\ r = Root(m) /\ home[m] = None /\ m \notin nodes[r] /\ intake[m] = "sending"
              /\ home' = [home EXCEPT ![m] = r]
              /\ nodes' = [nodes EXCEPT ![r] = @ \cup {m}]
              /\ trees' = trees \cup {r}
              /\ index' = [index EXCEPT ![m] = r]
              /\ intake' = [intake EXCEPT ![m] = "in"]
              /\ r # m => intake[r] = "in" /\ r \in trees /\ parent[m] \in nodes[r]
              /\ r = m => \A n \in Msgs : home[n] # m
              /\ UNCHANGED parent
<1>1. PICK r \in Msgs : r = Root(m)
  BY DEF Admit, Root, TypeOK
<1>2. home[m] = None /\ m \notin nodes[r] /\ intake[m] = "sending"
  BY <1>1 DEF Admit, RegistryInv
<1>3. ASSUME r # m PROVE intake[r] = "in" /\ r \in trees /\ parent[m] \in nodes[r]
  <2>1. parent[m] \in Msgs /\ index[parent[m]] = r /\ r # None
    BY <1>1, <1>3, NoneAssumption DEF Root, TypeOK
  <2> QED
    BY <2>1 DEF RegistryInv, TypeOK
<1>4. r = m => \A n \in Msgs : home[n] # m
  BY <1>2, NoneAssumption DEF RegistryInv
<1> QED
  BY <1>1, <1>2, <1>3, <1>4 DEF Admit

\* Removing a branch, or the tree, takes its nodes out of the repository.
LEMMA ClearUnregisters ==
    ASSUME TypeOK, RegistryInv, NEW b \in Msgs, FinishClearBranch(b)
    PROVE  /\ UNCHANGED <<home, intake, parent>>
           /\ \/ UNCHANGED <<nodes, trees, index, state, queueVars, cancelled, saved>>
              \/ \E r \in Msgs : \E gone \in SUBSET nodes[r] :
                    /\ r = home[b] /\ index[b] = r
                    /\ Forget(gone)
                    /\ \/ /\ gone = nodes[r] /\ trees' = trees \ {r} /\ UNCHANGED nodes
                          /\ CancelTrees({r})
                          /\ saved' = [m \in Msgs |-> IF home[m] = r THEN "absent" ELSE saved[m]]
                       \/ /\ gone = Below(b) /\ nodes' = [nodes EXCEPT ![r] = @ \ gone]
                          /\ saved' = [m \in Msgs |->
                                          IF home[m] # r THEN saved[m]
                                          ELSE IF m \in nodes[r] \ gone THEN state[m] ELSE "absent"]
                          /\ UNCHANGED <<trees, state, queueVars, cancelled>>
<1> DEFINE r == home[b]
           gone == IF b = r THEN nodes[r] ELSE Below(b)
<1>1. UNCHANGED <<home, intake, parent>>
  BY DEF FinishClearBranch, intakeVars
<1>2. CASE index[b] = None
  BY <1>1, <1>2 DEF FinishClearBranch
<1>3. CASE index[b] # None
  <2>1. r \in Msgs /\ index[b] = r
    BY <1>3 DEF RegistryInv, TypeOK
  <2>2. gone \in SUBSET nodes[r]
    BY <2>1 DEF Below
  <2>3. CASE b = r
    BY <1>1, <1>3, <2>1, <2>2, <2>3 DEF FinishClearBranch
  <2>4. CASE b # r
    BY <1>1, <1>3, <2>1, <2>2, <2>4 DEF FinishClearBranch
  <2> QED
    BY <2>3, <2>4
<1> QED
  BY <1>2, <1>3

\* Every step keeps the repository.
LEMMA RegistryNext == TypeOK /\ RegistryInv /\ [Next]_vars => RegistryInv'
<1> SUFFICES ASSUME TypeOK, RegistryInv, [Next]_vars PROVE RegistryInv'
  OBVIOUS
<1> USE DEF intakeVars, treeVars
<1>1. ASSUME NEW m \in Msgs, Receive(m) \/ Drop(m) PROVE RegistryInv'
  BY <1>1, RegistryStays DEF Receive, Drop, TypeOK
<1>2. ASSUME NEW m \in Msgs, Admit(m) PROVE RegistryInv'
  <2>1. PICK r \in Msgs :
              /\ r = Root(m) /\ home[m] = None /\ m \notin nodes[r] /\ intake[m] = "sending"
              /\ home' = [home EXCEPT ![m] = r]
              /\ nodes' = [nodes EXCEPT ![r] = @ \cup {m}]
              /\ trees' = trees \cup {r}
              /\ index' = [index EXCEPT ![m] = r]
              /\ intake' = [intake EXCEPT ![m] = "in"]
              /\ r # m => intake[r] = "in" /\ r \in trees /\ parent[m] \in nodes[r]
              /\ r = m => \A n \in Msgs : home[n] # m
    BY <1>2, AdmitRegisters
  <2>2. /\ home'[m] = r /\ index'[m] = r /\ intake'[m] = "in" /\ intake'[r] = "in"
        /\ \A n \in Msgs \ {m} : home'[n] = home[n] /\ index'[n] = index[n]
        /\ \A n \in Msgs : intake[n] = "in" => intake'[n] = "in"
        /\ nodes'[r] = nodes[r] \cup {m}
        /\ \A q \in Msgs \ {r} : nodes'[q] = nodes[q] /\ m \notin nodes[q]
        /\ \A q \in Msgs : nodes[q] \subseteq Msgs
    BY <2>1 DEF RegistryInv, TypeOK
  <2>3. \A q \in Msgs : \A n \in nodes'[q] : home'[n] = q /\ intake'[n] = "in"
    BY <2>1, <2>2 DEF RegistryInv
  <2>4. \A n \in Msgs : home'[n] # None => intake'[n] = "in" /\ intake'[home'[n]] = "in"
    BY <2>1, <2>2 DEF RegistryInv, TypeOK
  <2>5. \A n \in Msgs : index'[n] # None =>
           index'[n] = home'[n] /\ index'[n] \in trees' /\ n \in nodes'[index'[n]]
    BY <2>1, <2>2 DEF RegistryInv, TypeOK
  <2>6. \A q \in trees' : \A n \in nodes'[q] : index'[n] = q
    <3>1. ASSUME NEW q \in trees, q # r, NEW n \in nodes'[q] PROVE index'[n] = q
      BY <2>1, <2>2, <3>1 DEF RegistryInv, TypeOK
    <3>2. ASSUME NEW n \in nodes'[r] PROVE index'[n] = r
      BY <2>1, <2>2, <3>2 DEF RegistryInv, TypeOK
    <3> QED
      BY <2>1, <3>1, <3>2
  <2> QED
    BY <2>3, <2>4, <2>5, <2>6 DEF RegistryInv
<1>3. ASSUME NEW m \in Msgs, TurnStep(m) PROVE RegistryInv'
  <2>1. UNCHANGED <<intakeVars, treeVars>>
    BY <1>3 DEF TurnStep, Skip, Start, Acquire, AcquireFails, SessionInfo, ErrorEvent, Exit,
                Crash, CancelUnstarted, CancelAcquiring, DeliverCancel, Stopped, Finish
  <2> QED
    BY <2>1, RegistryStays
<1>4. ASSUME NEW m \in Msgs, StopNode(m) \/ ClearBranch(m) PROVE RegistryInv'
  BY <1>4, RegistryStays DEF StopNode, ClearBranch
<1>5. ASSUME StopAll \/ SessionsStopped PROVE RegistryInv'
  BY <1>5, RegistryStays DEF StopAll, SessionsStopped
<1>6. ASSUME NEW b \in Msgs, FinishClearBranch(b) PROVE RegistryInv'
  <2>1. CASE UNCHANGED <<nodes, trees, index>>
    BY <1>6, <2>1, RegistryStays DEF FinishClearBranch
  <2>2. ASSUME NEW r \in Msgs, NEW gone \in SUBSET nodes[r], index[b] = r, Forget(gone),
               \/ gone = nodes[r] /\ trees' = trees \ {r} /\ UNCHANGED nodes
               \/ nodes' = [nodes EXCEPT ![r] = @ \ gone] /\ UNCHANGED trees
        PROVE  RegistryInv'
    <3>1. UNCHANGED <<home, intake>>
      BY <1>6 DEF FinishClearBranch
    <3>2. /\ \A n \in Msgs : index'[n] = IF n \in gone THEN None ELSE index[n]
          /\ \A q \in Msgs \ {r} : nodes'[q] = nodes[q]
          /\ nodes'[r] \subseteq nodes[r]
          /\ \A q \in Msgs : nodes[q] \subseteq Msgs
      BY <2>2 DEF Forget, TypeOK
    <3>3. \A q \in Msgs : \A n \in nodes'[q] : home'[n] = q /\ intake'[n] = "in"
      BY <3>1, <3>2 DEF RegistryInv
    <3>4. \A n \in Msgs : index'[n] # None =>
             index'[n] = home'[n] /\ index'[n] \in trees' /\ n \in nodes'[index'[n]]
      BY <2>2, <3>1, <3>2 DEF RegistryInv, TypeOK
    <3>5. \A q \in trees' : \A n \in nodes'[q] : index'[n] = q
      <4>1. ASSUME NEW q \in trees', NEW n \in nodes'[q] PROVE n \notin gone /\ q \in trees
        BY <2>2, <3>2, <4>1 DEF RegistryInv, TypeOK
      <4>2. trees' \subseteq Msgs
        BY <2>2 DEF TypeOK
      <4> QED
        BY <3>2, <4>1, <4>2 DEF RegistryInv
    <3> QED
      BY <3>1, <3>3, <3>4, <3>5 DEF RegistryInv
  <2> QED
    BY <1>6, <2>1, <2>2, ClearUnregisters
<1>7. ASSUME Wipe PROVE RegistryInv'
  BY <1>7 DEF Wipe, RegistryInv
<1>8. ASSUME Restart PROVE RegistryInv'
  <2>1. /\ UNCHANGED home
        /\ \A n \in Msgs : intake[n] = "in" => intake'[n] = "in"
        /\ \A n \in Msgs : index'[n] = IF saved[n] # "absent" THEN home[n] ELSE None
        /\ \A r \in Msgs : nodes'[r] = {n \in Msgs : saved[n] # "absent" /\ home[n] = r}
        /\ trees' = {r \in Msgs : nodes'[r] # {}}
    BY <1>8 DEF Restart, TypeOK
  <2>2. \A r \in Msgs : \A n \in nodes'[r] : n \in Msgs /\ home'[n] = r /\ index'[n] = r
                                             /\ intake'[n] = "in"
    BY <2>1, NoneAssumption DEF RegistryInv
  <2>3. \A n \in Msgs : index'[n] # None =>
           index'[n] = home'[n] /\ index'[n] \in trees' /\ n \in nodes'[index'[n]]
    BY <2>1 DEF TypeOK
  <2>4. \A n \in Msgs : home'[n] # None => intake'[n] = "in" /\ intake'[home'[n]] = "in"
    BY <2>1 DEF RegistryInv, TypeOK
  <2> QED
    BY <2>1, <2>2, <2>3, <2>4 DEF RegistryInv
<1>9. CASE UNCHANGED vars
  BY <1>9, RegistryStays DEF vars
<1> QED
  BY <1>1, <1>2, <1>3, <1>4, <1>5, <1>6, <1>7, <1>8, <1>9 DEF Next

\* The invariant of the repository.
LEMMA RegistryInvariant == Spec => []RegistryInv
<1>1. Init => RegistryInv
  BY DEF Init, RegistryInv
<1> QED
  BY <1>1, RegistryNext, TypeCorrect, PTL DEF Spec

-----------------------------------------------------------------------------
(***************************************************************************)
(* No orphans: in memory, and among what the store would restore.          *)
(***************************************************************************)
InStore == {m \in Msgs : saved[m] # "absent"}

StoredWhole ==
    \A m \in InStore :
        /\ home[m] # None
        /\ m = home[m] \/ (parent[m] \in InStore /\ home[parent[m]] = home[m])

OrphanInv == NoOrphans /\ StoredWhole

\* Whatever is below a node that is removed is removed with it.
LEMMA BelowClosed ==
    ASSUME NEW b, NEW c \in nodes[home[b]], parent[c] \in Below(b)
    PROVE  c \in Below(b)
BY DEF Below

\* Nodes that stay keep their parents.
LEMMA OrphansStay ==
    ASSUME TypeOK, RegistryInv, NoOrphans, UNCHANGED nodes,
           \A m \in Msgs : home[m] # None => parent'[m] = parent[m]
    PROVE  NoOrphans'
BY NoneAssumption DEF NoOrphans, RegistryInv, TypeOK

\* A tree that is saved is saved as it is; the others stay as they were stored.
LEMMA SavedWhole ==
    ASSUME TypeOK, TypeOK', RegistryInv', NoOrphans', StoredWhole,
           \A m \in Msgs : home[m] # None => home'[m] = home[m] /\ parent'[m] = parent[m],
           NEW R \in SUBSET Msgs,
           \A m \in Msgs : IF home'[m] \in R THEN m \in InStore' <=> m \in nodes'[home'[m]]
                           ELSE m \in InStore' <=> m \in InStore
    PROVE  StoredWhole'
<1> SUFFICES ASSUME NEW m \in InStore'
             PROVE  /\ home'[m] # None
                    /\ m = home'[m] \/ (parent'[m] \in InStore' /\ home'[parent'[m]] = home'[m])
  BY DEF StoredWhole
<1>0. m \in Msgs /\ InStore \subseteq Msgs
  BY DEF InStore
<1>1. CASE home'[m] \in R
  <2>1. home'[m] \in Msgs /\ m \in nodes'[home'[m]] /\ home'[m] # None
    BY <1>0, <1>1, NoneAssumption
  <2>2. m = home'[m] \/ parent'[m] \in nodes'[home'[m]]
    BY <2>1 DEF NoOrphans
  <2>3. ASSUME parent'[m] \in nodes'[home'[m]]
        PROVE  parent'[m] \in Msgs /\ home'[parent'[m]] = home'[m]
    BY <2>1, <2>3 DEF RegistryInv, TypeOK
  <2> QED
    BY <1>1, <2>1, <2>2, <2>3
<1>2. CASE home'[m] \notin R
  <2>1. m \in InStore /\ home[m] # None
    BY <1>0, <1>2 DEF StoredWhole
  <2>2. /\ home'[m] = home[m] /\ parent'[m] = parent[m]
        /\ m = home[m] \/ (parent[m] \in InStore /\ home[parent[m]] = home[m])
    BY <1>0, <2>1 DEF StoredWhole
  <2>3. ASSUME parent[m] \in InStore, home[parent[m]] = home[m]
        PROVE  home'[parent[m]] = home[m] /\ parent[m] \in InStore'
    BY <1>0, <1>2, <2>1, <2>2, <2>3
  <2> QED
    BY <2>1, <2>2, <2>3
<1> QED
  BY <1>1, <1>2

\* What the steps save.
LEMMA SaveStores ==
    ASSUME TypeOK', NEW R \in SUBSET Msgs, Save(R)
    PROVE  \A m \in Msgs : IF home'[m] \in R THEN m \in InStore' <=> m \in nodes'[home'[m]]
                           ELSE m \in InStore' <=> m \in InStore
<1> SUFFICES ASSUME NEW m \in Msgs
             PROVE  IF home'[m] \in R THEN saved'[m] # "absent" <=> m \in nodes'[home'[m]]
                    ELSE saved'[m] # "absent" <=> saved[m] # "absent"
  BY DEF InStore
<1>1. state'[m] # "absent"
  BY DEF TypeOK, States
<1>2. CASE home'[m] \notin R
  <2>1. saved'[m] = saved[m]
    BY <1>2 DEF Save
  <2> QED
    BY <1>2, <2>1
<1>3. CASE home'[m] \in R /\ m \in nodes'[home'[m]]
  BY <1>1, <1>3 DEF Save
<1>4. CASE home'[m] \in R /\ m \notin nodes'[home'[m]]
  BY <1>4 DEF Save
<1> QED
  BY <1>2, <1>3, <1>4

\* A turn leaves the repository alone, and saves at most its own tree.
LEMMA TurnSaves ==
    ASSUME TypeOK, Admitted, NEW m \in Msgs, TurnStep(m)
    PROVE  /\ UNCHANGED <<intakeVars, treeVars>>
           /\ UNCHANGED saved \/ \E R \in SUBSET Msgs : Save(R)
<1>1. UNCHANGED <<intakeVars, treeVars>>
  BY DEF TurnStep, Skip, Start, Acquire, AcquireFails, SessionInfo, ErrorEvent, Exit,
         Crash, CancelUnstarted, CancelAcquiring, DeliverCancel, Stopped, Finish
<1>2. \/ UNCHANGED saved
      \/ task[m] # "none" /\ (SaveOwn(m) \/ SaveFailed(m))
  BY DEF TurnStep, Skip, Start, Acquire, AcquireFails, SessionInfo, ErrorEvent, Exit,
         Crash, CancelUnstarted, CancelAcquiring, DeliverCancel, Stopped, Finish, Reading
<1>3. task[m] # "none" => home[m] \in Msgs
  BY DEF Admitted
<1> QED
  BY <1>1, <1>2, <1>3 DEF SaveOwn, SaveFailed

\* Every step keeps the trees whole, in memory and in the store.
LEMMA OrphanNext ==
    ASSUME TypeOK, TypeOK', RegistryInv, RegistryInv', Admitted, OrphanInv, [Next]_vars
    PROVE  OrphanInv'
<1> USE DEF intakeVars, treeVars
<1> DEFINE Settled == \A m \in Msgs : home[m] # None => home'[m] = home[m] /\ parent'[m] = parent[m]
<1>1. ASSUME UNCHANGED <<nodes, saved>>, Settled
      PROVE  OrphanInv'
  <2>1. NoOrphans'
    BY <1>1, OrphansStay DEF OrphanInv
  <2>2. \A m \in Msgs : m \in InStore' <=> m \in InStore
    BY <1>1 DEF InStore
  <2>3. StoredWhole'
    <3> DEFINE R == {}
    <3>1. /\ R \in SUBSET Msgs
          /\ \A m \in Msgs : IF home'[m] \in R THEN m \in InStore' <=> m \in nodes'[home'[m]]
                             ELSE m \in InStore' <=> m \in InStore
      BY <2>2
    <3> HIDE DEF R
    <3> QED
      BY <1>1, <2>1, <3>1, SavedWhole DEF OrphanInv
  <2> QED
    BY <2>1, <2>3 DEF OrphanInv
<1>2. ASSUME UNCHANGED nodes, Settled, NEW R \in SUBSET Msgs, Save(R)
      PROVE  OrphanInv'
  <2>1. NoOrphans'
    BY <1>2, OrphansStay DEF OrphanInv
  <2>2. StoredWhole'
    BY <1>2, <2>1, SavedWhole, SaveStores DEF OrphanInv
  <2> QED
    BY <2>1, <2>2 DEF OrphanInv
<1>3. ASSUME NEW m \in Msgs, Receive(m) \/ Drop(m) PROVE OrphanInv'
  <2>1. Settled
    BY <1>3 DEF Receive, Drop, RegistryInv, TypeOK
  <2> QED
    BY <1>1, <1>3, <2>1 DEF Receive, Drop
<1>4. ASSUME NEW m \in Msgs, Admit(m) PROVE OrphanInv'
  <2>1. PICK r \in Msgs :
              /\ r = Root(m) /\ home[m] = None
              /\ home' = [home EXCEPT ![m] = r]
              /\ nodes' = [nodes EXCEPT ![r] = @ \cup {m}]
              /\ r # m => parent[m] \in nodes[r]
              /\ UNCHANGED parent
    BY <1>4, AdmitRegisters
  <2>2. Settled
    BY <2>1 DEF TypeOK
  <2>3. NoOrphans'
    BY <2>1 DEF OrphanInv, NoOrphans, TypeOK
  <2>4. Save({r})
    BY <1>4, <2>1 DEF Admit
  <2>5. StoredWhole'
    BY <2>2, <2>3, <2>4, SavedWhole, SaveStores DEF OrphanInv
  <2> QED
    BY <2>3, <2>5 DEF OrphanInv
<1>5. ASSUME NEW m \in Msgs, TurnStep(m) PROVE OrphanInv'
  BY <1>1, <1>2, <1>5, TurnSaves
<1>6. ASSUME NEW m \in Msgs, StopNode(m) \/ ClearBranch(m) PROVE OrphanInv'
  <2>1. home[m] \in Msgs
    BY <1>6 DEF StopNode, ClearBranch, RegistryInv, TypeOK
  <2>2. UNCHANGED nodes /\ Settled
    BY <1>6 DEF StopNode, ClearBranch
  <2>3. \E R \in SUBSET Msgs : Save(R)
    BY <1>6, <2>1 DEF StopNode, ClearBranch
  <2> QED
    BY <1>2, <2>2, <2>3
<1>7. ASSUME StopAll PROVE OrphanInv'
  BY <1>1, <1>7 DEF StopAll
<1>8. ASSUME SessionsStopped PROVE OrphanInv'
  <2> DEFINE R == {index[m] : m \in reported} \ {None}
  <2>1. R \in SUBSET Msgs
    BY DEF TypeOK
  <2>2. UNCHANGED nodes /\ Settled /\ Save(R)
    BY <1>8 DEF SessionsStopped
  <2> HIDE DEF R
  <2> QED
    BY <1>2, <2>1, <2>2
<1>9. ASSUME NEW b \in Msgs, FinishClearBranch(b) PROVE OrphanInv'
  <2>1. Settled
    BY <1>9 DEF FinishClearBranch
  <2>2. CASE UNCHANGED <<nodes, saved>>
    BY <1>1, <2>1, <2>2
  <2>3. ASSUME NEW r \in Msgs, UNCHANGED <<nodes, home, parent>>,
               saved' = [m \in Msgs |-> IF home[m] = r THEN "absent" ELSE saved[m]]
        PROVE  OrphanInv'
    <3>1. NoOrphans'
      BY <2>1, <2>3, OrphansStay DEF OrphanInv
    <3>2. StoredWhole'
      BY <2>3 DEF OrphanInv, StoredWhole, InStore
    <3> QED
      BY <3>1, <3>2 DEF OrphanInv
  <2>4. ASSUME NEW r \in Msgs, NEW gone \in SUBSET nodes[r], r = home[b], gone = Below(b),
               nodes' = [nodes EXCEPT ![r] = @ \ gone], UNCHANGED <<home, parent>>,
               saved' = [m \in Msgs |->
                            IF home[m] # r THEN saved[m]
                            ELSE IF m \in nodes[r] \ gone THEN state[m] ELSE "absent"]
        PROVE  OrphanInv'
    <3>1. nodes'[r] = nodes[r] \ gone /\ \A q \in Msgs \ {r} : nodes'[q] = nodes[q]
      BY <2>4 DEF TypeOK
    <3>2. \A m \in nodes'[r] : m = r \/ parent[m] \in nodes'[r]
      BY <2>4, <3>1, BelowClosed DEF OrphanInv, NoOrphans
    <3>3. NoOrphans'
      BY <2>4, <3>1, <3>2 DEF OrphanInv, NoOrphans
    <3>4. \A m \in Msgs : IF home'[m] \in {r} THEN m \in InStore' <=> m \in nodes'[home'[m]]
                          ELSE m \in InStore' <=> m \in InStore
      <4> SUFFICES ASSUME NEW m \in Msgs
                   PROVE  IF home'[m] = r THEN saved'[m] # "absent" <=> m \in nodes'[r]
                          ELSE saved'[m] # "absent" <=> saved[m] # "absent"
        BY DEF InStore
      <4>1. state[m] # "absent"
        BY DEF TypeOK, States
      <4>2. CASE home[m] # r
        <5>1. saved'[m] = saved[m]
          BY <2>4, <4>2
        <5> QED
          BY <2>4, <4>2, <5>1
      <4>3. CASE home[m] = r /\ m \in nodes[r] \ gone
        BY <2>4, <3>1, <4>1, <4>3
      <4>4. CASE home[m] = r /\ m \notin nodes[r] \ gone
        BY <2>4, <3>1, <4>4
      <4> QED
        BY <4>2, <4>3, <4>4
    <3>5. StoredWhole'
      BY <2>1, <3>3, <3>4, SavedWhole DEF OrphanInv
    <3> QED
      BY <3>3, <3>5 DEF OrphanInv
  <2> QED
    <3>1. UNCHANGED <<home, parent>>
      BY <1>9, ClearUnregisters
    <3>2. CASE UNCHANGED <<nodes, trees, index, state, queueVars, cancelled, saved>>
      BY <2>2, <3>2
    <3>3. CASE ~UNCHANGED <<nodes, trees, index, state, queueVars, cancelled, saved>>
      <4>1. PICK r \in Msgs : \E gone \in SUBSET nodes[r] :
               /\ r = home[b]
               /\ \/ /\ UNCHANGED nodes
                     /\ saved' = [m \in Msgs |-> IF home[m] = r THEN "absent" ELSE saved[m]]
                  \/ /\ gone = Below(b) /\ nodes' = [nodes EXCEPT ![r] = @ \ gone]
                     /\ saved' = [m \in Msgs |->
                                     IF home[m] # r THEN saved[m]
                                     ELSE IF m \in nodes[r] \ gone THEN state[m] ELSE "absent"]
        BY <1>9, <3>3, ClearUnregisters
      <4> QED
        BY <2>3, <2>4, <3>1, <4>1
    <3> QED
      BY <3>2, <3>3
<1>10. ASSUME Wipe PROVE OrphanInv'
  <2>1. NoOrphans'
    BY <1>10, OrphansStay DEF Wipe, OrphanInv
  <2>2. StoredWhole'
    BY <1>10 DEF Wipe, StoredWhole, InStore
  <2> QED
    BY <2>1, <2>2 DEF OrphanInv
<1>11. ASSUME Restart PROVE OrphanInv'
  <2>1. UNCHANGED <<home, parent>>
    BY <1>11 DEF Restart
  <2>2. ASSUME NEW r \in Msgs, NEW m \in Msgs
        PROVE  m \in nodes'[r] <=> m \in InStore /\ home[m] = r
    BY <1>11 DEF Restart, InStore
  <2>3. \A m \in Msgs : state'[m] # "absent"
    BY DEF TypeOK, States
  <2>4. \A m \in Msgs : saved'[m] # "absent" <=> saved[m] # "absent"
    BY <1>11, <2>3 DEF Restart
  <2>5. InStore' = InStore
    BY <2>4 DEF InStore
  <2>6. \A r \in Msgs : nodes'[r] \subseteq Msgs
    BY DEF TypeOK
  <2>7. NoOrphans'
    <3> SUFFICES ASSUME NEW r \in Msgs, NEW m \in nodes'[r], m # r PROVE parent'[m] \in nodes'[r]
      BY DEF NoOrphans
    <3>1. m \in Msgs /\ m \in InStore /\ home[m] = r
      BY <2>2, <2>6
    <3>2. parent[m] \in InStore /\ home[parent[m]] = r
      BY <3>1 DEF OrphanInv, StoredWhole
    <3> QED
      BY <2>1, <2>2, <3>2 DEF InStore
  <2>8. StoredWhole'
    BY <2>1, <2>5 DEF OrphanInv, StoredWhole
  <2> QED
    BY <2>7, <2>8 DEF OrphanInv
<1>12. CASE UNCHANGED vars
  BY <1>1, <1>12 DEF vars
<1> QED
  BY <1>3, <1>4, <1>5, <1>6, <1>7, <1>8, <1>9, <1>10, <1>11, <1>12 DEF Next

\* However a branch is removed, and whatever is restored after a restart, no tree holds a
\* node whose parent is gone.
THEOREM TreesWhole == Spec => []NoOrphans
<1>1. Init => OrphanInv
  BY DEF Init, OrphanInv, NoOrphans, StoredWhole, InStore
<1>2. /\ TypeOK /\ TypeOK' /\ RegistryInv /\ RegistryInv' /\ QueueInv /\ OrphanInv
      /\ [Next]_vars
      => OrphanInv'
  BY OrphanNext DEF QueueInv
<1>3. OrphanInv => NoOrphans
  BY DEF OrphanInv
<1> QED
  BY <1>1, <1>2, <1>3, TypeCorrect, RegistryInvariant, QueueInvariant, PTL DEF Spec

-----------------------------------------------------------------------------
(***************************************************************************)
(* One turn per tree.                                                      *)
(***************************************************************************)

\* Until an unscoped command, the turn that runs in a tree is alone there, and the tree
\* knows it while the repository knows the tree.
Steered(m) ==
    home[m] \in trees => busy[home[m]] /\ current[home[m]] = m /\ curTask[home[m]] = m

TurnInv ==
    global = "never" =>
        \A m \in Msgs : task[m] \in Live =>
            /\ \A n \in Msgs : home[n] = home[m] /\ task[n] \in Live => n = m
            /\ Steered(m)

\* Steps that start no turn, and leave alone what the trees the repository knows say of
\* theirs.
LEMMA TurnsStay ==
    ASSUME TypeOK, TurnInv, UNCHANGED home, trees' \subseteq trees,
           global' = "never" => global = "never",
           \A m \in Msgs : task'[m] \in Live => task[m] \in Live,
           \A r \in trees' : busy'[r] = busy[r] /\ current'[r] = current[r]
                             /\ curTask'[r] = curTask[r]
    PROVE  TurnInv'
BY DEF TurnInv, Steered

\* The end of a turn hands its tree to the next.
LEMMA TurnsEnd ==
    ASSUME TypeOK, QueueInv, RegistryInv, TurnInv, NEW m \in Msgs, task[m] \in Live, EndTurn(m),
           UNCHANGED <<home, trees, global>>
    PROVE  TurnInv'
<1> SUFFICES ASSUME global = "never", NEW x \in Msgs, task'[x] \in Live
             PROVE  /\ \A n \in Msgs : home[n] = home[x] /\ task'[n] \in Live => n = x
                    /\ Steered(x)'
  BY DEF TurnInv
<1> DEFINE r == home[m]
<1>1. /\ r \in Msgs
      /\ \A n \in Msgs : home[n] = r /\ task[n] \in Live => n = m
      /\ \A n \in queue[r] : n \in Msgs /\ home[n] = r
      /\ "done" \notin Live /\ "created" \in Live
  BY DEF QueueInv, Admitted, QueuedAreWaiting, TurnInv, TypeOK, Live
<1>2. CASE /\ Idle(r)
           /\ task' = [task EXCEPT ![m] = "done"]
  <2>1. /\ \A n \in Msgs : task'[n] \in Live => n # m /\ task[n] \in Live /\ home[n] # r
        /\ \A s \in Msgs \ {r} : busy'[s] = busy[s] /\ current'[s] = current[s]
                                 /\ curTask'[s] = curTask[s]
    BY <1>1, <1>2 DEF Idle, TypeOK
  <2> QED
    BY <2>1 DEF TurnInv, Steered, TypeOK
<1>3. ASSUME NEW n \in queue[r], NEW rest \in SUBSET queue[r], Launch(r, n, rest),
             task' = [task EXCEPT ![m] = "done", ![n] = "created"]
      PROVE  /\ \A y \in Msgs : home[y] = home[x] /\ task'[y] \in Live => y = x
             /\ Steered(x)'
  <2>1. /\ \A y \in Msgs : task'[y] \in Live => y = n \/ (task[y] \in Live /\ home[y] # r)
        /\ \A s \in Msgs \ {r} : busy'[s] = busy[s] /\ current'[s] = current[s]
                                 /\ curTask'[s] = curTask[s]
        /\ busy'[r] /\ current'[r] = n /\ curTask'[r] = n /\ home[n] = r
    BY <1>1, <1>3 DEF Launch, TypeOK
  <2>2. CASE x = n
    BY <2>1, <2>2 DEF Steered
  <2>3. CASE x # n
    BY <2>1, <2>3 DEF TurnInv, Steered, TypeOK
  <2> QED
    BY <2>2, <2>3
<1> QED
  BY <1>2, <1>3 DEF EndTurn

\* A message starts at once only in a tree without a turn.
LEMMA TurnsAdmit ==
    ASSUME TypeOK, QueueInv, RegistryInv, TurnInv, NEW m \in Msgs, Admit(m)
    PROVE  TurnInv'
<1> SUFFICES ASSUME global = "never", NEW x \in Msgs, task'[x] \in Live
             PROVE  /\ \A n \in Msgs : home'[n] = home'[x] /\ task'[n] \in Live => n = x
                    /\ Steered(x)'
  BY DEF TurnInv, Admit, cmdVars
<1>1. PICK r \in Msgs :
            /\ r = Root(m) /\ home[m] = None /\ intake[m] = "sending"
            /\ home' = [home EXCEPT ![m] = r]
            /\ trees' = trees \cup {r}
            /\ r # m => r \in trees
            /\ r = m => \A n \in Msgs : home[n] # m
  BY AdmitRegisters
<1>2. /\ home'[m] = r /\ \A n \in Msgs \ {m} : home'[n] = home[n]
      /\ task[m] = "none" /\ "none" \notin Live
      /\ \A n \in Msgs : task[n] \in Live => n # m /\ home[n] \in Msgs
  BY <1>1 DEF QueueInv, Admitted, TypeOK, Live
<1>3. CASE busy[r] /\ UNCHANGED <<busy, current, curTask, task>>
  <2>1. x # m /\ task[x] \in Live /\ home[x] \in trees' => home[x] \in trees
    BY <1>1, <1>2, <1>3
  <2> QED
    BY <1>1, <1>2, <1>3, <2>1 DEF TurnInv, Steered
<1>4. CASE ~busy[r] /\ Launch(r, m, queue[r]) /\ task' = [task EXCEPT ![m] = "created"]
  <2>1. \A n \in Msgs : task[n] \in Live => home[n] # r
    BY <1>1, <1>2, <1>4 DEF TurnInv, Steered
  <2>2. /\ busy'[r] /\ current'[r] = m /\ curTask'[r] = m
        /\ \A s \in Msgs \ {r} : busy'[s] = busy[s] /\ current'[s] = current[s]
                                 /\ curTask'[s] = curTask[s]
        /\ \A n \in Msgs \ {m} : task'[n] = task[n]
    BY <1>4 DEF Launch, TypeOK
  <2>3. CASE x = m
    BY <1>1, <1>2, <2>1, <2>2, <2>3 DEF Steered
  <2>4. CASE x # m
    BY <1>1, <1>2, <2>1, <2>2, <2>4 DEF TurnInv, Steered
  <2> QED
    BY <2>3, <2>4
<1> QED
  BY <1>1, <1>3, <1>4 DEF Admit

\* Every step keeps one turn per tree.
LEMMA TurnNext ==
    ASSUME TypeOK, QueueInv, RegistryInv, TurnInv, [Next]_vars
    PROVE  TurnInv'
<1> USE DEF treeVars, queueVars, cmdVars
<1>1. ASSUME NEW m \in Msgs, Receive(m) \/ Drop(m) PROVE TurnInv'
  BY <1>1, TurnsStay DEF Receive, Drop
<1>2. ASSUME NEW m \in Msgs, Skip(m) \/ AcquireFails(m) \/ CancelAcquiring(m) \/ Finish(m)
      PROVE  TurnInv'
  BY <1>2, TurnsEnd DEF Skip, AcquireFails, CancelAcquiring, Finish, Live
<1>3. ASSUME NEW m \in Msgs, SessionInfo(m) \/ ErrorEvent(m) PROVE TurnInv'
  BY <1>3, TurnsStay DEF SessionInfo, ErrorEvent
<1>4. ASSUME NEW m \in Msgs,
             \/ Start(m) \/ Acquire(m) \/ Exit(m, "ok") \/ Exit(m, "failed")
             \/ Crash(m) \/ CancelUnstarted(m) \/ DeliverCancel(m) \/ Stopped(m)
      PROVE  TurnInv'
  <2>1. /\ \E p \in Phases : task' = [task EXCEPT ![m] = p]
        /\ task[m] \in Live
        /\ UNCHANGED <<treeVars, queueVars, global>>
    BY <1>4 DEF Start, Acquire, Exit, Crash, CancelUnstarted, DeliverCancel, Stopped, Reading,
                Phases, Live
  <2>2. \A n \in Msgs : task'[n] \in Live => task[n] \in Live
    BY <2>1 DEF TypeOK
  <2> QED
    BY <2>1, <2>2, TurnsStay
<1>5. ASSUME NEW m \in Msgs, StopNode(m) \/ ClearBranch(m) PROVE TurnInv'
  BY <1>5, TurnsStay DEF StopNode, ClearBranch, CancelNodes
<1>6. ASSUME NEW b \in Msgs, FinishClearBranch(b) PROVE TurnInv'
  <2>1. UNCHANGED <<home, task, global>>
    BY <1>6 DEF FinishClearBranch
  <2>2. CASE UNCHANGED <<trees, queueVars>>
    BY <2>1, <2>2, TurnsStay
  <2>3. ASSUME NEW r \in Msgs, trees' = trees \ {r}, CancelTrees({r})
        PROVE  TurnInv'
    <3>1. \A q \in trees' : busy'[q] = busy[q] /\ current'[q] = current[q]
                            /\ curTask'[q] = curTask[q]
      BY <2>3 DEF CancelTrees, TypeOK
    <3> QED
      BY <2>1, <2>3, <3>1, TurnsStay
  <2> QED
    BY <1>6, <2>2, <2>3, ClearUnregisters
<1>7. ASSUME StopAll \/ SessionsStopped \/ Wipe PROVE TurnInv'
  <2>1. global' # "never"
    BY <1>7 DEF StopAll, SessionsStopped, Wipe
  <2> QED
    BY <2>1 DEF TurnInv
<1>8. ASSUME Restart PROVE TurnInv'
  <2>1. \A m \in Msgs : task'[m] \notin Live
    BY <1>8 DEF Restart, Live
  <2> QED
    BY <2>1 DEF TurnInv
<1>9. CASE UNCHANGED vars
  BY <1>9, TurnsStay DEF vars
<1> QED
  BY <1>1, <1>2, <1>3, <1>4, <1>5, <1>6, <1>7, <1>8, <1>9, TurnsAdmit DEF Next, TurnStep

\* The invariant of the turns holds always.
LEMMA TurnInvariant == Spec => []TurnInv
<1>1. Init => TurnInv
  BY DEF Init, TurnInv, Live
<1>2. TypeOK /\ QueueInv /\ RegistryInv /\ TurnInv /\ [Next]_vars => TurnInv'
  BY TurnNext
<1> QED
  BY <1>1, <1>2, TypeCorrect, QueueInvariant, RegistryInvariant, PTL DEF Spec

\* Until an unscoped /stop or /clear no tree runs two turns, also while a cancelled one
\* unwinds and whatever is stopped or cleared by reply meanwhile.
THEOREM OneTurn == Spec => []OneTurnPerTree
<1>1. TypeOK /\ TurnInv => OneTurnPerTree
  BY DEF TurnInv, OneTurnPerTree
<1> QED
  BY <1>1, TurnInvariant, TypeCorrect, PTL

\* A reply-scoped command, or the first unscoped one, cancels the turn of every node it
\* marks as failed.
THEOREM CommandsCancel == Spec => StopCancels
<1> DEFINE Cancels == global = "never" /\ commands' # commands =>
                         \A m \in Msgs :
                            state[m] # "error" /\ state'[m] = "error"
                              /\ task[m] \in {"created", "acquiring", "running"}
                            => cancelled'[m]
<1>1. TypeOK /\ QueueInv /\ RegistryInv /\ TurnInv /\ [Next]_vars => Cancels
  <2> SUFFICES ASSUME TypeOK, QueueInv, RegistryInv, TurnInv, Next,
                      global = "never", commands' # commands,
                      NEW m \in Msgs, state[m] # "error", state'[m] = "error",
                      task[m] \in {"created", "acquiring", "running"}
               PROVE  cancelled'[m]
    BY DEF vars, cmdVars
  <2>1. task[m] \in Live /\ task[m] # "none"
    BY DEF Live
  <2>2. home[m] \in trees => current[home[m]] = m /\ curTask[home[m]] = m
    BY <2>1 DEF TurnInv, Steered
  <2>3. ASSUME NEW r \in trees, NEW S \in SUBSET nodes[r], CancelNodes(r, S)
        PROVE  cancelled'[m]
    <3>1. m \in S /\ home[m] = r
      BY <2>3 DEF CancelNodes, FailAll, RegistryInv, TypeOK
    <3>2. m \in CancelCurrent({r})
      BY <2>1, <2>2, <3>1 DEF CancelCurrent
    <3> QED
      BY <2>2, <2>3, <3>1, <3>2 DEF CancelNodes
  <2>4. ASSUME NEW n \in Msgs, StopNode(n) PROVE cancelled'[m]
    <3>1. home[n] \in trees /\ {n} \in SUBSET nodes[home[n]]
      BY <2>4 DEF StopNode, RegistryInv
    <3> QED
      BY <2>3, <2>4, <3>1 DEF StopNode
  <2>5. ASSUME NEW b \in Msgs, ClearBranch(b) PROVE cancelled'[m]
    <3>1. home[b] \in trees /\ Cancellable(Below(b)) \in SUBSET nodes[home[b]]
      BY <2>5 DEF ClearBranch, RegistryInv, Cancellable, Below
    <3> QED
      BY <2>3, <2>5, <3>1 DEF ClearBranch
  <2>6. ASSUME StopAll PROVE cancelled'[m]
    <3>1. PICK r \in trees : m \in nodes[r]
      BY <2>6 DEF StopAll, CancelTrees, FailAll, TypeOK
    <3>2. home[m] = r
      BY <3>1 DEF RegistryInv, TypeOK
    <3>3. m \in CancelCurrent(trees)
      BY <2>1, <2>2, <3>1, <3>2 DEF CancelCurrent
    <3> QED
      BY <2>6, <3>3 DEF StopAll, CancelTrees
  <2>7. CASE \/ \E n \in Msgs : Receive(n) \/ Drop(n) \/ Admit(n) \/ TurnStep(n)
                                \/ FinishClearBranch(n)
             \/ SessionsStopped \/ Wipe \/ Restart
    <3>1. commands' = commands
      BY <2>7 DEF cmdVars, Receive, Drop, Admit, TurnStep, Skip, Start, Acquire, AcquireFails,
                  SessionInfo, ErrorEvent, Exit, Crash, CancelUnstarted, CancelAcquiring,
                  DeliverCancel, Stopped, Finish, FinishClearBranch, SessionsStopped, Wipe, Restart
    <3> QED
      BY <3>1
  <2> QED
    BY <2>4, <2>5, <2>6, <2>7 DEF Next
<1> QED
  BY <1>1, TypeCorrect, QueueInvariant, RegistryInvariant, TurnInvariant, PTL DEF Spec, StopCancels

-----------------------------------------------------------------------------
(***************************************************************************)
(* Completed turns.                                                        *)
(***************************************************************************)

\* A turn is completed only when its CLI process has exited, and the store never disagrees
\* about a completed turn with the tree.
Early == {"none", "created", "acquiring", "running", "stopping"}

FinalInv ==
    \A m \in Msgs :
        /\ task[m] \in Early => state[m] # "completed"
        /\ state[m] = "completed" => saved[m] \in {"completed", "absent"}
        /\ saved[m] = "completed" => state[m] = "completed"

CompletedStay == \A m \in Msgs : state[m] = "completed" => state'[m] = "completed"

\* What a save leaves in the store.
LEMMA SavePoints ==
    ASSUME NEW R, Save(R)
    PROVE  \A m \in Msgs : saved'[m] \in {saved[m], state'[m], "absent"}
<1> SUFFICES ASSUME NEW m \in Msgs PROVE saved'[m] \in {saved[m], state'[m], "absent"}
  OBVIOUS
<1>1. CASE home'[m] \notin R
  BY <1>1 DEF Save
<1>2. CASE home'[m] \in R /\ m \in nodes'[home'[m]]
  BY <1>2 DEF Save
<1>3. CASE home'[m] \in R /\ m \notin nodes'[home'[m]]
  BY <1>3 DEF Save
<1> QED
  BY <1>1, <1>2, <1>3

\* Steps that complete no turn and fail no completed one.
LEMMA FinalKept ==
    ASSUME TypeOK, TypeOK', FinalInv,
           \A m \in Msgs : state'[m] = "completed" <=> state[m] = "completed",
           UNCHANGED saved \/ \A m \in Msgs : saved'[m] \in {saved[m], state'[m], "absent"},
           \A m \in Msgs : task'[m] \in Early => task[m] \in Early
    PROVE  FinalInv' /\ CompletedStay
BY DEF FinalInv, CompletedStay, TypeOK, States

\* Failing nodes that are not completed, and marking one that is not.
LEMMA FailAllFinal ==
    ASSUME NEW F \in SUBSET Msgs, \A n \in F : state[n] # "completed", state' = FailAll(F)
    PROVE  \A n \in Msgs : state'[n] = "completed" <=> state[n] = "completed"
BY DEF FailAll

\* Marking a turn as running or failed completes no turn and undoes no completion.
LEMMA MarkedFinal ==
    ASSUME TypeOK, NEW m \in Msgs, NEW s \in {"in_progress", "error"}, state[m] # "completed",
           state' = Marked(m, s)
    PROVE  \A n \in Msgs : state'[n] = "completed" <=> state[n] = "completed"
BY DEF Marked, TypeOK

\* The turns an error of m reaches: m and pending ones.
LEMMA FailedOpen ==
    ASSUME TypeOK, NEW m \in Msgs, home[m] \in Msgs, state[m] # "completed"
    PROVE  Failed(m) \in SUBSET Msgs /\ \A n \in Failed(m) : state[n] # "completed"
BY DEF Failed, PendingBelow, TypeOK

\* The end of a turn starts only a turn that was queued.
LEMMA EndTurnEarly ==
    ASSUME TypeOK, QueueInv, NEW m \in Msgs, home[m] \in Msgs, EndTurn(m)
    PROVE  \A n \in Msgs : task'[n] \in Early => task[n] \in Early
<1>1. /\ "done" \notin Early /\ "none" \in Early
      /\ \A n \in queue[home[m]] : n \in Msgs /\ task[n] = "none"
  BY DEF Early, QueueInv, QueuedAreWaiting, TypeOK
<1>2. CASE task' = [task EXCEPT ![m] = "done"]
  BY <1>1, <1>2 DEF TypeOK
<1>3. ASSUME NEW n \in queue[home[m]], task' = [task EXCEPT ![m] = "done", ![n] = "created"]
      PROVE  \A x \in Msgs : task'[x] \in Early => task[x] \in Early
  BY <1>1, <1>3 DEF TypeOK
<1> QED
  BY <1>2, <1>3 DEF EndTurn

\* No step fails a completed turn.
LEMMA FinalNext ==
    ASSUME TypeOK, TypeOK', QueueInv, RegistryInv, FinalInv, [Next]_vars
    PROVE  FinalInv' /\ CompletedStay
<1> DEFINE Same == \A n \in Msgs : state'[n] = "completed" <=> state[n] = "completed"
           SavedSo == UNCHANGED saved
                      \/ \A n \in Msgs : saved'[n] \in {saved[n], state'[n], "absent"}
           Earlier == \A n \in Msgs : task'[n] \in Early => task[n] \in Early
<1>0. Same /\ SavedSo /\ Earlier => FinalInv' /\ CompletedStay
  BY FinalKept
<1>a. \A m \in Msgs : task[m] # "none" => home[m] \in Msgs
  BY DEF QueueInv, Admitted
<1>b. \A m \in Msgs : task[m] \in Early => state[m] # "completed"
  BY DEF FinalInv
<1> HIDE DEF Same, SavedSo, Earlier
<1>1. ASSUME NEW m \in Msgs, Receive(m) \/ Drop(m) PROVE FinalInv' /\ CompletedStay
  <2> QED
    BY <1>0, <1>1 DEF Receive, Drop, Same, SavedSo, Earlier
<1>2. ASSUME NEW m \in Msgs, Admit(m) PROVE FinalInv' /\ CompletedStay
  <2>1. Same /\ SavedSo
    BY <1>2, SavePoints DEF Admit, Same, SavedSo
  <2>2. Earlier
    <3>1. task[m] = "none" /\ "none" \in Early
      BY <1>2 DEF Admit, QueueInv, Admitted, Early
    <3>2. UNCHANGED task \/ task' = [task EXCEPT ![m] = "created"]
      BY <1>2 DEF Admit
    <3> QED
      BY <3>1, <3>2 DEF Earlier, TypeOK
  <2> QED
    BY <1>0, <2>1, <2>2
<1>3. ASSUME NEW m \in Msgs, Skip(m) \/ Finish(m) PROVE FinalInv' /\ CompletedStay
  <2>1. home[m] \in Msgs /\ EndTurn(m) /\ UNCHANGED <<state, saved>>
    BY <1>3, <1>a DEF Skip, Finish
  <2> QED
    BY <1>0, <2>1, EndTurnEarly DEF Same, SavedSo, Earlier
<1>4. ASSUME NEW m \in Msgs, AcquireFails(m) \/ CancelAcquiring(m)
      PROVE  FinalInv' /\ CompletedStay
  <2>1. /\ home[m] \in Msgs /\ EndTurn(m) /\ state' = Marked(m, "error") /\ SaveOwn(m)
        /\ task[m] \in Early
    BY <1>4, <1>a DEF AcquireFails, CancelAcquiring, Early
  <2>2. Same
    BY <2>1, <1>b, MarkedFinal DEF Same
  <2>3. SavedSo
    BY <2>1, SavePoints DEF SavedSo, SaveOwn
  <2> QED
    BY <1>0, <2>1, <2>2, <2>3, EndTurnEarly DEF Earlier
<1>5. ASSUME NEW m \in Msgs, Start(m) \/ Acquire(m) \/ CancelUnstarted(m) \/ DeliverCancel(m)
      PROVE  FinalInv' /\ CompletedStay
  <2>1. task[m] \in Early /\ UNCHANGED saved
    BY <1>5 DEF Start, Acquire, CancelUnstarted, DeliverCancel, Early
  <2>2. UNCHANGED state \/ state' = [state EXCEPT ![m] = "in_progress"]
    BY <1>5 DEF Start, Acquire, CancelUnstarted, DeliverCancel
  <2>3. \E p \in Phases : task' = [task EXCEPT ![m] = p]
    BY <1>5 DEF Start, Acquire, CancelUnstarted, DeliverCancel, Phases, Live
  <2>4. Same
    BY <2>1, <2>2, <1>b DEF Same, TypeOK
  <2>5. Earlier
    BY <2>1, <2>3 DEF Earlier, TypeOK
  <2> QED
    BY <1>0, <2>1, <2>4, <2>5 DEF SavedSo
<1>6. ASSUME NEW m \in Msgs, SessionInfo(m) \/ ErrorEvent(m)
      PROVE  FinalInv' /\ CompletedStay
  <2>1. home[m] \in Msgs /\ task[m] \in Early /\ UNCHANGED task
    BY <1>6, <1>a DEF SessionInfo, ErrorEvent, Reading, Early
  <2>2. Same
    <3>1. CASE state' = Marked(m, "in_progress")
      BY <2>1, <3>1, <1>b, MarkedFinal DEF Same
    <3>2. CASE state' = FailAll(Failed(m))
      BY <2>1, <3>2, <1>b, FailAllFinal, FailedOpen DEF Same
    <3> QED
      BY <1>6, <3>1, <3>2 DEF SessionInfo, ErrorEvent
  <2>3. SavedSo
    BY <1>6, SavePoints DEF SavedSo, SessionInfo, ErrorEvent, SaveOwn, SaveFailed
  <2> QED
    BY <1>0, <2>1, <2>2, <2>3 DEF Earlier
<1>7. ASSUME NEW m \in Msgs, Crash(m) \/ Stopped(m) PROVE FinalInv' /\ CompletedStay
  <2>1. home[m] \in Msgs /\ task[m] \in Early /\ task' = [task EXCEPT ![m] = "closing"]
    BY <1>7, <1>a DEF Crash, Stopped, Reading, Early
  <2>2. Same
    <3>1. CASE state' = Marked(m, "error")
      BY <2>1, <3>1, <1>b, MarkedFinal DEF Same
    <3>2. CASE state' = FailAll(Failed(m))
      BY <2>1, <3>2, <1>b, FailAllFinal, FailedOpen DEF Same
    <3> QED
      BY <1>7, <3>1, <3>2 DEF Crash, Stopped
  <2>3. SavedSo
    BY <1>7, SavePoints DEF SavedSo, Crash, Stopped, SaveOwn, SaveFailed
  <2>4. Earlier
    BY <2>1 DEF Earlier, TypeOK
  <2> QED
    BY <1>0, <2>2, <2>3, <2>4
<1>8. ASSUME NEW m \in Msgs, NEW code \in {"ok", "failed"}, Exit(m, code)
      PROVE  FinalInv' /\ CompletedStay
  <2>1. home[m] \in Msgs /\ task[m] \in Early /\ task' = [task EXCEPT ![m] = "closing"]
        /\ UNCHANGED <<home, nodes>>
    BY <1>8, <1>a DEF Exit, Reading, Early, treeVars
  <2> DEFINE failed == IF code = "ok" THEN state ELSE FailAll(Failed(m))
  <2>2. /\ failed \in [Msgs -> States]
        /\ \A n \in Msgs : failed[n] = "completed" <=> state[n] = "completed"
    BY <2>1, <1>b, FailedOpen DEF FailAll, TypeOK, States
  <2>3. state' = IF Completes(m) THEN [failed EXCEPT ![m] = "completed"] ELSE failed
    BY <1>8 DEF Exit, AfterExit
  <2> HIDE DEF failed
  <2>4. SavedSo
    BY <1>8, SavePoints DEF SavedSo, Exit, SaveOwn, SaveFailed
  <2>5. Earlier
    BY <2>1 DEF Earlier, TypeOK, Early
  <2>6. CASE ~Completes(m)
    BY <1>0, <2>2, <2>3, <2>4, <2>5, <2>6 DEF Same
  <2>7. CASE Completes(m)
    <3>1. saved'[m] = "completed" /\ state'[m] = "completed"
      <4>1. Save({home[m]}) /\ m \in nodes'[home'[m]] /\ home'[m] \in {home[m]}
        BY <1>8, <2>1, <2>7 DEF Exit, Completes, SaveOwn
      <4>2. state'[m] = "completed"
        BY <2>2, <2>3, <2>7
      <4> QED
        BY <4>1, <4>2 DEF Save
    <3>2. \A n \in Msgs \ {m} : state'[n] = "completed" <=> state[n] = "completed"
      BY <2>2, <2>3, <2>7
    <3>3. \A n \in Msgs : /\ task'[n] = "closing" \/ n # m
                          /\ saved'[n] \in {saved[n], state'[n], "absent"}
      BY <2>1, <2>4 DEF SavedSo, TypeOK
    <3> QED
      BY <2>5, <3>1, <3>2, <3>3 DEF FinalInv, CompletedStay, Earlier, Early
  <2> QED
    BY <2>6, <2>7
<1>9. ASSUME NEW m \in Msgs, StopNode(m) \/ ClearBranch(m) PROVE FinalInv' /\ CompletedStay
  <2>1. home[m] \in Msgs /\ UNCHANGED task /\ nodes[home[m]] \subseteq Msgs
    BY <1>9 DEF StopNode, ClearBranch, RegistryInv, TypeOK
  <2>2. \E F \in SUBSET Msgs : state' = FailAll(F) /\ \A n \in F : state[n] # "completed"
    <3>1. CASE StopNode(m)
      BY <3>1 DEF StopNode, CancelNodes, Active
    <3>2. CASE ClearBranch(m)
      BY <2>1, <3>2 DEF ClearBranch, CancelNodes, Cancellable, Below, Active
    <3> QED
      BY <1>9, <3>1, <3>2
  <2>3. Same
    BY <2>2, FailAllFinal DEF Same
  <2>4. SavedSo
    BY <1>9, SavePoints DEF SavedSo, StopNode, ClearBranch
  <2> QED
    BY <1>0, <2>1, <2>3, <2>4 DEF Earlier
<1>c. ASSUME NEW R \in SUBSET Msgs, CancelTrees(R) PROVE Same
  <2> DEFINE F == {n \in Msgs : \E r \in R :
                      n \in nodes[r] /\ (state[n] \in Active \/ n \in queue[r])}
  <2>1. state' = FailAll(F)
    BY <1>c DEF CancelTrees
  <2>2. \A r \in R : \A n \in queue[r] : n \in Msgs /\ state[n] # "completed"
    BY <1>b DEF QueueInv, QueuedAreWaiting, TypeOK, Early
  <2>3. F \in SUBSET Msgs /\ \A n \in F : state[n] # "completed"
    BY <2>2 DEF Active
  <2> HIDE DEF F
  <2> QED
    BY <2>1, <2>3, FailAllFinal DEF Same
<1>10. ASSUME NEW b \in Msgs, FinishClearBranch(b) PROVE FinalInv' /\ CompletedStay
  <2>1. Earlier
    BY <1>10 DEF FinishClearBranch, Earlier
  <2>2. CASE UNCHANGED <<nodes, trees, index, state, queueVars, cancelled, saved>>
    BY <1>0, <2>1, <2>2 DEF Same, SavedSo
  <2>3. ASSUME NEW r \in Msgs, CancelTrees({r}),
               saved' = [m \in Msgs |-> IF home[m] = r THEN "absent" ELSE saved[m]]
        PROVE  FinalInv' /\ CompletedStay
    <3>1. SavedSo
      BY <2>3 DEF SavedSo
    <3> QED
      BY <1>0, <1>c, <2>1, <2>3, <3>1
  <2>4. ASSUME NEW r \in Msgs, NEW gone, UNCHANGED state,
               saved' = [m \in Msgs |->
                            IF home[m] # r THEN saved[m]
                            ELSE IF m \in nodes[r] \ gone THEN state[m] ELSE "absent"]
        PROVE  FinalInv' /\ CompletedStay
    <3>1. SavedSo
      <4> SUFFICES ASSUME NEW m \in Msgs PROVE saved'[m] \in {saved[m], state'[m], "absent"}
        BY DEF SavedSo
      <4>1. CASE home[m] # r
        BY <2>4, <4>1
      <4>2. CASE home[m] = r /\ m \in nodes[r] \ gone
        BY <2>4, <4>2
      <4>3. CASE home[m] = r /\ m \notin nodes[r] \ gone
        BY <2>4, <4>3
      <4> QED
        BY <4>1, <4>2, <4>3
    <3> QED
      BY <1>0, <2>1, <2>4, <3>1 DEF Same
  <2>5. home[b] \in Msgs \/ UNCHANGED <<nodes, trees, index, state, queueVars, cancelled, saved>>
    BY <1>10 DEF FinishClearBranch, RegistryInv, TypeOK
  <2> QED
    BY <1>10, <2>2, <2>3, <2>4, <2>5 DEF FinishClearBranch
<1>11. ASSUME StopAll PROVE FinalInv' /\ CompletedStay
  <2>1. trees \in SUBSET Msgs /\ CancelTrees(trees) /\ UNCHANGED <<task, saved>>
    BY <1>11 DEF StopAll, TypeOK
  <2> QED
    BY <1>0, <1>c, <2>1 DEF SavedSo, Earlier
<1>12. ASSUME SessionsStopped \/ Wipe PROVE FinalInv' /\ CompletedStay
  <2>1. Same /\ Earlier
    BY <1>12 DEF SessionsStopped, Wipe, Same, Earlier
  <2>2. SavedSo
    BY <1>12, SavePoints DEF SessionsStopped, Wipe, SavedSo
  <2> QED
    BY <1>0, <2>1, <2>2
<1>13. ASSUME Restart PROVE FinalInv' /\ CompletedStay
  <2>1. Earlier
    BY <1>13 DEF Restart, Earlier, Early, Live, TypeOK
  <2>2. SavedSo
    BY <1>13 DEF Restart, SavedSo
  <2>3. Same
    BY <1>13 DEF Restart, Same, FinalInv, Reconciled, Active, TypeOK, States
  <2> QED
    BY <1>0, <2>1, <2>2, <2>3
<1>14. CASE UNCHANGED vars
  BY <1>0, <1>14 DEF vars, Same, SavedSo, Earlier
<1> QED
  BY <1>1, <1>2, <1>3, <1>4, <1>5, <1>6, <1>7, <1>8, <1>9, <1>10, <1>11, <1>12, <1>13, <1>14
     DEF Next, TurnStep

\* A completed turn is never reported as failed later: by no late cancellation, error of its
\* parent, command, or restart from what the store holds of it.
THEOREM CompletedStays == Spec => CompletedIsFinal
<1>1. TypeOK => (Init => FinalInv)
  BY DEF Init, FinalInv
<1>2. /\ TypeOK /\ TypeOK' /\ QueueInv /\ RegistryInv /\ FinalInv /\ [Next]_vars
      => FinalInv' /\ [CompletedStay]_vars
  BY FinalNext
<1>3. [CompletedStay]_vars
      => [\A m \in Msgs : state[m] = "completed" => state'[m] = "completed"]_vars
  BY DEF CompletedStay
<1> QED
  BY <1>1, <1>2, <1>3, TypeCorrect, QueueInvariant, RegistryInvariant, PTL
     DEF Spec, CompletedIsFinal
=============================================================================
