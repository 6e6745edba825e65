--------------------------- MODULE OutboxLimiter ---------------------------
(***************************************************************************)
(* MessagingRateLimiter of messaging/limiter.py, as PlatformOutbox uses    *)
(* it: sends, edits and deletions go through one queue of deduplication    *)
(* keys, a worker takes them one at a time, and a fire-and-forget call     *)
(* that fails in transit is submitted again.                               *)
(*                                                                         *)
(* Calls are numbered in the order of their submission.  One action is the *)
(* code between two awaits that can suspend.  Time is counted in ticks of  *)
(* a second.  What a platform answers is arbitrary.                        *)
(***************************************************************************)
EXTENDS SlidingWindow

CONSTANTS
    Keys,       \* deduplication keys: one per edited message, one per send
    MaxCalls,   \* bound: calls of the outbox
    MaxFlood    \* bound: seconds a platform may ask to wait

ASSUME OutboxAssumption ==
    Keys # {} /\ MaxCalls \in Nat /\ MaxFlood \in Nat

VARIABLES
    submitted,  \* calls so far
    key,        \* key[c]: the deduplication key of call c
    fired,      \* fired[c]: c came through fire_and_forget
    status,     \* status[c]: where the caller of c is
    attempt,    \* attempt[c]: resubmissions of c
    backoff,    \* backoff[c]: seconds until c is submitted again
    queue,      \* _queue_list
    pend,       \* _queue_map: latest function and the futures waiting for it
    phase,      \* the worker: between which awaits it is
    hand,       \* what the worker took from the queue
    pause,      \* seconds until _paused_until
    times,      \* the limiter's deque
    history,    \* history: ages of the platform calls of the last window
    shown,      \* shown[k]: the call whose content the platform shows
    stopped     \* _shutdown

callVars   == <<submitted, key, fired, status, attempt, backoff>>
queueVars  == <<queue, pend>>
workerVars == <<phase, hand>>
timeVars   == <<pause, times, history>>
vars == <<callVars, queueVars, workerVars, timeVars, shown, stopped>>

Calls == 1..MaxCalls
MaxRetries == 2

\* 2 ** attempt seconds.
Delay(a) == <<1, 2, 4>>[a + 1]

\* A work item: a function, 0 for none, and the calls waiting for its result.
Work == [func : 0..MaxCalls, waiters : SUBSET Calls]
NoWork == [func |-> 0, waiters |-> {}]

TypeOK ==
    /\ submitted \in 0..MaxCalls
    /\ key \in [Calls -> Keys]
    /\ fired \in [Calls -> BOOLEAN]
    /\ status \in [Calls -> {"new", "waiting", "backoff", "ok", "error"}]
    /\ attempt \in [Calls -> 0..MaxRetries]
    /\ backoff \in [Calls -> 0..MaxRetries]
    /\ queue \in Seq(Keys)
    /\ pend \in [Keys -> Work]
    /\ phase \in {"idle", "paused", "throttled", "calling", "ended"}
    /\ hand \in [key : Keys, work : Work]
    /\ pause \in 0..MaxFlood
    /\ times \in Ages /\ history \in Ages
    /\ shown \in [Keys -> 0..MaxCalls]
    /\ stopped \in BOOLEAN

\* Stands for the key of what does not exist yet.
AnyKey == CHOOSE k \in Keys : TRUE

Init ==
    /\ submitted = 0
    /\ key = [c \in Calls |-> AnyKey]
    /\ fired = [c \in Calls |-> FALSE]
    /\ status = [c \in Calls |-> "new"]
    /\ attempt = [c \in Calls |-> 0]
    /\ backoff = [c \in Calls |-> 0]
    /\ queue = <<>>
    /\ pend = [k \in Keys |-> NoWork]
    /\ phase = "idle"
    /\ hand = [key |-> AnyKey, work |-> NoWork]
    /\ pause = 0
    /\ times = <<>> /\ history = <<>>
    /\ shown = [k \in Keys |-> 0]
    /\ stopped = FALSE

-----------------------------------------------------------------------------
(***************************************************************************)
(* Callers.                                                                *)
(***************************************************************************)

\* Defect: compaction forgets the futures of the calls it replaces.
EnqueueForgets(c, k) ==
    /\ pend' = [pend EXCEPT ![k] = [func |-> c, waiters |-> {c}]]
    /\ queue' = IF pend[k].func = 0 THEN Append(queue, k) ELSE queue

\* Defect: compaction keeps the function that was queued first.
EnqueueKeepsFirst(c, k) ==
    /\ pend' = [pend EXCEPT ![k].func = IF @ = 0 THEN c ELSE @,
                            ![k].waiters = @ \cup {c}]
    /\ queue' = IF pend[k].func = 0 THEN Append(queue, k) ELSE queue

\* _enqueue_internal_multi: replace the function of a queued key, or queue it.
Enqueue(c, k) ==
    /\ pend' = [pend EXCEPT ![k].func = c, ![k].waiters = @ \cup {c}]
    /\ queue' = IF pend[k].func = 0 THEN Append(queue, k) ELSE queue

\* queue_send_message, queue_edit_message, queue_delete_message(s).
Submit(k, fire) ==
    LET c == submitted + 1
    IN /\ submitted < MaxCalls
       /\ submitted' = c
       /\ key' = [key EXCEPT ![c] = k]
       /\ fired' = [fired EXCEPT ![c] = fire]
       /\ status' = [status EXCEPT ![c] = "waiting"]
       /\ Enqueue(c, k)
       /\ UNCHANGED <<attempt, backoff, workerVars, timeVars, shown, stopped>>

\* Defect: a call is tried again without an end.
RetryDefect(c) ==
    /\ status[c] = "backoff" /\ backoff[c] = 0
    /\ status' = [status EXCEPT ![c] = "waiting"]
    /\ Enqueue(c, key[c])
    /\ UNCHANGED <<submitted, key, fired, attempt, backoff, workerVars,
                   timeVars, shown, stopped>>

\* The next attempt of fire_and_forget, with its own function.
Retry(c) ==
    /\ status[c] = "backoff" /\ backoff[c] = 0
    /\ status' = [status EXCEPT ![c] = "waiting"]
    /\ attempt' = [attempt EXCEPT ![c] = @ + 1]
    /\ Enqueue(c, key[c])
    /\ UNCHANGED <<submitted, key, fired, backoff, workerVars, timeVars, shown,
                   stopped>>

-----------------------------------------------------------------------------
(***************************************************************************)
(* The worker.                                                             *)
(***************************************************************************)

\* After a key is taken: a flood wait may still be running.
Paused == IF pause > 0 THEN "paused" ELSE "throttled"

Take ==
    /\ phase = "idle" /\ queue # <<>> /\ ~stopped
    /\ LET k == Head(queue)
       IN /\ hand' = [key |-> k, work |-> pend[k]]
          /\ pend' = [pend EXCEPT ![k] = NoWork]
    /\ queue' = Tail(queue)
    /\ phase' = Paused
    /\ UNCHANGED <<callVars, timeVars, shown, stopped>>

Resume ==
    /\ phase = "paused" /\ pause = 0
    /\ phase' = "throttled"
    /\ UNCHANGED <<callVars, queueVars, hand, timeVars, shown, stopped>>

Acquire ==
    /\ phase = "throttled" /\ HasRoom(times)
    /\ phase' = "calling"
    /\ times' = Acquired(times)
    /\ history' = Recorded(history)
    /\ UNCHANGED <<callVars, queueVars, hand, pause, shown, stopped>>

Done ==
    /\ phase' = "idle"
    /\ hand' = [hand EXCEPT !.work = NoWork]

Deliver ==
    /\ phase = "calling"
    /\ Done
    /\ shown' = [shown EXCEPT ![hand.key] = hand.work.func]
    /\ status' = [c \in Calls |-> IF c \in hand.work.waiters THEN "ok" ELSE status[c]]
    /\ UNCHANGED <<submitted, key, fired, attempt, backoff, queueVars, timeVars,
                   stopped>>

\* fire_and_forget submits c again after a transient error.
Again(c, transient) == fired[c] /\ transient /\ attempt[c] < MaxRetries

\* The platform refuses: a transient error, a flood wait of some seconds, both
\* (an error text can match both tests) or neither.
Fail(transient, flood) ==
    /\ phase = "calling"
    /\ Done
    /\ status' = [c \in Calls |-> IF c \notin hand.work.waiters THEN status[c]
                                 ELSE IF Again(c, transient) THEN "backoff"
                                 ELSE "error"]
    /\ backoff' = [c \in Calls |-> IF c \in hand.work.waiters /\ Again(c, transient)
                                  THEN Delay(attempt[c]) ELSE backoff[c]]
    /\ pause' = IF flood > 0 THEN flood ELSE pause
    /\ UNCHANGED <<submitted, key, fired, attempt, queueVars, times, history,
                   shown, stopped>>

\* shutdown: the worker is cancelled where it waits.  A call in flight may
\* have reached the platform; the futures stay as they are.
Shutdown ==
    /\ ~stopped
    /\ stopped' = TRUE
    /\ phase' = "ended"
    /\ \/ UNCHANGED shown
       \/ /\ phase = "calling"
          /\ shown' = [shown EXCEPT ![hand.key] = hand.work.func]
    /\ UNCHANGED <<callVars, queueVars, hand, timeVars>>

Tick ==
    /\ pause' = IF pause > 0 THEN pause - 1 ELSE 0
    /\ times' = Aged(times)
    /\ history' = Passed(history)
    /\ backoff' = [c \in Calls |-> IF backoff[c] > 0 THEN backoff[c] - 1 ELSE 0]
    /\ UNCHANGED <<submitted, key, fired, status, attempt, queueVars, workerVars,
                   shown, stopped>>

Next ==
    \/ \E k \in Keys, fire \in BOOLEAN : Submit(k, fire)
    \/ \E c \in Calls : Retry(c)
    \/ Take \/ Resume \/ Acquire \/ Deliver
    \/ \E transient \in BOOLEAN, flood \in 0..MaxFlood : Fail(transient, flood)
    \/ Shutdown \/ Tick

Spec == Init /\ [][Next]_vars

\* Time passes, the event loop runs the worker and the callers, and a
\* platform call ends.
FairSpec ==
    /\ Spec
    /\ WF_vars(Tick)
    /\ WF_vars(Take) /\ WF_vars(Resume) /\ WF_vars(Acquire)
    /\ WF_vars(Deliver \/ \E transient \in BOOLEAN, flood \in 0..MaxFlood :
                              Fail(transient, flood))
    /\ \A c \in Calls : WF_vars(Retry(c))

-----------------------------------------------------------------------------
(***************************************************************************)
(* Properties.                                                             *)
(***************************************************************************)

\* _queue_list and _queue_map name the same keys, each once: the worker never
\* takes a key without a task.
QueueAgrees ==
    /\ \A i, j \in DOMAIN queue : queue[i] = queue[j] => i = j
    /\ {queue[i] : i \in DOMAIN queue} = {k \in Keys : pend[k].func # 0}

\* A caller that waits is in the list of exactly one task, of its own key, and
\* nobody else is in a list: compaction loses no future and adds none.
WaitsOnce ==
    \A c \in Calls :
      IF status[c] = "waiting"
      THEN /\ c \in pend[key[c]].waiters \/ (hand.key = key[c] /\ c \in hand.work.waiters)
           /\ ~(c \in pend[key[c]].waiters /\ c \in hand.work.waiters)
           /\ \A k \in Keys \ {key[c]} : c \notin pend[k].waiters
      ELSE c \notin hand.work.waiters /\ \A k \in Keys : c \notin pend[k].waiters

\* The platform is never called during a flood wait ...
NoCallDuringPause == phase = "calling" => pause = 0

\* ... and at most RateLimit times in any window.
WindowBound == Len(history) <= RateLimit

CallsOf(k) == {c \in 1..submitted : key[c] = k}
Delivered(k) == CallsOf(k) # {} /\ \A c \in CallsOf(k) : status[c] = "ok"
Latest(k) == CHOOSE c \in CallsOf(k) : \A d \in CallsOf(k) : d <= c

\* When every update of a message was reported as delivered, and none had to
\* be tried again, the message shows the last one.
LatestShown ==
    \A k \in Keys :
      Delivered(k) /\ (\A c \in CallsOf(k) : attempt[c] = 0)
        => shown[k] = Latest(k)

\* Every call is answered in the end, unless the limiter is shut down.
AllAnswered ==
    \A c \in Calls :
      status[c] \in {"waiting", "backoff"} ~> status[c] \in {"ok", "error"} \/ stopped
=============================================================================
