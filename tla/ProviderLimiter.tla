--------------------------- MODULE ProviderLimiter ---------------------------
(***************************************************************************)
(* GlobalRateLimiter of providers/rate_limit.py, one per provider, as the  *)
(* stream runners of providers/transports use it: a request holds one      *)
(* concurrency slot from before its first upstream call until its stream   *)
(* has ended, through all retries and waits.                               *)
(*                                                                         *)
(* One action is the code between two awaits that can suspend.  Time is    *)
(* counted in ticks.  What the provider answers is arbitrary, and a client *)
(* may go away at any moment.                                              *)
(***************************************************************************)
EXTENDS SlidingWindow, FiniteSets

CONSTANTS
    Requests,        \* streams asked for
    MaxConcurrency,  \* max_concurrency
    MaxTries,        \* max_retries of execute_with_retry
    MaxReopens,      \* times a runner opens the stream again after a failure
    MaxBlock         \* bound: ticks of the longest block or backoff

ASSUME ProviderAssumption ==
    /\ MaxConcurrency \in Nat \ {0}
    /\ MaxTries \in Nat /\ MaxReopens \in Nat
    /\ MaxBlock \in Nat \ {0}

VARIABLES
    stage,     \* stage[r]: the await that request r is in
    tries,     \* tries[r]: attempts of its current execute_with_retry
    reopens,   \* reopens[r]: streams it has opened again
    sleep,     \* sleep[r]: ticks left of its asyncio.sleep
    line,      \* requests waiting for _concurrency_sem, in order
    free,      \* _concurrency_sem._value
    block,     \* ticks until _blocked_until
    stamps,    \* the deque of _proactive_limiter
    called,    \* history: ages of the upstream calls of the last window
    seen       \* history: requests about to call that looked at the block
               \* since it was last set

reqVars == <<stage, tries, reopens, sleep>>
semVars == <<line, free>>
clockVars == <<block, stamps, called>>
limiterVars == <<reqVars, semVars, clockVars, seen>>

\* Phases in which a request holds a slot.
Holding == {"start", "blocked", "window", "calling", "backoff", "open"}
Ended == {"served", "failed", "gone"}

LimiterTypeOK ==
    /\ stage \in [Requests -> {"new", "slot"} \cup Holding \cup Ended]
    /\ tries \in [Requests -> 0..MaxTries]
    /\ reopens \in [Requests -> 0..MaxReopens]
    /\ sleep \in [Requests -> 0..MaxBlock]
    /\ line \in Seq(Requests)
    /\ free \in 0..MaxConcurrency
    /\ block \in 0..MaxBlock
    /\ stamps \in Ages /\ called \in Ages
    /\ seen \subseteq Requests

LimiterInit ==
    /\ stage = [r \in Requests |-> "new"]
    /\ tries = [r \in Requests |-> 0]
    /\ reopens = [r \in Requests |-> 0]
    /\ sleep = [r \in Requests |-> 0]
    /\ line = <<>>
    /\ free = MaxConcurrency
    /\ block = 0
    /\ stamps = <<>> /\ called = <<>>
    /\ seen = {}

-----------------------------------------------------------------------------
(***************************************************************************)
(* concurrency_slot.                                                       *)
(***************************************************************************)

\* The runner enters the slot; the semaphore is fair.
Arrive(r) ==
    /\ stage[r] = "new"
    /\ \/ /\ free > 0
          /\ free' = free - 1
          /\ stage' = [stage EXCEPT ![r] = "start"]
          /\ UNCHANGED line
       \/ /\ free = 0
          /\ line' = Append(line, r)
          /\ stage' = [stage EXCEPT ![r] = "slot"]
          /\ UNCHANGED free
    /\ UNCHANGED <<tries, reopens, sleep, clockVars, seen>>

\* Request r ends and releases its slot, to the first in line if any.
Leave(r, end) ==
    IF line # <<>>
    THEN /\ line' = Tail(line)
         /\ stage' = [stage EXCEPT ![r] = end, ![Head(line)] = "start"]
         /\ UNCHANGED free
    ELSE /\ free' = free + 1
         /\ stage' = [stage EXCEPT ![r] = end]
         /\ UNCHANGED line

-----------------------------------------------------------------------------
(***************************************************************************)
(* execute_with_retry.                                                     *)
(***************************************************************************)

\* Defect: the block is looked at and not waited for.
CheckDefect(r) ==
    /\ stage[r] = "start"
    /\ seen' = seen \cup {r}
    /\ stage' = [stage EXCEPT ![r] = "window"]
    /\ UNCHANGED <<tries, reopens, sleep, semVars, clockVars>>

\* wait_if_blocked looks at the block, once.
Check(r) ==
    /\ stage[r] = "start"
    /\ seen' = seen \cup {r}
    /\ stage' = [stage EXCEPT ![r] = IF block > 0 THEN "blocked" ELSE "window"]
    /\ sleep' = [sleep EXCEPT ![r] = block]
    /\ UNCHANGED <<tries, reopens, semVars, clockVars>>

\* The sleep of wait_if_blocked is over.
Unblocked(r) ==
    /\ stage[r] = "blocked" /\ sleep[r] = 0
    /\ stage' = [stage EXCEPT ![r] = "window"]
    /\ UNCHANGED <<tries, reopens, sleep, semVars, clockVars, seen>>

\* The window has room: the upstream call begins.
Call(r) ==
    /\ stage[r] = "window" /\ HasRoom(stamps)
    /\ stage' = [stage EXCEPT ![r] = "calling"]
    /\ stamps' = Acquired(stamps)
    /\ called' = Recorded(called)
    /\ seen' = seen \ {r}
    /\ UNCHANGED <<tries, reopens, sleep, semVars, block>>

\* set_blocked replaces whatever block there was.
SetBlocked(ticks) ==
    /\ block' = ticks
    /\ seen' = {}

Opened(r) ==
    /\ stage[r] = "calling"
    /\ stage' = [stage EXCEPT ![r] = "open"]
    /\ tries' = [tries EXCEPT ![r] = 0]
    /\ UNCHANGED <<reopens, sleep, semVars, clockVars, seen>>

\* Defect: the attempts of a request are not counted.
BackOffDefect(r, ticks) ==
    /\ stage[r] = "calling"
    /\ stage' = [stage EXCEPT ![r] = "backoff"]
    /\ sleep' = [sleep EXCEPT ![r] = ticks]
    /\ block' = ticks
    /\ UNCHANGED <<tries, reopens, semVars, stamps, called, seen>>

\* A 429 or 5xx answer with attempts left blocks everyone for the delay.
BackOff(r, ticks) ==
    /\ stage[r] = "calling" /\ tries[r] < MaxTries
    /\ tries' = [tries EXCEPT ![r] = @ + 1]
    /\ stage' = [stage EXCEPT ![r] = "backoff"]
    /\ sleep' = [sleep EXCEPT ![r] = ticks]
    /\ SetBlocked(ticks)
    /\ UNCHANGED <<reopens, semVars, stamps, called>>

BackedOff(r) ==
    /\ stage[r] = "backoff" /\ sleep[r] = 0
    /\ stage' = [stage EXCEPT ![r] = "start"]
    /\ UNCHANGED <<tries, reopens, sleep, semVars, clockVars, seen>>

\* Another answer, or no attempt left; in that case map_error sets, for a 429, a
\* block of a minute, here the longest one.
Refused(r) ==
    /\ stage[r] = "calling"
    /\ Leave(r, "failed")
    /\ tries' = [tries EXCEPT ![r] = 0]
    /\ \/ UNCHANGED <<block, seen>>
       \/ tries[r] = MaxTries /\ SetBlocked(MaxBlock)
    /\ UNCHANGED <<reopens, sleep, stamps, called>>

-----------------------------------------------------------------------------
(***************************************************************************)
(* The open stream.                                                        *)
(***************************************************************************)

StreamEnds(r) ==
    /\ stage[r] = "open"
    /\ \E end \in {"served", "failed"} : Leave(r, end)
    /\ UNCHANGED <<tries, reopens, sleep, clockVars, seen>>

\* Another execute_with_retry in the same slot: after a failed stream an early
\* retry or a recovery request, after a refusal the next recovery request or the
\* same request with a reduced body.
Reopen(r) ==
    /\ stage[r] \in {"open", "calling"} /\ reopens[r] < MaxReopens
    /\ reopens' = [reopens EXCEPT ![r] = @ + 1]
    /\ tries' = [tries EXCEPT ![r] = 0]
    /\ stage' = [stage EXCEPT ![r] = "start"]
    /\ UNCHANGED <<sleep, semVars, clockVars, seen>>

\* Sequence s without its entry i.
Without(s, i) == [j \in 1..(Len(s) - 1) |-> s[IF j < i THEN j ELSE j + 1]]

\* The client goes away and the runner is cancelled where it waits.
Disconnect(r) ==
    /\ \/ stage[r] \in Holding /\ Leave(r, "gone")
       \/ /\ stage[r] = "slot"
          /\ stage' = [stage EXCEPT ![r] = "gone"]
          /\ \E i \in DOMAIN line : line[i] = r /\ line' = Without(line, i)
          /\ UNCHANGED free
    /\ tries' = [tries EXCEPT ![r] = 0]
    /\ sleep' = [sleep EXCEPT ![r] = 0]
    /\ seen' = seen \ {r}
    /\ UNCHANGED <<reopens, clockVars>>

Less(n) == IF n > 0 THEN n - 1 ELSE 0

Elapse ==
    /\ block' = Less(block)
    /\ sleep' = [r \in Requests |-> Less(sleep[r])]
    /\ stamps' = Aged(stamps)
    /\ called' = Passed(called)
    /\ UNCHANGED <<stage, tries, reopens, semVars, seen>>

Step(r) ==
    \/ Arrive(r) \/ Check(r) \/ Unblocked(r) \/ Call(r)
    \/ Opened(r) \/ BackedOff(r) \/ Refused(r) \/ StreamEnds(r) \/ Reopen(r)
    \/ \E ticks \in 1..MaxBlock : BackOff(r, ticks)

LimiterNext == Elapse \/ \E r \in Requests : Step(r) \/ Disconnect(r)

LimiterSpec == LimiterInit /\ [][LimiterNext]_limiterVars

\* Time passes, and a request that can go on does: in particular the provider
\* answers a call and a stream ends.
LimiterFairSpec ==
    LimiterSpec /\ WF_limiterVars(Elapse) /\ \A r \in Requests : WF_limiterVars(Step(r))

-----------------------------------------------------------------------------
(***************************************************************************)
(* Properties.                                                             *)
(***************************************************************************)

Holders == {r \in Requests : stage[r] \in Holding}

\* Every slot is free or held by one request, also after errors, retries and
\* disconnects; nobody waits while a slot is free; those who wait are in line
\* once.
SlotsBalance ==
    /\ free + Cardinality(Holders) = MaxConcurrency
    /\ line # <<>> => free = 0
    /\ {line[i] : i \in DOMAIN line} = {r \in Requests : stage[r] = "slot"}
    /\ \A i, j \in DOMAIN line : line[i] = line[j] => i = j

\* At most RateLimit upstream calls in any window, over all requests.
UpstreamBound == Len(called) <= RateLimit

\* A request that saw the current block does not call before its end: only a
\* block set after its check can be running.
SeenBlockHolds ==
    [][\A r \in Requests : Call(r) /\ r \in seen => block = 0]_limiterVars

\* Every request that arrived ends.
AllEnd == \A r \in Requests : stage[r] # "new" ~> stage[r] \in Ended
=============================================================================
