---------------------------- MODULE SlidingWindow ----------------------------
(***************************************************************************)
(* StrictSlidingWindowLimiter of core/rate_limit.py.                       *)
(*                                                                         *)
(* The deque of acquisition times is a sequence of their ages, the oldest  *)
(* first; Window is as old as an entry needs to get.  One unit of time is  *)
(* a tick of the modules that use this one.                                *)
(***************************************************************************)
EXTENDS Naturals, Sequences

CONSTANTS
    RateLimit,   \* rate_limit: acquisitions per window
    Window       \* rate_window, in ticks

ASSUME WindowAssumption == RateLimit \in Nat \ {0} /\ Window \in Nat \ {0}

Ages == Seq(0..Window)

\* How many entries at the front are at least as old as age.
Leading(s, age) ==
    CHOOSE n \in 0..Len(s) :
        /\ \A i \in 1..n : s[i] >= age
        /\ n < Len(s) => s[n + 1] < age

\* Defect: an entry leaves the window a tick early.
StaleDefect(s) == Leading(s, Window - 1)

\* What the popleft loop of acquire removes.
Stale(s) == Leading(s, Window)

Fresh(s) == SubSeq(s, Stale(s) + 1, Len(s))

\* acquire returns at once; otherwise it sleeps until the oldest entry is
\* stale and looks again.
HasRoom(s) == Len(Fresh(s)) < RateLimit

Acquired(s) == Append(Fresh(s), 0)

\* A tick later.
Aged(s) == [i \in DOMAIN s |-> IF s[i] < Window THEN s[i] + 1 ELSE Window]

(***************************************************************************)
(* What the limiter promises, said without it: the history of a limiter is *)
(* the ages of all acquisitions in the last Window ticks.                  *)
(***************************************************************************)
Recorded(h) == Append(h, 0)

\* A history a tick later.
Passed(h) ==
    LET n == Leading(h, Window - 1)
    IN [i \in 1..(Len(h) - n) |-> h[n + i] + 1]
=============================================================================
