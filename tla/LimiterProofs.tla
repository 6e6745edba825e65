---------------------------- MODULE LimiterProofs ----------------------------
(***************************************************************************)
(* Proofs about the rate limits.                                           *)
(*                                                                         *)
(* SlidingWindow: that a log which is cut and filled as the code does it   *)
(* never has more than RateLimit entries of one window.                    *)
(*                                                                         *)
(* OutboxLimiter and ProviderLimiter: what they guarantee for any rate,    *)
(* window, calls, keys, flood waits, slots, retries and blocks.            *)
(***************************************************************************)
EXTENDS OutboxLimiter, ProviderLimiter, Integers, SequenceTheorems,
        FiniteSetTheorems, WellFoundedInduction, TLAPS

\* A set of natural numbers that is not empty has a least element.
LEMMA LeastNatural ==
    ASSUME NEW T \in SUBSET Nat, T # {}
    PROVE  \E n \in T : \A m \in T : n <= m
<1> DEFINE R == OpToRel(<, Nat)
<1>1. IsWellFoundedOn(R, Nat)
  BY NatLessThanWellFounded
<1>2. \A x, y \in Nat : x < y => <<x, y>> \in R
  BY DEF OpToRel
<1> HIDE DEF R
<1>3. PICK n \in T : \A m \in T : ~ (<<m, n>> \in R)
  BY <1>1, WFMin, Zenon
<1>4. \A m \in T : ~(m < n)
  BY <1>2, <1>3, Zenon
<1>5. \A m \in T : n <= m
  BY <1>4
<1> QED
  BY <1>5

\* The loop that drops old entries ends where it should.
LEMMA LeadingProperties ==
    ASSUME NEW s \in Seq(Nat), NEW age \in Nat
    PROVE  /\ Leading(s, age) \in 0..Len(s)
           /\ \A i \in 1..Leading(s, age) : s[i] >= age
           /\ Leading(s, age) < Len(s) => s[Leading(s, age) + 1] < age
<1> DEFINE P(n) == /\ \A i \in 1..n : s[i] >= age
                   /\ n < Len(s) => s[n + 1] < age
           Young == {i \in 1..Len(s) : s[i] < age}
<1>1. \E n \in 0..Len(s) : P(n)
  <2>1. CASE Young = {}
    BY <2>1
  <2>2. CASE Young # {}
    <3>1. PICK first \in Young : \A m \in Young : first <= m
      <4>1. Young \in SUBSET Nat
        OBVIOUS
      <4> QED
        BY <2>2, <4>1, LeastNatural
    <3>2. first - 1 \in 0..Len(s) /\ first \in 1..Len(s) /\ s[first] < age
      BY <3>1
    <3>3. \A i \in 1..(first - 1) : s[i] >= age
      BY <3>1, <3>2
    <3>4. first - 1 < Len(s) => s[(first - 1) + 1] < age
      BY <3>2
    <3>5. P(first - 1)
      BY <3>3, <3>4
    <3> QED
      BY <3>2, <3>5
  <2> QED
    BY <2>1, <2>2
<1>2. Leading(s, age) \in 0..Len(s) /\ P(Leading(s, age))
  <2> DEFINE L == CHOOSE n \in 0..Len(s) : P(n)
  <2>1. L \in 0..Len(s) /\ P(L)
    BY <1>1
  <2>2. Leading(s, age) = L
    BY DEF Leading
  <2> QED
    BY <2>1, <2>2
<1> QED
  BY <1>2

-----------------------------------------------------------------------------
(***************************************************************************)
(* The deque holds at most RateLimit entries, and the acquisitions of the  *)
(* last window are its last entries.                                       *)
(***************************************************************************)
Suffix(h, s) ==
    /\ Len(h) <= Len(s)
    /\ \A i \in 1..Len(h) : h[i] = s[Len(s) - Len(h) + i]

WindowInv(s, h) ==
    /\ s \in Ages /\ h \in Ages
    /\ Len(s) <= RateLimit
    /\ Suffix(h, s)
    /\ \A i \in 1..Len(h) : h[i] < Window
    /\ \A i, j \in 1..Len(h) : i <= j => h[j] <= h[i]

\* A function on 1..k is a sequence of length k.
LEMMA SequenceOf ==
    ASSUME NEW S, NEW k \in Nat, NEW q \in [1..k -> S]
    PROVE  q \in Seq(S) /\ Len(q) = k
<1>1. q \in Seq(S)
  BY SeqDef
<1>2. Len(q) \in Nat /\ DOMAIN q = 1..Len(q)
  BY <1>1, LenProperties
<1>3. 1..k = 1..Len(q)
  BY <1>2
<1> QED
  BY <1>1, <1>2, <1>3

\* A limiter that has admitted nothing is within its bound.
LEMMA WindowStart == WindowInv(<<>>, <<>>)
  BY WindowAssumption DEF WindowInv, Suffix, Ages

\* The ages of a window are naturals.
LEMMA AgesAreNaturals == Ages \subseteq Seq(Nat)
<1>1. 0..Window \subseteq Nat
  BY WindowAssumption
<1> QED
  BY <1>1, SeqMonotonic DEF Ages

\* An acquisition that finds room keeps the bound.
LEMMA WindowAcquire ==
    ASSUME NEW s, NEW h, WindowInv(s, h), HasRoom(s)
    PROVE  WindowInv(Acquired(s), Recorded(h))
<1> DEFINE n == Leading(s, Window)
           f == SubSeq(s, n + 1, Len(s))
<1>1. /\ s \in Seq(0..Window) /\ h \in Seq(0..Window)
      /\ Len(s) \in Nat /\ Len(h) \in Nat
  BY DEF WindowInv, Ages
<1>2. /\ n \in 0..Len(s)
      /\ \A i \in 1..n : s[i] >= Window
  BY LeadingProperties, AgesAreNaturals, WindowAssumption DEF WindowInv
<1> HIDE DEF n
<1>3. f \in Seq(0..Window) /\ Len(f) = Len(s) - n
  <2>1. /\ n + 1 \in 1..(Len(s) + 1)
        /\ Len(s) - (n + 1) + 1 = Len(s) - n
    BY <1>1, <1>2
  <2>2. n + 1 \in Int /\ Len(s) \in Int
    BY <1>1, <1>2
  <2>3. \A i \in (n + 1)..Len(s) : s[i] \in 0..Window
    <3> TAKE i \in (n + 1)..Len(s)
    <3>1. i \in 1..Len(s)
      BY <1>1, <1>2
    <3> QED
      BY <1>1, <3>1, ElementOfSeq
  <2>4. /\ f \in Seq(0..Window)
        /\ Len(f) = IF n + 1 <= Len(s) THEN Len(s) - (n + 1) + 1 ELSE 0
    BY <2>2, <2>3, SubSeqProperties
  <2> HIDE DEF f
  <2>5. n \in Nat /\ Len(s) \in Nat /\ n <= Len(s)
    BY <1>1, <1>2
  <2>6. (IF n + 1 <= Len(s) THEN Len(s) - (n + 1) + 1 ELSE 0) = Len(s) - n
    BY <2>5
  <2> QED
    BY <2>4, <2>6
<1>4. \A i \in 1..Len(f) : f[i] = s[n + i]
  <2> TAKE i \in 1..Len(f)
  <2>1. f[i] = s[(n + 1) + i - 1]
    BY <1>1, <1>2, <1>3, SubSeqProperties
  <2>2. (n + 1) + i - 1 = n + i
    BY <1>2, <1>3
  <2> QED
    BY <2>1, <2>2
<1>5. Fresh(s) = f
  BY DEF Fresh, Stale, n
<1> HIDE DEF f
<1>6. Len(f) < RateLimit
  BY <1>5 DEF HasRoom
<1>7. Len(h) <= Len(f)
  <2> SUFFICES ASSUME Len(h) > Len(s) - n PROVE FALSE
    BY <1>1, <1>2, <1>3
  <2>1. Len(s) - Len(h) + 1 \in 1..n /\ 1 \in 1..Len(h)
    BY <1>1, <1>2 DEF WindowInv, Suffix
  <2>2. h[1] = s[Len(s) - Len(h) + 1] /\ h[1] < Window
    BY <2>1 DEF WindowInv, Suffix
  <2>3. h[1] >= Window
    BY <1>2, <2>1, <2>2
  <2>4. h[1] \in 0..Window
    BY <1>1, <2>1, ElementOfSeq
  <2> QED
    BY <2>2, <2>3, <2>4, WindowAssumption
<1>8. \A i \in 1..Len(h) : h[i] = f[Len(f) - Len(h) + i]
  <2> TAKE i \in 1..Len(h)
  <2>1. Len(f) - Len(h) + i \in 1..Len(f)
    BY <1>1, <1>3, <1>7
  <2>2. f[Len(f) - Len(h) + i] = s[n + (Len(f) - Len(h) + i)]
    BY <1>4, <2>1
  <2>3. n + (Len(f) - Len(h) + i) = Len(s) - Len(h) + i
    BY <1>1, <1>2, <1>3
  <2>4. h[i] = s[Len(s) - Len(h) + i]
    BY DEF WindowInv, Suffix
  <2> QED
    BY <2>2, <2>3, <2>4
<1> DEFINE f2 == Append(f, 0)
           h2 == Append(h, 0)
<1>9. /\ f2 \in Seq(0..Window) /\ Len(f2) = Len(f) + 1
      /\ \A i \in 1..Len(f) : f2[i] = f[i]
      /\ f2[Len(f) + 1] = 0
  BY <1>3, WindowAssumption, AppendProperties
<1>10. /\ h2 \in Seq(0..Window) /\ Len(h2) = Len(h) + 1
       /\ \A i \in 1..Len(h) : h2[i] = h[i]
       /\ h2[Len(h) + 1] = 0
  BY <1>1, WindowAssumption, AppendProperties
<1> HIDE DEF f2, h2
<1>11. Len(f) \in Nat
  BY <1>3
<1>12. Suffix(h2, f2)
  <2> SUFFICES ASSUME NEW i \in 1..Len(h2)
               PROVE  h2[i] = f2[Len(f2) - Len(h2) + i]
    BY <1>1, <1>7, <1>9, <1>10, <1>11 DEF Suffix
  <2>1. CASE i = Len(h) + 1
    BY <1>1, <1>9, <1>10, <1>11, <2>1
  <2>2. CASE i \in 1..Len(h)
    <3>1. Len(f2) - Len(h2) + i = Len(f) - Len(h) + i
      BY <1>1, <1>9, <1>10, <1>11
    <3>2. Len(f) - Len(h) + i \in 1..Len(f)
      BY <1>1, <1>7, <1>11, <2>2
    <3> QED
      BY <1>8, <1>9, <1>10, <2>2, <3>1, <3>2
  <2> QED
    BY <1>1, <1>10, <2>1, <2>2
<1>13. \A i \in 1..Len(h2) : h2[i] < Window /\ h2[i] \in Nat
  <2> TAKE i \in 1..Len(h2)
  <2>1. CASE i = Len(h) + 1
    BY <1>10, <2>1, WindowAssumption
  <2>2. CASE i \in 1..Len(h)
    <3>1. h[i] \in 0..Window
      BY <1>1, <2>2, ElementOfSeq
    <3> QED
      BY <1>10, <2>2, <3>1, WindowAssumption DEF WindowInv
  <2> QED
    BY <1>1, <1>10, <2>1, <2>2
<1>14. \A i, j \in 1..Len(h2) : i <= j => h2[j] <= h2[i]
  <2> SUFFICES ASSUME NEW i \in 1..Len(h2), NEW j \in 1..Len(h2), i <= j
               PROVE  h2[j] <= h2[i]
    OBVIOUS
  <2>1. CASE j = Len(h) + 1
    BY <1>10, <1>13, <2>1
  <2>2. CASE j \in 1..Len(h)
    <3>1. i \in 1..Len(h)
      BY <1>1, <2>2
    <3> QED
      BY <1>10, <2>2, <3>1 DEF WindowInv
  <2> QED
    BY <1>1, <1>10, <2>1, <2>2
<1>15. Acquired(s) = f2 /\ Recorded(h) = h2
  BY <1>5 DEF Acquired, Recorded, f2, h2
<1> QED
  BY <1>6, <1>9, <1>10, <1>11, <1>12, <1>13, <1>14, <1>15, WindowAssumption
     DEF WindowInv, Ages

\* So does the passing of time.
LEMMA WindowTick ==
    ASSUME NEW s, NEW h, WindowInv(s, h)
    PROVE  WindowInv(Aged(s), Passed(h))
<1> DEFINE n == Leading(h, Window - 1)
           a == Aged(s)
           p == Passed(h)
<1>1. /\ s \in Seq(0..Window) /\ h \in Seq(0..Window)
      /\ Len(s) \in Nat /\ Len(h) \in Nat
      /\ DOMAIN s = 1..Len(s)
  BY DEF WindowInv, Ages
<1>2. /\ n \in 0..Len(h)
      /\ n < Len(h) => h[n + 1] < Window - 1
  <2>1. h \in Seq(Nat) /\ Window - 1 \in Nat
    BY AgesAreNaturals, WindowAssumption DEF WindowInv
  <2> QED
    BY <2>1, LeadingProperties
<1>3. /\ \A i \in 1..Len(s) : s[i] \in 0..Window
      /\ \A i \in 1..Len(h) : h[i] \in 0..Window
  <2>1. ASSUME NEW i \in 1..Len(s) PROVE s[i] \in 0..Window
    BY <1>1, ElementOfSeq
  <2>2. ASSUME NEW i \in 1..Len(h) PROVE h[i] \in 0..Window
    BY <1>1, ElementOfSeq
  <2> QED
    BY <2>1, <2>2
<1>4. p = [i \in 1..(Len(h) - n) |-> h[n + i] + 1]
  BY DEF Passed
<1> HIDE DEF n, p
<1>5. \A i \in 1..(Len(h) - n) : h[n + i] < Window - 1
  <2> TAKE i \in 1..(Len(h) - n)
  <2>1. n + 1 \in 1..Len(h) /\ n + i \in 1..Len(h) /\ n + 1 <= n + i
    BY <1>1, <1>2
  <2>2. h[n + i] <= h[n + 1]
    BY <2>1 DEF WindowInv
  <2> QED
    BY <1>1, <1>2, <1>3, <2>1, <2>2, WindowAssumption
<1>6. \A i \in 1..(Len(h) - n) :
         /\ n + i \in 1..Len(h) /\ h[n + i] \in 0..Window
         /\ p[i] = h[n + i] + 1 /\ p[i] \in 0..Window /\ p[i] < Window
  <2> TAKE i \in 1..(Len(h) - n)
  <2>1. n + i \in 1..Len(h)
    BY <1>1, <1>2
  <2>2. h[n + i] \in 0..Window /\ h[n + i] < Window - 1
    BY <1>3, <1>5, <2>1
  <2>3. p[i] = h[n + i] + 1
    BY <1>4
  <2> QED
    BY <2>1, <2>2, <2>3, WindowAssumption
<1>7. p \in Seq(0..Window) /\ Len(p) = Len(h) - n
  <2>1. Len(h) - n \in Nat
    BY <1>1, <1>2
  <2>2. p \in [1..(Len(h) - n) -> 0..Window]
    BY <1>4, <1>6
  <2> QED
    BY <2>1, <2>2, SequenceOf
<1>8. a = [i \in 1..Len(s) |-> IF s[i] < Window THEN s[i] + 1 ELSE Window]
  BY <1>1 DEF Aged
<1> HIDE DEF a
<1>9. a \in Seq(0..Window) /\ Len(a) = Len(s)
  <2>1. a \in [1..Len(s) -> 0..Window]
    BY <1>3, <1>8, WindowAssumption
  <2> QED
    BY <1>1, <2>1, SequenceOf
<1>10. Suffix(p, a)
  <2>1. Len(h) <= Len(s)
    BY DEF WindowInv, Suffix
  <2> SUFFICES ASSUME NEW i \in 1..Len(p)
               PROVE  p[i] = a[Len(a) - Len(p) + i]
    BY <1>1, <1>2, <1>7, <1>9, <2>1 DEF Suffix
  <2>2. n + i \in 1..Len(h) /\ i \in 1..(Len(h) - n)
    BY <1>1, <1>2, <1>7
  <2>6. Len(a) - Len(p) + i = Len(s) - Len(h) + (n + i)
    BY <1>1, <1>2, <1>7, <1>9
  <2>7. Len(s) - Len(h) + (n + i) \in 1..Len(s)
    BY <1>1, <1>2, <2>1, <2>2
  <2>3. h[n + i] = s[Len(s) - Len(h) + (n + i)]
    BY <2>2 DEF WindowInv, Suffix
  <2>4. p[i] = h[n + i] + 1 /\ p[i] < Window /\ h[n + i] \in 0..Window
    BY <1>6, <2>2
  <2>5. a[Len(s) - Len(h) + (n + i)] = h[n + i] + 1
    BY <1>8, <2>3, <2>4, <2>7, WindowAssumption
  <2> QED
    BY <2>4, <2>5, <2>6
<1>11. \A i, j \in 1..Len(p) : i <= j => p[j] <= p[i]
  <2> SUFFICES ASSUME NEW i \in 1..Len(p), NEW j \in 1..Len(p), i <= j
               PROVE  p[j] <= p[i]
    OBVIOUS
  <2>1. n + i \in 1..Len(h) /\ n + j \in 1..Len(h) /\ n + i <= n + j
    BY <1>1, <1>2, <1>7
  <2>2. h[n + j] <= h[n + i]
    BY <2>1 DEF WindowInv
  <2> QED
    BY <1>6, <1>7, <2>2
<1>12. Len(a) <= RateLimit
  BY <1>9 DEF WindowInv
<1> QED
  BY <1>6, <1>7, <1>9, <1>10, <1>11, <1>12 DEF WindowInv, Ages, a, p

-----------------------------------------------------------------------------
(***************************************************************************)
(* The outbox.                                                             *)
(***************************************************************************)

\* The key chosen where any will do is one.
LEMMA AnyKeyIsKey == AnyKey \in Keys
  BY OutboxAssumption DEF AnyKey

\* Enqueuing a call keeps the types of the queue and of the work per key.
LEMMA EnqueueType ==
    ASSUME TypeOK, NEW c \in Calls, NEW k \in Keys, Enqueue(c, k)
    PROVE  queue' \in Seq(Keys) /\ pend' \in [Keys -> Work]
<1>1. Calls \subseteq 0..MaxCalls
  BY OutboxAssumption DEF Calls
<1>2. queue' \in Seq(Keys)
  BY DEF Enqueue, TypeOK
<1>3. pend' \in [Keys -> Work]
  BY <1>1 DEF Enqueue, TypeOK, Work
<1> QED
  BY <1>2, <1>3

\* A call that will be tried again has an attempt left.
HasAttempt == \A c \in Calls : status[c] = "backoff" => attempt[c] < MaxRetries

TypeInv == TypeOK /\ WindowInv(times, history) /\ HasAttempt

\* Every step of the limiter keeps the types.
LEMMA TypeStep == TypeInv /\ [Next]_vars => TypeInv'
<1> SUFFICES ASSUME TypeInv, [Next]_vars PROVE TypeInv'
  OBVIOUS
<1> USE OutboxAssumption
    DEF TypeInv, HasAttempt, callVars, queueVars, workerVars, timeVars
<1>0. NoWork \in Work
  BY DEF NoWork, Work
<1>1. ASSUME NEW k \in Keys, NEW fire \in BOOLEAN, Submit(k, fire)
      PROVE  TypeInv'
  <2>1. submitted + 1 \in Calls /\ submitted' \in 0..MaxCalls
    BY <1>1 DEF Submit, TypeOK, Calls
  <2>2. queue' \in Seq(Keys) /\ pend' \in [Keys -> Work]
    BY <1>1, <2>1, EnqueueType DEF Submit
  <2>3. HasAttempt'
    BY <1>1, <2>1 DEF Submit, TypeOK
  <2>4. TypeOK'
    BY <1>1, <2>1, <2>2 DEF Submit, TypeOK
  <2> QED
    BY <1>1, <2>3, <2>4 DEF Submit
<1>2. ASSUME NEW c \in Calls, Retry(c) PROVE TypeInv'
  <2>1. attempt[c] + 1 \in 0..MaxRetries
    <3>1. attempt[c] \in 0..MaxRetries /\ attempt[c] < MaxRetries
      BY <1>2 DEF Retry, TypeOK
    <3> QED
      BY <3>1 DEF MaxRetries
  <2>2. queue' \in Seq(Keys) /\ pend' \in [Keys -> Work]
    BY <1>2, EnqueueType DEF Retry, TypeOK
  <2>3. HasAttempt'
    BY <1>2 DEF Retry, TypeOK
  <2>4. TypeOK'
    BY <1>2, <2>1, <2>2 DEF Retry, TypeOK
  <2> QED
    BY <1>2, <2>3, <2>4 DEF Retry
<1>3. CASE Take
  <2>1. Head(queue) \in Keys /\ Tail(queue) \in Seq(Keys)
    BY <1>3, HeadTailProperties DEF Take, TypeOK
  <2>2. TypeOK'
    BY <1>0, <1>3, <2>1 DEF Take, TypeOK, Paused
  <2> QED
    BY <1>3, <2>2 DEF Take
<1>4. CASE Resume
  BY <1>4 DEF Resume, TypeOK
<1>5. CASE Acquire
  <2>1. WindowInv(times', history')
    BY <1>5, WindowAcquire DEF Acquire
  <2> QED
    BY <1>5, <2>1 DEF Acquire, TypeOK, WindowInv
<1>6. CASE Deliver
  <2>1. hand' \in [key : Keys, work : Work] /\ phase' = "idle"
    BY <1>0, <1>6 DEF Deliver, Done, TypeOK
  <2>2. shown' \in [Keys -> 0..MaxCalls]
    BY <1>6 DEF Deliver, TypeOK, Work
  <2>3. HasAttempt'
    BY <1>6 DEF Deliver, TypeOK
  <2>4. TypeOK'
    BY <1>6, <2>1, <2>2 DEF Deliver, TypeOK
  <2> QED
    BY <1>6, <2>3, <2>4 DEF Deliver
<1>7. ASSUME NEW transient \in BOOLEAN, NEW flood \in 0..MaxFlood,
             Fail(transient, flood)
      PROVE  TypeInv'
  <2>1. hand' \in [key : Keys, work : Work] /\ phase' = "idle"
    BY <1>0, <1>7 DEF Fail, Done, TypeOK
  <2>2. \A c \in Calls : Again(c, transient) => Delay(attempt[c]) \in 0..MaxRetries
    <3>1. Delay(0) = 1 /\ Delay(1) = 2
      BY DEF Delay
    <3>2. \A c \in Calls : Again(c, transient) => attempt[c] \in {0, 1}
      BY DEF Again, MaxRetries, TypeOK
    <3> QED
      BY <3>1, <3>2 DEF MaxRetries
  <2>3. backoff' \in [Calls -> 0..MaxRetries]
    BY <1>7, <2>2 DEF Fail, TypeOK
  <2>4. HasAttempt'
    BY <1>7 DEF Fail, TypeOK, Again
  <2>5. TypeOK'
    BY <1>7, <2>1, <2>3 DEF Fail, TypeOK
  <2> QED
    BY <1>7, <2>4, <2>5 DEF Fail
<1>8. CASE Shutdown
  <2>1. shown' \in [Keys -> 0..MaxCalls]
    BY <1>8 DEF Shutdown, TypeOK, Work
  <2> QED
    BY <1>8, <2>1 DEF Shutdown, TypeOK
<1>9. CASE Tick
  <2>1. WindowInv(times', history')
    BY <1>9, WindowTick DEF Tick
  <2>2. pause' \in 0..MaxFlood
    BY <1>9 DEF Tick, TypeOK
  <2>3. backoff' \in [Calls -> 0..MaxRetries]
    BY <1>9 DEF Tick, TypeOK, MaxRetries
  <2> QED
    BY <1>9, <2>1, <2>2, <2>3 DEF Tick, TypeOK, WindowInv
<1>10. CASE UNCHANGED vars
  BY <1>10 DEF vars, TypeOK
<1> QED
  BY <1>1, <1>2, <1>3, <1>4, <1>5, <1>6, <1>7, <1>8, <1>9, <1>10 DEF Next

\* The limiter starts with variables of their types.
LEMMA TypeStart == Init => TypeInv
<1> SUFFICES ASSUME Init PROVE TypeInv
  OBVIOUS
<1> USE OutboxAssumption
<1>1. AnyKey \in Keys /\ NoWork \in Work
  BY AnyKeyIsKey DEF NoWork, Work
<1>2. WindowInv(times, history)
  BY WindowStart DEF Init
<1>3. queue \in Seq(Keys)
  BY DEF Init
<1>4. 0 \in 0..MaxRetries
  BY DEF MaxRetries
<1>6. 0 \in 0..MaxCalls /\ 0 \in 0..MaxFlood
  OBVIOUS
<1>7. /\ hand \in [key : Keys, work : Work]
      /\ pend \in [Keys -> Work] /\ shown \in [Keys -> 0..MaxCalls]
  BY <1>1, <1>6 DEF Init
<1>8. /\ key \in [Calls -> Keys] /\ fired \in [Calls -> BOOLEAN]
      /\ attempt \in [Calls -> 0..MaxRetries]
      /\ backoff \in [Calls -> 0..MaxRetries]
      /\ status \in [Calls -> {"new", "waiting", "backoff", "ok", "error"}]
  BY <1>1, <1>4 DEF Init
<1>9. times \in Ages /\ history \in Ages
  BY <1>2 DEF WindowInv
<1>5. TypeOK
  BY <1>3, <1>6, <1>7, <1>8, <1>9 DEF Init, TypeOK
<1> QED
  BY <1>2, <1>5 DEF TypeInv, HasAttempt, Init

\* The types hold always.
LEMMA TypeInvariant == Spec => []TypeInv
  BY TypeStart, TypeStep, PTL DEF Spec

\* The variables of the limiter always hold values of their types.
THEOREM OutboxTypeCorrect == Spec => []TypeOK
<1>1. TypeInv => TypeOK
  BY DEF TypeInv
<1> QED
  BY <1>1, TypeInvariant, PTL

\* The platform is called at most RateLimit times in any Window ticks.
THEOREM WindowHeld == Spec => []WindowBound
<1>1. TypeInv => WindowBound
  <2> SUFFICES ASSUME TypeInv PROVE Len(history) <= RateLimit
    BY DEF WindowBound
  <2>1. /\ Len(history) <= Len(times) /\ Len(times) <= RateLimit
        /\ times \in Ages /\ history \in Ages
    BY DEF TypeInv, WindowInv, Suffix
  <2>2. Len(history) \in Nat /\ Len(times) \in Nat
    BY <2>1 DEF Ages
  <2> QED
    BY <2>1, <2>2, WindowAssumption
<1> QED
  BY <1>1, TypeInvariant, PTL
-----------------------------------------------------------------------------
\* A flood wait is over before the platform is called: only the end of a call
\* starts one.
THEOREM PauseHeld == Spec => []NoCallDuringPause
<1> DEFINE PauseInv == phase \in {"throttled", "calling"} => pause = 0
<1>1. Init => PauseInv
  BY DEF Init
<1>2. TypeInv /\ PauseInv /\ [Next]_vars => PauseInv'
  <2> SUFFICES ASSUME TypeInv, PauseInv, [Next]_vars PROVE PauseInv'
    OBVIOUS
  <2>0. pause \in 0..MaxFlood
    BY DEF TypeInv, TypeOK
  <2> USE DEF callVars, queueVars, workerVars, timeVars
  <2>1. ASSUME NEW k \in Keys, NEW fire \in BOOLEAN, Submit(k, fire)
        PROVE  PauseInv'
    BY <2>1 DEF Submit
  <2>2. ASSUME NEW c \in Calls, Retry(c) PROVE PauseInv'
    BY <2>2 DEF Retry
  <2>3. CASE Take
    BY <2>0, <2>3, OutboxAssumption DEF Take, Paused
  <2>4. CASE Resume \/ Acquire
    BY <2>4 DEF Resume, Acquire
  <2>5. CASE Deliver
    BY <2>5 DEF Deliver, Done
  <2>6. ASSUME NEW transient \in BOOLEAN, NEW flood \in 0..MaxFlood,
               Fail(transient, flood)
        PROVE  PauseInv'
    BY <2>6 DEF Fail, Done
  <2>7. CASE Shutdown
    BY <2>7 DEF Shutdown
  <2>8. CASE Tick
    BY <2>8 DEF Tick
  <2>9. CASE UNCHANGED vars
    BY <2>9 DEF vars
  <2> QED
    BY <2>1, <2>2, <2>3, <2>4, <2>5, <2>6, <2>7, <2>8, <2>9 DEF Next
<1>3. PauseInv => NoCallDuringPause
  BY DEF NoCallDuringPause
<1> QED
  BY <1>1, <1>2, <1>3, TypeInvariant, PTL DEF Spec

-----------------------------------------------------------------------------
(***************************************************************************)
(* The queue and its map.                                                  *)
(***************************************************************************)

\* Queueing a key that is not queued keeps the two in agreement.
LEMMA EnqueueAgrees ==
    ASSUME TypeOK, QueueAgrees, NEW c \in Calls, NEW k \in Keys, Enqueue(c, k)
    PROVE  QueueAgrees'
<1>1. /\ queue \in Seq(Keys) /\ pend \in [Keys -> Work]
      /\ c # 0
  BY DEF TypeOK, Calls
<1>2. \A l \in Keys : pend'[l].func = IF l = k THEN c ELSE pend[l].func
  BY <1>1 DEF Enqueue, Work
<1>3. CASE pend[k].func # 0
  BY <1>1, <1>2, <1>3 DEF Enqueue, QueueAgrees
<1>4. CASE pend[k].func = 0
  <2>1. queue' = Append(queue, k)
    BY <1>4 DEF Enqueue
  <2>2. /\ DOMAIN queue = 1..Len(queue) /\ Len(queue) \in Nat
        /\ DOMAIN queue' = 1..(Len(queue) + 1)
        /\ \A i \in 1..Len(queue) : queue'[i] = queue[i]
        /\ queue'[Len(queue) + 1] = k
    BY <1>1, <2>1, AppendProperties
  <2>3. \A i \in 1..Len(queue) : queue[i] # k
    BY <1>4, <2>2 DEF QueueAgrees
  <2>4. \A i, j \in DOMAIN queue' : queue'[i] = queue'[j] => i = j
    BY <2>2, <2>3 DEF QueueAgrees
  <2>5. {queue'[i] : i \in DOMAIN queue'} = {queue[i] : i \in DOMAIN queue} \cup {k}
    BY <2>2
  <2>6. {l \in Keys : pend'[l].func # 0} = {l \in Keys : pend[l].func # 0} \cup {k}
    BY <1>1, <1>2
  <2> QED
    BY <2>4, <2>5, <2>6 DEF QueueAgrees
<1> QED
  BY <1>3, <1>4

\* Taking the first key, too.
LEMMA TakeAgrees ==
    ASSUME TypeOK, QueueAgrees, Take
    PROVE  QueueAgrees'
<1> DEFINE k == Head(queue)
<1>1. /\ queue \in Seq(Keys) /\ queue # <<>> /\ pend \in [Keys -> Work]
  BY DEF TypeOK, Take
<1>2. /\ Len(queue) \in Nat \ {0} /\ DOMAIN queue = 1..Len(queue)
      /\ k \in Keys /\ k = queue[1]
  BY <1>1
<1>3. queue' = Tail(queue)
  BY DEF Take
<1>4. /\ DOMAIN queue' = 1..(Len(queue) - 1)
      /\ \A i \in 1..(Len(queue) - 1) : queue'[i] = queue[i + 1]
  <2>1. /\ Tail(queue) \in Seq(Keys)
        /\ Len(Tail(queue)) = Len(queue) - 1
        /\ \A i \in 1..Len(Tail(queue)) : Tail(queue)[i] = queue[i + 1]
    BY <1>1, HeadTailProperties
  <2>2. DOMAIN Tail(queue) = 1..Len(Tail(queue))
    BY <2>1, LenProperties
  <2> QED
    BY <1>3, <2>1, <2>2
<1>5. \A l \in Keys : pend'[l].func = IF l = k THEN 0 ELSE pend[l].func
  BY <1>1, <1>2 DEF Take, NoWork
<1> HIDE DEF k
<1>6. \A i, j \in DOMAIN queue' : queue'[i] = queue'[j] => i = j
  <2> SUFFICES ASSUME NEW i \in DOMAIN queue', NEW j \in DOMAIN queue',
                      queue'[i] = queue'[j]
               PROVE  i = j
    OBVIOUS
  <2>1. /\ i \in Nat /\ j \in Nat
        /\ i + 1 \in DOMAIN queue /\ j + 1 \in DOMAIN queue
        /\ queue[i + 1] = queue[j + 1]
    BY <1>2, <1>4
  <2>2. i + 1 = j + 1
    BY <2>1 DEF QueueAgrees
  <2> QED
    BY <2>1, <2>2
<1>7. \A l \in Keys : (\E i \in DOMAIN queue' : queue'[i] = l) <=> pend'[l].func # 0
  <2> TAKE l \in Keys
  <2>1. (\E i \in DOMAIN queue : queue[i] = l) <=> pend[l].func # 0
    BY DEF QueueAgrees
  <2>2. CASE l = k
    BY <1>2, <1>4, <1>5, <2>2 DEF QueueAgrees
  <2>3. CASE l # k
    <3>1. ASSUME NEW i \in DOMAIN queue, queue[i] = l
          PROVE  i - 1 \in DOMAIN queue' /\ queue'[i - 1] = l
      BY <1>2, <1>4, <2>3, <3>1
    <3>2. ASSUME NEW i \in DOMAIN queue', queue'[i] = l
          PROVE  i + 1 \in DOMAIN queue /\ queue[i + 1] = l
      BY <1>2, <1>4, <3>2
    <3> QED
      BY <1>5, <2>1, <2>3, <3>1, <3>2
  <2> QED
    BY <2>2, <2>3
<1>8. \A i \in DOMAIN queue' : queue'[i] \in Keys
  BY <1>1, <1>2, <1>4
<1> QED
  BY <1>6, <1>7, <1>8 DEF QueueAgrees

\* Queue and map name the same keys, each once.
THEOREM QueueMatches == Spec => []QueueAgrees
<1>1. Init => QueueAgrees
  BY DEF Init, QueueAgrees, NoWork
<1>2. TypeInv /\ QueueAgrees /\ [Next]_vars => QueueAgrees'
  <2> SUFFICES ASSUME TypeInv, QueueAgrees, [Next]_vars PROVE QueueAgrees'
    OBVIOUS
  <2>0. TypeOK
    BY DEF TypeInv
  <2>1. ASSUME NEW k \in Keys, NEW fire \in BOOLEAN, Submit(k, fire)
        PROVE  QueueAgrees'
    <3>1. submitted + 1 \in Calls
      BY <2>0, <2>1, OutboxAssumption DEF Submit, TypeOK, Calls
    <3> QED
      BY <2>0, <2>1, <3>1, EnqueueAgrees DEF Submit
  <2>2. ASSUME NEW c \in Calls, Retry(c) PROVE QueueAgrees'
    <3>1. key[c] \in Keys /\ Enqueue(c, key[c])
      BY <2>0, <2>2 DEF Retry, TypeOK
    <3> QED
      BY <2>0, <3>1, EnqueueAgrees
  <2>3. CASE Take
    BY <2>0, <2>3, TakeAgrees
  <2>4. CASE UNCHANGED queueVars
    BY <2>4 DEF queueVars, QueueAgrees
  <2>5. CASE Resume \/ Acquire \/ Deliver \/ Shutdown \/ Tick
    BY <2>4, <2>5 DEF Resume, Acquire, Deliver, Shutdown, Tick
  <2>6. ASSUME NEW transient \in BOOLEAN, NEW flood \in 0..MaxFlood,
               Fail(transient, flood)
        PROVE  QueueAgrees'
    BY <2>4, <2>6 DEF Fail
  <2>7. CASE UNCHANGED vars
    BY <2>4, <2>7 DEF vars, queueVars
  <2> QED
    BY <2>1, <2>2, <2>3, <2>5, <2>6, <2>7 DEF Next
<1> QED
  BY <1>1, <1>2, TypeInvariant, PTL DEF Spec

-----------------------------------------------------------------------------
(***************************************************************************)
(* Nobody's future is lost.                                                *)
(***************************************************************************)
WaitInv ==
    /\ WaitsOnce
    /\ \A c \in Calls : c > submitted => status[c] = "new"
    /\ phase = "idle" => hand.work.waiters = {}

\* Queueing a call that waits nowhere makes it wait for its key.
LEMMA EnqueueWaits ==
    ASSUME TypeOK, WaitsOnce, UNCHANGED hand,
           NEW c \in Calls, status[c] # "waiting",
           NEW k \in Keys, Enqueue(c, k),
           status' = [status EXCEPT ![c] = "waiting"],
           key' = [key EXCEPT ![c] = k]
    PROVE  WaitsOnce'
<1>1. /\ pend \in [Keys -> Work] /\ key \in [Calls -> Keys]
      /\ DOMAIN status = Calls
  BY DEF TypeOK
<1>2. \A l \in Keys : pend'[l].waiters =
         IF l = k THEN pend[l].waiters \cup {c} ELSE pend[l].waiters
  BY <1>1 DEF Enqueue, Work
<1>3. /\ c \notin hand.work.waiters
      /\ \A l \in Keys : c \notin pend[l].waiters
  BY DEF WaitsOnce
<1>4. ASSUME NEW d \in Calls
      PROVE  /\ status'[d] = IF d = c THEN "waiting" ELSE status[d]
             /\ key'[d] = IF d = c THEN k ELSE key[d]
             /\ key[d] \in Keys
  BY <1>1
<1>5. hand' = hand
  OBVIOUS
<1> SUFFICES
      ASSUME NEW d \in Calls
      PROVE  IF status'[d] = "waiting"
             THEN /\ \/ d \in pend'[key'[d]].waiters
                     \/ hand'.key = key'[d] /\ d \in hand'.work.waiters
                  /\ ~(d \in pend'[key'[d]].waiters /\ d \in hand'.work.waiters)
                  /\ \A l \in Keys \ {key'[d]} : d \notin pend'[l].waiters
             ELSE /\ d \notin hand'.work.waiters
                  /\ \A l \in Keys : d \notin pend'[l].waiters
  BY DEF WaitsOnce
<1>6. CASE d = c
  BY <1>2, <1>3, <1>4, <1>5, <1>6
<1>7. CASE d # c
  <2>1. /\ status'[d] = status[d] /\ key'[d] = key[d] /\ key[d] \in Keys
    BY <1>4, <1>7
  <2>2. \A l \in Keys : d \in pend'[l].waiters <=> d \in pend[l].waiters
    BY <1>2, <1>7
  <2>3. /\ d \in pend'[key[d]].waiters <=> d \in pend[key[d]].waiters
    BY <2>1, <2>2
  <2>4. CASE status[d] = "waiting"
    BY <1>5, <2>1, <2>2, <2>3, <2>4 DEF WaitsOnce
  <2>5. CASE status[d] # "waiting"
    BY <1>5, <2>1, <2>2, <2>5 DEF WaitsOnce
  <2> QED
    BY <2>4, <2>5
<1> QED
  BY <1>6, <1>7

\* The worker takes all that wait for a key into its hand, which was empty.
LEMMA TakeWaits ==
    ASSUME TypeOK, WaitInv, Take
    PROVE  WaitsOnce'
<1> DEFINE k == Head(queue)
<1>1. /\ pend \in [Keys -> Work] /\ key \in [Calls -> Keys]
      /\ k \in Keys /\ hand.work.waiters = {}
  BY HeadTailProperties DEF TypeOK, Take, WaitInv
<1>2. \A l \in Keys : pend'[l].waiters = IF l = k THEN {} ELSE pend[l].waiters
  BY <1>1 DEF Take, NoWork
<1>3. hand'.key = k /\ hand'.work.waiters = pend[k].waiters
  BY DEF Take
<1>4. status' = status /\ key' = key
  BY DEF Take, callVars
<1> HIDE DEF k
<1> QED
  BY <1>1, <1>2, <1>3, <1>4 DEF WaitInv, WaitsOnce

\* At the end of a call, everyone in the hand is answered or backs off.
LEMMA DoneWaits ==
    ASSUME TypeOK, WaitInv, Done, UNCHANGED <<key, pend>>,
           \A c \in Calls : IF c \in hand.work.waiters
                            THEN status'[c] # "waiting"
                            ELSE status'[c] = status[c]
    PROVE  WaitsOnce'
<1>1. hand'.work.waiters = {} /\ key \in [Calls -> Keys]
  BY DEF Done, NoWork, TypeOK
<1>2. key' = key /\ pend' = pend
  OBVIOUS
<1> QED
  BY <1>1, <1>2 DEF WaitInv, WaitsOnce

\* A step keeps the callers where they belong, and so they are there always.
LEMMA WaitInvariant == Spec => []WaitInv
<1>1. Init => WaitInv
  BY DEF Init, WaitInv, WaitsOnce, NoWork
<1>2. TypeInv /\ WaitInv /\ [Next]_vars => WaitInv'
  <2> SUFFICES ASSUME TypeInv, WaitInv, [Next]_vars PROVE WaitInv'
    OBVIOUS
  <2>0. TypeOK /\ DOMAIN status = Calls /\ submitted \in 0..MaxCalls
    BY DEF TypeInv, TypeOK
  <2> USE DEF callVars, queueVars, workerVars, timeVars
  <2>1. ASSUME NEW k \in Keys, NEW fire \in BOOLEAN, Submit(k, fire)
        PROVE  WaitInv'
    <3> DEFINE c == submitted + 1
    <3>1. c \in Calls /\ c > submitted
      BY <2>0, <2>1, OutboxAssumption DEF Submit, Calls
    <3>2. status[c] = "new" /\ status[c] # "waiting"
      BY <3>1 DEF WaitInv
    <3>3. /\ Enqueue(c, k) /\ UNCHANGED <<hand, phase>> /\ submitted' = c
          /\ status' = [status EXCEPT ![c] = "waiting"]
          /\ key' = [key EXCEPT ![c] = k]
      BY <2>1 DEF Submit
    <3> HIDE DEF c
    <3>4. WaitsOnce'
      BY <2>0, <3>1, <3>2, <3>3, EnqueueWaits DEF WaitInv
    <3>5. \A d \in Calls : d > submitted' => status'[d] = "new"
      BY <2>0, <3>1, <3>3, OutboxAssumption DEF WaitInv, Calls, c
    <3> QED
      BY <3>3, <3>4, <3>5 DEF WaitInv
  <2>2. ASSUME NEW c \in Calls, Retry(c) PROVE WaitInv'
    <3>1. /\ Enqueue(c, key[c]) /\ UNCHANGED <<hand, phase, submitted>>
          /\ status' = [status EXCEPT ![c] = "waiting"]
          /\ status[c] = "backoff" /\ key' = key
      BY <2>2 DEF Retry
    <3>2. key[c] \in Keys /\ key' = [key EXCEPT ![c] = key[c]]
      BY <2>0, <3>1 DEF TypeOK
    <3>3. WaitsOnce'
      BY <2>0, <3>1, <3>2, EnqueueWaits DEF WaitInv
    <3>4. \A d \in Calls : d > submitted' => status'[d] = "new"
      BY <2>0, <3>1 DEF WaitInv
    <3> QED
      BY <3>1, <3>3, <3>4 DEF WaitInv
  <2>3. CASE Take
    <3>1. WaitsOnce'
      BY <2>0, <2>3, TakeWaits
    <3>2. phase' # "idle" /\ UNCHANGED <<status, submitted>>
      BY <2>3 DEF Take, Paused
    <3> QED
      BY <3>1, <3>2 DEF WaitInv
  <2>4. CASE /\ UNCHANGED <<status, key, pend, hand, submitted>>
             /\ phase' = "idle" => phase = "idle"
    BY <2>4 DEF WaitInv, WaitsOnce
  <2>5. CASE Resume \/ Acquire \/ Shutdown \/ Tick
    BY <2>4, <2>5 DEF Resume, Acquire, Shutdown, Tick
  <2>6. CASE Deliver
    <3>1. /\ Done /\ UNCHANGED <<key, pend, submitted>>
          /\ \A c \in Calls : status'[c] =
               IF c \in hand.work.waiters THEN "ok" ELSE status[c]
      BY <2>6 DEF Deliver
    <3>2. WaitsOnce'
      BY <2>0, <3>1, DoneWaits
    <3>3. \A c \in Calls : c > submitted' => status'[c] = "new"
      BY <3>1 DEF WaitInv, WaitsOnce
    <3> QED
      BY <3>1, <3>2, <3>3 DEF WaitInv, Done, NoWork
  <2>7. ASSUME NEW transient \in BOOLEAN, NEW flood \in 0..MaxFlood,
               Fail(transient, flood)
        PROVE  WaitInv'
    <3>1. /\ Done /\ UNCHANGED <<key, pend, submitted>>
          /\ \A c \in Calls : status'[c] =
               IF c \notin hand.work.waiters THEN status[c]
               ELSE IF Again(c, transient) THEN "backoff" ELSE "error"
      BY <2>7 DEF Fail
    <3>2. WaitsOnce'
      BY <2>0, <3>1, DoneWaits
    <3>3. \A c \in Calls : c > submitted' => status'[c] = "new"
      BY <3>1 DEF WaitInv, WaitsOnce
    <3> QED
      BY <3>1, <3>2, <3>3 DEF WaitInv, Done, NoWork
  <2>8. CASE UNCHANGED vars
    BY <2>4, <2>8 DEF vars
  <2> QED
    BY <2>1, <2>2, <2>3, <2>5, <2>6, <2>7, <2>8 DEF Next
<1> QED
  BY <1>1, <1>2, TypeInvariant, PTL DEF Spec

\* Every caller that waits is in the list of exactly one task, of its key.
THEOREM NoCallLost == Spec => []WaitsOnce
<1>1. WaitInv => WaitsOnce
  BY DEF WaitInv
<1> QED
  BY <1>1, WaitInvariant, PTL

-----------------------------------------------------------------------------
(***************************************************************************)
(* The last update of a message.                                           *)
(***************************************************************************)

\* No update of k had to be tried again; l is the last one.
FirstTry(k) == \A c \in CallsOf(k) : attempt[c] = 0
IsLatest(l, k) == l \in CallsOf(k) /\ \A d \in CallsOf(k) : d <= l

\* While nothing is tried again, the last update of a message is what is queued for it; once
\* it has left the queue it is what the worker holds of that message, and once it is answered
\* what the platform shows.
Ordered(k, l) ==
    /\ pend[k].func \in {0, l}
    /\ hand.key = k /\ hand.work.func # 0 /\ l \notin pend[k].waiters => hand.work.func = l
    /\ status[l] = "ok" => shown[k] = l

LatestInv ==
    /\ phase \in {"paused", "throttled", "calling"} => hand.work.func # 0
    /\ \A k \in Keys : CallsOf(k) # {} => \E l \in CallsOf(k) : IsLatest(l, k)
    /\ \A k \in Keys, l \in Calls : FirstTry(k) /\ IsLatest(l, k) => Ordered(k, l)

\* An update that is queued: from here on it is the last of its message, or a later attempt.
LEMMA SubmitLatest ==
    ASSUME TypeOK, LatestInv, NEW k \in Keys, NEW fire \in BOOLEAN, Submit(k, fire)
    PROVE  LatestInv'
<1> DEFINE c == submitted + 1
<1>1. /\ submitted \in Nat /\ MaxCalls \in Nat /\ c \in Calls /\ 1..submitted \subseteq Calls
      /\ pend \in [Keys -> Work] /\ key \in [Calls -> Keys]
      /\ status \in [Calls -> {"new", "waiting", "backoff", "ok", "error"}]
  BY OutboxAssumption DEF Submit, TypeOK, Calls
<1>2. /\ submitted' = c /\ key' = [key EXCEPT ![c] = k]
      /\ status' = [status EXCEPT ![c] = "waiting"] /\ Enqueue(c, k)
      /\ UNCHANGED <<attempt, phase, hand, shown>>
  BY DEF Submit, workerVars
<1>3. /\ 1..c = (1..submitted) \cup {c} /\ c \notin 1..submitted
      /\ \A d \in 1..submitted : d <= c
      /\ c <= c
  BY <1>1
<1> HIDE DEF c
<1>4. /\ CallsOf(k)' = CallsOf(k) \cup {c}
      /\ \A j \in Keys \ {k} : CallsOf(j)' = CallsOf(j)
  BY <1>1, <1>2, <1>3 DEF CallsOf
<1>5. \A j \in Keys : CallsOf(j) \subseteq 1..submitted
  BY DEF CallsOf
<1>6. /\ pend'[k].func = c /\ pend'[k].waiters = pend[k].waiters \cup {c}
      /\ \A j \in Keys \ {k} : pend'[j] = pend[j]
  BY <1>1, <1>2 DEF Enqueue, Work
<1>7. ASSUME NEW j \in Keys, CallsOf(j)' # {}
      PROVE  \E l \in CallsOf(j)' : IsLatest(l, j)'
  BY <1>3, <1>4, <1>5, <1>7 DEF LatestInv, IsLatest
<1>8. ASSUME NEW j \in Keys, NEW l \in Calls, FirstTry(j)', IsLatest(l, j)'
      PROVE  Ordered(j, l)'
  <2>1. CASE j # k
    <3>1. FirstTry(j) /\ IsLatest(l, j) /\ l # c
      BY <1>2, <1>3, <1>4, <1>5, <1>8, <2>1 DEF FirstTry, IsLatest
    <3> QED
      BY <1>1, <1>2, <1>6, <2>1, <3>1 DEF LatestInv, Ordered
  <2>2. CASE j = k
    <3>1. l = c
      <4>1. c <= l /\ (l = c \/ l <= c) /\ l \in Nat /\ c \in Nat
        BY <1>1, <1>3, <1>4, <1>5, <1>8, <2>2 DEF IsLatest, Calls
      <4> QED
        BY <4>1
    <3> QED
      BY <1>1, <1>2, <1>6, <2>2, <3>1 DEF Ordered
  <2> QED
    BY <2>1, <2>2
<1>9. (phase \in {"paused", "throttled", "calling"} => hand.work.func # 0)'
  BY <1>2 DEF LatestInv
<1> QED
  BY <1>7, <1>8, <1>9 DEF LatestInv

\* Steps that submit nothing and queue nothing.
LEMMA StayLatest ==
    ASSUME LatestInv, UNCHANGED <<submitted, key, attempt>>,
           (phase \in {"paused", "throttled", "calling"} => hand.work.func # 0)',
           \A k \in Keys, l \in Calls : FirstTry(k) /\ IsLatest(l, k) => Ordered(k, l)'
    PROVE  LatestInv'
<1>1. \A k \in Keys : CallsOf(k)' = CallsOf(k)
  BY DEF CallsOf
<1>2. ASSUME NEW k \in Keys, NEW l, FirstTry(k)' \/ IsLatest(l, k) \/ IsLatest(l, k)'
      PROVE  (IsLatest(l, k)' <=> IsLatest(l, k)) /\ (FirstTry(k)' <=> FirstTry(k))
  BY <1>1 DEF IsLatest, FirstTry
<1>3. \A k \in Keys : CallsOf(k)' # {} => \E l \in CallsOf(k)' : IsLatest(l, k)'
  BY <1>1, <1>2 DEF LatestInv
<1>4. ASSUME NEW k \in Keys, NEW l \in Calls, FirstTry(k)', IsLatest(l, k)'
      PROVE  Ordered(k, l)'
  <2>1. FirstTry(k) /\ IsLatest(l, k)
    BY <1>2, <1>4
  <2> QED
    BY <2>1
<1>5. Calls' = Calls
  BY DEF Calls
<1> QED
  BY <1>3, <1>4, <1>5 DEF LatestInv

\* A call that is tried again speaks for its message no longer.
LEMMA RetryLatest ==
    ASSUME TypeOK, WaitInv, LatestInv, NEW c \in Calls, Retry(c)
    PROVE  LatestInv'
<1>1. /\ submitted \in Nat /\ 1..submitted \subseteq Calls /\ key[c] \in Keys
      /\ pend \in [Keys -> Work] /\ attempt \in [Calls -> 0..MaxRetries]
  BY OutboxAssumption DEF TypeOK, Calls
<1>2. /\ attempt' = [attempt EXCEPT ![c] = @ + 1] /\ Enqueue(c, key[c])
      /\ status' = [status EXCEPT ![c] = "waiting"] /\ status[c] = "backoff"
      /\ UNCHANGED <<submitted, key, phase, hand, shown>>
  BY DEF Retry, workerVars
<1>3. c \in 1..submitted
  BY <1>1, <1>2 DEF WaitInv, Calls
<1>4. /\ \A j \in Keys : CallsOf(j)' = CallsOf(j)
      /\ \A j \in Keys \ {key[c]} : c \notin CallsOf(j) /\ pend'[j] = pend[j]
      /\ c \in CallsOf(key[c])
  BY <1>1, <1>2, <1>3 DEF CallsOf, Enqueue
<1>5. attempt'[c] # 0 /\ \A d \in Calls \ {c} : attempt'[d] = attempt[d]
  BY <1>1, <1>2
<1>6. ASSUME NEW j \in Keys, NEW l \in Calls, FirstTry(j)', IsLatest(l, j)'
      PROVE  Ordered(j, l)'
  <2>1. j # key[c]
    BY <1>4, <1>5, <1>6 DEF FirstTry
  <2>2. CallsOf(j) \subseteq Calls \ {c}
    BY <1>1, <1>4, <2>1 DEF CallsOf
  <2>3. FirstTry(j) /\ IsLatest(l, j) /\ l # c
    BY <1>4, <1>5, <1>6, <2>2 DEF FirstTry, IsLatest
  <2>4. status'[l] = status[l] /\ pend'[j] = pend[j]
    BY <1>2, <1>4, <2>1, <2>3 DEF TypeOK
  <2> QED
    BY <1>2, <2>3, <2>4 DEF LatestInv, Ordered
<1>7. \A j \in Keys : CallsOf(j)' # {} => \E l \in CallsOf(j)' : IsLatest(l, j)'
  BY <1>4 DEF LatestInv, IsLatest
<1> QED
  BY <1>2, <1>6, <1>7 DEF LatestInv

\* What the worker holds of a message, when its last update does not wait in the queue,
\* is that update.
LEMMA HandIsLatest ==
    ASSUME TypeOK, WaitInv, LatestInv, phase = "calling", NEW k \in Keys, NEW l \in Calls,
           FirstTry(k), IsLatest(l, k), hand.key = k,
           status[l] = "ok" \/ l \in hand.work.waiters
    PROVE  hand.work.func = l
<1>1. key[l] = k
  BY DEF IsLatest, CallsOf
<1>2. l \notin pend[k].waiters
  BY <1>1 DEF WaitInv, WaitsOnce
<1> QED
  BY <1>2 DEF LatestInv, Ordered

\* LatestInv is an invariant.
LEMMA LatestInvariant == Spec => []LatestInv
<1>1. Init => LatestInv
  <2> SUFFICES ASSUME Init PROVE LatestInv
    OBVIOUS
  <2>1. \A k \in Keys : CallsOf(k) = {}
    BY DEF Init, CallsOf
  <2> QED
    BY <2>1 DEF Init, LatestInv, IsLatest
<1>2. TypeInv /\ QueueAgrees /\ WaitInv /\ LatestInv /\ [Next]_vars => LatestInv'
  <2> SUFFICES ASSUME TypeOK, QueueAgrees, WaitInv, LatestInv, [Next]_vars PROVE LatestInv'
    BY DEF TypeInv
  <2> USE DEF callVars, queueVars, workerVars, timeVars
  <2>1. CASE Take
    <3> DEFINE q == Head(queue)
    <3>1. /\ q \in Keys /\ q = queue[1] /\ 1 \in DOMAIN queue
          /\ pend \in [Keys -> Work]
      BY <2>1, HeadTailProperties DEF Take, TypeOK
    <3>2. pend[q].func # 0
      BY <3>1 DEF QueueAgrees
    <3>3. /\ hand' = [key |-> q, work |-> pend[q]] /\ pend' = [pend EXCEPT ![q] = NoWork]
          /\ UNCHANGED <<submitted, key, attempt, status, shown>>
      BY <2>1 DEF Take
    <3> HIDE DEF q
    <3>4. /\ hand'.key = q /\ hand'.work = pend[q] /\ pend'[q].func = 0
          /\ \A k \in Keys \ {q} : pend'[k] = pend[k]
      BY <3>1, <3>3 DEF NoWork
    <3>5. ASSUME NEW k \in Keys, NEW l \in Calls, FirstTry(k), IsLatest(l, k)
          PROVE  Ordered(k, l)'
      BY <3>2, <3>3, <3>4, <3>5 DEF LatestInv, Ordered
    <3> QED
      BY <3>2, <3>3, <3>4, <3>5, StayLatest
  <2>2. CASE Resume \/ Acquire \/ Tick
    <3>1. /\ UNCHANGED <<submitted, key, attempt, status, shown, pend, hand>>
          /\ phase' \in {"paused", "throttled", "calling"}
                => phase \in {"paused", "throttled", "calling"}
      BY <2>2 DEF Resume, Acquire, Tick
    <3> QED
      BY <3>1, StayLatest DEF LatestInv, Ordered
  <2>3. CASE Deliver
    <3>1. /\ phase = "calling" /\ phase' = "idle" /\ hand'.work.func = 0
          /\ UNCHANGED <<submitted, key, attempt, pend>>
          /\ shown' = [shown EXCEPT ![hand.key] = hand.work.func]
          /\ \A c \in Calls : status'[c] =
                                IF c \in hand.work.waiters THEN "ok" ELSE status[c]
      BY <2>3 DEF Deliver, Done, NoWork, TypeOK
    <3>2. ASSUME NEW k \in Keys, NEW l \in Calls, FirstTry(k), IsLatest(l, k),
                 status'[l] = "ok"
          PROVE  shown'[k] = l
      <4>1. status[l] = "ok" \/ l \in hand.work.waiters
        BY <3>1, <3>2
      <4>2. CASE hand.key = k
        BY <3>1, <3>2, <4>1, <4>2, HandIsLatest DEF TypeOK
      <4>3. CASE hand.key # k
        <5>1. key[l] = k
          BY <3>2 DEF IsLatest, CallsOf
        <5>2. status[l] = "ok"
          BY <4>1, <4>3, <5>1 DEF WaitInv, WaitsOnce
        <5> QED
          BY <3>1, <3>2, <4>3, <5>2 DEF LatestInv, Ordered, TypeOK
      <4> QED
        BY <4>2, <4>3
    <3>3. ASSUME NEW k \in Keys, NEW l \in Calls, FirstTry(k), IsLatest(l, k)
          PROVE  Ordered(k, l)'
      BY <3>1, <3>2, <3>3 DEF LatestInv, Ordered
    <3> QED
      BY <3>1, <3>3, StayLatest
  <2>4. ASSUME NEW transient \in BOOLEAN, NEW flood \in 0..MaxFlood, Fail(transient, flood)
        PROVE  LatestInv'
    <3>1. /\ phase' = "idle" /\ hand'.work.func = 0
          /\ UNCHANGED <<submitted, key, attempt, pend, shown>>
          /\ \A c \in Calls : status'[c] = "ok" => status[c] = "ok"
      BY <2>4 DEF Fail, Done, NoWork, TypeOK
    <3> QED
      BY <3>1, StayLatest DEF LatestInv, Ordered
  <2>5. CASE Shutdown
    <3>1. /\ phase' = "ended" /\ UNCHANGED <<submitted, key, attempt, pend, hand, status>>
          /\ \/ UNCHANGED shown
             \/ phase = "calling" /\ shown' = [shown EXCEPT ![hand.key] = hand.work.func]
      BY <2>5 DEF Shutdown
    <3>2. ASSUME NEW k \in Keys, NEW l \in Calls, FirstTry(k), IsLatest(l, k)
          PROVE  Ordered(k, l)'
      <4>1. Ordered(k, l)
        BY <3>2 DEF LatestInv
      <4>2. CASE UNCHANGED shown
        BY <3>1, <4>1, <4>2 DEF Ordered
      <4>3. CASE phase = "calling" /\ shown' = [shown EXCEPT ![hand.key] = hand.work.func]
        <5>1. status[l] = "ok" /\ hand.key = k => hand.work.func = l
          BY <3>2, <4>3, HandIsLatest
        <5> QED
          BY <3>1, <4>1, <4>3, <5>1 DEF Ordered, TypeOK
      <4> QED
        BY <3>1, <4>2, <4>3
    <3> QED
      BY <3>1, <3>2, StayLatest
  <2>6. CASE UNCHANGED vars
    BY <2>6, StayLatest DEF vars, LatestInv, Ordered
  <2> QED
    BY <2>1, <2>2, <2>3, <2>4, <2>5, <2>6, SubmitLatest, RetryLatest DEF Next
<1> QED
  BY <1>1, <1>2, TypeInvariant, QueueMatches, WaitInvariant, PTL DEF Spec

\* When every update of a message was reported as delivered, and none had to be tried again,
\* the message shows the last one, however the updates were compacted in the queue.
THEOREM LastUpdateShown == Spec => []LatestShown
<1>1. TypeOK /\ LatestInv => LatestShown
  <2> SUFFICES ASSUME TypeOK, LatestInv, NEW k \in Keys, Delivered(k), FirstTry(k)
               PROVE  shown[k] = Latest(k)
    BY DEF LatestShown, FirstTry
  <2>1. CallsOf(k) # {}
    BY DEF Delivered
  <2>2. \E l \in CallsOf(k) : \A d \in CallsOf(k) : d <= l
    BY <2>1 DEF LatestInv, IsLatest
  <2>3. Latest(k) \in CallsOf(k) /\ IsLatest(Latest(k), k)
    BY <2>2 DEF Latest, IsLatest
  <2>4. CallsOf(k) \subseteq Calls
    BY OutboxAssumption DEF CallsOf, Calls, TypeOK
  <2>5. status[Latest(k)] = "ok"
    BY <2>3 DEF Delivered
  <2> QED
    BY <2>3, <2>4, <2>5 DEF LatestInv, Ordered
<1>2. TypeInv => TypeOK
  BY DEF TypeInv
<1> QED
  BY <1>1, <1>2, TypeInvariant, LatestInvariant, PTL

-----------------------------------------------------------------------------
(***************************************************************************)
(* The limiter of a provider.                                              *)
(***************************************************************************)

\* A request that saw the current block sleeps at least as long as it lasts.
SeenInv ==
    \A r \in seen : \/ stage[r] = "blocked" /\ block <= sleep[r]
                    \/ stage[r] = "window" /\ block = 0

Slots == IsFiniteSet(Holders) /\ SlotsBalance

ProviderInv == LimiterTypeOK /\ WindowInv(stamps, called) /\ Slots /\ SeenInv

\* The phases that are neither waiting in line nor holding a slot.
LEMMA Phases ==
    /\ "slot" \notin Holding /\ "slot" \notin Ended
    /\ \A p \in Ended : p \notin Holding
    /\ "new" \notin Holding /\ "new" # "slot"
  BY DEF Holding, Ended

\* A step in which nobody enters or leaves.
LEMMA SlotsKept ==
    ASSUME ProviderInv, UNCHANGED semVars,
           \A r \in Requests : stage'[r] \in Holding <=> stage[r] \in Holding,
           \A r \in Requests : stage'[r] = "slot" <=> stage[r] = "slot"
    PROVE  Slots'
<1>1. Holders' = Holders
  BY DEF Holders
<1>2. {r \in Requests : stage'[r] = "slot"} = {r \in Requests : stage[r] = "slot"}
  OBVIOUS
<1> QED
  BY <1>1, <1>2 DEF ProviderInv, Slots, SlotsBalance, semVars

\* A request that arrives takes a free slot or joins the line, and the slots balance.
LEMMA ArriveSlots ==
    ASSUME ProviderInv, NEW r \in Requests, Arrive(r)
    PROVE  Slots' /\ line' \in Seq(Requests) /\ free' \in 0..MaxConcurrency
<1> USE ProviderAssumption
<1>1. /\ stage \in [Requests -> {"new", "slot"} \cup Holding \cup Ended]
      /\ line \in Seq(Requests) /\ free \in 0..MaxConcurrency
      /\ IsFiniteSet(Holders) /\ SlotsBalance /\ stage[r] = "new"
  BY DEF ProviderInv, LimiterTypeOK, Slots, Arrive
<1>2. r \notin Holders
  BY <1>1, Phases DEF Holders
<1>3. Cardinality(Holders) \in Nat
  BY <1>1, FS_CardinalityType
<1>4. CASE free > 0
  <2>1. stage' = [stage EXCEPT ![r] = "start"] /\ line' = line /\ free' = free - 1
    BY <1>4 DEF Arrive
  <2>2. Holders' = Holders \cup {r}
    BY <1>1, <2>1 DEF Holders, Holding
  <2>3. IsFiniteSet(Holders') /\ Cardinality(Holders') = Cardinality(Holders) + 1
    BY <1>1, <1>2, <2>2, FS_AddElement
  <2>4. {q \in Requests : stage'[q] = "slot"} = {q \in Requests : stage[q] = "slot"}
    BY <1>1, <2>1
  <2>5. line = <<>>
    BY <1>1, <1>4 DEF SlotsBalance
  <2>6. free' + Cardinality(Holders') = MaxConcurrency
    BY <1>1, <1>3, <2>1, <2>3 DEF SlotsBalance
  <2> QED
    BY <1>1, <1>4, <2>1, <2>3, <2>4, <2>5, <2>6 DEF Slots, SlotsBalance
<1>5. CASE free = 0
  <2>1. /\ stage' = [stage EXCEPT ![r] = "slot"] /\ line' = Append(line, r)
        /\ free' = free
    BY <1>1, <1>5 DEF Arrive
  <2>2. Holders' = Holders
    BY <1>1, <1>2, <2>1, Phases DEF Holders
  <2>3. /\ line' \in Seq(Requests) /\ Len(line') = Len(line) + 1
        /\ line'[Len(line) + 1] = r /\ \A i \in 1..Len(line) : line'[i] = line[i]
        /\ DOMAIN line = 1..Len(line) /\ DOMAIN line' = 1..(Len(line) + 1)
        /\ Len(line) \in Nat
    BY <1>1, <2>1
  <2>4. \A i \in DOMAIN line : line[i] # r
    BY <1>1 DEF SlotsBalance
  <2>5. {line'[i] : i \in DOMAIN line'} = {line[i] : i \in DOMAIN line} \cup {r}
    BY <2>3
  <2>6. {q \in Requests : stage'[q] = "slot"}
        = {q \in Requests : stage[q] = "slot"} \cup {r}
    BY <1>1, <2>1
  <2>7. \A i, j \in DOMAIN line' : line'[i] = line'[j] => i = j
    <3> SUFFICES ASSUME NEW i \in 1..(Len(line) + 1), NEW j \in 1..(Len(line) + 1),
                        line'[i] = line'[j]
                 PROVE  i = j
      BY <2>3
    <3>1. CASE i \in 1..Len(line) /\ j \in 1..Len(line)
      BY <1>1, <2>3, <3>1 DEF SlotsBalance
    <3>2. CASE i \notin 1..Len(line) \/ j \notin 1..Len(line)
      BY <2>3, <2>4, <3>2
    <3> QED
      BY <3>1, <3>2
  <2> QED
    BY <1>1, <1>5, <2>1, <2>2, <2>3, <2>5, <2>6, <2>7 DEF Slots, SlotsBalance
<1> QED
  BY <1>1, <1>4, <1>5

\* A request with a slot gives it up: it goes to the first in line, or is free.
LEMMA LeaveSlots ==
    ASSUME ProviderInv, NEW r \in Requests, stage[r] \in Holding,
           NEW end \in Ended, Leave(r, end)
    PROVE  /\ Slots' /\ line' \in Seq(Requests) /\ free' \in 0..MaxConcurrency
           /\ stage' \in [Requests -> {"new", "slot"} \cup Holding \cup Ended]
           /\ \A q \in Requests :
                 \/ q = r \/ stage'[q] = stage[q]
                 \/ stage[q] = "slot" /\ stage'[q] = "start"
<1> USE ProviderAssumption
<1>1. /\ stage \in [Requests -> {"new", "slot"} \cup Holding \cup Ended]
      /\ line \in Seq(Requests) /\ free \in 0..MaxConcurrency
      /\ IsFiniteSet(Holders) /\ SlotsBalance
  BY DEF ProviderInv, LimiterTypeOK, Slots
<1>2. r \in Holders /\ r \notin {q \in Requests : stage[q] = "slot"}
  BY Phases DEF Holders
<1>3. /\ IsFiniteSet(Holders \ {r})
      /\ Cardinality(Holders \ {r}) = Cardinality(Holders) - 1
      /\ Cardinality(Holders) \in Nat
  BY <1>1, <1>2, FS_RemoveElement, FS_CardinalityType
<1>4. CASE line = <<>>
  <2>1. /\ free' = free + 1 /\ stage' = [stage EXCEPT ![r] = end]
        /\ line' = line
    BY <1>4 DEF Leave
  <2>2. Holders' = Holders \ {r}
    BY <1>1, <2>1, Phases DEF Holders
  <2>3. {q \in Requests : stage'[q] = "slot"} = {q \in Requests : stage[q] = "slot"}
    BY <1>1, <1>2, <2>1, Phases
  <2>4. Cardinality(Holders') \in Nat
    BY <1>3, <2>2, FS_CardinalityType
  <2>5. free' + Cardinality(Holders') = MaxConcurrency
    BY <1>1, <1>3, <2>1, <2>2 DEF SlotsBalance
  <2>6. free' \in 0..MaxConcurrency
    BY <1>1, <2>1, <2>4, <2>5
  <2>7. Slots'
    BY <1>1, <1>3, <1>4, <2>1, <2>2, <2>3, <2>5 DEF Slots, SlotsBalance
  <2> QED
    BY <1>1, <2>1, <2>6, <2>7
<1>5. CASE line # <<>>
  <2> DEFINE h == Head(line)
  <2>1. /\ stage' = [stage EXCEPT ![r] = end, ![h] = "start"]
        /\ line' = Tail(line) /\ free' = free
    BY <1>5 DEF Leave
  <2>2. /\ Len(line) \in Nat \ {0} /\ DOMAIN line = 1..Len(line) /\ h = line[1]
        /\ line' \in Seq(Requests) /\ Len(line') = Len(line) - 1
        /\ DOMAIN line' = 1..(Len(line) - 1)
        /\ \A i \in 1..(Len(line) - 1) : line'[i] = line[i + 1]
    BY <1>1, <1>5, <2>1
  <2>3. h \in Requests /\ stage[h] = "slot"
    <3>1. h \in {line[i] : i \in DOMAIN line}
      BY <2>2
    <3> QED
      BY <1>1, <3>1 DEF SlotsBalance
  <2>4. h \notin Holders /\ h # r
    BY <1>2, <2>3, Phases DEF Holders
  <2> HIDE DEF h
  <2>5. \A q \in Requests : stage'[q] = IF q = h THEN "start"
                                        ELSE IF q = r THEN end ELSE stage[q]
    BY <1>1, <2>1, <2>3, <2>4
  <2>6. Holders' = (Holders \ {r}) \cup {h}
    <3>1. "start" \in Holding
      BY DEF Holding
    <3> QED
      BY <2>3, <2>5, <3>1, Phases DEF Holders
  <2>7. IsFiniteSet(Holders') /\ Cardinality(Holders') = Cardinality(Holders)
    <3> DEFINE others == Holders \ {r}
    <3>1. /\ h \notin others /\ IsFiniteSet(others) /\ Holders' = others \cup {h}
          /\ Cardinality(others) = Cardinality(Holders) - 1 /\ Cardinality(Holders) \in Nat
      BY <1>3, <2>4, <2>6
    <3> HIDE DEF others
    <3>2. IsFiniteSet(others \cup {h}) /\ Cardinality(others \cup {h}) = Cardinality(others) + 1
      BY <3>1, FS_AddElement
    <3> QED
      BY <3>1, <3>2
  <2>8. {q \in Requests : stage'[q] = "slot"}
        = {q \in Requests : stage[q] = "slot"} \ {h}
    BY <1>2, <2>3, <2>5, Phases
  <2>9. \A i, j \in DOMAIN line : line[i] = line[j] => i = j
    BY <1>1 DEF SlotsBalance
  <2>10. {line'[i] : i \in DOMAIN line'} = {line[i] : i \in DOMAIN line} \ {h}
    <3>1. ASSUME NEW i \in DOMAIN line'
          PROVE  line'[i] \in {line[j] : j \in DOMAIN line} \ {h}
      <4>1. i + 1 \in DOMAIN line /\ 1 \in DOMAIN line /\ i + 1 # 1
        BY <2>2, <3>1
      <4> QED
        BY <2>2, <2>9, <3>1, <4>1
    <3>2. ASSUME NEW j \in DOMAIN line, line[j] # h
          PROVE  line[j] \in {line'[i] : i \in DOMAIN line'}
      <4>1. j - 1 \in DOMAIN line' /\ line'[j - 1] = line[j]
        BY <2>2, <3>2
      <4> QED
        BY <4>1
    <3> QED
      BY <3>1, <3>2
  <2>11. \A i, j \in DOMAIN line' : line'[i] = line'[j] => i = j
    <3> SUFFICES ASSUME NEW i \in DOMAIN line', NEW j \in DOMAIN line',
                        line'[i] = line'[j]
                 PROVE  i = j
      OBVIOUS
    <3>1. /\ i + 1 \in DOMAIN line /\ j + 1 \in DOMAIN line
          /\ line[i + 1] = line[j + 1] /\ i \in Nat /\ j \in Nat
      BY <2>2
    <3>2. i + 1 = j + 1
      BY <2>9, <3>1
    <3> QED
      BY <3>1, <3>2
  <2>12. free = 0
    BY <1>1, <1>5 DEF SlotsBalance
  <2>13. stage' \in [Requests -> {"new", "slot"} \cup Holding \cup Ended]
    BY <1>1, <2>1 DEF Holding
  <2>14. {line'[i] : i \in DOMAIN line'} = {q \in Requests : stage'[q] = "slot"}
    BY <1>1, <2>8, <2>10 DEF SlotsBalance
  <2>15. Slots'
    BY <1>1, <2>1, <2>7, <2>11, <2>12, <2>14 DEF Slots, SlotsBalance
  <2> QED
    BY <1>1, <2>1, <2>2, <2>3, <2>5, <2>13, <2>15
<1> QED
  BY <1>4, <1>5

\* A sequence without repetitions, with one of its elements taken out, has the others.
LEMMA WithoutProperties ==
    ASSUME NEW S, NEW s \in Seq(S), NEW i \in DOMAIN s,
           \A k, l \in DOMAIN s : s[k] = s[l] => k = l
    PROVE  /\ Without(s, i) \in Seq(S)
           /\ {Without(s, i)[j] : j \in DOMAIN Without(s, i)}
              = {s[j] : j \in DOMAIN s} \ {s[i]}
           /\ \A k, l \in DOMAIN Without(s, i) :
                 Without(s, i)[k] = Without(s, i)[l] => k = l
<1> DEFINE n == Len(s) - 1
           w == Without(s, i)
           at(j) == IF j < i THEN j ELSE j + 1
<1>1. /\ Len(s) \in Nat /\ DOMAIN s = 1..Len(s) /\ i \in 1..Len(s) /\ n \in Nat
  OBVIOUS
<1>2. w = [j \in 1..n |-> s[at(j)]]
  BY DEF Without
<1>3. \A j \in 1..n : at(j) \in 1..Len(s) /\ at(j) # i
  BY <1>1
<1>4. \A j, k \in 1..n : at(j) = at(k) => j = k
  BY <1>1
<1>5. \A j \in 1..Len(s) : j # i => \E k \in 1..n : at(k) = j
  <2> SUFFICES ASSUME NEW j \in 1..Len(s), j # i
               PROVE  \E k \in 1..n : at(k) = j
    OBVIOUS
  <2>1. CASE j < i
    BY <1>1, <2>1
  <2>2. CASE j > i
    <3>1. j - 1 \in 1..n /\ at(j - 1) = j
      BY <1>1, <2>2
    <3> QED
      BY <3>1
  <2> QED
    BY <1>1, <2>1, <2>2
<1> HIDE DEF w, at, n
<1>6. w \in [1..n -> S] /\ DOMAIN w = 1..n /\ \A j \in 1..n : w[j] = s[at(j)]
  BY <1>1, <1>2, <1>3
<1>7. w \in Seq(S)
  BY <1>1, <1>6, SequenceOf
<1>8. {w[j] : j \in DOMAIN w} = {s[j] : j \in DOMAIN s} \ {s[i]}
  <2>1. ASSUME NEW j \in DOMAIN w PROVE w[j] \in {s[k] : k \in DOMAIN s} \ {s[i]}
    BY <1>1, <1>3, <1>6, <2>1
  <2>2. ASSUME NEW k \in DOMAIN s, s[k] # s[i] PROVE s[k] \in {w[j] : j \in DOMAIN w}
    <3>1. PICK j \in 1..n : at(j) = k
      BY <1>1, <1>5, <2>2
    <3> QED
      BY <1>6, <3>1
  <2> QED
    BY <2>1, <2>2
<1>9. \A k, l \in DOMAIN w : w[k] = w[l] => k = l
  BY <1>1, <1>3, <1>4, <1>6
<1> QED
  BY <1>7, <1>8, <1>9 DEF w

\* A client that goes away gives back its slot or its place in the line: the slots balance.
LEMMA DisconnectSlots ==
    ASSUME ProviderInv, NEW r \in Requests, Disconnect(r)
    PROVE  /\ Slots' /\ line' \in Seq(Requests) /\ free' \in 0..MaxConcurrency
           /\ stage' \in [Requests -> {"new", "slot"} \cup Holding \cup Ended]
           /\ \A q \in Requests :
                 \/ q = r \/ stage'[q] = stage[q]
                 \/ stage[q] = "slot" /\ stage'[q] = "start"
<1> USE ProviderAssumption
<1>1. /\ stage \in [Requests -> {"new", "slot"} \cup Holding \cup Ended]
      /\ line \in Seq(Requests) /\ free \in 0..MaxConcurrency
      /\ IsFiniteSet(Holders) /\ SlotsBalance
  BY DEF ProviderInv, LimiterTypeOK, Slots
<1>2. "gone" \in Ended
  BY DEF Ended
<1>3. CASE stage[r] \in Holding
  <2>1. Leave(r, "gone")
    BY <1>3, Phases DEF Disconnect
  <2> QED
    BY <1>2, <1>3, <2>1, LeaveSlots
<1>4. CASE stage[r] = "slot"
  <2>1. PICK i \in DOMAIN line : line[i] = r /\ line' = Without(line, i)
    BY <1>4, Phases DEF Disconnect
  <2>2. stage' = [stage EXCEPT ![r] = "gone"] /\ free' = free
    BY <1>4, Phases DEF Disconnect
  <2>3. /\ line' \in Seq(Requests)
        /\ {line'[j] : j \in DOMAIN line'} = {line[j] : j \in DOMAIN line} \ {r}
        /\ \A k, l \in DOMAIN line' : line'[k] = line'[l] => k = l
    <3>1. \A k, l \in DOMAIN line : line[k] = line[l] => k = l
      BY <1>1 DEF SlotsBalance
    <3>2. /\ Without(line, i) \in Seq(Requests)
          /\ {Without(line, i)[j] : j \in DOMAIN Without(line, i)}
             = {line[j] : j \in DOMAIN line} \ {line[i]}
          /\ \A k, l \in DOMAIN Without(line, i) :
                Without(line, i)[k] = Without(line, i)[l] => k = l
      BY <1>1, <3>1, WithoutProperties
    <3> QED
      BY <2>1, <3>2
  <2>4. Holders' = Holders
    BY <1>1, <1>2, <1>4, <2>2, Phases DEF Holders
  <2>5. {q \in Requests : stage'[q] = "slot"}
        = {q \in Requests : stage[q] = "slot"} \ {r}
    BY <1>1, <2>2
  <2>6. free = 0
    <3>1. line # <<>>
      BY <1>1, <2>1
    <3> QED
      BY <1>1, <3>1 DEF SlotsBalance
  <2>7. {line'[j] : j \in DOMAIN line'} = {q \in Requests : stage'[q] = "slot"}
    BY <1>1, <2>3, <2>5 DEF SlotsBalance
  <2>8. Slots'
    BY <1>1, <2>2, <2>3, <2>4, <2>6, <2>7 DEF Slots, SlotsBalance
  <2> QED
    BY <1>1, <1>2, <2>2, <2>3, <2>8
<1> QED
  BY <1>3, <1>4 DEF Disconnect
\* What the other actions leave as it is.
LEMMA LimiterTypeStep ==
    ASSUME LimiterTypeOK, stage' \in [Requests -> {"new", "slot"} \cup Holding \cup Ended],
           line' \in Seq(Requests), free' \in 0..MaxConcurrency,
           UNCHANGED <<tries, reopens, sleep, clockVars, seen>>
    PROVE  LimiterTypeOK'
  BY DEF LimiterTypeOK, clockVars

\* Every step keeps the window bound: only Call and Tick touch the deque.
LEMMA WindowStep ==
    ASSUME WindowInv(stamps, called), [LimiterNext]_limiterVars
    PROVE  WindowInv(stamps', called')
<1>1. CASE UNCHANGED <<stamps, called>>
  BY <1>1 DEF WindowInv
<1>2. ASSUME NEW r \in Requests, Call(r) PROVE WindowInv(stamps', called')
  BY <1>2, WindowAcquire DEF Call
<1>3. CASE Elapse
  BY <1>3, WindowTick DEF Elapse
<1>4. CASE UNCHANGED limiterVars
  BY <1>1, <1>4 DEF limiterVars, clockVars
<1>5. ASSUME NEW r \in Requests, Step(r), ~ Call(r)
      PROVE  UNCHANGED <<stamps, called>>
  BY <1>5 DEF Step, Arrive, Check, Unblocked, Opened, BackedOff, Refused,
              StreamEnds, Reopen, BackOff, clockVars
<1>6. ASSUME NEW r \in Requests, Disconnect(r)
      PROVE  UNCHANGED <<stamps, called>>
  BY <1>6 DEF Disconnect, clockVars
<1> QED
  BY <1>1, <1>2, <1>3, <1>4, <1>5, <1>6 DEF LimiterNext

\* Every step of the provider limiter keeps the invariant.
LEMMA ProviderStep == ProviderInv /\ [LimiterNext]_limiterVars => ProviderInv'
<1> SUFFICES ASSUME ProviderInv, [LimiterNext]_limiterVars PROVE ProviderInv'
  OBVIOUS
<1> USE ProviderAssumption DEF semVars, clockVars
<1>0. /\ LimiterTypeOK /\ SeenInv
      /\ stage \in [Requests -> {"new", "slot"} \cup Holding \cup Ended]
  BY DEF ProviderInv, LimiterTypeOK
<1>w. WindowInv(stamps', called') /\ stamps' \in Ages /\ called' \in Ages
  BY WindowStep DEF ProviderInv, WindowInv
<1>1. ASSUME NEW r \in Requests, Arrive(r) PROVE ProviderInv'
  <2>1. Slots' /\ line' \in Seq(Requests) /\ free' \in 0..MaxConcurrency
    BY <1>1, ArriveSlots
  <2>2. stage' \in [Requests -> {"new", "slot"} \cup Holding \cup Ended]
    BY <1>0, <1>1 DEF Arrive, Holding
  <2>3. LimiterTypeOK'
    BY <1>0, <1>1, <2>1, <2>2, LimiterTypeStep DEF Arrive
  <2>4. SeenInv'
    BY <1>0, <1>1 DEF Arrive, SeenInv, LimiterTypeOK
  <2> QED
    BY <1>w, <2>1, <2>3, <2>4 DEF ProviderInv
<1>2. ASSUME NEW r \in Requests, Check(r) PROVE ProviderInv'
  <2>1. Slots'
    BY <1>0, <1>2, SlotsKept DEF Check, Holding
  <2>2. LimiterTypeOK'
    BY <1>0, <1>2, <1>w DEF Check, LimiterTypeOK, Holding
  <2>3. SeenInv'
    BY <1>0, <1>2 DEF Check, SeenInv, LimiterTypeOK
  <2> QED
    BY <1>w, <2>1, <2>2, <2>3 DEF ProviderInv
<1>3. ASSUME NEW r \in Requests, Unblocked(r) PROVE ProviderInv'
  <2>1. Slots'
    BY <1>0, <1>3, SlotsKept DEF Unblocked, Holding
  <2>2. LimiterTypeOK'
    BY <1>0, <1>3, <1>w DEF Unblocked, LimiterTypeOK, Holding
  <2>3. SeenInv'
    BY <1>0, <1>3 DEF Unblocked, SeenInv, LimiterTypeOK
  <2> QED
    BY <1>w, <2>1, <2>2, <2>3 DEF ProviderInv
<1>4. ASSUME NEW r \in Requests, Call(r) PROVE ProviderInv'
  <2>1. Slots'
    BY <1>0, <1>4, SlotsKept DEF Call, Holding
  <2>2. LimiterTypeOK'
    BY <1>0, <1>4, <1>w DEF Call, LimiterTypeOK, Holding
  <2>3. SeenInv'
    BY <1>0, <1>4 DEF Call, SeenInv, LimiterTypeOK
  <2> QED
    BY <1>w, <2>1, <2>2, <2>3 DEF ProviderInv
<1>5. ASSUME NEW r \in Requests, Opened(r) PROVE ProviderInv'
  <2>1. Slots'
    BY <1>0, <1>5, SlotsKept DEF Opened, Holding
  <2>2. LimiterTypeOK'
    BY <1>0, <1>5, <1>w DEF Opened, LimiterTypeOK, Holding
  <2>3. SeenInv'
    BY <1>0, <1>5 DEF Opened, SeenInv, LimiterTypeOK
  <2> QED
    BY <1>w, <2>1, <2>2, <2>3 DEF ProviderInv
<1>6. ASSUME NEW r \in Requests, NEW ticks \in 1..MaxBlock, BackOff(r, ticks)
      PROVE  ProviderInv'
  <2>1. Slots'
    BY <1>0, <1>6, SlotsKept DEF BackOff, Holding
  <2>2. LimiterTypeOK'
    <3>1. /\ tries' \in [Requests -> 0..MaxTries]
          /\ sleep' \in [Requests -> 0..MaxBlock]
      BY <1>0, <1>6 DEF BackOff, LimiterTypeOK
    <3>2. stage' \in [Requests -> {"new", "slot"} \cup Holding \cup Ended]
      BY <1>0, <1>6 DEF BackOff, Holding
    <3>3. block' \in 0..MaxBlock /\ seen' \subseteq Requests
      BY <1>6 DEF BackOff, SetBlocked
    <3> QED
      BY <1>0, <1>6, <1>w, <3>1, <3>2, <3>3 DEF BackOff, LimiterTypeOK
  <2>3. SeenInv'
    BY <1>6 DEF BackOff, SetBlocked, SeenInv
  <2> QED
    BY <1>w, <2>1, <2>2, <2>3 DEF ProviderInv
<1>7. ASSUME NEW r \in Requests, BackedOff(r) PROVE ProviderInv'
  <2>1. Slots'
    BY <1>0, <1>7, SlotsKept DEF BackedOff, Holding
  <2>2. LimiterTypeOK'
    BY <1>0, <1>7, <1>w DEF BackedOff, LimiterTypeOK, Holding
  <2>3. SeenInv'
    BY <1>0, <1>7 DEF BackedOff, SeenInv, LimiterTypeOK
  <2> QED
    BY <1>w, <2>1, <2>2, <2>3 DEF ProviderInv
<1>8. ASSUME NEW r \in Requests, Refused(r) PROVE ProviderInv'
  <2>1. stage[r] \in Holding /\ "failed" \in Ended /\ Leave(r, "failed")
    BY <1>8 DEF Refused, Holding, Ended
  <2>2. /\ Slots' /\ line' \in Seq(Requests) /\ free' \in 0..MaxConcurrency
        /\ stage' \in [Requests -> {"new", "slot"} \cup Holding \cup Ended]
        /\ \A q \in Requests :
              \/ q = r \/ stage'[q] = stage[q]
              \/ stage[q] = "slot" /\ stage'[q] = "start"
    BY <2>1, LeaveSlots
  <2>3. LimiterTypeOK'
    <3>1. tries' \in [Requests -> 0..MaxTries]
      BY <1>0, <1>8 DEF Refused, LimiterTypeOK
    <3>2. block' \in 0..MaxBlock /\ seen' \subseteq Requests
      BY <1>0, <1>8 DEF Refused, SetBlocked, LimiterTypeOK
    <3>3. UNCHANGED <<reopens, sleep>>
      BY <1>8 DEF Refused
    <3> QED
      BY <1>0, <1>w, <2>2, <3>1, <3>2, <3>3 DEF LimiterTypeOK
  <2>4. SeenInv'
    BY <1>0, <1>8, <2>2 DEF Refused, SetBlocked, SeenInv, LimiterTypeOK
  <2> QED
    BY <1>w, <2>2, <2>3, <2>4 DEF ProviderInv
<1>9. ASSUME NEW r \in Requests, StreamEnds(r) PROVE ProviderInv'
  <2>1. stage[r] \in Holding /\ \E end \in Ended : Leave(r, end)
    BY <1>9 DEF StreamEnds, Holding, Ended
  <2>2. /\ Slots' /\ line' \in Seq(Requests) /\ free' \in 0..MaxConcurrency
        /\ stage' \in [Requests -> {"new", "slot"} \cup Holding \cup Ended]
        /\ \A q \in Requests :
              \/ q = r \/ stage'[q] = stage[q]
              \/ stage[q] = "slot" /\ stage'[q] = "start"
    BY <2>1, LeaveSlots
  <2>3. LimiterTypeOK'
    BY <1>0, <1>9, <2>2, LimiterTypeStep DEF StreamEnds
  <2>4. SeenInv'
    BY <1>0, <1>9, <2>2 DEF StreamEnds, SeenInv, LimiterTypeOK
  <2> QED
    BY <1>w, <2>2, <2>3, <2>4 DEF ProviderInv
<1>10. ASSUME NEW r \in Requests, Reopen(r) PROVE ProviderInv'
  <2>1. Slots'
    BY <1>0, <1>10, SlotsKept DEF Reopen, Holding
  <2>2. LimiterTypeOK'
    <3>1. reopens' \in [Requests -> 0..MaxReopens] /\ tries' \in [Requests -> 0..MaxTries]
      BY <1>0, <1>10 DEF Reopen, LimiterTypeOK
    <3>2. stage' \in [Requests -> {"new", "slot"} \cup Holding \cup Ended]
      BY <1>0, <1>10 DEF Reopen, LimiterTypeOK, Holding
    <3>3. UNCHANGED <<sleep, line, free, block, seen>>
      BY <1>10 DEF Reopen, semVars, clockVars
    <3> QED
      BY <1>0, <1>w, <3>1, <3>2, <3>3 DEF LimiterTypeOK
  <2>3. SeenInv'
    BY <1>0, <1>10 DEF Reopen, SeenInv, LimiterTypeOK
  <2> QED
    BY <1>w, <2>1, <2>2, <2>3 DEF ProviderInv
<1>11. ASSUME NEW r \in Requests, Disconnect(r) PROVE ProviderInv'
  <2>1. /\ Slots' /\ line' \in Seq(Requests) /\ free' \in 0..MaxConcurrency
        /\ stage' \in [Requests -> {"new", "slot"} \cup Holding \cup Ended]
        /\ \A q \in Requests :
              \/ q = r \/ stage'[q] = stage[q]
              \/ stage[q] = "slot" /\ stage'[q] = "start"
    BY <1>11, DisconnectSlots
  <2>2. LimiterTypeOK'
    <3>1. /\ tries' \in [Requests -> 0..MaxTries]
          /\ sleep' \in [Requests -> 0..MaxBlock]
      BY <1>0, <1>11 DEF Disconnect, LimiterTypeOK
    <3>2. block' \in 0..MaxBlock /\ seen' \subseteq Requests
      BY <1>0, <1>11 DEF Disconnect, LimiterTypeOK
    <3>3. UNCHANGED reopens
      BY <1>11 DEF Disconnect
    <3> QED
      BY <1>0, <1>w, <2>1, <3>1, <3>2, <3>3 DEF LimiterTypeOK
  <2>3. SeenInv'
    BY <1>0, <1>11, <2>1 DEF Disconnect, SeenInv, LimiterTypeOK
  <2> QED
    BY <1>w, <2>1, <2>2, <2>3 DEF ProviderInv
<1>12. CASE Elapse
  <2>1. Slots'
    BY <1>0, <1>12, SlotsKept DEF Elapse
  <2>2. LimiterTypeOK'
    BY <1>0, <1>12, <1>w DEF Elapse, Less, LimiterTypeOK
  <2>3. SeenInv'
    BY <1>0, <1>12 DEF Elapse, Less, SeenInv, LimiterTypeOK
  <2> QED
    BY <1>w, <2>1, <2>2, <2>3 DEF ProviderInv
<1>13. CASE UNCHANGED limiterVars
  <2>1. Slots'
    BY <1>13, SlotsKept DEF limiterVars, reqVars
  <2>2. LimiterTypeOK' /\ SeenInv'
    BY <1>0, <1>13 DEF limiterVars, reqVars, LimiterTypeOK, SeenInv
  <2> QED
    BY <1>w, <2>1, <2>2 DEF ProviderInv
<1> QED
  BY <1>1, <1>2, <1>3, <1>4, <1>5, <1>6, <1>7, <1>8, <1>9, <1>10, <1>11, <1>12, <1>13
     DEF LimiterNext, Step

\* The provider limiter starts in the invariant.
LEMMA ProviderStart == LimiterInit => ProviderInv
<1> SUFFICES ASSUME LimiterInit PROVE ProviderInv
  OBVIOUS
<1> USE ProviderAssumption
<1>1. Holders = {} /\ {r \in Requests : stage[r] = "slot"} = {}
  BY Phases DEF LimiterInit, Holders
<1>2. WindowInv(stamps, called)
  BY WindowStart DEF LimiterInit
<1>3. Slots
  <2>1. /\ line = <<>> /\ DOMAIN line = {} /\ free = MaxConcurrency
    BY DEF LimiterInit
  <2>2. IsFiniteSet(Holders) /\ Cardinality(Holders) = 0
    BY <1>1, FS_EmptySet
  <2> QED
    BY <1>1, <2>1, <2>2 DEF Slots, SlotsBalance
<1>4. LimiterTypeOK
  BY <1>2 DEF LimiterInit, LimiterTypeOK, WindowInv
<1>5. SeenInv
  BY DEF LimiterInit, SeenInv
<1> QED
  BY <1>2, <1>3, <1>4, <1>5 DEF ProviderInv

\* The invariant of the provider limiter holds always.
LEMMA ProviderAlways == LimiterSpec => []ProviderInv
  BY ProviderStart, ProviderStep, PTL DEF LimiterSpec

\* Every variable of the limiter keeps its type.
THEOREM ProviderTypeCorrect == LimiterSpec => []LimiterTypeOK
<1>1. ProviderInv => LimiterTypeOK
  BY DEF ProviderInv
<1> QED
  BY <1>1, ProviderAlways, PTL

\* Slots are never lost or handed out twice, and those who wait are in line
\* once, for any number of requests and slots.
THEOREM SlotsBalanced == LimiterSpec => []SlotsBalance
<1>1. ProviderInv => SlotsBalance
  BY DEF ProviderInv, Slots
<1> QED
  BY <1>1, ProviderAlways, PTL

\* Retries, recoveries and first calls together stay within the rate.
THEOREM UpstreamRate == LimiterSpec => []UpstreamBound
<1>1. ASSUME ProviderInv PROVE UpstreamBound
  <2>1. /\ stamps \in Seq(0..Window) /\ called \in Seq(0..Window)
        /\ Len(called) <= Len(stamps) /\ Len(stamps) <= RateLimit
    BY <1>1 DEF ProviderInv, WindowInv, Suffix, Ages
  <2>2. Len(called) \in Nat /\ Len(stamps) \in Nat /\ RateLimit \in Nat
    BY <2>1, WindowAssumption
  <2> QED
    BY <2>1, <2>2 DEF UpstreamBound
<1> QED
  BY <1>1, ProviderAlways, PTL

\* A request that saw the current block calls only after its end.
THEOREM BlockRespected == LimiterSpec => SeenBlockHolds
<1>1. ProviderInv /\ [LimiterNext]_limiterVars
      => [\A r \in Requests : Call(r) /\ r \in seen => block = 0]_limiterVars
  BY DEF ProviderInv, SeenInv, Call
<1> QED
  BY <1>1, ProviderAlways, PTL DEF LimiterSpec, SeenBlockHolds
=============================================================================
