---------------------------- MODULE ChatStreamProofs ----------------------------
(***************************************************************************)
(* Proofs about one answer of an OpenAI-chat provider: what the client     *)
(* gets is one well-formed message of one attempt, and of use, wherever    *)
(* the provider fails and however long the answer and the list of retries  *)
(* are.                                                                    *)
(*                                                                         *)
(* The builder is ahead of the client by the events that are held back or  *)
(* on their way.  The invariant says that they lead the client, one legal  *)
(* event after the other, to a view that agrees with the builder.          *)
(***************************************************************************)
EXTENDS ChatStream, SequenceTheorems, FiniteSetTheorems, TLAPS

-----------------------------------------------------------------------------
(***************************************************************************)
(* What a client has seen, and what an event does to it.                   *)
(***************************************************************************)

Indexes == 0..(2 * MaxChunks + 4)
Kinds == {"text", "thinking", "tool_use"}

Client == [stage |-> stage, open |-> open, used |-> used,
           input |-> got.input, kinds |-> got.kinds, reason |-> got.reason]

\* The client's view after event e.
After(v, e) ==
    [stage |-> IF e.type = "message_start" THEN "body"
               ELSE IF e.type = "message_delta" THEN "ending"
               ELSE IF e.type = "message_stop" THEN "stopped" ELSE v.stage,
     open |-> IF e.type = "start"
              THEN [j \in DOMAIN v.open \cup {e.index} |->
                      IF j = e.index THEN e.kind ELSE v.open[j]]
              ELSE IF e.type = "stop"
              THEN [j \in DOMAIN v.open \ {e.index} |-> v.open[j]] ELSE v.open,
     used |-> IF e.type = "start" THEN v.used \cup {e.index} ELSE v.used,
     input |-> [c \in Calls |-> IF e.call # c THEN v.input[c]
                                ELSE IF e.type = "start" THEN "part" ELSE e.data],
     kinds |-> IF e.type = "start" THEN v.kinds \cup {e.kind} ELSE v.kinds,
     reason |-> IF e.type = "message_delta" THEN e.data ELSE v.reason]

\* Event e is legal in view v.
Allowed(v, e) ==
    \/ e.type = "message_start" /\ v.stage = "new"
    \/ /\ e.type = "start" /\ v.stage = "body"
       /\ e.index \in Indexes \ v.used /\ e.kind \in Kinds
    \/ /\ e.type = "delta" /\ v.stage = "body" /\ e.index \in Indexes
       /\ e.index \in DOMAIN v.open /\ v.open[e.index] = e.kind /\ e.kind \in Kinds
    \/ e.type = "stop" /\ v.stage = "body" /\ e.index \in Indexes \cap DOMAIN v.open
    \/ e.type = "error" /\ v.stage = "body" /\ v.used # {}
    \/ e.type = "message_delta" /\ v.stage = "body" /\ v.open = <<>>
    \/ e.type = "message_stop" /\ v.stage = "ending" /\ v.used # {}

\* The first n events of f lead from view v to view w.
Leads(n, f, v, w) ==
    \E st : /\ st[0] = v /\ st[n] = w
            /\ \A i \in 1..n : Allowed(st[i - 1], f[i]) /\ st[i] = After(st[i - 1], f[i])

\* No event changes nothing.
LEMMA LeadsNone ==
    ASSUME NEW f, NEW v
    PROVE  /\ Leads(0, f, v, v)
           /\ \A w : Leads(0, f, v, w) => w = v
<1>1. Leads(0, f, v, v)
  <2> DEFINE st == [i \in 0..0 |-> v]
  <2>1. st[0] = v
    OBVIOUS
  <2> HIDE DEF st
  <2>2. \A i \in 1..0 : Allowed(st[i - 1], f[i]) /\ st[i] = After(st[i - 1], f[i])
    OBVIOUS
  <2> QED
    BY <2>1, <2>2 DEF Leads
<1>2. \A w : Leads(0, f, v, w) => w = v
  BY DEF Leads
<1> QED
  BY <1>1, <1>2

\* Events that lead from v to w, and others that lead on from w, lead on from v.
LEMMA LeadsJoin ==
    ASSUME NEW n \in Nat, NEW m \in Nat, NEW f, NEW g, NEW h, NEW v, NEW w, NEW x,
           Leads(n, f, v, w), Leads(m, g, w, x),
           \A i \in 1..n : h[i] = f[i],
           \A i \in 1..m : h[n + i] = g[i]
    PROVE  Leads(n + m, h, v, x)
<1>1. PICK a : /\ a[0] = v /\ a[n] = w
               /\ \A i \in 1..n : Allowed(a[i - 1], f[i]) /\ a[i] = After(a[i - 1], f[i])
  BY DEF Leads
<1>2. PICK b1 : /\ b1[0] = w /\ b1[m] = x
                /\ \A i \in 1..m : Allowed(b1[i - 1], g[i]) /\ b1[i] = After(b1[i - 1], g[i])
  BY DEF Leads
<1> DEFINE st == [i \in 0..(n + m) |-> IF i <= n THEN a[i] ELSE b1[i - n]]
<1>3. st[0] = v
  BY <1>1
<1>4. st[n + m] = x
  BY <1>1, <1>2
<1>5. ASSUME NEW i \in 1..(n + m)
      PROVE  Allowed(st[i - 1], h[i]) /\ st[i] = After(st[i - 1], h[i])
  <2>1. CASE i <= n
    <3>1. st[i - 1] = a[i - 1] /\ st[i] = a[i] /\ h[i] = f[i] /\ i \in 1..n
      BY <2>1
    <3> QED
      BY <1>1, <3>1
  <2>2. CASE i > n
    <3> DEFINE k == i - n
    <3>1. k \in 1..m /\ i = n + k
      BY <2>2
    <3>2. st[i] = b1[k]
      BY <2>2
    <3>3. st[i - 1] = b1[k - 1]
      <4>1. CASE i = n + 1
        BY <1>1, <1>2, <4>1
      <4>2. CASE i # n + 1
        BY <2>2, <4>2
      <4> QED
        BY <4>1, <4>2
    <3>4. h[i] = g[k]
      BY <3>1
    <3> HIDE DEF k, st
    <3> QED
      BY <1>2, <3>1, <3>2, <3>3, <3>4
  <2> QED
    BY <2>1, <2>2
<1> HIDE DEF st
<1> QED
  BY <1>3, <1>4, <1>5 DEF Leads

\* The first event is legal, and the others lead on from what it leaves.
LEMMA LeadsFirst ==
    ASSUME NEW n \in Nat \ {0}, NEW f, NEW g, NEW v, NEW w, Leads(n, f, v, w),
           \A i \in 1..(n - 1) : g[i] = f[i + 1]
    PROVE  Allowed(v, f[1]) /\ Leads(n - 1, g, After(v, f[1]), w)
<1>1. PICK a : /\ a[0] = v /\ a[n] = w
               /\ \A i \in 1..n : Allowed(a[i - 1], f[i]) /\ a[i] = After(a[i - 1], f[i])
  BY DEF Leads
<1> DEFINE st == [i \in 0..(n - 1) |-> a[i + 1]]
<1>2. Allowed(v, f[1]) /\ a[1] = After(v, f[1])
  BY <1>1
<1>3. st[0] = After(v, f[1]) /\ st[n - 1] = w
  BY <1>1, <1>2
<1>4. ASSUME NEW i \in 1..(n - 1)
      PROVE  Allowed(st[i - 1], g[i]) /\ st[i] = After(st[i - 1], g[i])
  <2>1. st[i - 1] = a[i] /\ st[i] = a[i + 1] /\ g[i] = f[i + 1]
    OBVIOUS
  <2>2. i + 1 \in 1..n /\ (i + 1) - 1 = i
    OBVIOUS
  <2> HIDE DEF st
  <2>3. Allowed(a[(i + 1) - 1], f[i + 1]) /\ a[i + 1] = After(a[(i + 1) - 1], f[i + 1])
    BY <1>1, <2>2
  <2> QED
    BY <2>1, <2>2, <2>3
<1> HIDE DEF st
<1> QED
  BY <1>2, <1>3, <1>4 DEF Leads

\* One, two and three legal events.
LEMMA LeadsOne ==
    ASSUME NEW n, n = 1, NEW f, NEW v, Allowed(v, f[1])
    PROVE  Leads(n, f, v, After(v, f[1]))
<1> DEFINE st == [i \in 0..1 |-> IF i = 0 THEN v ELSE After(v, f[1])]
<1>1. st[0] = v /\ st[1] = After(v, f[1])
  OBVIOUS
<1> HIDE DEF st
<1>2. \A i \in 1..1 : Allowed(st[i - 1], f[i]) /\ st[i] = After(st[i - 1], f[i])
  BY <1>1
<1>3. Leads(1, f, v, After(v, f[1]))
  BY <1>1, <1>2 DEF Leads
<1> QED
  BY <1>3

\* Two legal events, one after the other.
LEMMA LeadsTwo ==
    ASSUME NEW n, n = 2, NEW f, NEW v, Allowed(v, f[1]), Allowed(After(v, f[1]), f[2])
    PROVE  Leads(n, f, v, After(After(v, f[1]), f[2]))
<1> DEFINE g == [i \in 1..1 |-> f[i + 1]]
<1>1. g[1] = f[2]
  OBVIOUS
<1>2. Leads(1, f, v, After(v, f[1]))
  BY LeadsOne
<1>3. Leads(1, g, After(v, f[1]), After(After(v, f[1]), f[2]))
  BY <1>1, LeadsOne
<1>4. \A i \in 1..1 : f[1 + i] = g[i]
  OBVIOUS
<1> HIDE DEF g
<1>5. Leads(1 + 1, f, v, After(After(v, f[1]), f[2]))
  BY <1>2, <1>3, <1>4, LeadsJoin
<1> QED
  BY <1>5

\* Three legal events.
LEMMA LeadsThree ==
    ASSUME NEW n, n = 3, NEW f, NEW v, Allowed(v, f[1]), Allowed(After(v, f[1]), f[2]),
           Allowed(After(After(v, f[1]), f[2]), f[3])
    PROVE  Leads(n, f, v, After(After(After(v, f[1]), f[2]), f[3]))
<1> DEFINE g == [i \in 1..1 |-> f[i + 2]]
<1> DEFINE u == After(After(v, f[1]), f[2])
<1>1. g[1] = f[3]
  OBVIOUS
<1>2. Leads(2, f, v, u)
  BY LeadsTwo
<1>3. Leads(1, g, u, After(u, f[3]))
  BY <1>1, LeadsOne
<1>4. \A i \in 1..1 : f[2 + i] = g[i]
  OBVIOUS
<1> HIDE DEF g, u
<1>5. Leads(2 + 1, f, v, After(u, f[3]))
  BY <1>2, <1>3, <1>4, LeadsJoin
<1> QED
  BY <1>5 DEF u

-----------------------------------------------------------------------------
(***************************************************************************)
(* Views that agree with a builder.                                        *)
(***************************************************************************)

\* The blocks that builder d has open, and their types.
OpenAt(d) ==
    {i \in 0..(d.next - 1) : \/ d.thinkOn /\ i = d.think
                             \/ d.textOn /\ i = d.text
                             \/ \E c \in Calls : d.tool[c].started /\ i = d.tool[c].block}

KindAt(d, i) ==
    IF d.thinkOn /\ i = d.think THEN "thinking"
    ELSE IF d.textOn /\ i = d.text THEN "text" ELSE "tool_use"

\* What the client has of the input of call c.
InputOf(d, c) ==
    IF ~d.tool[c].started THEN "none"
    ELSE IF d.tool[c].sent = "none" THEN "part" ELSE d.tool[c].sent

\* An open block has an index that was given out, and no other block has it.
Sound(d) ==
    /\ d \in Builders
    /\ d.thinkOn => d.think \in 0..(d.next - 1) /\ ~d.textOn
    /\ d.textOn => d.text \in 0..(d.next - 1)
    /\ \A c \in Calls : d.tool[c].started =>
          /\ d.tool[c].block \in 0..(d.next - 1)
          /\ d.thinkOn => d.tool[c].block # d.think
          /\ d.textOn => d.tool[c].block # d.text
          /\ \A o \in Calls : d.tool[o].started /\ d.tool[o].block = d.tool[c].block => o = c
    /\ \A c \in Calls : ~d.tool[c].started =>
          d.tool[c].sent = "none" /\ d.tool[c].task = "none" /\ d.tool[c].alias = "none"
    /\ HasOutput(d) => d.next > 0

\* Reasoning has a block only if there was some, and text has one.
Told(d) ==
    /\ d.think # NoIndex => d.thought
    /\ d.said = "solid" => d.text # NoIndex

\* The client has seen all of the answer so far, with open as the blocks that are open.
Saw(v, d) ==
    /\ v.stage = "body"
    /\ v.used = 0..(d.next - 1)
    /\ \A c \in Calls : v.input[c] = InputOf(d, c)
    /\ d.text # NoIndex => "text" \in v.kinds
    /\ Started(d) # {} => "tool_use" \in v.kinds

Agrees(v, d) ==
    /\ Saw(v, d)
    /\ v.open \in [OpenAt(d) -> Kinds]
    /\ \A i \in OpenAt(d) : v.open[i] = KindAt(d, i)

\* As it is when all blocks have been stopped.
Closed(v, d) == Saw(v, d) /\ v.open = <<>>

\* The events of step s lead from v to w.
Reach(v, s, w) ==
    /\ s = [b |-> s.b, e |-> s.e]
    /\ s.e \in Seq(Events) /\ Leads(Len(s.e), s.e, v, w)

\* A step that has emitted nothing leads nowhere else.
LEMMA StepReach ==
    ASSUME NEW d, NEW v
    PROVE  Reach(v, Step(d), v) /\ Step(d).b = d
<1>1. Step(d) = [b |-> d, e |-> <<>>] /\ Step(d).e = <<>> /\ Step(d).b = d
  BY DEF Step
<1>2. <<>> \in Seq(Events) /\ Len(<<>>) = 0
  BY EmptySeq
<1> QED
  BY <1>1, <1>2, LeadsNone DEF Reach

\* Emit appends its events to those of the step.
LEMMA EmitMany ==
    ASSUME NEW v, NEW s, NEW w, Reach(v, s, w), NEW d,
           NEW q \in Seq(Events), NEW x, Leads(Len(q), q, w, x)
    PROVE  Reach(v, Emit(s, d, q), x) /\ Emit(s, d, q).b = d
<1> DEFINE n == Len(s.e)
<1> DEFINE m == Len(q)
<1> DEFINE h == s.e \o q
<1>1. Emit(s, d, q) = [b |-> d, e |-> h] /\ Emit(s, d, q).e = h /\ Emit(s, d, q).b = d
  BY DEF Emit
<1>2. s.e \in Seq(Events) /\ n \in Nat /\ m \in Nat
  BY DEF Reach
<1>3. h \in Seq(Events) /\ Len(h) = n + m
  BY <1>2
<1>4. (\A i \in 1..n : h[i] = s.e[i]) /\ (\A i \in 1..m : h[n + i] = q[i])
  BY <1>2
<1>5. Leads(n, s.e, v, w)
  BY DEF Reach
<1> HIDE DEF h
<1>6. Leads(n + m, h, v, x)
  <2> HIDE DEF n
  <2> QED
    BY <1>2, <1>4, <1>5, LeadsJoin
<1> QED
  BY <1>1, <1>3, <1>6 DEF Reach

\* Emit with one legal event.
LEMMA EmitOne ==
    ASSUME NEW v, NEW s, NEW w, Reach(v, s, w), NEW d, NEW e \in Events, Allowed(w, e)
    PROVE  Reach(v, Emit(s, d, <<e>>), After(w, e)) /\ Emit(s, d, <<e>>).b = d
<1> DEFINE q == <<e>>
<1>0. q \in Seq(Events)
  OBVIOUS
<1>1. Len(q) = 1 /\ q[1] = e
  OBVIOUS
<1> HIDE DEF q
<1>2. Leads(Len(q), q, w, After(w, e))
  BY <1>1, LeadsOne
<1>3. Reach(v, Emit(s, d, q), After(w, e)) /\ Emit(s, d, q).b = d
  BY <1>0, <1>2, EmitMany
<1> QED
  BY <1>3 DEF q

\* Emit with two legal events.
LEMMA EmitTwo ==
    ASSUME NEW v, NEW s, NEW w, Reach(v, s, w), NEW d, NEW e1 \in Events, NEW e2 \in Events,
           Allowed(w, e1), Allowed(After(w, e1), e2)
    PROVE  /\ Reach(v, Emit(s, d, <<e1, e2>>), After(After(w, e1), e2))
           /\ Emit(s, d, <<e1, e2>>).b = d
<1> DEFINE q == <<e1, e2>>
<1>0. q \in Seq(Events)
  OBVIOUS
<1>1. Len(q) = 2 /\ q[1] = e1 /\ q[2] = e2
  OBVIOUS
<1> HIDE DEF q
<1>2. Leads(Len(q), q, w, After(After(w, e1), e2))
  BY <1>1, LeadsTwo
<1>3. Reach(v, Emit(s, d, q), After(After(w, e1), e2)) /\ Emit(s, d, q).b = d
  BY <1>0, <1>2, EmitMany
<1> QED
  BY <1>3 DEF q

\* Emit with three legal events.
LEMMA EmitThree ==
    ASSUME NEW v, NEW s, NEW w, Reach(v, s, w), NEW d,
           NEW e1 \in Events, NEW e2 \in Events, NEW e3 \in Events,
           Allowed(w, e1), Allowed(After(w, e1), e2), Allowed(After(After(w, e1), e2), e3)
    PROVE  /\ Reach(v, Emit(s, d, <<e1, e2, e3>>), After(After(After(w, e1), e2), e3))
           /\ Emit(s, d, <<e1, e2, e3>>).b = d
<1> DEFINE q == <<e1, e2, e3>>
<1>0. q \in Seq(Events)
  OBVIOUS
<1>1. Len(q) = 3 /\ q[1] = e1 /\ q[2] = e2 /\ q[3] = e3
  OBVIOUS
<1> HIDE DEF q
<1>2. Leads(Len(q), q, w, After(After(After(w, e1), e2), e3))
  BY <1>1, LeadsThree
<1>3. Reach(v, Emit(s, d, q), After(After(After(w, e1), e2), e3)) /\ Emit(s, d, q).b = d
  BY <1>0, <1>2, EmitMany
<1> QED
  BY <1>3 DEF q

-----------------------------------------------------------------------------
(***************************************************************************)
(* What each kind of event does.  In these lemmas d is the builder before  *)
(* the event and x the builder after it.                                   *)
(***************************************************************************)

Limit == 2 * MaxChunks + 4

\* Nothing else than the fields named by a lemma changes in the blocks of text.
SameText(d, x) == x.text = d.text /\ x.textOn = d.textOn
SameThinking(d, x) == x.think = d.think /\ x.thinkOn = d.thinkOn

\* A new block of any type gets the next index.
LEMMA StartAllowed ==
    ASSUME NEW w, NEW d, Sound(d), Saw(w, d), d.next <= Limit,
           NEW k \in Kinds, NEW c \in Calls \cup {NoCall}
    PROVE  /\ StartEvent(d.next, k, c) \in Events
           /\ Allowed(w, StartEvent(d.next, k, c))
BY StreamAssumption, CallsAssumption
DEF StartEvent, Event, Events, Allowed, Sound, Builders, Saw, Limit, Indexes, Kinds, Amounts, NoCall

\* A block of thinking starts.
LEMMA ThinkingStarts ==
    ASSUME NEW w, NEW d, NEW x \in Builders, Sound(d), Agrees(w, d), ~d.thinkOn, ~d.textOn,
           x.next = d.next + 1, x.think = d.next, x.thinkOn, SameText(d, x), x.tool = d.tool
    PROVE  Sound(x) /\ Agrees(After(w, StartEvent(d.next, "thinking", NoCall)), x)
<1> DEFINE u == After(w, StartEvent(d.next, "thinking", NoCall))
<1>0. /\ d.next \in Nat
      /\ x.text = d.text /\ ~x.textOn
  BY DEF Sound, Builders, SameText
<1>2. Sound(x)
  BY <1>0 DEF Sound, HasOutput, Started, NoIndex
<1>3. /\ u.stage = w.stage /\ u.used = w.used \cup {d.next}
      /\ u.open = [j \in DOMAIN w.open \cup {d.next} |-> IF j = d.next THEN "thinking" ELSE w.open[j]]
      /\ \A c \in Calls : u.input[c] = w.input[c]
      /\ u.kinds = w.kinds \cup {"thinking"}
  BY CallsAssumption DEF After, StartEvent, Event, NoCall
<1> HIDE DEF u
<1>4. Saw(u, x)
  BY <1>0, <1>3 DEF Agrees, Saw, InputOf, Started
<1>5. OpenAt(x) = OpenAt(d) \cup {d.next}
  BY <1>0 DEF OpenAt, Sound
<1>6. /\ u.open \in [OpenAt(x) -> Kinds]
      /\ \A i \in OpenAt(x) : u.open[i] = KindAt(x, i)
  BY <1>0, <1>3, <1>5 DEF Agrees, Kinds, KindAt, OpenAt
<1> QED
  BY <1>2, <1>4, <1>6 DEF Agrees, u

\* A block of text starts.
LEMMA TextStarts ==
    ASSUME NEW w, NEW d, NEW x \in Builders, Sound(d), Agrees(w, d), ~d.thinkOn, ~d.textOn,
           x.next = d.next + 1, x.text = d.next, x.textOn, SameThinking(d, x), x.tool = d.tool
    PROVE  Sound(x) /\ Agrees(After(w, StartEvent(d.next, "text", NoCall)), x)
<1> DEFINE u == After(w, StartEvent(d.next, "text", NoCall))
<1>0. /\ d.next \in Nat
      /\ x.think = d.think /\ ~x.thinkOn
  BY DEF Sound, Builders, SameThinking
<1>2. Sound(x)
  BY <1>0 DEF Sound, HasOutput, Started, NoIndex
<1>3. /\ u.stage = w.stage /\ u.used = w.used \cup {d.next}
      /\ u.open = [j \in DOMAIN w.open \cup {d.next} |-> IF j = d.next THEN "text" ELSE w.open[j]]
      /\ \A c \in Calls : u.input[c] = w.input[c]
      /\ u.kinds = w.kinds \cup {"text"}
  BY CallsAssumption DEF After, StartEvent, Event, NoCall
<1> HIDE DEF u
<1>4. Saw(u, x)
  BY <1>0, <1>3 DEF Agrees, Saw, InputOf, Started
<1>5. OpenAt(x) = OpenAt(d) \cup {d.next}
  BY <1>0 DEF OpenAt, Sound
<1>6. /\ u.open \in [OpenAt(x) -> Kinds]
      /\ \A i \in OpenAt(x) : u.open[i] = KindAt(x, i)
  BY <1>0, <1>3, <1>5 DEF Agrees, Kinds, KindAt, OpenAt
<1> QED
  BY <1>2, <1>4, <1>6 DEF Agrees, u

\* The block of call c starts.
LEMMA ToolStarts ==
    ASSUME NEW w, NEW d, NEW x \in Builders, Sound(d), Agrees(w, d), NEW c \in Calls,
           ~d.tool[c].started, x.tool[c].started, x.tool[c].block = d.next,
           x.tool[c].sent = d.tool[c].sent,
           \A o \in Calls \ {c} : x.tool[o] = d.tool[o],
           x.next = d.next + 1, SameText(d, x), SameThinking(d, x)
    PROVE  Sound(x) /\ Agrees(After(w, StartEvent(d.next, "tool_use", c)), x)
<1> DEFINE u == After(w, StartEvent(d.next, "tool_use", c))
<1>0. /\ d.next \in Nat
      /\ x.text = d.text /\ x.textOn = d.textOn
      /\ x.think = d.think /\ x.thinkOn = d.thinkOn
  BY DEF Sound, Builders, SameText, SameThinking
<1>2. Sound(x)
  BY <1>0 DEF Sound, HasOutput, Started, NoIndex
<1>3. /\ u.stage = w.stage /\ u.used = w.used \cup {d.next}
      /\ u.open = [j \in DOMAIN w.open \cup {d.next} |-> IF j = d.next THEN "tool_use" ELSE w.open[j]]
      /\ \A o \in Calls : u.input[o] = IF o = c THEN "part" ELSE w.input[o]
      /\ u.kinds = w.kinds \cup {"tool_use"}
  BY CallsAssumption DEF After, StartEvent, Event, NoCall
<1> HIDE DEF u
<1>4. Saw(u, x)
  BY <1>0, <1>3 DEF Agrees, Saw, InputOf, Started, Sound
<1>5. OpenAt(x) = OpenAt(d) \cup {d.next}
  BY <1>0 DEF OpenAt, Sound
<1>6. /\ u.open \in [OpenAt(x) -> Kinds]
      /\ \A i \in OpenAt(x) : u.open[i] = KindAt(x, i)
  BY <1>0, <1>3, <1>5 DEF Agrees, Kinds, KindAt, OpenAt, Sound
<1> QED
  BY <1>2, <1>4, <1>6 DEF Agrees, u

\* A stop is an event.
LEMMA StopIsEvent ==
    ASSUME NEW i \in Int
    PROVE  StopEvent(i) \in Events
BY DEF StopEvent, Event, Events, NoCall, Amounts

\* The block of thinking is stopped.
LEMMA ThinkingStops ==
    ASSUME NEW w, NEW d, NEW x \in Builders, Sound(d), Agrees(w, d), d.next <= Limit,
           d.thinkOn, ~x.thinkOn, x.think = d.think, SameText(d, x),
           x.next = d.next, x.tool = d.tool
    PROVE  /\ StopEvent(d.think) \in Events /\ Allowed(w, StopEvent(d.think))
           /\ Sound(x) /\ Agrees(After(w, StopEvent(d.think)), x)
<1> DEFINE u == After(w, StopEvent(d.think))
<1>0. /\ d.next \in Nat /\ d.think \in 0..(d.next - 1) /\ ~d.textOn
      /\ x.text = d.text /\ ~x.textOn
  BY DEF Sound, Builders, SameText
<1>1. StopEvent(d.think) \in Events
  <2>1. d.think \in Int
    BY DEF Sound, Builders
  <2> QED
    BY <2>1, StopIsEvent
<1>a. d.think \in OpenAt(d) /\ DOMAIN w.open = OpenAt(d)
  BY <1>0 DEF OpenAt, Agrees
<1>b. Allowed(w, StopEvent(d.think))
  BY <1>0, <1>a, StreamAssumption
  DEF StopEvent, Event, Allowed, Agrees, Saw, Indexes, Limit
<1>2. Sound(x)
  BY <1>0 DEF Sound, HasOutput, Started, NoIndex
<1>3. /\ u.stage = w.stage /\ u.used = w.used
      /\ u.open = [j \in DOMAIN w.open \ {d.think} |-> w.open[j]]
      /\ \A c \in Calls : u.input[c] = w.input[c]
      /\ u.kinds = w.kinds
  BY CallsAssumption DEF After, StopEvent, Event, NoCall
<1> HIDE DEF u
<1>4. Saw(u, x)
  BY <1>0, <1>3 DEF Agrees, Saw, InputOf, Started
<1>5. OpenAt(x) = OpenAt(d) \ {d.think}
  BY <1>0 DEF OpenAt, Sound
<1>6. /\ u.open \in [OpenAt(x) -> Kinds]
      /\ \A i \in OpenAt(x) : u.open[i] = KindAt(x, i)
  BY <1>0, <1>3, <1>5 DEF Agrees, Kinds, KindAt, OpenAt
<1> QED
  BY <1>1, <1>b, <1>2, <1>4, <1>6 DEF Agrees, u

\* The block of text is stopped.
LEMMA TextStops ==
    ASSUME NEW w, NEW d, NEW x \in Builders, Sound(d), Agrees(w, d), d.next <= Limit,
           d.textOn, ~x.textOn, x.text = d.text, SameThinking(d, x),
           x.next = d.next, x.tool = d.tool
    PROVE  /\ StopEvent(d.text) \in Events /\ Allowed(w, StopEvent(d.text))
           /\ Sound(x) /\ Agrees(After(w, StopEvent(d.text)), x)
<1> DEFINE u == After(w, StopEvent(d.text))
<1>0. /\ d.next \in Nat /\ d.text \in 0..(d.next - 1) /\ ~d.thinkOn
      /\ x.think = d.think /\ ~x.thinkOn
  BY DEF Sound, Builders, SameThinking
<1>1. StopEvent(d.text) \in Events
  <2>1. d.text \in Int
    BY DEF Sound, Builders
  <2> QED
    BY <2>1, StopIsEvent
<1>a. d.text \in OpenAt(d) /\ DOMAIN w.open = OpenAt(d)
  BY <1>0 DEF OpenAt, Agrees
<1>b. Allowed(w, StopEvent(d.text))
  BY <1>0, <1>a, StreamAssumption
  DEF StopEvent, Event, Allowed, Agrees, Saw, Indexes, Limit
<1>2. Sound(x)
  BY <1>0 DEF Sound, HasOutput, Started, NoIndex
<1>3. /\ u.stage = w.stage /\ u.used = w.used
      /\ u.open = [j \in DOMAIN w.open \ {d.text} |-> w.open[j]]
      /\ \A c \in Calls : u.input[c] = w.input[c]
      /\ u.kinds = w.kinds
  BY CallsAssumption DEF After, StopEvent, Event, NoCall
<1> HIDE DEF u
<1>4. Saw(u, x)
  BY <1>0, <1>3 DEF Agrees, Saw, InputOf, Started
<1>5. OpenAt(x) = OpenAt(d) \ {d.text}
  BY <1>0 DEF OpenAt, Sound
<1>6. /\ u.open \in [OpenAt(x) -> Kinds]
      /\ \A i \in OpenAt(x) : u.open[i] = KindAt(x, i)
  BY <1>0, <1>3, <1>5 DEF Agrees, Kinds, KindAt, OpenAt
<1> QED
  BY <1>1, <1>b, <1>2, <1>4, <1>6 DEF Agrees, u

\* More of an open block of text or thinking changes no block.
LEMMA MoreOfBlock ==
    ASSUME NEW w, NEW d, NEW x \in Builders, Sound(d), Agrees(w, d), d.next <= Limit,
           NEW i \in OpenAt(d), NEW data \in {"none", "blank", "solid"},
           SameText(d, x), SameThinking(d, x), x.next = d.next, x.tool = d.tool
    PROVE  LET e == DeltaEvent(i, KindAt(d, i), NoCall, data)
           IN e \in Events /\ Allowed(w, e) /\ Sound(x) /\ Agrees(After(w, e), x)
<1> DEFINE e == DeltaEvent(i, KindAt(d, i), NoCall, data)
<1> DEFINE u == After(w, e)
<1>0. /\ d.next \in Nat /\ i \in 0..(d.next - 1)
      /\ x.text = d.text /\ x.textOn = d.textOn
      /\ x.think = d.think /\ x.thinkOn = d.thinkOn
  BY DEF Sound, Builders, SameText, SameThinking, OpenAt
<1>1. e \in Events
  BY <1>0 DEF DeltaEvent, Event, Events, NoCall, KindAt, Amounts
<1>b. Allowed(w, e)
  BY <1>0, StreamAssumption
  DEF DeltaEvent, Event, Allowed, Agrees, Saw, Indexes, Limit, KindAt, Kinds
<1>2. Sound(x)
  BY <1>0 DEF Sound, HasOutput, Started, NoIndex
<1>3. /\ u.stage = w.stage /\ u.used = w.used /\ u.open = w.open
      /\ \A c \in Calls : u.input[c] = w.input[c]
      /\ u.kinds = w.kinds
  BY CallsAssumption DEF After, DeltaEvent, Event, NoCall
<1> HIDE DEF u
<1>4. Saw(u, x)
  BY <1>0, <1>3 DEF Agrees, Saw, InputOf, Started
<1>5. OpenAt(x) = OpenAt(d) /\ \A j \in OpenAt(d) : KindAt(x, j) = KindAt(d, j)
  BY <1>0 DEF OpenAt, KindAt
<1>6. /\ u.open \in [OpenAt(x) -> Kinds]
      /\ \A j \in OpenAt(x) : u.open[j] = KindAt(x, j)
  BY <1>3, <1>5 DEF Agrees
<1> QED
  BY <1>1, <1>b, <1>2, <1>4, <1>6 DEF Agrees, u

\* Input for call c.
LEMMA MoreOfTool ==
    ASSUME NEW w, NEW d, NEW x \in Builders, Sound(d), Agrees(w, d), d.next <= Limit,
           NEW c \in Calls, d.tool[c].started, NEW data \in {"part", "whole"},
           x.tool[c].started, x.tool[c].block = d.tool[c].block, x.tool[c].sent = data,
           \A o \in Calls \ {c} : x.tool[o] = d.tool[o],
           SameText(d, x), SameThinking(d, x), x.next = d.next
    PROVE  LET e == DeltaEvent(d.tool[c].block, "tool_use", c, data)
           IN e \in Events /\ Allowed(w, e) /\ Sound(x) /\ Agrees(After(w, e), x)
<1> DEFINE i == d.tool[c].block
<1> DEFINE e == DeltaEvent(i, "tool_use", c, data)
<1> DEFINE u == After(w, e)
<1>0. /\ d.next \in Nat /\ i \in 0..(d.next - 1)
      /\ x.text = d.text /\ x.textOn = d.textOn
      /\ x.think = d.think /\ x.thinkOn = d.thinkOn
  BY DEF Sound, Builders, SameText, SameThinking
<1>1. e \in Events
  BY <1>0 DEF DeltaEvent, Event, Events, NoCall, Amounts
<1>a. i \in OpenAt(d) /\ KindAt(d, i) = "tool_use"
  BY <1>0 DEF OpenAt, KindAt, Sound
<1>b. Allowed(w, e)
  <2> HIDE DEF i
  <2> QED
    BY <1>0, <1>a, StreamAssumption
    DEF DeltaEvent, Event, Allowed, Agrees, Saw, Indexes, Limit, Kinds
<1>2. Sound(x)
  BY <1>0 DEF Sound, HasOutput, Started, NoIndex
<1>3. /\ u.stage = w.stage /\ u.used = w.used /\ u.open = w.open
      /\ \A o \in Calls : u.input[o] = IF o = c THEN data ELSE w.input[o]
      /\ u.kinds = w.kinds
  BY CallsAssumption DEF After, DeltaEvent, Event, NoCall
<1> HIDE DEF u
<1>4. Saw(u, x)
  BY <1>0, <1>3 DEF Agrees, Saw, InputOf, Started
<1>5. OpenAt(x) = OpenAt(d) /\ \A j \in OpenAt(d) : KindAt(x, j) = KindAt(d, j)
  BY <1>0 DEF OpenAt, KindAt
<1>6. /\ u.open \in [OpenAt(x) -> Kinds]
      /\ \A j \in OpenAt(x) : u.open[j] = KindAt(x, j)
  BY <1>3, <1>5 DEF Agrees
<1> QED
  BY <1>1, <1>b, <1>2, <1>4, <1>6 DEF Agrees, u

\* What is held back of a call changes nothing that the client sees.
LEMMA Unseen ==
    ASSUME NEW w, NEW d, NEW x \in Builders, Sound(d), Agrees(w, d),
           \A c \in Calls : /\ x.tool[c].started = d.tool[c].started
                            /\ x.tool[c].block = d.tool[c].block
                            /\ x.tool[c].sent = d.tool[c].sent
                            /\ ~d.tool[c].started => x.tool[c].task = "none" /\ x.tool[c].alias = "none",
           SameText(d, x), SameThinking(d, x), x.next = d.next
    PROVE  Sound(x) /\ Agrees(w, x)
<1>0. /\ d.next \in Nat
      /\ x.text = d.text /\ x.textOn = d.textOn
      /\ x.think = d.think /\ x.thinkOn = d.thinkOn
  BY DEF Sound, Builders, SameText, SameThinking
<1>2. Sound(x)
  BY <1>0 DEF Sound, HasOutput, Started, NoIndex
<1>4. Saw(w, x)
  BY <1>0 DEF Agrees, Saw, InputOf, Started
<1>5. OpenAt(x) = OpenAt(d) /\ \A j \in OpenAt(d) : KindAt(x, j) = KindAt(d, j)
  BY <1>0 DEF OpenAt, KindAt
<1> QED
  BY <1>2, <1>4, <1>5 DEF Agrees

\* A block of text or of a call written as text, from its start to its stop.
LEMMA WholeBlock ==
    ASSUME NEW w, NEW d, NEW x \in Builders, Sound(d), Agrees(w, d), d.next <= Limit,
           NEW k \in Kinds, NEW data \in {"whole", "solid"},
           SameText(d, x), SameThinking(d, x), x.next = d.next + 1, x.tool = d.tool
    PROVE  LET e1 == StartEvent(d.next, k, NoCall)
               e2 == DeltaEvent(d.next, k, NoCall, data)
               e3 == StopEvent(d.next)
               u == After(After(w, e1), e2)
           IN /\ e1 \in Events /\ e2 \in Events /\ e3 \in Events
              /\ Allowed(w, e1) /\ Allowed(After(w, e1), e2) /\ Allowed(u, e3)
              /\ Sound(x) /\ Agrees(After(u, e3), x)
<1> DEFINE n == d.next
<1> DEFINE e1 == StartEvent(n, k, NoCall)
<1> DEFINE e2 == DeltaEvent(n, k, NoCall, data)
<1> DEFINE e3 == StopEvent(n)
<1> DEFINE u1 == After(w, e1)
<1> DEFINE u2 == After(u1, e2)
<1> DEFINE u3 == After(u2, e3)
<1>0. /\ n \in Nat /\ n \in Indexes
      /\ x.text = d.text /\ x.textOn = d.textOn
      /\ x.think = d.think /\ x.thinkOn = d.thinkOn
  BY StreamAssumption DEF Sound, Builders, SameText, SameThinking, Limit, Indexes
<1>1. e1 \in Events /\ Allowed(w, e1)
  BY StartAllowed DEF Agrees
<1>2. e2 \in Events /\ e3 \in Events
  BY <1>0 DEF DeltaEvent, StopEvent, Event, Events, Kinds, Amounts
<1>3. /\ u1.stage = w.stage /\ u1.used = w.used \cup {n}
      /\ u1.open = [j \in DOMAIN w.open \cup {n} |-> IF j = n THEN k ELSE w.open[j]]
      /\ \A c \in Calls : u1.input[c] = w.input[c]
      /\ u1.kinds = w.kinds \cup {k}
  BY CallsAssumption DEF After, StartEvent, Event, NoCall
<1>4. /\ u2.stage = u1.stage /\ u2.used = u1.used /\ u2.open = u1.open
      /\ \A c \in Calls : u2.input[c] = u1.input[c]
      /\ u2.kinds = u1.kinds
  <2> HIDE DEF u1
  <2> QED
    BY CallsAssumption DEF After, DeltaEvent, Event, NoCall
<1>5. /\ u3.stage = u2.stage /\ u3.used = u2.used
      /\ u3.open = [j \in DOMAIN u2.open \ {n} |-> u2.open[j]]
      /\ \A c \in Calls : u3.input[c] = u2.input[c]
      /\ u3.kinds = u2.kinds
  <2> HIDE DEF u2
  <2> QED
    BY CallsAssumption DEF After, StopEvent, Event, NoCall
<1> HIDE DEF u1, u2, u3
<1>6. w.stage = "body"
  BY DEF Agrees, Saw
<1>7. Allowed(u1, e2)
  <2> HIDE DEF n
  <2> QED
    BY <1>0, <1>3, <1>6 DEF Allowed, DeltaEvent, Event
<1>8. Allowed(u2, e3)
  <2> HIDE DEF n
  <2> QED
    BY <1>0, <1>3, <1>4, <1>6 DEF Allowed, StopEvent, Event
<1>9. Sound(x)
  BY <1>0 DEF Sound, HasOutput, Started, NoIndex
<1>10. Saw(u3, x)
  BY <1>0, <1>3, <1>4, <1>5 DEF Agrees, Saw, InputOf, Started
<1>11. OpenAt(x) = OpenAt(d) /\ \A j \in OpenAt(d) : KindAt(x, j) = KindAt(d, j) /\ j # n
  BY <1>0 DEF OpenAt, KindAt, Sound
<1>12. DOMAIN w.open = OpenAt(d)
  BY DEF Agrees
<1>13. /\ u3.open \in [OpenAt(x) -> Kinds]
       /\ \A j \in OpenAt(x) : u3.open[j] = KindAt(x, j)
  <2>1. u3.open = [j \in OpenAt(d) |-> w.open[j]]
    BY <1>3, <1>4, <1>5, <1>11, <1>12
  <2> QED
    BY <2>1, <1>11 DEF Agrees
<1> QED
  BY <1>1, <1>2, <1>7, <1>8, <1>9, <1>10, <1>13 DEF Agrees, u1, u2, u3

-----------------------------------------------------------------------------
(***************************************************************************)
(* One event for each of several calls.                                    *)
(***************************************************************************)

\* The order in which a set is run through has each of its members once.
LEMMA OrderOf ==
    ASSUME NEW A, IsFiniteSet(A)
    PROVE  LET order == SetToSeq(A) n == Len(order)
           IN /\ n \in Nat /\ order \in [1..n -> A]
              /\ \A i, j \in 1..n : order[i] = order[j] => i = j
              /\ \A c \in A : \E i \in 1..n : order[i] = c
<1> DEFINE m == Cardinality(A)
<1> DEFINE order == SetToSeq(A)
<1>1. m \in Nat /\ ExistsBijection(1..m, A)
  BY FS_CardinalityType
<1>2. PICK f : f \in Injection(1..m, A)
  BY <1>1 DEF ExistsBijection, Bijection
<1>3. f \in [1..m -> A] /\ IsInjective(f)
  BY <1>2 DEF Injection
<1>4. order \in [1..m -> A] /\ IsInjective(order)
  BY <1>3 DEF SetToSeq
<1> HIDE DEF order
<1>5. Len(order) = m
  BY <1>1, <1>4, LenProperties
<1>6. order \in Injection(1..m, A)
  BY <1>4 DEF Injection
<1>7. order \in Surjection(1..m, A)
  <2>1. IsFiniteSet(1..m) /\ Cardinality(1..m) = m
    BY <1>1, FS_Interval
  <2> QED
    BY <1>6, <2>1, FS_Injection
<1>8. \A c \in A : \E i \in 1..m : order[i] = c
  BY <1>7 DEF Surjection
<1>9. \A i, j \in 1..m : order[i] = order[j] => i = j
  BY <1>4 DEF IsInjective
<1> HIDE DEF m
<1> QED
  BY <1>1, <1>4, <1>5, <1>8, <1>9 DEF order

\* The events that give each of the calls of A its input.
Deltas(d, A, data) ==
    LET order == SetToSeq(A)
    IN [i \in 1..Len(order) |->
          DeltaEvent(d.tool[order[i]].block, "tool_use", order[i], data[order[i]])]

\* Input for each of the calls of A.
LEMMA MoreOfTools ==
    ASSUME NEW w, NEW d, NEW x \in Builders, Sound(d), Agrees(w, d), d.next <= Limit,
           NEW A \in SUBSET Started(d), NEW data \in [A -> {"part", "whole"}],
           \A c \in A : /\ x.tool[c].started /\ x.tool[c].block = d.tool[c].block
                        /\ x.tool[c].sent = data[c],
           \A c \in Calls \ A : x.tool[c] = d.tool[c],
           SameText(d, x), SameThinking(d, x), x.next = d.next
    PROVE  LET q == Deltas(d, A, data)
           IN /\ q \in Seq(Events) /\ Sound(x)
              /\ \E u : Leads(Len(q), q, w, u) /\ Agrees(u, x)
<1> DEFINE order == SetToSeq(A)
<1> DEFINE n == Len(order)
<1> DEFINE e(i) == DeltaEvent(d.tool[order[i]].block, "tool_use", order[i], data[order[i]])
<1> DEFINE q == [i \in 1..n |-> e(i)]
<1> DEFINE told(i) == {order[j] : j \in 1..i}
<1> DEFINE st == [i \in 0..n |->
                    IF i = 0 THEN w
                    ELSE [stage |-> w.stage, open |-> w.open, used |-> w.used,
                          input |-> [c \in Calls |-> IF c \in told(i) THEN data[c] ELSE w.input[c]],
                          kinds |-> w.kinds, reason |-> w.reason]]
<1>0. A \subseteq Calls /\ IsFiniteSet(A) /\ \A c \in A : d.tool[c].started
  <2>1. A \subseteq Calls /\ \A c \in A : d.tool[c].started
    BY DEF Started
  <2>2. IsFiniteSet(A)
    BY <2>1, FS_Subset, CallsAssumption
  <2> QED
    BY <2>1, <2>2
<1>1. /\ n \in Nat /\ order \in [1..n -> A]
      /\ \A i, j \in 1..n : order[i] = order[j] => i = j
      /\ \A c \in A : \E i \in 1..n : order[i] = c
  BY <1>0, OrderOf
<1> HIDE DEF order, n
<1>2. /\ d.next \in Nat /\ x.text = d.text /\ x.textOn = d.textOn
      /\ x.think = d.think /\ x.thinkOn = d.thinkOn
  BY DEF Sound, Builders, SameText, SameThinking
<1>3. \A i \in 1..n : order[i] \in A
  BY <1>1
<1>4. \A i \in 1..n : e(i) \in Events
  <2> TAKE i \in 1..n
  <2>1. order[i] \in A /\ order[i] \in Calls /\ data[order[i]] \in {"part", "whole"}
    BY <1>0, <1>3
  <2>2. d.tool[order[i]].block \in Int
    BY <2>1 DEF Sound, Builders, Tools
  <2>3. \A k \in Int, c \in Calls, a \in {"part", "whole"} :
           DeltaEvent(k, "tool_use", c, a) \in Events
    BY DEF DeltaEvent, Event, Events, Amounts
  <2> QED
    BY <2>1, <2>2, <2>3
<1>5. q \in Seq(Events) /\ Len(q) = n
  <2> HIDE DEF e
  <2>1. q \in [1..n -> Events]
    BY <1>4
  <2> HIDE DEF q
  <2> QED
    BY <1>1, <2>1, LenProperties
<1>6. \A i \in 1..n : Allowed(st[i - 1], e(i))
  <2> TAKE i \in 1..n
  <2>1. st[i - 1].stage = "body" /\ st[i - 1].open = w.open
    <3>1. i - 1 \in 0..n
      BY <1>1
    <3>2. st[i - 1].stage = w.stage /\ st[i - 1].open = w.open
      BY <3>1
    <3> HIDE DEF st
    <3> QED
      BY <3>2 DEF Agrees, Saw
  <2> HIDE DEF st
  <2> DEFINE c == order[i]
  <2> DEFINE k == d.tool[c].block
  <2>2. c \in Calls /\ d.tool[c].started
    BY <1>0, <1>3
  <2> HIDE DEF c
  <2>3. k \in 0..(d.next - 1) /\ k \in OpenAt(d) /\ KindAt(d, k) = "tool_use"
    BY <2>2 DEF OpenAt, KindAt, Sound
  <2> HIDE DEF k
  <2>4. k \in Indexes /\ k \in DOMAIN w.open /\ w.open[k] = "tool_use"
    BY <1>2, <2>3, StreamAssumption DEF Indexes, Limit, Agrees
  <2>5. e(i).type = "delta" /\ e(i).index = k /\ e(i).kind = "tool_use"
    BY DEF k, c, DeltaEvent, Event
  <2> HIDE DEF e
  <2> QED
    BY <2>1, <2>4, <2>5 DEF Allowed, Kinds
<1>7. \A i \in 1..n : st[i] = After(st[i - 1], e(i))
  <2> TAKE i \in 1..n
  <2> DEFINE y == st[i - 1]
  <2>1. After(y, e(i)) = [stage |-> y.stage, open |-> y.open, used |-> y.used,
                          input |-> [c \in Calls |-> IF order[i] # c THEN y.input[c] ELSE data[order[i]]],
                          kinds |-> y.kinds, reason |-> y.reason]
    <3> HIDE DEF y
    <3> QED
      BY DEF After, DeltaEvent, Event
  <2>2. i \in 0..n /\ i # 0 /\ i - 1 \in 0..n
    BY <1>1
  <2>3. /\ y.stage = w.stage /\ y.open = w.open /\ y.used = w.used
        /\ y.kinds = w.kinds /\ y.reason = w.reason
    BY <2>2
  <2>4. told(i) = told(i - 1) \cup {order[i]}
    BY <1>1
  <2>5. \A c \in Calls : y.input[c] = IF c \in told(i - 1) THEN data[c] ELSE w.input[c]
    <3>1. CASE i = 1
      <4>1. i - 1 = 0 /\ 0 \in 0..n
        BY <1>1, <3>1
      <4>2. told(i - 1) = {}
        BY <4>1
      <4>3. st[0] = w
        BY <4>1
      <4> HIDE DEF st, told
      <4>4. y = w
        BY <4>1, <4>3
      <4> HIDE DEF y
      <4> QED
        BY <4>2, <4>4
    <3>2. CASE i # 1
      <4>1. i - 1 # 0
        BY <3>2
      <4> HIDE DEF told
      <4> QED
        BY <2>2, <4>1
    <3> QED
      BY <3>1, <3>2
  <2>6. st[i] = [stage |-> w.stage, open |-> w.open, used |-> w.used,
                 input |-> [c \in Calls |-> IF c \in told(i) THEN data[c] ELSE w.input[c]],
                 kinds |-> w.kinds, reason |-> w.reason]
    <3> HIDE DEF told
    <3> QED
      BY <2>2
  <2> HIDE DEF y, st, told, e
  <2>7. [c \in Calls |-> IF c \in told(i) THEN data[c] ELSE w.input[c]]
        = [c \in Calls |-> IF order[i] # c THEN y.input[c] ELSE data[order[i]]]
    BY <2>4, <2>5
  <2>8. st[i] = After(y, e(i))
    BY <2>1, <2>3, <2>6, <2>7
  <2> QED
    BY <2>8 DEF y
<1> DEFINE u == st[n]
<1>8. Leads(n, q, w, u)
  <2>1. st[0] = w
    BY <1>1
  <2>2. \A i \in 1..n : q[i] = e(i)
    OBVIOUS
  <2> HIDE DEF st, q, e
  <2>3. \A i \in 1..n : Allowed(st[i - 1], q[i]) /\ st[i] = After(st[i - 1], q[i])
    BY <1>6, <1>7, <2>2
  <2> QED
    BY <2>1, <2>3 DEF Leads
<1>9. /\ u.stage = w.stage /\ u.open = w.open /\ u.used = w.used /\ u.kinds = w.kinds
      /\ \A c \in Calls : u.input[c] = IF c \in A THEN data[c] ELSE w.input[c]
  <2>1. CASE n = 0
    <3>1. A = {}
      BY <1>1, <2>1
    <3>2. u = w
      BY <2>1
    <3> HIDE DEF u
    <3> QED
      BY <3>1, <3>2
  <2>2. CASE n # 0
    <3>1. told(n) = A
      BY <1>1
    <3> HIDE DEF told
    <3>2. n \in 0..n
      BY <1>1
    <3> QED
      BY <2>2, <3>1, <3>2
  <2> QED
    BY <2>1, <2>2
<1> HIDE DEF u, st, q
<1>10. \A c \in Calls : /\ x.tool[c].started = d.tool[c].started
                        /\ x.tool[c].block = d.tool[c].block
                        /\ c \in A => d.tool[c].started /\ x.tool[c].sent = data[c]
                        /\ c \notin A => x.tool[c] = d.tool[c]
  <2> TAKE c \in Calls
  <2>1. CASE c \in A
    <3>1. d.tool[c].started = TRUE
      <4>1. d.tool[c].started /\ d.tool[c].started \in BOOLEAN
        BY <1>0, <2>1 DEF Sound, Builders, Tools
      <4> QED
        BY <4>1
    <3>2. x.tool[c].started = TRUE
      <4>1. x.tool[c].started /\ x.tool[c].started \in BOOLEAN
        BY <1>0, <2>1 DEF Builders, Tools
      <4> QED
        BY <4>1
    <3> QED
      BY <2>1, <3>1, <3>2
  <2>2. CASE c \notin A
    BY <2>2
  <2> QED
    BY <2>1, <2>2
<1>11. Sound(x)
  BY <1>2, <1>10 DEF Sound, HasOutput, Started, NoIndex
<1>12. \A c \in A : data[c] \in {"part", "whole"}
  OBVIOUS
<1>13. Saw(u, x)
  BY <1>2, <1>9, <1>10, <1>12 DEF Agrees, Saw, InputOf, Started
<1>14. OpenAt(x) = OpenAt(d) /\ \A j \in OpenAt(d) : KindAt(x, j) = KindAt(d, j)
  BY <1>2, <1>10 DEF OpenAt, KindAt
<1>15. Agrees(u, x)
  BY <1>9, <1>13, <1>14 DEF Agrees
<1> QED
  BY <1>5, <1>8, <1>11, <1>15 DEF Deltas, q, e, n, order

\* A function of nothing is the empty sequence.
LEMMA NothingOpen ==
    ASSUME NEW K, NEW f \in [{} -> K]
    PROVE  f = <<>>
<1>1. f \in [1..0 -> K]
  <2>1. 1..0 = {}
    OBVIOUS
  <2> QED
    BY <2>1
<1>2. f \in Seq(K) /\ Len(f) = 0
  BY <1>1, LenProperties
<1> QED
  BY <1>2, EmptySeq

\* The events that stop the blocks of all calls.
Stops(d) ==
    LET order == SetToSeq(Started(d))
    IN [i \in 1..Len(order) |-> StopEvent(d.tool[order[i]].block)]

\* The blocks of all calls are stopped, when no other is open.
LEMMA AllStop ==
    ASSUME NEW w, NEW d, Sound(d), Agrees(w, d), d.next <= Limit, ~d.thinkOn, ~d.textOn
    PROVE  LET q == Stops(d)
           IN q \in Seq(Events) /\ \E u : Leads(Len(q), q, w, u) /\ Closed(u, d)
<1> DEFINE A == Started(d)
<1> DEFINE order == SetToSeq(A)
<1> DEFINE n == Len(order)
<1> DEFINE block(i) == d.tool[order[i]].block
<1> DEFINE e(i) == StopEvent(block(i))
<1> DEFINE q == [i \in 1..n |-> e(i)]
<1> DEFINE left(i) == OpenAt(d) \ {block(j) : j \in 1..i}
<1> DEFINE st == [i \in 0..n |->
                    IF i = 0 THEN w
                    ELSE [stage |-> w.stage, open |-> [k \in left(i) |-> w.open[k]],
                          used |-> w.used, input |-> [c \in Calls |-> w.input[c]],
                          kinds |-> w.kinds, reason |-> w.reason]]
<1>0. A \subseteq Calls /\ IsFiniteSet(A) /\ \A c \in A : d.tool[c].started
  <2>1. A \subseteq Calls /\ \A c \in A : d.tool[c].started
    BY DEF Started
  <2>2. IsFiniteSet(A)
    BY <2>1, FS_Subset, CallsAssumption
  <2> QED
    BY <2>1, <2>2
<1>a. OpenAt(d) = {d.tool[c].block : c \in A}
  BY DEF OpenAt, Sound, Started
<1> HIDE DEF A
<1>1. /\ n \in Nat /\ order \in [1..n -> A]
      /\ \A i, j \in 1..n : order[i] = order[j] => i = j
      /\ \A c \in A : \E i \in 1..n : order[i] = c
  BY <1>0, OrderOf
<1> HIDE DEF order, n
<1>2. \A i \in 1..n : order[i] \in A /\ order[i] \in Calls /\ d.tool[order[i]].started
  BY <1>0, <1>1
<1>3. \A i \in 1..n : /\ block(i) \in Int /\ block(i) \in Indexes /\ block(i) \in OpenAt(d)
                      /\ \A j \in 1..n : block(i) = block(j) => i = j
  <2> TAKE i \in 1..n
  <2>1. order[i] \in Calls /\ d.tool[order[i]].started
    BY <1>2
  <2>2. block(i) \in 0..(d.next - 1)
    BY <2>1 DEF Sound
  <2>3. d.next \in Nat
    BY DEF Sound, Builders
  <2>4. block(i) \in Int /\ block(i) \in Indexes
    <3> HIDE DEF block
    <3> QED
      BY <2>2, <2>3, StreamAssumption DEF Indexes, Limit
  <2>5. block(i) \in OpenAt(d)
    BY <1>2, <1>a
  <2>6. \A j \in 1..n : block(i) = block(j) => order[i] = order[j]
    BY <1>2, <2>1 DEF Sound
  <2> QED
    BY <1>1, <2>4, <2>5, <2>6
<1> HIDE DEF block
<1>4. q \in Seq(Events) /\ Len(q) = n
  <2>1. \A i \in 1..n : e(i) \in Events
    BY <1>3, StopIsEvent
  <2> HIDE DEF e
  <2>2. q \in [1..n -> Events]
    BY <2>1
  <2> HIDE DEF q
  <2> QED
    BY <1>1, <2>2, LenProperties
<1>b. /\ w.stage = "body" /\ DOMAIN w.open = OpenAt(d) /\ w.open \in [OpenAt(d) -> Kinds]
  BY DEF Agrees, Saw
<1>5. \A i \in 0..n : st[i].stage = "body" /\ DOMAIN st[i].open = left(i)
  <2> TAKE i \in 0..n
  <2>1. CASE i = 0
    <3>1. left(0) = OpenAt(d)
      OBVIOUS
    <3>2. st[0] = w
      BY <1>1
    <3> HIDE DEF st, left
    <3> QED
      BY <1>b, <2>1, <3>1, <3>2
  <2>2. CASE i # 0
    <3> HIDE DEF left
    <3> QED
      BY <1>b, <2>2
  <2> QED
    BY <2>1, <2>2
<1>6. \A i \in 1..n : Allowed(st[i - 1], e(i))
  <2> TAKE i \in 1..n
  <2>1. i - 1 \in 0..n
    BY <1>1
  <2>2. block(i) \in left(i - 1)
    BY <1>1, <1>3
  <2>3. e(i).type = "stop" /\ e(i).index = block(i)
    BY DEF StopEvent, Event
  <2> HIDE DEF e, left, st
  <2> QED
    BY <1>3, <1>5, <2>1, <2>2, <2>3 DEF Allowed
<1>7. \A i \in 1..n : st[i] = After(st[i - 1], e(i))
  <2> TAKE i \in 1..n
  <2> DEFINE y == st[i - 1]
  <2>1. After(y, e(i)) = [stage |-> y.stage, open |-> [k \in DOMAIN y.open \ {block(i)} |-> y.open[k]],
                          used |-> y.used, input |-> [c \in Calls |-> y.input[c]],
                          kinds |-> y.kinds, reason |-> y.reason]
    <3> HIDE DEF y
    <3> QED
      BY CallsAssumption DEF After, StopEvent, Event, NoCall
  <2>2. i \in 0..n /\ i # 0 /\ i - 1 \in 0..n
    BY <1>1
  <2>3. left(i) = left(i - 1) \ {block(i)}
    <3>1. 1..i = (1..(i - 1)) \cup {i}
      BY <1>1
    <3> QED
      BY <3>1
  <2>4. DOMAIN y.open = left(i - 1)
    BY <1>5, <2>2
  <2>5. /\ y.stage = w.stage /\ y.used = w.used
        /\ y.kinds = w.kinds /\ y.reason = w.reason
        /\ \A c \in Calls : y.input[c] = w.input[c]
    <3> HIDE DEF left
    <3> QED
      BY <2>2
  <2>6. \A k \in left(i - 1) : y.open[k] = w.open[k]
    <3> HIDE DEF left
    <3>1. CASE i - 1 = 0
      BY <2>2, <3>1
    <3>2. CASE i - 1 # 0
      BY <2>2, <3>2
    <3> QED
      BY <3>1, <3>2
  <2>7. st[i] = [stage |-> w.stage, open |-> [k \in left(i) |-> w.open[k]],
                 used |-> w.used, input |-> [c \in Calls |-> w.input[c]],
                 kinds |-> w.kinds, reason |-> w.reason]
    <3> HIDE DEF left
    <3> QED
      BY <2>2
  <2> HIDE DEF y, st, left, e
  <2>8. [k \in left(i) |-> w.open[k]] = [k \in DOMAIN y.open \ {block(i)} |-> y.open[k]]
    BY <2>3, <2>4, <2>6
  <2>9. [c \in Calls |-> w.input[c]] = [c \in Calls |-> y.input[c]]
    BY <2>5
  <2>10. st[i] = After(y, e(i))
    BY <2>1, <2>5, <2>7, <2>8, <2>9
  <2> QED
    BY <2>10 DEF y
<1> DEFINE u == st[n]
<1>8. Leads(n, q, w, u)
  <2>1. st[0] = w
    BY <1>1
  <2>2. \A i \in 1..n : q[i] = e(i)
    OBVIOUS
  <2> HIDE DEF st, q, e
  <2>3. \A i \in 1..n : Allowed(st[i - 1], q[i]) /\ st[i] = After(st[i - 1], q[i])
    BY <1>6, <1>7, <2>2
  <2> QED
    BY <2>1, <2>3 DEF Leads
<1>9. left(n) = {}
  BY <1>a, <1>1 DEF block
<1>10. n \in 0..n
  BY <1>1
<1>11. u.open = <<>>
  <2>1. u.open \in [{} -> Kinds]
    <3>1. CASE n = 0
      <4>1. u = w
        BY <1>10, <3>1
      <4>2. OpenAt(d) = {}
        <5>1. left(0) = OpenAt(d)
          OBVIOUS
        <5> QED
          BY <1>9, <3>1, <5>1
      <4> HIDE DEF u
      <4> QED
        BY <1>b, <4>1, <4>2
    <3>2. CASE n # 0
      <4>1. u.open = [k \in left(n) |-> w.open[k]]
        <5> HIDE DEF left
        <5> QED
          BY <1>10, <3>2
      <4> HIDE DEF u
      <4> QED
        BY <1>9, <4>1
    <3> QED
      BY <3>1, <3>2
  <2> QED
    BY <2>1, NothingOpen
<1>12. /\ u.stage = w.stage /\ u.used = w.used /\ u.kinds = w.kinds
       /\ \A c \in Calls : u.input[c] = w.input[c]
  <2> HIDE DEF left
  <2> QED
    BY <1>10
<1> HIDE DEF u
<1>13. Closed(u, d)
  BY <1>11, <1>12 DEF Agrees, Closed, Saw
<1> HIDE DEF q
<1> QED
  BY <1>4, <1>8, <1>13 DEF Stops, q, e, block, n, order, A

-----------------------------------------------------------------------------
(***************************************************************************)
(* The operators of the builder.                                           *)
(***************************************************************************)

\* The events of step s lead from v to a view that agrees with its builder, which
\* has given out at most n indexes.
Good(v, s, n) ==
    \E w : Reach(v, s, w) /\ Agrees(w, s.b) /\ Sound(s.b) /\ s.b.next <= n

\* A step of no event.
LEMMA GoodStep ==
    ASSUME NEW v, NEW d, NEW n, Sound(d), Agrees(v, d), d.next <= n
    PROVE  Good(v, Step(d), n) /\ Step(d).b = d
BY StepReach DEF Good

\* One more event.
LEMMA GoodOne ==
    ASSUME NEW v, NEW s, NEW n, NEW m, Good(v, s, n), NEW x, NEW e, x.next <= m,
           \A w : Agrees(w, s.b) => /\ e \in Events /\ Allowed(w, e)
                                    /\ Sound(x) /\ Agrees(After(w, e), x)
    PROVE  Good(v, Emit(s, x, <<e>>), m) /\ Emit(s, x, <<e>>).b = x
<1>1. PICK w : Reach(v, s, w) /\ Agrees(w, s.b)
  BY DEF Good
<1>2. /\ e \in Events /\ Allowed(w, e) /\ Sound(x) /\ Agrees(After(w, e), x)
  BY <1>1
<1>3. Reach(v, Emit(s, x, <<e>>), After(w, e)) /\ Emit(s, x, <<e>>).b = x
  BY <1>1, <1>2, EmitOne
<1> QED
  BY <1>2, <1>3 DEF Good

\* The builder may give out fewer.
LEMMA GoodMore ==
    ASSUME NEW v, NEW s, NEW n \in Int, NEW m \in Int, Good(v, s, n), n <= m
    PROVE  Good(v, s, m)
<1>1. PICK w : Reach(v, s, w) /\ Agrees(w, s.b) /\ Sound(s.b) /\ s.b.next <= n
  BY DEF Good
<1>2. s.b.next \in Nat
  BY <1>1 DEF Sound, Builders
<1>3. s.b.next <= m
  BY <1>1, <1>2
<1> QED
  BY <1>1, <1>3 DEF Good

\* What a good step says of its builder.
LEMMA GoodBuilder ==
    ASSUME NEW v, NEW s, NEW n \in Int, Good(v, s, n)
    PROVE  /\ Sound(s.b) /\ s.b \in Builders /\ s.b.next \in Nat /\ s.b.next <= n
BY DEF Good, Sound, Builders

\* StopText.
LEMMA TextStopped ==
    ASSUME NEW v, NEW s, NEW n \in Int, n <= Limit, Good(v, s, n)
    PROVE  LET x == StopText(s).b
           IN /\ Good(v, StopText(s), n) /\ ~x.textOn
              /\ x.next = s.b.next /\ x.text = s.b.text /\ SameThinking(s.b, x)
              /\ x.tool = s.b.tool /\ x.said = s.b.said /\ x.thought = s.b.thought
<1> DEFINE d == s.b
<1> DEFINE x == [d EXCEPT !.textOn = FALSE]
<1>0. Sound(d) /\ d \in Builders /\ d.next \in Nat /\ d.next <= n /\ d.next <= Limit
  BY GoodBuilder, StreamAssumption DEF Limit
<1>1. CASE d.textOn
  <2>1. /\ x \in Builders /\ ~x.textOn
        /\ x.next = d.next /\ x.text = d.text /\ x.think = d.think /\ x.thinkOn = d.thinkOn
        /\ x.tool = d.tool /\ x.said = d.said /\ x.thought = d.thought
    <3> HIDE DEF d
    <3> QED
      BY <1>0 DEF Builders
  <2>2. StopText(s) = Emit(s, x, <<StopEvent(d.text)>>)
    BY <1>1 DEF StopText
  <2> HIDE DEF x
  <2>3. ASSUME NEW w, Agrees(w, d)
        PROVE  /\ StopEvent(d.text) \in Events /\ Allowed(w, StopEvent(d.text))
               /\ Sound(x) /\ Agrees(After(w, StopEvent(d.text)), x)
    <3> HIDE DEF d
    <3>1. SameThinking(d, x)
      BY <2>1 DEF SameThinking
    <3> QED
      BY <1>0, <1>1, <2>1, <2>3, <3>1, TextStops
  <2>4. x.next <= n
    BY <1>0, <2>1
  <2>5. Good(v, StopText(s), n) /\ StopText(s).b = x
    BY <2>2, <2>3, <2>4, GoodOne
  <2> QED
    BY <2>1, <2>5 DEF SameThinking
<1>2. CASE ~d.textOn
  BY <1>2 DEF StopText, SameThinking
<1> QED
  BY <1>1, <1>2

\* StopThinking.
LEMMA ThinkingStopped ==
    ASSUME NEW v, NEW s, NEW n \in Int, n <= Limit, Good(v, s, n)
    PROVE  LET x == StopThinking(s).b
           IN /\ Good(v, StopThinking(s), n) /\ ~x.thinkOn
              /\ x.next = s.b.next /\ x.think = s.b.think /\ SameText(s.b, x)
              /\ x.tool = s.b.tool /\ x.said = s.b.said /\ x.thought = s.b.thought
<1> DEFINE d == s.b
<1> DEFINE x == [d EXCEPT !.thinkOn = FALSE]
<1>0. Sound(d) /\ d \in Builders /\ d.next \in Nat /\ d.next <= n /\ d.next <= Limit
  BY GoodBuilder, StreamAssumption DEF Limit
<1>1. CASE d.thinkOn
  <2>1. /\ x \in Builders /\ ~x.thinkOn
        /\ x.next = d.next /\ x.text = d.text /\ x.think = d.think /\ x.textOn = d.textOn
        /\ x.tool = d.tool /\ x.said = d.said /\ x.thought = d.thought
    <3> HIDE DEF d
    <3> QED
      BY <1>0 DEF Builders
  <2>2. StopThinking(s) = Emit(s, x, <<StopEvent(d.think)>>)
    BY <1>1 DEF StopThinking
  <2> HIDE DEF x
  <2>3. ASSUME NEW w, Agrees(w, d)
        PROVE  /\ StopEvent(d.think) \in Events /\ Allowed(w, StopEvent(d.think))
               /\ Sound(x) /\ Agrees(After(w, StopEvent(d.think)), x)
    <3> HIDE DEF d
    <3>1. SameText(d, x)
      BY <2>1 DEF SameText
    <3> QED
      BY <1>0, <1>1, <2>1, <2>3, <3>1, ThinkingStops
  <2>4. x.next <= n
    BY <1>0, <2>1
  <2>5. Good(v, StopThinking(s), n) /\ StopThinking(s).b = x
    BY <2>2, <2>3, <2>4, GoodOne
  <2> QED
    BY <2>1, <2>5 DEF SameText
<1>2. CASE ~d.thinkOn
  BY <1>2 DEF StopThinking, SameText
<1> QED
  BY <1>1, <1>2

\* CloseContent.
LEMMA ContentClosed ==
    ASSUME NEW v, NEW s, NEW n \in Int, n <= Limit, Good(v, s, n)
    PROVE  LET x == CloseContent(s).b
           IN /\ Good(v, CloseContent(s), n) /\ ~x.thinkOn /\ ~x.textOn
              /\ x.next = s.b.next /\ x.think = s.b.think /\ x.text = s.b.text
              /\ x.tool = s.b.tool /\ x.said = s.b.said /\ x.thought = s.b.thought
<1> DEFINE r == StopThinking(s)
<1>1. /\ Good(v, r, n) /\ ~r.b.thinkOn
      /\ r.b.next = s.b.next /\ r.b.think = s.b.think /\ r.b.text = s.b.text
      /\ r.b.tool = s.b.tool /\ r.b.said = s.b.said /\ r.b.thought = s.b.thought
  BY ThinkingStopped DEF SameText
<1>2. CloseContent(s) = StopText(r)
  BY DEF CloseContent
<1> HIDE DEF r
<1> DEFINE x == StopText(r).b
<1>3. /\ Good(v, StopText(r), n) /\ ~x.textOn
      /\ x.next = r.b.next /\ x.text = r.b.text /\ SameThinking(r.b, x)
      /\ x.tool = r.b.tool /\ x.said = r.b.said /\ x.thought = r.b.thought
  BY <1>1, TextStopped
<1> HIDE DEF x
<1> QED
  BY <1>1, <1>2, <1>3 DEF SameThinking, x

\* Think: the block is there, and the reasoning that it is for.
LEMMA Thinks ==
    ASSUME NEW v, NEW s, NEW n \in Int, n + 1 <= Limit, Good(v, s, n), Told(s.b)
    PROVE  LET x == Think(s).b
           IN /\ Good(v, Think(s), n + 1) /\ Told(x)
              /\ x.tool = s.b.tool /\ x.said = s.b.said /\ x.text = s.b.text
              /\ x.think # NoIndex
<1> DEFINE r == StopText(s)
<1>0. n \in Int /\ n <= Limit /\ n <= n + 1
  BY StreamAssumption DEF Limit
<1>1. /\ Good(v, r, n) /\ ~r.b.textOn
      /\ r.b.tool = s.b.tool /\ r.b.said = s.b.said /\ r.b.text = s.b.text
  BY <1>0, TextStopped
<1> DEFINE z == EnsureThinking(s)
<1>2. z = IF r.b.thinkOn THEN r ELSE StartThinking(r)
  BY DEF EnsureThinking
<1> HIDE DEF r, z
<1>3. /\ Good(v, z, n + 1) /\ z.b.thinkOn
      /\ z.b.tool = s.b.tool /\ z.b.said = s.b.said /\ z.b.text = s.b.text
  <2>1. CASE r.b.thinkOn
    BY <1>0, <1>1, <1>2, <2>1, GoodMore
  <2>2. CASE ~r.b.thinkOn
    <3> DEFINE d == r.b
    <3> DEFINE x == [d EXCEPT !.think = d.next, !.thinkOn = TRUE, !.next = @ + 1]
    <3>0. Sound(d) /\ d \in Builders /\ d.next \in Nat /\ d.next <= n /\ d.next <= Limit
      BY <1>0, <1>1, GoodBuilder, StreamAssumption DEF Limit
    <3>1. z = Emit(r, x, <<StartEvent(d.next, "thinking", NoCall)>>)
      BY <1>2, <2>2 DEF StartThinking
    <3>2. /\ x \in Builders /\ x.next = d.next + 1 /\ x.think = d.next /\ x.thinkOn
          /\ x.text = d.text /\ x.textOn = d.textOn /\ x.tool = d.tool /\ x.said = d.said
      <4> HIDE DEF d
      <4>1. ASSUME NEW p \in Int, NEW k \in Nat
            PROVE  LET y == [d EXCEPT !.think = p, !.thinkOn = TRUE, !.next = k]
                   IN /\ y \in Builders /\ y.next = k /\ y.think = p /\ y.thinkOn
                      /\ y.text = d.text /\ y.textOn = d.textOn /\ y.tool = d.tool
                      /\ y.said = d.said
        BY <3>0 DEF Builders
      <4>2. d.next \in Int /\ d.next + 1 \in Nat
        BY <3>0
      <4> QED
        BY <4>1, <4>2
    <3> HIDE DEF x
    <3>3. ASSUME NEW w, Agrees(w, d)
          PROVE  LET e == StartEvent(d.next, "thinking", NoCall)
                 IN e \in Events /\ Allowed(w, e) /\ Sound(x) /\ Agrees(After(w, e), x)
      <4>1. Saw(w, d)
        BY <3>3 DEF Agrees
      <4>2. SameText(d, x)
        BY <3>2 DEF SameText
      <4>3. ~d.textOn /\ ~d.thinkOn
        BY <1>1, <2>2
      <4> HIDE DEF d
      <4>4. LET e == StartEvent(d.next, "thinking", NoCall) IN e \in Events /\ Allowed(w, e)
        BY <3>0, <4>1, StartAllowed DEF Kinds
      <4> QED
        BY <3>0, <3>2, <3>3, <4>2, <4>3, <4>4, ThinkingStarts
    <3>4. x.next <= n + 1
      BY <3>0, <3>2
    <3>5. Good(v, z, n + 1) /\ z.b = x
      BY <1>1, <3>1, <3>3, <3>4, GoodOne
    <3> QED
      BY <1>1, <3>2, <3>5
  <2> QED
    BY <2>1, <2>2
<1> DEFINE d == z.b
<1> DEFINE x == [d EXCEPT !.thought = TRUE]
<1> DEFINE e == DeltaEvent(d.think, "thinking", NoCall, "none")
<1>4. Think(s) = Emit(z, x, <<e>>)
  BY DEF Think, z
<1>5. Sound(d) /\ d \in Builders /\ d.next \in Nat /\ d.next <= n + 1 /\ d.next <= Limit
  BY <1>3, GoodBuilder, StreamAssumption DEF Limit
<1>6. /\ x \in Builders /\ x.next = d.next /\ x.think = d.think /\ x.thinkOn = d.thinkOn
      /\ x.text = d.text /\ x.textOn = d.textOn /\ x.tool = d.tool /\ x.said = d.said
      /\ x.thought
  <2> HIDE DEF d
  <2> QED
    BY <1>5 DEF Builders
<1> HIDE DEF x
<1>7. ASSUME NEW w, Agrees(w, d)
      PROVE  e \in Events /\ Allowed(w, e) /\ Sound(x) /\ Agrees(After(w, e), x)
  <2>1. d.think \in OpenAt(d) /\ KindAt(d, d.think) = "thinking"
    BY <1>3, <1>5 DEF Sound, OpenAt, KindAt
  <2>2. SameText(d, x) /\ SameThinking(d, x)
    BY <1>6 DEF SameText, SameThinking
  <2> HIDE DEF d
  <2> QED
    BY <1>5, <1>6, <1>7, <2>1, <2>2, MoreOfBlock
<1>8. Good(v, Think(s), n + 1) /\ Think(s).b = x
  <2> HIDE DEF d, e
  <2>1. \A w : Agrees(w, z.b) => /\ e \in Events /\ Allowed(w, e)
                                 /\ Sound(x) /\ Agrees(After(w, e), x)
    BY <1>7 DEF d
  <2>2. x.next <= n + 1
    BY <1>5, <1>6
  <2> QED
    BY <1>3, <1>4, <2>1, <2>2, GoodOne
<1>9. Told(x)
  BY <1>3, <1>6 DEF Told
<1>10. x.think # NoIndex
  <2>1. d.think \in 0..(d.next - 1)
    BY <1>3, <1>5 DEF Sound
  <2> HIDE DEF d
  <2> QED
    BY <1>5, <1>6, <2>1 DEF NoIndex
<1> QED
  BY <1>3, <1>6, <1>8, <1>9, <1>10

\* Say: the block is there, and the text that it is for.
LEMMA Says ==
    ASSUME NEW v, NEW s, NEW n \in Int, n + 1 <= Limit, Good(v, s, n), Told(s.b),
           NEW text \in {"blank", "solid"}
    PROVE  LET x == Say(s, text).b
           IN /\ Good(v, Say(s, text), n + 1) /\ Told(x)
              /\ x.tool = s.b.tool /\ x.text # NoIndex
<1> DEFINE r == StopThinking(s)
<1>0. n \in Int /\ n <= Limit /\ n <= n + 1
  BY StreamAssumption DEF Limit
<1>1. /\ Good(v, r, n) /\ ~r.b.thinkOn
      /\ r.b.tool = s.b.tool /\ r.b.think = s.b.think /\ r.b.thought = s.b.thought
  BY <1>0, ThinkingStopped
<1> DEFINE z == EnsureText(s)
<1>2. z = IF r.b.textOn THEN r ELSE StartText(r)
  BY DEF EnsureText
<1> HIDE DEF r, z
<1>3. /\ Good(v, z, n + 1) /\ z.b.textOn
      /\ z.b.tool = s.b.tool /\ z.b.think = s.b.think /\ z.b.thought = s.b.thought
  <2>1. CASE r.b.textOn
    BY <1>0, <1>1, <1>2, <2>1, GoodMore
  <2>2. CASE ~r.b.textOn
    <3> DEFINE d == r.b
    <3> DEFINE x == [d EXCEPT !.text = d.next, !.textOn = TRUE, !.next = @ + 1]
    <3>0. Sound(d) /\ d \in Builders /\ d.next \in Nat /\ d.next <= n /\ d.next <= Limit
      BY <1>0, <1>1, GoodBuilder, StreamAssumption DEF Limit
    <3>1. z = Emit(r, x, <<StartEvent(d.next, "text", NoCall)>>)
      BY <1>2, <2>2 DEF StartText
    <3>2. /\ x \in Builders /\ x.next = d.next + 1 /\ x.text = d.next /\ x.textOn
          /\ x.think = d.think /\ x.thinkOn = d.thinkOn /\ x.tool = d.tool
          /\ x.thought = d.thought
      <4> HIDE DEF d
      <4>1. ASSUME NEW p \in Int, NEW k \in Nat
            PROVE  LET y == [d EXCEPT !.text = p, !.textOn = TRUE, !.next = k]
                   IN /\ y \in Builders /\ y.next = k /\ y.text = p /\ y.textOn
                      /\ y.think = d.think /\ y.thinkOn = d.thinkOn /\ y.tool = d.tool
                      /\ y.thought = d.thought
        BY <3>0 DEF Builders
      <4>2. d.next \in Int /\ d.next + 1 \in Nat
        BY <3>0
      <4> QED
        BY <4>1, <4>2
    <3> HIDE DEF x
    <3>3. ASSUME NEW w, Agrees(w, d)
          PROVE  LET e == StartEvent(d.next, "text", NoCall)
                 IN e \in Events /\ Allowed(w, e) /\ Sound(x) /\ Agrees(After(w, e), x)
      <4>1. Saw(w, d)
        BY <3>3 DEF Agrees
      <4>2. SameThinking(d, x)
        BY <3>2 DEF SameThinking
      <4>3. ~d.textOn /\ ~d.thinkOn
        BY <1>1, <2>2
      <4> HIDE DEF d
      <4>4. LET e == StartEvent(d.next, "text", NoCall) IN e \in Events /\ Allowed(w, e)
        BY <3>0, <4>1, StartAllowed DEF Kinds
      <4> QED
        BY <3>0, <3>2, <3>3, <4>2, <4>3, <4>4, TextStarts
    <3>4. x.next <= n + 1
      BY <3>0, <3>2
    <3>5. Good(v, z, n + 1) /\ z.b = x
      BY <1>1, <3>1, <3>3, <3>4, GoodOne
    <3> QED
      BY <1>1, <3>2, <3>5
  <2> QED
    BY <2>1, <2>2
<1> DEFINE d == z.b
<1> DEFINE x == [d EXCEPT !.said = IF @ = "solid" THEN @ ELSE text]
<1> DEFINE e == DeltaEvent(d.text, "text", NoCall, text)
<1>4. Say(s, text) = Emit(z, x, <<e>>)
  BY DEF Say, z
<1>5. Sound(d) /\ d \in Builders /\ d.next \in Nat /\ d.next <= n + 1 /\ d.next <= Limit
  BY <1>3, GoodBuilder, StreamAssumption DEF Limit
<1>6. /\ x \in Builders /\ x.next = d.next /\ x.think = d.think /\ x.thinkOn = d.thinkOn
      /\ x.text = d.text /\ x.textOn = d.textOn /\ x.tool = d.tool /\ x.thought = d.thought
  <2> HIDE DEF d
  <2>1. ASSUME NEW a \in {"none", "blank", "solid"}
        PROVE  LET y == [d EXCEPT !.said = a]
               IN /\ y \in Builders /\ y.next = d.next
                  /\ y.think = d.think /\ y.thinkOn = d.thinkOn
                  /\ y.text = d.text /\ y.textOn = d.textOn
                  /\ y.tool = d.tool /\ y.thought = d.thought
    BY <1>5 DEF Builders
  <2>2. (IF d.said = "solid" THEN d.said ELSE text) \in {"none", "blank", "solid"}
    BY <1>5 DEF Builders
  <2> QED
    BY <2>1, <2>2
<1> HIDE DEF x
<1>7. d.text \in 0..(d.next - 1) /\ d.text \in OpenAt(d) /\ KindAt(d, d.text) = "text"
  BY <1>3, <1>5 DEF Sound, OpenAt, KindAt
<1>8. ASSUME NEW w, Agrees(w, d)
      PROVE  e \in Events /\ Allowed(w, e) /\ Sound(x) /\ Agrees(After(w, e), x)
  <2>2. SameText(d, x) /\ SameThinking(d, x)
    BY <1>6 DEF SameText, SameThinking
  <2> HIDE DEF d
  <2> QED
    BY <1>5, <1>6, <1>7, <1>8, <2>2, MoreOfBlock
<1>9. Good(v, Say(s, text), n + 1) /\ Say(s, text).b = x
  <2> HIDE DEF d, e
  <2>1. \A w : Agrees(w, z.b) => /\ e \in Events /\ Allowed(w, e)
                                 /\ Sound(x) /\ Agrees(After(w, e), x)
    BY <1>8 DEF d
  <2>2. x.next <= n + 1
    BY <1>5, <1>6
  <2> QED
    BY <1>3, <1>4, <2>1, <2>2, GoodOne
<1>10. x.text # NoIndex
  BY <1>5, <1>6, <1>7 DEF NoIndex
<1>11. Told(x)
  BY <1>3, <1>6, <1>10 DEF Told
<1> QED
  BY <1>3, <1>6, <1>9, <1>10, <1>11

\* A whole block of its own.
LEMMA BlockAdded ==
    ASSUME NEW v, NEW r, NEW n \in Int, n + 1 <= Limit, Good(v, r, n),
           NEW k \in Kinds, NEW data \in {"whole", "solid"}
    PROVE  LET x == [r.b EXCEPT !.next = @ + 1]
               s == Emit(r, x, <<StartEvent(r.b.next, k, NoCall),
                                 DeltaEvent(r.b.next, k, NoCall, data),
                                 StopEvent(r.b.next)>>)
           IN /\ Good(v, s, n + 1) /\ s.b = x
              /\ x.next = r.b.next + 1 /\ x.tool = r.b.tool
              /\ x.text = r.b.text /\ x.think = r.b.think
              /\ x.said = r.b.said /\ x.thought = r.b.thought
<1> DEFINE d == r.b
<1> DEFINE x == [d EXCEPT !.next = @ + 1]
<1> DEFINE e1 == StartEvent(d.next, k, NoCall)
<1> DEFINE e2 == DeltaEvent(d.next, k, NoCall, data)
<1> DEFINE e3 == StopEvent(d.next)
<1>0. Sound(d) /\ d \in Builders /\ d.next \in Nat /\ d.next <= n /\ d.next <= Limit
  BY GoodBuilder, StreamAssumption DEF Limit
<1>1. PICK w : Reach(v, r, w) /\ Agrees(w, d)
  BY DEF Good
<1>2. /\ x \in Builders /\ x.next = d.next + 1 /\ x.tool = d.tool
      /\ x.text = d.text /\ x.think = d.think /\ x.textOn = d.textOn /\ x.thinkOn = d.thinkOn
      /\ x.said = d.said /\ x.thought = d.thought
  <2> HIDE DEF d
  <2>1. ASSUME NEW m \in Nat
        PROVE  LET y == [d EXCEPT !.next = m]
               IN /\ y \in Builders /\ y.next = m /\ y.tool = d.tool
                  /\ y.text = d.text /\ y.think = d.think
                  /\ y.textOn = d.textOn /\ y.thinkOn = d.thinkOn
                  /\ y.said = d.said /\ y.thought = d.thought
    BY <1>0 DEF Builders
  <2>2. d.next + 1 \in Nat
    BY <1>0
  <2> QED
    BY <2>1, <2>2
<1> HIDE DEF x
<1>3. SameText(d, x) /\ SameThinking(d, x)
  BY <1>2 DEF SameText, SameThinking
<1>4. LET u == After(After(w, e1), e2)
      IN /\ e1 \in Events /\ e2 \in Events /\ e3 \in Events
         /\ Allowed(w, e1) /\ Allowed(After(w, e1), e2) /\ Allowed(u, e3)
         /\ Sound(x) /\ Agrees(After(u, e3), x)
  <2> HIDE DEF d
  <2> QED
    BY <1>0, <1>1, <1>2, <1>3, WholeBlock
<1> DEFINE s == Emit(r, x, <<e1, e2, e3>>)
<1>5. Reach(v, s, After(After(After(w, e1), e2), e3)) /\ s.b = x
  <2> HIDE DEF e1, e2, e3
  <2> QED
    BY <1>1, <1>4, EmitThree
<1>6. x.next <= n + 1
  BY <1>0, <1>2
<1> HIDE DEF s, e1, e2, e3
<1>7. Good(v, s, n + 1)
  BY <1>4, <1>5, <1>6 DEF Good
<1> QED
  BY <1>2, <1>5, <1>7 DEF x, s, e1, e2, e3

\* HeuristicTool.
LEMMA HeuristicCalls ==
    ASSUME NEW v, NEW s, NEW n \in Int, n + 1 <= Limit, Good(v, s, n), Told(s.b)
    PROVE  LET x == HeuristicTool(s).b
           IN /\ Good(v, HeuristicTool(s), n + 1) /\ Told(x)
              /\ x.tool = s.b.tool /\ x.text = s.b.text
<1> DEFINE r == CloseContent(s)
<1>0. n <= Limit
  BY StreamAssumption DEF Limit
<1>1. /\ Good(v, r, n)
      /\ r.b.tool = s.b.tool /\ r.b.text = s.b.text /\ r.b.think = s.b.think
      /\ r.b.said = s.b.said /\ r.b.thought = s.b.thought
  BY <1>0, ContentClosed
<1>2. HeuristicTool(s) = Emit(r, [r.b EXCEPT !.next = @ + 1],
                              <<StartEvent(r.b.next, "tool_use", NoCall),
                                DeltaEvent(r.b.next, "tool_use", NoCall, "whole"),
                                StopEvent(r.b.next)>>)
  BY DEF HeuristicTool
<1> HIDE DEF r
<1>3. "tool_use" \in Kinds
  BY DEF Kinds
<1> DEFINE y == [r.b EXCEPT !.next = @ + 1]
<1>a. LET z == Emit(r, y, <<StartEvent(r.b.next, "tool_use", NoCall),
                            DeltaEvent(r.b.next, "tool_use", NoCall, "whole"),
                            StopEvent(r.b.next)>>)
      IN /\ Good(v, z, n + 1) /\ z.b = y
         /\ y.next = r.b.next + 1 /\ y.tool = r.b.tool
         /\ y.text = r.b.text /\ y.think = r.b.think
         /\ y.said = r.b.said /\ y.thought = r.b.thought
  BY <1>1, <1>3, BlockAdded
<1> DEFINE x == HeuristicTool(s).b
<1>4. /\ Good(v, HeuristicTool(s), n + 1)
      /\ x.tool = r.b.tool /\ x.text = r.b.text /\ x.think = r.b.think
      /\ x.said = r.b.said /\ x.thought = r.b.thought
  BY <1>a, <1>2
<1> HIDE DEF x
<1>5. Told(x)
  BY <1>1, <1>4 DEF Told
<1> QED
  BY <1>1, <1>4, <1>5 DEF x

\* The state of call c becomes t.
LEMMA ToolChanged ==
    ASSUME NEW d \in Builders, NEW c \in Calls, NEW t \in Tools
    PROVE  LET x == [d EXCEPT !.tool[c] = t]
           IN /\ x \in Builders /\ x.next = d.next /\ x.tool[c] = t
              /\ \A o \in Calls \ {c} : x.tool[o] = d.tool[o]
              /\ x.text = d.text /\ x.think = d.think
              /\ SameText(d, x) /\ SameThinking(d, x)
              /\ x.said = d.said /\ x.thought = d.thought
<1> DEFINE T == [d.tool EXCEPT ![c] = t]
<1>1. T \in [Calls -> Tools] /\ T[c] = t /\ \A o \in Calls \ {c} : T[o] = d.tool[o]
  BY DEF Builders
<1> DEFINE x == [d EXCEPT !.tool[c] = t]
<1>2. x = [d EXCEPT !.tool = T]
  OBVIOUS
<1> HIDE DEF T, x
<1>3. /\ x \in Builders /\ x.next = d.next /\ x.tool = T
      /\ x.text = d.text /\ x.think = d.think
      /\ x.textOn = d.textOn /\ x.thinkOn = d.thinkOn
      /\ x.said = d.said /\ x.thought = d.thought
  BY <1>1, <1>2 DEF Builders
<1> QED
  BY <1>1, <1>3 DEF x, SameText, SameThinking

\* What d and x say of text and reasoning is the same.
SameWords(d, x) ==
    /\ x.text = d.text /\ x.think = d.think
    /\ x.said = d.said /\ x.thought = d.thought

\* StartTool.
LEMMA ToolStarted ==
    ASSUME NEW v, NEW s, NEW n \in Int, n + 1 <= Limit, Good(v, s, n), NEW c \in Calls,
           ~s.b.tool[c].started
    PROVE  LET x == StartTool(s, c).b
           IN /\ Good(v, StartTool(s, c), n + 1)
              /\ x.tool[c].started /\ SameWords(s.b, x)
<1> DEFINE d == s.b
<1> DEFINE t == [d.tool[c] EXCEPT !.started = TRUE, !.block = d.next]
<1> DEFINE y == [d EXCEPT !.tool[c] = t]
<1> DEFINE x == [d EXCEPT !.tool[c].started = TRUE, !.tool[c].block = d.next, !.next = @ + 1]
<1>0. Sound(d) /\ d \in Builders /\ d.next \in Nat /\ d.next <= n /\ d.next <= Limit
  BY GoodBuilder, StreamAssumption DEF Limit
<1>1. /\ t \in Tools /\ t.started /\ t.block = d.next /\ t.sent = d.tool[c].sent
  <2>1. d.tool[c] \in Tools /\ d.next \in Int
    <3> HIDE DEF d
    <3> QED
      BY <1>0 DEF Builders
  <2> HIDE DEF d
  <2>2. ASSUME NEW a \in Tools, NEW i \in Int
        PROVE  LET z == [a EXCEPT !.started = TRUE, !.block = i]
               IN z \in Tools /\ z.started /\ z.block = i /\ z.sent = a.sent
    BY DEF Tools
  <2> QED
    BY <2>1, <2>2
<1>2. x = [y EXCEPT !.next = @ + 1]
  <2> HIDE DEF d
  <2>1. d.tool \in [Calls -> Tools] /\ d.tool[c] \in Tools
    BY <1>0 DEF Builders
  <2> QED
    BY <1>0, <2>1 DEF Builders
<1> HIDE DEF t
<1>3. /\ y \in Builders /\ y.next = d.next /\ y.tool[c] = t
      /\ \A o \in Calls \ {c} : y.tool[o] = d.tool[o]
      /\ y.text = d.text /\ y.think = d.think
      /\ SameText(d, y) /\ SameThinking(d, y)
      /\ y.said = d.said /\ y.thought = d.thought
  <2> HIDE DEF d
  <2> QED
    BY <1>0, <1>1, ToolChanged
<1> HIDE DEF y
<1>4. /\ x \in Builders /\ x.next = d.next + 1 /\ x.tool = y.tool
      /\ x.text = y.text /\ x.think = y.think /\ x.textOn = y.textOn /\ x.thinkOn = y.thinkOn
      /\ x.said = y.said /\ x.thought = y.thought
  <2> HIDE DEF x, d
  <2>1. ASSUME NEW m \in Nat
        PROVE  LET z == [y EXCEPT !.next = m]
               IN /\ z \in Builders /\ z.next = m /\ z.tool = y.tool
                  /\ z.text = y.text /\ z.think = y.think
                  /\ z.textOn = y.textOn /\ z.thinkOn = y.thinkOn
                  /\ z.said = y.said /\ z.thought = y.thought
    BY <1>3 DEF Builders
  <2>2. y.next + 1 \in Nat /\ y.next + 1 = d.next + 1
    BY <1>0, <1>3
  <2> QED
    BY <1>2, <2>1, <2>2
<1>5. StartTool(s, c) = Emit(s, x, <<StartEvent(d.next, "tool_use", c)>>)
  BY DEF StartTool
<1> HIDE DEF x
<1>6. ASSUME NEW w, Agrees(w, d)
      PROVE  LET e == StartEvent(d.next, "tool_use", c)
             IN e \in Events /\ Allowed(w, e) /\ Sound(x) /\ Agrees(After(w, e), x)
  <2>1. Saw(w, d)
    BY <1>6 DEF Agrees
  <2>2. SameText(d, x) /\ SameThinking(d, x)
    BY <1>3, <1>4 DEF SameText, SameThinking
  <2>3. ~d.tool[c].started
    OBVIOUS
  <2> HIDE DEF d
  <2>4. LET e == StartEvent(d.next, "tool_use", c) IN e \in Events /\ Allowed(w, e)
    BY <1>0, <2>1, StartAllowed DEF Kinds
  <2>5. /\ x.tool[c].started /\ x.tool[c].block = d.next /\ x.tool[c].sent = d.tool[c].sent
        /\ \A o \in Calls \ {c} : x.tool[o] = d.tool[o]
    BY <1>1, <1>3, <1>4
  <2>6. LET e == StartEvent(d.next, "tool_use", c) IN Sound(x) /\ Agrees(After(w, e), x)
    BY <1>0, <1>4, <1>6, <2>2, <2>3, <2>5, ToolStarts
  <2> QED
    BY <2>4, <2>6
<1>7. x.next <= n + 1
  BY <1>0, <1>4
<1>8. Good(v, StartTool(s, c), n + 1) /\ StartTool(s, c).b = x
  <2> DEFINE e == StartEvent(d.next, "tool_use", c)
  <2>1. \A w : Agrees(w, s.b) => /\ e \in Events /\ Allowed(w, e)
                                 /\ Sound(x) /\ Agrees(After(w, e), x)
    BY <1>6
  <2> HIDE DEF e
  <2>2. StartTool(s, c) = Emit(s, x, <<e>>)
    BY <1>5 DEF e
  <2> HIDE DEF d
  <2> QED
    BY <1>7, <2>1, <2>2, GoodOne
<1> QED
  BY <1>1, <1>3, <1>4, <1>8 DEF SameWords

\* ToolDelta.
LEMMA ToolTold ==
    ASSUME NEW v, NEW s, NEW n \in Int, n <= Limit, Good(v, s, n), NEW c \in Calls,
           s.b.tool[c].started, NEW t \in Tools, t.started, t.block = s.b.tool[c].block,
           NEW data \in {"part", "whole"}
    PROVE  LET x == ToolDelta(s, c, t, data).b
           IN /\ Good(v, ToolDelta(s, c, t, data), n)
              /\ SameWords(s.b, x)
<1> DEFINE d == s.b
<1> DEFINE z == [t EXCEPT !.sent = data]
<1> DEFINE x == [d EXCEPT !.tool[c] = z]
<1> DEFINE e == DeltaEvent(t.block, "tool_use", c, data)
<1>0. Sound(d) /\ d \in Builders /\ d.next \in Nat /\ d.next <= n /\ d.next <= Limit
  BY GoodBuilder, StreamAssumption DEF Limit
<1>1. z \in Tools /\ z.started /\ z.block = t.block /\ z.sent = data
  BY DEF Tools, Amounts
<1>2. ToolDelta(s, c, t, data) = Emit(s, x, <<e>>)
  BY DEF ToolDelta
<1> HIDE DEF z
<1>3. /\ x \in Builders /\ x.next = d.next /\ x.tool[c] = z
      /\ \A o \in Calls \ {c} : x.tool[o] = d.tool[o]
      /\ x.text = d.text /\ x.think = d.think
      /\ SameText(d, x) /\ SameThinking(d, x)
      /\ x.said = d.said /\ x.thought = d.thought
  <2> HIDE DEF d
  <2> QED
    BY <1>0, <1>1, ToolChanged
<1> HIDE DEF x
<1>4. ASSUME NEW w, Agrees(w, d)
      PROVE  e \in Events /\ Allowed(w, e) /\ Sound(x) /\ Agrees(After(w, e), x)
  <2>1. e = DeltaEvent(d.tool[c].block, "tool_use", c, data)
    OBVIOUS
  <2>2. d.tool[c].started /\ t.block = d.tool[c].block
    OBVIOUS
  <2> HIDE DEF d, e
  <2>3. x.tool[c].started /\ x.tool[c].block = d.tool[c].block /\ x.tool[c].sent = data
    BY <1>1, <1>3, <2>2
  <2>4. LET f == DeltaEvent(d.tool[c].block, "tool_use", c, data)
        IN f \in Events /\ Allowed(w, f) /\ Sound(x) /\ Agrees(After(w, f), x)
    BY <1>0, <1>3, <1>4, <2>2, <2>3, MoreOfTool
  <2> QED
    BY <2>1, <2>4
<1>5. x.next <= n
  BY <1>0, <1>3
<1>6. Good(v, ToolDelta(s, c, t, data), n) /\ ToolDelta(s, c, t, data).b = x
  <2> HIDE DEF e
  <2> QED
    BY <1>2, <1>4, <1>5, GoodOne
<1> QED
  BY <1>3, <1>6 DEF SameWords

\* What is held back of a call, and its name, are not seen.
LEMMA ToolHeld ==
    ASSUME NEW v, NEW s, NEW r, NEW n \in Int, n <= Limit, Good(v, s, n), NEW c \in Calls,
           NEW t \in Tools, r = [b |-> [s.b EXCEPT !.tool[c] = t], e |-> s.e],
           t.started = s.b.tool[c].started, t.block = s.b.tool[c].block,
           t.sent = s.b.tool[c].sent,
           ~t.started => t.task = "none" /\ t.alias = "none"
    PROVE  Good(v, r, n) /\ SameWords(s.b, r.b)
<1> DEFINE d == s.b
<1> DEFINE x == [d EXCEPT !.tool[c] = t]
<1>1. PICK w : Reach(v, s, w) /\ Agrees(w, d) /\ Sound(d) /\ d.next <= n
  BY DEF Good
<1>0. d \in Builders
  BY <1>1 DEF Sound
<1>2. Reach(v, r, w)
  BY <1>1 DEF Reach
<1>3. /\ x \in Builders /\ x.next = d.next /\ x.tool[c] = t
      /\ \A o \in Calls \ {c} : x.tool[o] = d.tool[o]
      /\ x.text = d.text /\ x.think = d.think
      /\ SameText(d, x) /\ SameThinking(d, x)
      /\ x.said = d.said /\ x.thought = d.thought
  <2> HIDE DEF d
  <2> QED
    BY <1>0, ToolChanged
<1> HIDE DEF x
<1>4. \A o \in Calls : /\ x.tool[o].started = d.tool[o].started
                       /\ x.tool[o].block = d.tool[o].block
                       /\ x.tool[o].sent = d.tool[o].sent
                       /\ ~d.tool[o].started => x.tool[o].task = "none" /\ x.tool[o].alias = "none"
  <2> TAKE o \in Calls
  <2>1. CASE o = c
    BY <1>3, <2>1
  <2>2. CASE o # c
    BY <1>1, <1>3, <2>2 DEF Sound
  <2> QED
    BY <2>1, <2>2
<1>5. Sound(x) /\ Agrees(w, x)
  <2> HIDE DEF d
  <2> QED
    BY <1>1, <1>3, <1>4, Unseen
<1>6. r.b = x
  BY DEF x
<1> QED
  BY <1>1, <1>2, <1>3, <1>5, <1>6 DEF Good, SameWords

\* EmitArguments.
LEMMA ArgumentsEmitted ==
    ASSUME NEW v, NEW s, NEW n \in Int, n <= Limit, Good(v, s, n), NEW c \in Calls,
           s.b.tool[c].started, NEW args \in {"part", "whole"}
    PROVE  Good(v, EmitArguments(s, c, args), n) /\ SameWords(s.b, EmitArguments(s, c, args).b)
<1> DEFINE t == s.b.tool[c]
<1> DEFINE known == t.name = "full"
<1>0. t \in Tools /\ s = [b |-> s.b, e |-> s.e]
  BY GoodBuilder DEF Builders, Good, Reach
<1>1. CASE known /\ c \in TaskCalls /\ t.taskDone
  BY <1>1 DEF EmitArguments, SameWords
<1>2. CASE known /\ c \in TaskCalls /\ ~t.taskDone /\ Parses(t, args)
  <2> DEFINE z == [t EXCEPT !.task = "none", !.taskDone = TRUE]
  <2>1. EmitArguments(s, c, args) = ToolDelta(s, c, z, args)
    BY <1>2 DEF EmitArguments
  <2>2. z \in Tools /\ z.started = t.started /\ z.block = t.block
    <3> HIDE DEF t
    <3> QED
      BY <1>0 DEF Tools, Amounts
  <2> HIDE DEF z
  <2> QED
    BY <2>1, <2>2, ToolTold
<1>3. CASE known /\ c \in TaskCalls /\ ~t.taskDone /\ ~Parses(t, args)
  <2> DEFINE z == [t EXCEPT !.task = "part"]
  <2> DEFINE r == [s EXCEPT !.b.tool[c].task = "part"]
  <2>1. EmitArguments(s, c, args) = r
    BY <1>3 DEF EmitArguments
  <2>2. z \in Tools /\ z.started = t.started /\ z.block = t.block /\ z.sent = t.sent
    <3> HIDE DEF t
    <3> QED
      BY <1>0 DEF Tools, Amounts
  <2>3. r = [b |-> [s.b EXCEPT !.tool[c] = z], e |-> s.e]
    BY <1>0
  <2> HIDE DEF z, r
  <2> QED
    BY <2>1, <2>2, <2>3, ToolHeld
<1>4. CASE ~(known /\ c \in TaskCalls) /\ known /\ c \in AliasedCalls /\ Parses(t, args)
  <2> DEFINE z == [t EXCEPT !.alias = "none"]
  <2>1. EmitArguments(s, c, args) = ToolDelta(s, c, z, args)
    BY <1>4 DEF EmitArguments
  <2>2. z \in Tools /\ z.started = t.started /\ z.block = t.block
    <3> HIDE DEF t
    <3> QED
      BY <1>0 DEF Tools, Amounts
  <2> HIDE DEF z
  <2> QED
    BY <2>1, <2>2, ToolTold
<1>5. CASE ~(known /\ c \in TaskCalls) /\ known /\ c \in AliasedCalls /\ ~Parses(t, args)
  <2> DEFINE z == [t EXCEPT !.alias = "part"]
  <2> DEFINE r == [s EXCEPT !.b.tool[c].alias = "part"]
  <2>1. EmitArguments(s, c, args) = r
    BY <1>5 DEF EmitArguments
  <2>2. z \in Tools /\ z.started = t.started /\ z.block = t.block /\ z.sent = t.sent
    <3> HIDE DEF t
    <3> QED
      BY <1>0 DEF Tools, Amounts
  <2>3. r = [b |-> [s.b EXCEPT !.tool[c] = z], e |-> s.e]
    BY <1>0
  <2> HIDE DEF z, r
  <2> QED
    BY <2>1, <2>2, <2>3, ToolHeld
<1>6. CASE ~(known /\ c \in TaskCalls) /\ ~(known /\ c \in AliasedCalls)
  <2>1. EmitArguments(s, c, args) = ToolDelta(s, c, t, args)
    BY <1>6 DEF EmitArguments
  <2> QED
    BY <1>0, <2>1, ToolTold
<1> QED
  BY <1>1, <1>2, <1>3, <1>4, <1>5, <1>6

\* Opened.
LEMMA CallOpened ==
    ASSUME NEW v, NEW s, NEW n \in Int, n + 1 <= Limit, Good(v, s, n), NEW c \in Calls
    PROVE  Good(v, Opened(s, c), n + 1) /\ SameWords(s.b, Opened(s, c).b)
<1> DEFINE t == s.b.tool[c]
<1> DEFINE r == StartTool(s, c)
<1>0. n <= Limit /\ n <= n + 1 /\ n + 1 \in Int
  BY StreamAssumption DEF Limit
<1>1. CASE t.started \/ t.name = "none"
  <2>1. Good(v, s, n + 1)
    BY <1>0, GoodMore
  <2> QED
    BY <1>1, <2>1 DEF Opened, SameWords
<1>2. CASE ~(t.started \/ t.name = "none")
  <2>1. Good(v, r, n + 1) /\ r.b.tool[c].started /\ SameWords(s.b, r.b)
    BY <1>2, ToolStarted
  <2>2. t.pre \in Amounts
    BY GoodBuilder DEF Builders, Tools
  <2> HIDE DEF r
  <2>3. CASE t.pre = "none"
    BY <1>2, <2>1, <2>3 DEF Opened, r
  <2>4. CASE t.pre # "none"
    <3> DEFINE q == [r EXCEPT !.b.tool[c].pre = "none"]
    <3> DEFINE y == r.b.tool[c]
    <3> DEFINE z == [y EXCEPT !.pre = "none"]
    <3>1. r.b \in Builders /\ r = [b |-> r.b, e |-> r.e] /\ Sound(r.b) /\ y \in Tools
      BY <1>0, <2>1, GoodBuilder DEF Builders, Good, Reach
    <3>2. /\ z \in Tools /\ z.started = y.started /\ z.block = y.block /\ z.sent = y.sent
          /\ z.task = y.task /\ z.alias = y.alias
      <4> HIDE DEF y
      <4> QED
        BY <3>1 DEF Tools, Amounts
    <3>3. q = [b |-> [r.b EXCEPT !.tool[c] = z], e |-> r.e]
      BY <3>1
    <3>4. q.b.tool[c] = z
      <4> HIDE DEF z
      <4>1. q.b = [r.b EXCEPT !.tool[c] = z]
        BY <3>3
      <4> HIDE DEF q
      <4> QED
        BY <3>1, <3>2, <4>1, ToolChanged
    <3> HIDE DEF z, q
    <3>5. Good(v, q, n + 1) /\ SameWords(r.b, q.b)
      BY <1>0, <2>1, <3>2, <3>3, ToolHeld
    <3>6. q.b.tool[c].started
      BY <2>1, <3>2, <3>4
    <3>7. t.pre \in {"part", "whole"}
      BY <2>2, <2>4 DEF Amounts
    <3>8. Opened(s, c) = EmitArguments(q, c, t.pre)
      BY <1>2, <2>4 DEF Opened, r, q
    <3> HIDE DEF t, y
    <3>9. Good(v, Opened(s, c), n + 1) /\ SameWords(q.b, Opened(s, c).b)
      BY <1>0, <3>5, <3>6, <3>7, <3>8, ArgumentsEmitted
    <3> QED
      BY <2>1, <3>5, <3>9 DEF SameWords
  <2> QED
    BY <2>3, <2>4
<1> QED
  BY <1>1, <1>2

\* Given.
LEMMA ArgumentsGiven ==
    ASSUME NEW v, NEW s, NEW n \in Int, n <= Limit, Good(v, s, n), NEW c \in Calls,
           NEW args \in Amounts
    PROVE  Good(v, Given(s, c, args), n) /\ SameWords(s.b, Given(s, c, args).b)
<1> DEFINE t == s.b.tool[c]
<1>0. t \in Tools /\ s = [b |-> s.b, e |-> s.e] /\ Sound(s.b)
  BY GoodBuilder DEF Builders, Good, Reach
<1>1. CASE args = "none"
  BY <1>1 DEF Given, SameWords
<1>2. CASE args # "none" /\ t.started
  <2>1. args \in {"part", "whole"}
    BY <1>2 DEF Amounts
  <2>2. Given(s, c, args) = EmitArguments(s, c, args)
    BY <1>2 DEF Given
  <2> QED
    BY <1>2, <2>1, <2>2, ArgumentsEmitted
<1>3. CASE args # "none" /\ ~t.started
  <2> DEFINE z == [t EXCEPT !.pre = args]
  <2> DEFINE r == [s EXCEPT !.b.tool[c].pre = args]
  <2>1. Given(s, c, args) = r
    BY <1>3 DEF Given
  <2>2. /\ z \in Tools /\ z.started = t.started /\ z.block = t.block /\ z.sent = t.sent
        /\ z.task = t.task /\ z.alias = t.alias
    <3> HIDE DEF t
    <3> QED
      BY <1>0 DEF Tools
  <2>3. r = [b |-> [s.b EXCEPT !.tool[c] = z], e |-> s.e]
    BY <1>0
  <2>4. t.task = "none" /\ t.alias = "none"
    BY <1>0, <1>3 DEF Sound
  <2> HIDE DEF z, r
  <2> QED
    BY <2>1, <2>2, <2>3, <2>4, ToolHeld
<1> QED
  BY <1>1, <1>2, <1>3

\* ToolCall.
LEMMA CallRead ==
    ASSUME NEW v, NEW s, NEW n \in Int, n + 1 <= Limit, Good(v, s, n), NEW c \in Calls,
           NEW name \in Names, NEW args \in Amounts
    PROVE  Good(v, ToolCall(s, c, name, args), n + 1)
           /\ SameWords(s.b, ToolCall(s, c, name, args).b)
<1> DEFINE t == s.b.tool[c]
<1> DEFINE x == Registered(s.b, c, name)
<1> DEFINE r == [s EXCEPT !.b = x]
<1> DEFINE m == IF "full" \in {t.name, name} THEN "full" ELSE IF name = "none" THEN t.name ELSE name
<1> DEFINE z == [t EXCEPT !.name = m]
<1>0. t \in Tools /\ s = [b |-> s.b, e |-> s.e] /\ Sound(s.b) /\ n <= Limit /\ n + 1 \in Int
  <2>1. t \in Tools /\ s = [b |-> s.b, e |-> s.e] /\ Sound(s.b)
    BY GoodBuilder DEF Builders, Good, Reach
  <2>2. n <= Limit /\ n + 1 \in Int
    BY StreamAssumption DEF Limit
  <2> QED
    BY <2>1, <2>2
<1>1. m \in Names
  <2>1. t.name \in Names
    BY <1>0 DEF Tools
  <2> QED
    BY <2>1 DEF Names
<1>2. r = [b |-> [s.b EXCEPT !.tool[c] = z], e |-> s.e]
  BY <1>0 DEF Registered
<1> HIDE DEF m
<1>3. /\ z \in Tools /\ z.started = t.started /\ z.block = t.block /\ z.sent = t.sent
      /\ z.task = t.task /\ z.alias = t.alias
  <2> HIDE DEF t
  <2> QED
    BY <1>0, <1>1 DEF Tools
<1>4. ~t.started => t.task = "none" /\ t.alias = "none"
  BY <1>0 DEF Sound
<1>5. ToolCall(s, c, name, args) = Given(Opened(r, c), c, args)
  BY DEF ToolCall
<1> HIDE DEF z, r
<1>6. Good(v, r, n) /\ SameWords(s.b, r.b)
  BY <1>0, <1>2, <1>3, <1>4, ToolHeld
<1>7. Good(v, Opened(r, c), n + 1) /\ SameWords(r.b, Opened(r, c).b)
  BY <1>6, CallOpened
<1> DEFINE o == Opened(r, c)
<1> HIDE DEF o
<1>8. Good(v, o, n + 1) /\ SameWords(r.b, o.b)
  BY <1>7 DEF o
<1>9. Good(v, Given(o, c, args), n + 1) /\ SameWords(o.b, Given(o, c, args).b)
  BY <1>0, <1>8, ArgumentsGiven
<1> QED
  BY <1>5, <1>6, <1>8, <1>9 DEF o, SameWords

\* From d to x the states of the calls of A become those of tool.
Updated(d, x, A, tool) ==
    /\ SameWords(d, x)
    /\ \A c \in A : x.tool[c] = tool[c]
    /\ \A c \in Calls \ A : x.tool[c] = d.tool[c]

\* ToolDeltas: what is held back of the calls of A goes out.
LEMMA CallsTold ==
    ASSUME NEW v, NEW s, NEW n \in Int, n <= Limit, Good(v, s, n),
           NEW A \in SUBSET Started(s.b), NEW tool \in [A -> Tools],
           NEW data \in [A -> {"part", "whole"}],
           \A c \in A : /\ tool[c].started /\ tool[c].block = s.b.tool[c].block
                        /\ tool[c].sent = data[c]
    PROVE  LET r == ToolDeltas(s, A, tool, data)
           IN Good(v, r, n) /\ Updated(s.b, r.b, A, tool)
<1> DEFINE d == s.b
<1> DEFINE T == [c \in Calls |-> IF c \in A THEN tool[c] ELSE d.tool[c]]
<1> DEFINE x == [d EXCEPT !.tool = [c \in Calls |-> IF c \in A THEN tool[c] ELSE @[c]]]
<1> DEFINE q == Deltas(d, A, data)
<1>0. Sound(d) /\ d \in Builders /\ d.next \in Nat /\ d.next <= n /\ d.next <= Limit
  BY GoodBuilder, StreamAssumption DEF Limit
<1>1. A \subseteq Calls
  BY DEF Started
<1>2. T \in [Calls -> Tools]
  <2>1. \A c \in Calls : d.tool[c] \in Tools
    <3> HIDE DEF d
    <3> QED
      BY <1>0 DEF Builders
  <2> HIDE DEF d
  <2> QED
    BY <2>1
<1>3. x = [d EXCEPT !.tool = T]
  OBVIOUS
<1>a. /\ \A c \in A : T[c] = tool[c]
      /\ \A c \in Calls \ A : T[c] = d.tool[c]
  BY <1>1
<1> HIDE DEF x, T
<1>4. /\ x \in Builders /\ x.next = d.next /\ x.tool = T
      /\ x.text = d.text /\ x.think = d.think
      /\ x.textOn = d.textOn /\ x.thinkOn = d.thinkOn
      /\ x.said = d.said /\ x.thought = d.thought
  <2> HIDE DEF d
  <2> QED
    BY <1>0, <1>2, <1>3 DEF Builders
<1>5. ToolDeltas(s, A, tool, data) = Emit(s, x, q)
  BY DEF ToolDeltas, Deltas, x
<1>6. PICK w : Reach(v, s, w) /\ Agrees(w, d)
  BY DEF Good
<1>7. SameText(d, x) /\ SameThinking(d, x)
  BY <1>4 DEF SameText, SameThinking
<1>8. /\ \A c \in A : /\ x.tool[c].started /\ x.tool[c].block = d.tool[c].block
                      /\ x.tool[c].sent = data[c]
      /\ \A c \in Calls \ A : x.tool[c] = d.tool[c]
  BY <1>4, <1>a
<1>9. /\ q \in Seq(Events) /\ Sound(x)
      /\ \E u : Leads(Len(q), q, w, u) /\ Agrees(u, x)
  <2> HIDE DEF d
  <2>1. A \in SUBSET Started(d)
    BY DEF d
  <2> QED
    BY <1>0, <1>4, <1>6, <1>7, <1>8, <2>1, MoreOfTools
<1>10. PICK u : Leads(Len(q), q, w, u) /\ Agrees(u, x)
  BY <1>9
<1> HIDE DEF q
<1>11. Reach(v, Emit(s, x, q), u) /\ Emit(s, x, q).b = x
  BY <1>6, <1>9, <1>10, EmitMany
<1>12. Good(v, Emit(s, x, q), n)
  BY <1>0, <1>4, <1>9, <1>10, <1>11 DEF Good
<1> QED
  BY <1>4, <1>5, <1>a, <1>11, <1>12 DEF SameWords, Updated

\* The calls and the words of a builder are as before, but for what is sent.
SameCalls(d, x) == Started(x) = Started(d) /\ SameWords(d, x)

\* FlushAliases.
LEMMA AliasesFlushed ==
    ASSUME NEW v, NEW s, NEW n \in Int, n <= Limit, Good(v, s, n)
    PROVE  Good(v, FlushAliases(s), n) /\ SameCalls(s.b, FlushAliases(s).b)
<1> DEFINE A == {c \in AliasedCalls : s.b.tool[c].name = "full" /\ s.b.tool[c].alias # "none"}
<1> DEFINE tool == [c \in A |-> [s.b.tool[c] EXCEPT !.alias = "none", !.sent = "part"]]
<1> DEFINE data == [c \in A |-> "part"]
<1> DEFINE r == ToolDeltas(s, A, tool, data)
<1>1. FlushAliases(s) = r
  BY DEF FlushAliases
<1>2. Sound(s.b) /\ s.b \in Builders
  BY GoodBuilder
<1>3. A \in SUBSET Started(s.b)
  BY <1>2, CallsAssumption DEF Started, Sound
<1>4. A \subseteq Calls
  BY CallsAssumption
<1>5. ASSUME NEW c \in A
      PROVE  /\ tool[c] \in Tools /\ tool[c].started = s.b.tool[c].started
             /\ tool[c].block = s.b.tool[c].block
             /\ tool[c].sent = "part"
  <2>1. s.b.tool[c] \in Tools
    BY <1>2, <1>4 DEF Builders
  <2>2. \A t \in Tools : LET z == [t EXCEPT !.alias = "none", !.sent = "part"]
                         IN /\ z \in Tools /\ z.started = t.started
                            /\ z.block = t.block /\ z.sent = "part"
    BY DEF Tools, Amounts
  <2> QED
    BY <2>1, <2>2
<1>a. ASSUME NEW c \in A
      PROVE  tool[c].started
  BY <1>3, <1>5 DEF Started
<1>b. data \in [A -> {"part", "whole"}] /\ \A c \in A : data[c] = "part"
  OBVIOUS
<1>e. \A c \in A : tool[c].started /\ tool[c].block = s.b.tool[c].block /\ tool[c].sent = data[c]
  <2> HIDE DEF A, tool, data
  <2> QED
    BY <1>5, <1>a, <1>b
<1>c. tool \in [A -> Tools]
  <2>1. tool = [c \in A |-> tool[c]]
    OBVIOUS
  <2> HIDE DEF tool, A
  <2> QED
    BY <1>5, <2>1
<1>d. Started(s.b) \subseteq Calls
  BY DEF Started
<1> HIDE DEF A, tool, data
<1>f. Good(v, r, n) /\ Updated(s.b, r.b, A, tool)
  BY <1>3, <1>b, <1>c, <1>e, CallsTold
<1>6. /\ Good(v, r, n) /\ SameWords(s.b, r.b)
      /\ \A c \in A : r.b.tool[c] = tool[c]
      /\ \A c \in Calls \ A : r.b.tool[c] = s.b.tool[c]
  BY <1>f DEF Updated
<1> HIDE DEF r
<1>7. Started(r.b) = Started(s.b)
  BY <1>3, <1>4, <1>a, <1>6 DEF Started
<1> QED
  BY <1>1, <1>6, <1>7 DEF SameCalls

\* FlushTasks.
LEMMA TasksFlushed ==
    ASSUME NEW v, NEW s, NEW n \in Int, n <= Limit, Good(v, s, n)
    PROVE  Good(v, FlushTasks(s), n) /\ SameCalls(s.b, FlushTasks(s).b)
<1> DEFINE A == {c \in Calls : s.b.tool[c].task # "none" /\ ~s.b.tool[c].taskDone}
<1> DEFINE tool == [c \in A |-> [s.b.tool[c] EXCEPT !.task = "none", !.taskDone = TRUE,
                                                   !.sent = "part"]]
<1> DEFINE data == [c \in A |-> "part"]
<1> DEFINE r == ToolDeltas(s, A, tool, data)
<1>1. FlushTasks(s) = r
  BY DEF FlushTasks
<1>2. Sound(s.b) /\ s.b \in Builders
  BY GoodBuilder
<1>3. A \in SUBSET Started(s.b)
  BY <1>2 DEF Started, Sound
<1>4. A \subseteq Calls
  OBVIOUS
<1>5. ASSUME NEW c \in A
      PROVE  /\ tool[c] \in Tools /\ tool[c].started = s.b.tool[c].started
             /\ tool[c].block = s.b.tool[c].block
             /\ tool[c].sent = "part"
  <2>1. s.b.tool[c] \in Tools
    BY <1>2, <1>4 DEF Builders
  <2>2. \A t \in Tools : LET z == [t EXCEPT !.task = "none", !.taskDone = TRUE, !.sent = "part"]
                         IN /\ z \in Tools /\ z.started = t.started
                            /\ z.block = t.block /\ z.sent = "part"
    BY DEF Tools, Amounts
  <2> QED
    BY <2>1, <2>2
<1>a. ASSUME NEW c \in A
      PROVE  tool[c].started
  BY <1>3, <1>5 DEF Started
<1>b. data \in [A -> {"part", "whole"}] /\ \A c \in A : data[c] = "part"
  OBVIOUS
<1>e. \A c \in A : tool[c].started /\ tool[c].block = s.b.tool[c].block /\ tool[c].sent = data[c]
  <2> HIDE DEF A, tool, data
  <2> QED
    BY <1>5, <1>a, <1>b
<1>c. tool \in [A -> Tools]
  <2>1. tool = [c \in A |-> tool[c]]
    OBVIOUS
  <2> HIDE DEF tool, A
  <2> QED
    BY <1>5, <2>1
<1> HIDE DEF A, tool, data
<1>f. Good(v, r, n) /\ Updated(s.b, r.b, A, tool)
  BY <1>3, <1>b, <1>c, <1>e, CallsTold
<1>6. /\ Good(v, r, n) /\ SameWords(s.b, r.b)
      /\ \A c \in A : r.b.tool[c] = tool[c]
      /\ \A c \in Calls \ A : r.b.tool[c] = s.b.tool[c]
  BY <1>f DEF Updated
<1> HIDE DEF r
<1>7. Started(r.b) = Started(s.b)
  BY <1>3, <1>4, <1>a, <1>6 DEF Started
<1> QED
  BY <1>1, <1>6, <1>7 DEF SameCalls

\* RepairTools: all calls have their whole input.
LEMMA CallsRepaired ==
    ASSUME NEW v, NEW s, NEW n \in Int, n <= Limit, Good(v, s, n)
    PROVE  LET r == RepairTools(s)
           IN /\ Good(v, r, n) /\ SameCalls(s.b, r.b)
              /\ \A c \in Started(r.b) : r.b.tool[c].sent = "whole"
<1> DEFINE A == {c \in Started(s.b) : s.b.tool[c].sent # "whole"}
<1> DEFINE tool == [c \in A |-> [s.b.tool[c] EXCEPT !.sent = "whole"]]
<1> DEFINE data == [c \in A |-> "whole"]
<1> DEFINE r == ToolDeltas(s, A, tool, data)
<1>1. RepairTools(s) = r
  BY DEF RepairTools
<1>2. Sound(s.b) /\ s.b \in Builders
  BY GoodBuilder
<1>3. A \in SUBSET Started(s.b)
  OBVIOUS
<1>4. A \subseteq Calls
  BY DEF Started
<1>5. ASSUME NEW c \in A
      PROVE  /\ tool[c] \in Tools /\ tool[c].started = s.b.tool[c].started
             /\ tool[c].block = s.b.tool[c].block
             /\ tool[c].sent = "whole"
  <2>1. s.b.tool[c] \in Tools
    BY <1>2, <1>4 DEF Builders
  <2>2. \A t \in Tools : LET z == [t EXCEPT !.sent = "whole"]
                         IN /\ z \in Tools /\ z.started = t.started
                            /\ z.block = t.block /\ z.sent = "whole"
    BY DEF Tools, Amounts
  <2> QED
    BY <2>1, <2>2
<1>a. ASSUME NEW c \in A
      PROVE  tool[c].started
  BY <1>3, <1>5 DEF Started
<1>b. data \in [A -> {"part", "whole"}] /\ \A c \in A : data[c] = "whole"
  OBVIOUS
<1>e. \A c \in A : tool[c].started /\ tool[c].block = s.b.tool[c].block /\ tool[c].sent = data[c]
  <2> HIDE DEF A, tool, data
  <2> QED
    BY <1>5, <1>a, <1>b
<1>c. tool \in [A -> Tools]
  <2>1. tool = [c \in A |-> tool[c]]
    OBVIOUS
  <2> HIDE DEF tool, A
  <2> QED
    BY <1>5, <2>1
<1>d. \A c \in Started(s.b) \ A : s.b.tool[c].sent = "whole"
  OBVIOUS
<1> HIDE DEF A, tool, data
<1>f. Good(v, r, n) /\ Updated(s.b, r.b, A, tool)
  BY <1>3, <1>b, <1>c, <1>e, CallsTold
<1>6. /\ Good(v, r, n) /\ SameWords(s.b, r.b)
      /\ \A c \in A : r.b.tool[c] = tool[c]
      /\ \A c \in Calls \ A : r.b.tool[c] = s.b.tool[c]
  BY <1>f DEF Updated
<1> HIDE DEF r
<1>7. Started(r.b) = Started(s.b)
  BY <1>3, <1>4, <1>a, <1>6 DEF Started
<1>8. \A c \in Started(r.b) : r.b.tool[c].sent = "whole"
  <2>1. Started(s.b) \subseteq Calls
    BY DEF Started
  <2> QED
    BY <1>5, <1>6, <1>7, <1>d, <2>1
<1> QED
  BY <1>1, <1>6, <1>7, <1>8 DEF SameCalls

-----------------------------------------------------------------------------
(***************************************************************************)
(* The end of an answer.                                                   *)
(***************************************************************************)

\* The events of step s lead from v to a view of the answer so far in which no
\* block is open.
Shut(v, s, n) ==
    \E w : Reach(v, s, w) /\ Closed(w, s.b) /\ Sound(s.b) /\ s.b.next <= n

\* CloseAll.
LEMMA AllClosed ==
    ASSUME NEW v, NEW s, NEW n \in Int, n <= Limit, Good(v, s, n)
    PROVE  LET x == CloseAll(s).b
           IN /\ Shut(v, CloseAll(s), n) /\ ~x.thinkOn /\ ~x.textOn
              /\ x.tool = s.b.tool /\ SameCalls(s.b, x)
<1> DEFINE r == CloseContent(s)
<1> DEFINE d == r.b
<1>1. /\ Good(v, r, n) /\ ~d.thinkOn /\ ~d.textOn
      /\ d.next = s.b.next /\ d.think = s.b.think /\ d.text = s.b.text
      /\ d.tool = s.b.tool /\ d.said = s.b.said /\ d.thought = s.b.thought
  BY ContentClosed
<1>2. CloseAll(s) = Emit(r, d, Stops(d))
  BY DEF CloseAll, Stops
<1> HIDE DEF r
<1>3. PICK w : Reach(v, r, w) /\ Agrees(w, d) /\ Sound(d) /\ d.next <= n
  BY <1>1 DEF Good
<1>4. d.next <= Limit
  BY <1>3, StreamAssumption DEF Limit, Sound, Builders
<1> HIDE DEF d
<1>5. Stops(d) \in Seq(Events) /\ \E u : Leads(Len(Stops(d)), Stops(d), w, u) /\ Closed(u, d)
  BY <1>1, <1>3, <1>4, AllStop
<1>6. PICK u : Leads(Len(Stops(d)), Stops(d), w, u) /\ Closed(u, d)
  BY <1>5
<1>7. Reach(v, CloseAll(s), u) /\ CloseAll(s).b = d
  BY <1>2, <1>3, <1>5, <1>6, EmitMany
<1>8. Shut(v, CloseAll(s), n)
  BY <1>3, <1>6, <1>7 DEF Shut
<1>9. SameCalls(s.b, d)
  BY <1>1 DEF SameCalls, SameWords, Started
<1> QED
  BY <1>1, <1>7, <1>8, <1>9

\* ErrorText after all blocks have been stopped, when there is no call.
LEMMA ErrorTold ==
    ASSUME NEW v, NEW s, NEW n \in Int, n + 1 <= Limit, Shut(v, s, n),
           ~s.b.thinkOn, ~s.b.textOn, Started(s.b) = {}
    PROVE  LET x == ErrorText(s).b
           IN Shut(v, ErrorText(s), n + 1) /\ x.next > 0 /\ SameCalls(s.b, x)
<1> DEFINE d == s.b
<1>1. PICK w : Reach(v, s, w) /\ Closed(w, d) /\ Sound(d) /\ d.next <= n
  BY DEF Shut
<1>2. OpenAt(d) = {}
  BY DEF OpenAt, Started
<1>3. <<>> \in [{} -> Kinds]
  <2>1. <<>> \in Seq(Kinds) /\ Len(<<>>) = 0
    BY EmptySeq
  <2>2. 1..0 = {}
    OBVIOUS
  <2> QED
    BY <2>1, <2>2, LenProperties
<1>4. Agrees(w, d)
  BY <1>1, <1>2, <1>3 DEF Agrees, Closed
<1>5. Good(v, s, n)
  BY <1>1, <1>4 DEF Good
<1> DEFINE x == [d EXCEPT !.next = @ + 1]
<1>6. LET z == Emit(s, x, <<StartEvent(d.next, "text", NoCall),
                            DeltaEvent(d.next, "text", NoCall, "solid"),
                            StopEvent(d.next)>>)
      IN /\ Good(v, z, n + 1) /\ z.b = x
         /\ x.next = d.next + 1 /\ x.tool = d.tool
         /\ x.text = d.text /\ x.think = d.think
         /\ x.said = d.said /\ x.thought = d.thought
  <2>1. "text" \in Kinds
    BY DEF Kinds
  <2> QED
    BY <1>5, <2>1, BlockAdded
<1>7. /\ Good(v, ErrorText(s), n + 1) /\ ErrorText(s).b = x
      /\ x.next = d.next + 1 /\ x.tool = d.tool
      /\ x.text = d.text /\ x.think = d.think
      /\ x.said = d.said /\ x.thought = d.thought
  BY <1>6 DEF ErrorText
<1>a. d.next \in Nat /\ d \in Builders
  BY <1>1 DEF Sound, Builders
<1>b. x.thinkOn = d.thinkOn /\ x.textOn = d.textOn
  <2> HIDE DEF d
  <2> QED
    BY <1>a DEF Builders
<1>c. ~d.thinkOn /\ ~d.textOn /\ Started(d) = {}
  OBVIOUS
<1> HIDE DEF x, d
<1>8. OpenAt(x) = {} /\ Started(x) = {}
  BY <1>7, <1>b, <1>c DEF OpenAt, Started
<1>9. PICK u : Reach(v, ErrorText(s), u) /\ Agrees(u, x) /\ Sound(x) /\ x.next <= n + 1
  BY <1>7 DEF Good
<1>10. Closed(u, x)
  <2>1. u.open \in [{} -> Kinds]
    BY <1>8, <1>9 DEF Agrees
  <2> QED
    BY <1>9, <2>1, NothingOpen DEF Agrees, Closed
<1>11. Shut(v, ErrorText(s), n + 1)
  BY <1>7, <1>9, <1>10 DEF Shut
<1>12. x.next > 0
  BY <1>7, <1>a
<1>13. SameCalls(d, x)
  BY <1>7, <1>8, <1>c DEF SameCalls, SameWords
<1> QED
  BY <1>7, <1>11, <1>12, <1>13 DEF d

\* An error that is no block changes nothing.
LEMMA ErrorIsLegal ==
    ASSUME NEW v, NEW s, NEW n \in Int, Shut(v, s, n), s.b.next > 0
    PROVE  LET r == Emit(s, s.b, <<PlainEvent("error", "none")>>)
           IN Shut(v, r, n) /\ r.b = s.b
<1> DEFINE d == s.b
<1> DEFINE e == PlainEvent("error", "none")
<1>1. PICK w : Reach(v, s, w) /\ Closed(w, d) /\ Sound(d) /\ d.next <= n
  BY DEF Shut
<1> DEFINE u == After(w, e)
<1>2. e \in Events
  BY DEF PlainEvent, Event, Events, NoCall, NoIndex, Amounts
<1>3. Allowed(w, e)
  <2>1. w.stage = "body" /\ w.used = 0..(d.next - 1) /\ d.next \in Nat /\ d.next > 0
    BY <1>1 DEF Closed, Saw, Sound, Builders
  <2>2. 0 \in w.used
    BY <2>1
  <2> QED
    BY <2>1, <2>2 DEF Allowed, PlainEvent, Event
<1>4. Reach(v, Emit(s, d, <<e>>), u) /\ Emit(s, d, <<e>>).b = d
  BY <1>1, <1>2, <1>3, EmitOne
<1>5. /\ u.stage = w.stage /\ u.used = w.used /\ u.open = w.open
      /\ \A c \in Calls : u.input[c] = w.input[c]
      /\ u.kinds = w.kinds
  BY CallsAssumption DEF After, PlainEvent, Event, NoCall
<1> HIDE DEF u, e
<1>6. Closed(u, d)
  BY <1>1, <1>5 DEF Closed, Saw
<1> QED
  BY <1>1, <1>4, <1>6 DEF Shut, e

\* What the client has of an answer that has ended.
Finished(w, d, reason) ==
    /\ w.stage = "stopped" /\ w.open = <<>> /\ w.used = 0..(d.next - 1)
    /\ w.reason = reason
    /\ \A c \in Calls : w.input[c] = InputOf(d, c)
    /\ d.text # NoIndex => "text" \in w.kinds
    /\ Started(d) # {} => "tool_use" \in w.kinds

\* The events of step s lead from v to the end of the message.
Over(v, s, reason) ==
    /\ s.b \in Builders
    /\ \E w : Reach(v, s, w) /\ Finished(w, s.b, reason)

\* End.
LEMMA Ends ==
    ASSUME NEW v, NEW s, NEW n \in Int, Shut(v, s, n), s.b.next > 0,
           NEW reason \in {"end_turn", "tool_use"}
    PROVE  Over(v, End(s, reason), reason) /\ End(s, reason).b = s.b
<1> DEFINE d == s.b
<1> DEFINE e1 == PlainEvent("message_delta", reason)
<1> DEFINE e2 == PlainEvent("message_stop", "none")
<1>1. PICK w : Reach(v, s, w) /\ Closed(w, d) /\ Sound(d) /\ d.next <= n
  BY DEF Shut
<1> DEFINE u1 == After(w, e1)
<1> DEFINE u2 == After(u1, e2)
<1>2. e1 \in Events /\ e2 \in Events
  BY DEF PlainEvent, Event, Events, NoCall, NoIndex, Amounts
<1>3. w.stage = "body" /\ w.used = 0..(d.next - 1) /\ d.next \in Nat /\ d.next > 0 /\ w.open = <<>>
  BY <1>1 DEF Closed, Saw, Sound, Builders
<1>4. 0 \in w.used
  BY <1>3
<1>5. Allowed(w, e1)
  BY <1>3 DEF Allowed, PlainEvent, Event
<1>6. /\ u1.stage = "ending" /\ u1.used = w.used /\ u1.open = w.open
      /\ \A c \in Calls : u1.input[c] = w.input[c]
      /\ u1.kinds = w.kinds /\ u1.reason = reason
  BY CallsAssumption DEF After, PlainEvent, Event, NoCall
<1>7. /\ u2.stage = "stopped" /\ u2.used = u1.used /\ u2.open = u1.open
      /\ \A c \in Calls : u2.input[c] = u1.input[c]
      /\ u2.kinds = u1.kinds /\ u2.reason = u1.reason
  <2> HIDE DEF u1
  <2> QED
    BY CallsAssumption DEF After, PlainEvent, Event, NoCall
<1>8. Allowed(u1, e2)
  <2> HIDE DEF u1
  <2> QED
    BY <1>4, <1>6 DEF Allowed, PlainEvent, Event
<1>9. End(s, reason) = Emit(s, d, <<e1, e2>>)
  BY DEF End
<1>10. Reach(v, Emit(s, d, <<e1, e2>>), u2) /\ Emit(s, d, <<e1, e2>>).b = d
  <2> HIDE DEF e1, e2
  <2> QED
    BY <1>1, <1>2, <1>5, <1>8, EmitTwo
<1> HIDE DEF u1, u2, e1, e2
<1>11. Finished(u2, d, reason)
  BY <1>1, <1>6, <1>7 DEF Finished, Closed, Saw
<1>12. d \in Builders
  BY <1>1 DEF Sound
<1> QED
  BY <1>9, <1>10, <1>11, <1>12 DEF Over

-----------------------------------------------------------------------------
(***************************************************************************)
(* The events on their way.                                                *)
(***************************************************************************)

Items == [event : Events, try : Nat]
Evs(q) == [i \in 1..Len(q) |-> q[i].event]

\* The events of q lead from v to w.
Toward(v, q, w) == Leads(Len(q), Evs(q), v, w)

\* Only the events count.
LEMMA LeadsSame ==
    ASSUME NEW n \in Nat, NEW f, NEW g, NEW v, NEW w, Leads(n, f, v, w),
           \A i \in 1..n : g[i] = f[i]
    PROVE  Leads(n, g, v, w)
BY DEF Leads

\* No events lead nowhere else.
LEMMA TowardNone ==
    ASSUME NEW v, NEW w
    PROVE  Toward(v, <<>>, w) <=> w = v
<1>1. Len(<<>>) = 0
  OBVIOUS
<1> QED
  BY <1>1, LeadsNone DEF Toward

\* Events that follow others.
LEMMA TowardJoin ==
    ASSUME NEW u, NEW v, NEW w, NEW p \in Seq(Items), NEW q \in Seq(Items),
           Toward(u, p, v), Toward(v, q, w)
    PROVE  p \o q \in Seq(Items) /\ Toward(u, p \o q, w)
<1> DEFINE h == p \o q
<1> DEFINE n == Len(p)
<1> DEFINE m == Len(q)
<1>1. h \in Seq(Items) /\ n \in Nat /\ m \in Nat
  OBVIOUS
<1>2. Len(h) = n + m
  OBVIOUS
<1>3. (\A i \in 1..n : h[i] = p[i]) /\ (\A i \in 1..m : h[n + i] = q[i])
  OBVIOUS
<1> HIDE DEF h, n, m
<1>4. \A i \in 1..n : Evs(h)[i] = Evs(p)[i]
  BY <1>1, <1>2, <1>3 DEF Evs, n
<1>5. \A i \in 1..m : Evs(h)[n + i] = Evs(q)[i]
  <2> TAKE i \in 1..m
  <2>1. n + i \in 1..Len(h)
    BY <1>1, <1>2
  <2>2. Evs(h)[n + i] = h[n + i].event
    BY <2>1 DEF Evs
  <2>3. Evs(q)[i] = q[i].event
    BY DEF Evs, m
  <2> QED
    BY <1>3, <2>2, <2>3
<1>6. Leads(n, Evs(p), u, v) /\ Leads(m, Evs(q), v, w)
  BY DEF Toward, n, m
<1>7. Leads(n + m, Evs(h), u, w)
  BY <1>1, <1>4, <1>5, <1>6, LeadsJoin
<1> QED
  BY <1>1, <1>2, <1>7 DEF Toward, h

\* The events of a step, with the attempt that made them.
LEMMA TowardStamped ==
    ASSUME NEW v, NEW s, NEW w, Reach(v, s, w), retries \in Nat
    PROVE  /\ Stamped(s.e) \in Seq(Items) /\ Toward(v, Stamped(s.e), w)
           /\ \A i \in 1..Len(Stamped(s.e)) : Stamped(s.e)[i].try = retries
<1> DEFINE e == s.e
<1> DEFINE n == Len(e)
<1> DEFINE h == Stamped(e)
<1>1. e \in Seq(Events) /\ n \in Nat /\ DOMAIN e = 1..n
  BY DEF Reach
<1>2. h = [i \in 1..n |-> [event |-> e[i], try |-> retries]]
  BY <1>1 DEF Stamped
<1>3. \A i \in 1..n : e[i] \in Events
  BY <1>1
<1> HIDE DEF h, n
<1>4. h \in [1..n -> Items]
  BY <1>2, <1>3 DEF Items
<1>5. h \in Seq(Items) /\ Len(h) = n
  BY <1>1, <1>4, LenProperties
<1>6. \A i \in 1..n : Evs(h)[i] = e[i]
  BY <1>2, <1>5 DEF Evs
<1>7. Leads(n, e, v, w)
  BY DEF Reach, n
<1> HIDE DEF e
<1>8. Leads(n, Evs(h), v, w)
  BY <1>1, <1>6, <1>7, LeadsSame
<1>9. \A i \in 1..n : h[i].try = retries
  BY <1>2
<1> QED
  BY <1>5, <1>8, <1>9 DEF Toward, h, e

\* The first event is taken.
LEMMA TowardRest ==
    ASSUME NEW v, NEW w, NEW q \in Seq(Items), q # <<>>, Toward(v, q, w)
    PROVE  /\ Head(q) \in Items /\ Tail(q) \in Seq(Items)
           /\ Allowed(v, Head(q).event)
           /\ Toward(After(v, Head(q).event), Tail(q), w)
<1> DEFINE n == Len(q)
<1> DEFINE h == Tail(q)
<1>1. n \in Nat \ {0} /\ Head(q) = q[1] /\ q[1] \in Items
  BY EmptySeq
<1>2. h \in Seq(Items) /\ Len(h) = n - 1
  BY <1>1, HeadTailProperties
<1>3. \A i \in 1..(n - 1) : h[i] = q[i + 1]
  BY <1>1, HeadTailProperties
<1> HIDE DEF h, n
<1>4. \A i \in 1..(n - 1) : Evs(h)[i] = Evs(q)[i + 1]
  <2> TAKE i \in 1..(n - 1)
  <2>1. i + 1 \in 1..n /\ n = Len(q)
    BY <1>1 DEF n
  <2> QED
    BY <1>2, <1>3, <2>1 DEF Evs
<1>5. Evs(q)[1] = q[1].event
  BY <1>1 DEF Evs, n
<1>6. Leads(n, Evs(q), v, w)
  BY DEF Toward, n
<1>7. Allowed(v, Evs(q)[1]) /\ Leads(n - 1, Evs(h), After(v, Evs(q)[1]), w)
  BY <1>1, <1>4, <1>6, LeadsFirst
<1> QED
  BY <1>1, <1>2, <1>5, <1>7 DEF Toward, h

\* Nothing follows the end of a message.
LEMMA NoMore ==
    ASSUME NEW v, NEW w, NEW q \in Seq(Items), Toward(v, q, w), v.stage = "stopped"
    PROVE  w = v
<1>1. CASE q = <<>>
  BY <1>1, TowardNone
<1>2. CASE q # <<>>
  <2>1. Allowed(v, Head(q).event)
    BY <1>2, TowardRest
  <2> QED
    BY <2>1 DEF Allowed
<1> QED
  BY <1>1, <1>2

-----------------------------------------------------------------------------
(***************************************************************************)
(* The invariant.                                                          *)
(***************************************************************************)

Data == Amounts \cup {"blank", "solid", "end_turn", "tool_use"}

\* The types of the variables; the last three are what the proofs need besides
\* TypeOK.
TypeInv ==
    /\ TypeOK
    /\ out \in Seq(Items) /\ held \in Seq(Items)
    /\ got \in [tries : SUBSET Nat, input : [Calls -> Data],
                kinds : SUBSET {"none", "text", "thinking", "tool_use"}, reason : Data]

\* Before the answer begins there is nothing.
NewInv ==
    phase = "new" =>
        /\ b = NewBuilder /\ chunks = 0
        /\ held = <<>> /\ out = <<>> /\ ~committed
        /\ stage = "new" /\ open = <<>> /\ used = {}
        /\ \A c \in Calls : got.input[c] = "none"

\* The events on their way lead the client to w0, and those held back to w, which
\* agrees with the builder.  While nothing has been let out, w0 agrees with a new
\* builder: the attempt can be repeated.
OnTheWay(w0, w) ==
    /\ Toward(Client, out, w0) /\ Toward(w0, held, w)
    /\ Agrees(w, b)
    /\ ~committed => Agrees(w0, NewBuilder)

OnInv ==
    phase \in {"connect", "reading"} =>
        /\ Sound(b) /\ Told(b) /\ b.next <= chunks
        /\ \E w0, w : OnTheWay(w0, w)

\* The events on their way lead the client to the end of the message.
OverInv ==
    phase \in Ended =>
        /\ held = <<>>
        /\ \E w : /\ Toward(Client, out, w)
                  /\ \E reason \in {"end_turn", "tool_use"} :
                        /\ Finished(w, b, reason)
                        /\ phase = "recovered" /\ reason = "tool_use" =>
                              \A c \in Started(b) : b.tool[c].sent = "whole"
        /\ phase = "completed" => b.text # NoIndex \/ Started(b) # {}

\* A client that has gone away gets nothing more.
GoneInv == phase = "gone" => out = <<>> /\ held = <<>> /\ stage # "stopped"

\* The events of q were made by attempt n.
MadeBy(q, n) == \A i \in 1..Len(q) : q[i].try = n

\* None of them is about content.
Plain(q) == \A i \in 1..Len(q) : q[i].event.type \notin {"start", "delta", "stop"}

\* All that is held back, on its way, or with the client is of this attempt, and
\* before anything has been let out the client has no content.
TryInv ==
    /\ MadeBy(out, retries) /\ MadeBy(held, retries)
    /\ got.tries \subseteq {retries}
    /\ ~committed => got.tries = {} /\ Plain(out)

StreamInv == TypeInv /\ NewInv /\ OnInv /\ OverInv /\ GoneInv /\ TryInv

\* No events were made by any attempt.
LEMMA NoneMade ==
    ASSUME NEW n
    PROVE  MadeBy(<<>>, n) /\ Plain(<<>>)
<1>1. Len(<<>>) = 0
  OBVIOUS
<1> QED
  BY <1>1 DEF MadeBy, Plain

\* Events of one attempt that follow others of it.
LEMMA JoinMade ==
    ASSUME NEW p \in Seq(Items), NEW q \in Seq(Items), NEW n, MadeBy(p, n), MadeBy(q, n)
    PROVE  MadeBy(p \o q, n)
<1> SUFFICES ASSUME NEW i \in 1..Len(p \o q) PROVE (p \o q)[i].try = n
  BY DEF MadeBy
<1>1. Len(p) \in Nat /\ Len(q) \in Nat /\ Len(p \o q) = Len(p) + Len(q)
  OBVIOUS
<1>2. CASE i <= Len(p)
  <2>1. (p \o q)[i] = p[i] /\ i \in 1..Len(p)
    BY <1>1, <1>2
  <2> QED
    BY <2>1 DEF MadeBy
<1>3. CASE i > Len(p)
  <2>1. (p \o q)[i] = q[i - Len(p)] /\ i - Len(p) \in 1..Len(q)
    BY <1>1, <1>3
  <2> QED
    BY <2>1 DEF MadeBy
<1> QED
  BY <1>1, <1>2, <1>3

\* What a step pushes is of this attempt.
LEMMA PushMade ==
    ASSUME TypeInv, TryInv, NEW v, NEW s, NEW x, Reach(v, s, x), Push(s.e) \/ PushAll(s.e),
           UNCHANGED <<retries, clientVars>>
    PROVE  TryInv'
<1> DEFINE h == Stamped(s.e)
<1>0. /\ out \in Seq(Items) /\ held \in Seq(Items) /\ retries \in Nat
      /\ retries' = retries /\ got' = got
  <2>1. TypeOK /\ out \in Seq(Items) /\ held \in Seq(Items)
    BY DEF TypeInv
  <2> QED
    BY <2>1, StreamAssumption DEF TypeOK, clientVars
<1>1. h \in Seq(Items) /\ \A i \in 1..Len(h) : h[i].try = retries
  BY <1>0, TowardStamped
<1>2. MadeBy(h, retries)
  BY <1>1 DEF MadeBy
<1>3. \/ ~committed /\ held' = held \o h /\ UNCHANGED <<committed, out>>
      \/ committed' = TRUE /\ out' = (out \o held) \o h /\ held' = <<>>
      \/ committed /\ UNCHANGED <<held, committed, out>>
  BY DEF Push, PushAll
<1> HIDE DEF h
<1>4. /\ MadeBy(out, retries) /\ MadeBy(held, retries) /\ got.tries \subseteq {retries}
      /\ ~committed => got.tries = {} /\ Plain(out)
  BY DEF TryInv
<1>5. MadeBy(held \o h, retries)
  BY <1>0, <1>1, <1>2, <1>4, JoinMade
<1>6. MadeBy((out \o held) \o h, retries)
  <2>1. out \o held \in Seq(Items) /\ MadeBy(out \o held, retries)
    BY <1>0, <1>4, JoinMade
  <2> QED
    BY <1>1, <1>2, <2>1, JoinMade
<1>7. MadeBy(out', retries') /\ MadeBy(held', retries')
  BY <1>0, <1>3, <1>4, <1>5, <1>6, NoneMade
<1>8. ~committed' => ~committed /\ out' = out
  BY <1>3
<1> QED
  BY <1>0, <1>4, <1>7, <1>8 DEF TryInv

\* Events that are pushed are held back or on their way.
LEMMA Pushed ==
    ASSUME TypeInv, NEW w0, NEW w, OnTheWay(w0, w), NEW s, NEW x, Reach(w, s, x),
           Push(s.e), UNCHANGED clientVars
    PROVE  /\ out' \in Seq(Items) /\ held' \in Seq(Items)
           /\ committed' \in BOOLEAN /\ (committed' => held' = <<>>)
           /\ \E y : /\ Toward(Client', out', y) /\ Toward(y, held', x)
                     /\ ~committed' => Agrees(y, NewBuilder)
<1> DEFINE h == Stamped(s.e)
<1>0. /\ out \in Seq(Items) /\ held \in Seq(Items) /\ retries \in Nat /\ committed \in BOOLEAN
      /\ committed => held = <<>>
  <2>1. TypeOK /\ out \in Seq(Items) /\ held \in Seq(Items)
    BY DEF TypeInv
  <2>2. retries \in Nat
    BY <2>1, StreamAssumption DEF TypeOK
  <2> QED
    BY <2>1, <2>2 DEF TypeOK
<1>1. h \in Seq(Items) /\ Toward(w, h, x)
  BY <1>0, TowardStamped
<1>2. Client' = Client
  BY DEF clientVars, Client
<1>3. /\ Toward(Client, out, w0) /\ Toward(w0, held, w)
      /\ ~committed => Agrees(w0, NewBuilder)
  BY DEF OnTheWay
<1>4. held \o h \in Seq(Items) /\ Toward(w0, held \o h, x)
  BY <1>0, <1>1, <1>3, TowardJoin
<1>e. <<>> \in Seq(Items)
  BY EmptySeq
<1>5. CASE ~committed /\ held' = held \o h /\ UNCHANGED <<committed, out>>
  BY <1>0, <1>2, <1>3, <1>4, <1>5
<1>6. CASE committed' = TRUE /\ out' = out \o held \o h /\ held' = <<>>
  <2>1. out \o held \in Seq(Items) /\ Toward(Client, out \o held, w)
    BY <1>0, <1>3, TowardJoin
  <2>2. (out \o held) \o h \in Seq(Items) /\ Toward(Client, (out \o held) \o h, x)
    BY <1>1, <2>1, TowardJoin
  <2>3. Toward(x, <<>>, x)
    BY TowardNone
  <2> QED
    BY <1>2, <1>6, <1>e, <2>2, <2>3
<1>7. CASE s.e = <<>> /\ committed /\ UNCHANGED <<held, committed, out>>
  <2>1. Leads(Len(<<>>), <<>>, w, x)
    BY <1>7 DEF Reach
  <2>2. x = w
    <3>1. Len(<<>>) = 0
      OBVIOUS
    <3> QED
      BY <2>1, <3>1, LeadsNone
  <2> QED
    BY <1>0, <1>2, <1>3, <1>7, <2>2
<1> HIDE DEF h
<1> QED
  BY <1>5, <1>6, <1>7 DEF Push, h

\* All events are let out at the end.
LEMMA PushedAll ==
    ASSUME TypeInv, NEW w0, NEW w, Toward(Client, out, w0), Toward(w0, held, w),
           NEW s, NEW x, Reach(w, s, x), PushAll(s.e), UNCHANGED clientVars
    PROVE  /\ out' \in Seq(Items) /\ held' = <<>> /\ held' \in Seq(Items) /\ committed' = TRUE
           /\ Toward(Client', out', x)
<1> DEFINE h == Stamped(s.e)
<1>0. out \in Seq(Items) /\ held \in Seq(Items) /\ retries \in Nat
  <2>1. TypeOK /\ out \in Seq(Items) /\ held \in Seq(Items)
    BY DEF TypeInv
  <2>2. retries \in Nat
    BY <2>1, StreamAssumption DEF TypeOK
  <2> QED
    BY <2>1, <2>2
<1>1. h \in Seq(Items) /\ Toward(w, h, x)
  BY <1>0, TowardStamped
<1>2. Client' = Client
  BY DEF clientVars, Client
<1>3. out \o held \in Seq(Items) /\ Toward(Client, out \o held, w)
  BY <1>0, TowardJoin
<1>4. (out \o held) \o h \in Seq(Items) /\ Toward(Client, (out \o held) \o h, x)
  BY <1>1, <1>3, TowardJoin
<1>5. committed' = TRUE /\ out' = (out \o held) \o h /\ held' = <<>>
  BY DEF PushAll
<1>6. <<>> \in Seq(Items)
  BY EmptySeq
<1> HIDE DEF h
<1> QED
  BY <1>2, <1>4, <1>5, <1>6

\* Reading one more piece keeps the invariant.
LEMMA ReadKeeps ==
    ASSUME StreamInv, NEW s, Read(s),
           \A w : Agrees(w, b) => Good(w, s, chunks + 1),
           Told(s.b),
           inThink' \in BOOLEAN, tagged' \in BOOLEAN, calling' \in BOOLEAN,
           finish' \in {"none", "stop", "tool_calls"}
    PROVE  StreamInv'
<1>1. /\ phase = "reading" /\ chunks < MaxChunks /\ chunks' = chunks + 1
      /\ b' = s.b /\ Push(s.e)
      /\ UNCHANGED <<phase, thinking, retries, clientVars>>
  BY DEF Read
<1>2. TypeOK /\ TypeInv
  BY DEF StreamInv, TypeInv
<1>3. PICK w0, w : OnTheWay(w0, w)
  BY <1>1 DEF StreamInv, OnInv
<1>4. Good(w, s, chunks + 1)
  BY <1>3 DEF OnTheWay
<1>5. PICK x : Reach(w, s, x) /\ Agrees(x, s.b) /\ Sound(s.b) /\ s.b.next <= chunks + 1
  BY <1>4 DEF Good
<1>6. /\ out' \in Seq(Items) /\ held' \in Seq(Items)
      /\ committed' \in BOOLEAN /\ (committed' => held' = <<>>)
      /\ \E y : /\ Toward(Client', out', y) /\ Toward(y, held', x)
                /\ ~committed' => Agrees(y, NewBuilder)
  BY <1>1, <1>2, <1>3, <1>5, Pushed
<1>7. PICK y : /\ Toward(Client', out', y) /\ Toward(y, held', x)
               /\ ~committed' => Agrees(y, NewBuilder)
  BY <1>6
<1>8. OnTheWay(y, x)'
  BY <1>1, <1>5, <1>7 DEF OnTheWay
<1>9. OnInv'
  BY <1>1, <1>5, <1>8 DEF OnInv
<1>10. TypeInv'
  <2>1. TypeOK'
    <3>1. b' \in Builders
      BY <1>1, <1>5 DEF Sound
    <3>2. chunks' \in 0..MaxChunks
      BY <1>1, <1>2, StreamAssumption DEF TypeOK
    <3> QED
      BY <1>1, <1>2, <1>6, <3>1, <3>2 DEF TypeOK
  <2>2. got' = got
    BY <1>1 DEF clientVars
  <2> QED
    BY <1>2, <1>6, <2>1, <2>2 DEF TypeInv
<1>11. TryInv'
  <2>1. TryInv
    BY DEF StreamInv
  <2>2. UNCHANGED <<retries, clientVars>>
    BY <1>1
  <2> QED
    BY <1>1, <1>2, <1>5, <2>1, <2>2, PushMade
<1> QED
  BY <1>1, <1>9, <1>10, <1>11 DEF StreamInv, NewInv, OverInv, GoneInv, Ended

\* What is read starts from the builder as it is.
LEMMA FromBuilder ==
    ASSUME StreamInv, phase \in {"connect", "reading"}
    PROVE  /\ \A w : Agrees(w, b) => Good(w, Step(b), chunks)
           /\ Step(b).b = b /\ Told(b) /\ Sound(b)
           /\ chunks \in Nat /\ chunks <= MaxChunks /\ MaxChunks \in Nat
           /\ chunks \in Int /\ chunks + 1 \in Int /\ chunks <= Limit /\ chunks + 1 <= Limit
           /\ chunks <= chunks + 1
<1>1. Sound(b) /\ Told(b) /\ b.next <= chunks
  BY DEF StreamInv, OnInv
<1>2. Step(b).b = b
  BY StepReach
<1>3. \A w : Agrees(w, b) => Good(w, Step(b), chunks)
  BY <1>1, GoodStep
<1>4. chunks \in 0..MaxChunks
  BY DEF StreamInv, TypeInv, TypeOK
<1>5. /\ chunks \in Nat /\ chunks <= MaxChunks /\ MaxChunks \in Nat
      /\ chunks \in Int /\ chunks + 1 \in Int /\ chunks <= Limit /\ chunks + 1 <= Limit
      /\ chunks <= chunks + 1
  BY <1>4, StreamAssumption DEF Limit
<1> QED
  BY <1>1, <1>2, <1>3, <1>5

\* The invariant holds at the start.
LEMMA StreamInit ==
    ASSUME Init
    PROVE  StreamInv
<1>1. <<>> \in Seq(Items)
  BY EmptySeq
<1>2. NewBuilder \in Builders
  BY DEF NewBuilder, Builders, NewTool, Tools, Names, Amounts, NoIndex
<1>3. TypeOK
  <2>1. b \in Builders /\ held = <<>>
    BY <1>2 DEF Init
  <2>2. chunks \in 0..MaxChunks /\ retries \in 0..MaxRetries
    BY StreamAssumption DEF Init
  <2>3. phase \in Phases /\ finish \in {"none", "stop", "tool_calls"}
    BY DEF Init, Phases
  <2>4. /\ thinking \in BOOLEAN /\ committed \in BOOLEAN
        /\ inThink \in BOOLEAN /\ tagged \in BOOLEAN /\ calling \in BOOLEAN
    BY DEF Init
  <2> QED
    BY <2>1, <2>2, <2>3, <2>4 DEF TypeOK
<1>4. got \in [tries : SUBSET Nat, input : [Calls -> Data],
               kinds : SUBSET {"none", "text", "thinking", "tool_use"}, reason : Data]
  BY DEF Init, Data, Amounts
<1>5. NewInv
  BY DEF Init, NewInv, M!MessageInit
<1>6. TryInv
  <2>1. out = <<>> /\ held = <<>> /\ got.tries = {}
    BY DEF Init
  <2> QED
    BY <2>1, NoneMade DEF TryInv
<1> QED
  BY <1>1, <1>3, <1>4, <1>5, <1>6
  DEF Init, StreamInv, TypeInv, OnInv, OverInv, GoneInv, Ended

\* A new builder.
LEMMA NewSound ==
    Sound(NewBuilder) /\ Told(NewBuilder) /\ OpenAt(NewBuilder) = {}
<1>1. NewBuilder \in Builders
  BY DEF NewBuilder, Builders, NewTool, Tools, Names, Amounts, NoIndex
<1>2. /\ NewBuilder.next = 0 /\ NewBuilder.text = NoIndex /\ NewBuilder.think = NoIndex
      /\ ~NewBuilder.thinkOn /\ ~NewBuilder.textOn
      /\ NewBuilder.said = "none"
      /\ \A c \in Calls : NewBuilder.tool[c] = NewTool
  BY DEF NewBuilder
<1>3. ~NewTool.started /\ NewTool.sent = "none" /\ NewTool.task = "none" /\ NewTool.alias = "none"
  BY DEF NewTool
<1>4. Started(NewBuilder) = {}
  BY <1>2, <1>3 DEF Started
<1>5. ~HasOutput(NewBuilder)
  BY <1>2, <1>4 DEF HasOutput
<1> HIDE DEF NewBuilder
<1> QED
  BY <1>1, <1>2, <1>3, <1>5 DEF Sound, Told, OpenAt

\* Begin.
LEMMA BeginKeeps ==
    ASSUME StreamInv, Begin
    PROVE  StreamInv'
<1> DEFINE e == PlainEvent("message_start", "none")
<1> DEFINE q == <<e>>
<1>0. PICK u : u = After(Client, e)
  OBVIOUS
<1>1. /\ phase = "new" /\ phase' = "connect" /\ out' = Stamped(q)
      /\ UNCHANGED <<thinking, b, parserVars, finish, chunks, held, committed, retries,
                     clientVars>>
  BY DEF Begin
<1>2. TypeOK /\ TypeInv
  BY DEF StreamInv, TypeInv
<1>3. /\ b = NewBuilder /\ chunks = 0
      /\ held = <<>> /\ out = <<>> /\ ~committed
      /\ stage = "new" /\ open = <<>> /\ used = {}
      /\ \A c \in Calls : got.input[c] = "none"
  BY <1>1 DEF StreamInv, NewInv
<1>4. e \in Events
  BY DEF PlainEvent, Event, Events, NoCall, NoIndex, Amounts
<1>5. Allowed(Client, e)
  BY <1>3 DEF Allowed, PlainEvent, Event, Client
<1>6. /\ u.stage = "body" /\ u.used = {} /\ u.open = <<>>
      /\ \A c \in Calls : u.input[c] = "none"
  BY <1>0, <1>3, CallsAssumption DEF After, PlainEvent, Event, Client, NoCall
<1> DEFINE s == [b |-> b, e |-> q]
<1>7. Reach(Client, s, u)
  <2>0. q \in Seq(Events)
    BY <1>4
  <2>1. Len(q) = 1 /\ q[1] = e
    OBVIOUS
  <2> HIDE DEF q, e
  <2>2. Leads(Len(q), q, Client, u)
    BY <1>0, <1>5, <2>1, LeadsOne
  <2> QED
    BY <2>0, <2>2 DEF Reach
<1>8. retries \in Nat
  BY <1>2, StreamAssumption DEF TypeOK
<1>9. /\ Stamped(q) \in Seq(Items) /\ Toward(Client, Stamped(q), u)
      /\ MadeBy(Stamped(q), retries)
  <2> HIDE DEF q
  <2>1. s.e = q
    OBVIOUS
  <2> HIDE DEF s
  <2> QED
    BY <1>7, <1>8, <2>1, TowardStamped DEF MadeBy
<1>a. Plain(Stamped(q))
  <2>1. Stamped(q) = <<[event |-> e, try |-> retries]>>
    BY DEF Stamped
  <2>2. e.type = "message_start"
    BY DEF PlainEvent, Event
  <2> HIDE DEF q, e
  <2> QED
    BY <2>1, <2>2 DEF Plain
<1> HIDE DEF q, e, s
<1>10. Agrees(u, NewBuilder)
  <2>1. /\ NewBuilder.next = 0 /\ NewBuilder.text = NoIndex
        /\ \A c \in Calls : ~NewBuilder.tool[c].started
    BY DEF NewBuilder, NewTool
  <2>2. u.open \in [{} -> Kinds]
    <3>1. <<>> \in Seq(Kinds) /\ Len(<<>>) = 0
      BY EmptySeq
    <3>2. 1..0 = {}
      OBVIOUS
    <3> QED
      BY <1>6, <3>1, <3>2, LenProperties
  <2> HIDE DEF NewBuilder
  <2>3. Saw(u, NewBuilder)
    BY <1>6, <2>1 DEF Saw, InputOf, Started
  <2> QED
    BY <2>2, <2>3, NewSound DEF Agrees
<1>11. Client' = Client
  BY <1>1 DEF clientVars, Client
<1>12. OnTheWay(u, u)'
  <2>1. Toward(Client', out', u)
    BY <1>1, <1>9, <1>11
  <2>2. Toward(u, held', u)
    <3>1. held' = <<>>
      BY <1>1, <1>3
    <3> QED
      BY <3>1, TowardNone
  <2>3. Agrees(u, b')
    BY <1>1, <1>3, <1>10
  <2> QED
    BY <1>10, <2>1, <2>2, <2>3 DEF OnTheWay
<1>13. OnInv'
  <2>1. Sound(b) /\ Told(b) /\ b.next = 0
    BY <1>3, NewSound DEF NewBuilder
  <2> QED
    BY <1>1, <1>3, <1>12, <2>1 DEF OnInv
<1>14. TypeInv'
  <2>1. TypeOK'
    BY <1>1, <1>2 DEF TypeOK, Phases, parserVars
  <2> QED
    BY <1>1, <1>2, <1>9, <2>1 DEF TypeInv, clientVars
<1>15. TryInv'
  <2>1. TryInv
    BY DEF StreamInv
  <2>2. got' = got /\ retries' = retries /\ held' = held /\ committed' = committed
    BY <1>1 DEF clientVars
  <2> QED
    BY <1>1, <1>3, <1>9, <1>a, <2>1, <2>2 DEF TryInv
<1> QED
  BY <1>1, <1>13, <1>14, <1>15 DEF StreamInv, NewInv, OverInv, GoneInv, Ended

\* Connect.
LEMMA ConnectKeeps ==
    ASSUME StreamInv, Connect
    PROVE  StreamInv'
<1>1. /\ phase = "connect" /\ phase' = "reading"
      /\ UNCHANGED <<thinking, b, inThink, tagged, calling, finish, chunks, held, committed,
                     retries, out, stage, open, used, last, got>>
  BY DEF Connect, parserVars, clientVars
<1>2. TypeInv'
  BY <1>1 DEF StreamInv, TypeInv, TypeOK, Phases
<1>3. OnInv'
  BY <1>1 DEF StreamInv, OnInv, OnTheWay, Client
<1>4. TryInv'
  BY <1>1 DEF StreamInv, TryInv
<1> QED
  BY <1>1, <1>2, <1>3, <1>4 DEF StreamInv, NewInv, OverInv, GoneInv, Ended

\* A piece of which the builder makes nothing.
LEMMA NothingRead ==
    ASSUME StreamInv, Read(Step(b)),
           inThink' \in BOOLEAN, tagged' \in BOOLEAN, calling' \in BOOLEAN,
           finish' \in {"none", "stop", "tool_calls"}
    PROVE  StreamInv'
<1>1. phase = "reading"
  BY DEF Read
<1>2. \A w : Agrees(w, b) => Good(w, Step(b), chunks + 1)
  BY <1>1, FromBuilder, GoodMore
<1>3. Told(Step(b).b)
  BY <1>1, FromBuilder
<1> QED
  BY <1>2, <1>3, ReadKeeps

\* Reasoning.
LEMMA ThinkingRead ==
    ASSUME StreamInv, Read(Think(Step(b))),
           inThink' \in BOOLEAN, tagged' \in BOOLEAN, calling' \in BOOLEAN,
           finish' \in {"none", "stop", "tool_calls"}
    PROVE  StreamInv'
<1>1. phase = "reading" /\ chunks < MaxChunks
  BY DEF Read
<1>0. \E w : Agrees(w, b)
  BY <1>1 DEF StreamInv, OnInv, OnTheWay
<1>2. ASSUME NEW w, Agrees(w, b)
      PROVE  Good(w, Think(Step(b)), chunks + 1) /\ Told(Think(Step(b)).b)
  BY <1>1, <1>2, FromBuilder, Thinks
<1>3. \A w : Agrees(w, b) => Good(w, Think(Step(b)), chunks + 1)
  BY <1>2
<1>4. Told(Think(Step(b)).b)
  BY <1>0, <1>2
<1> QED
  BY <1>3, <1>4, ReadKeeps

\* Text.
LEMMA TextRead ==
    ASSUME StreamInv, NEW text \in {"blank", "solid"}, Read(Say(Step(b), text)),
           inThink' \in BOOLEAN, tagged' \in BOOLEAN, calling' \in BOOLEAN,
           finish' \in {"none", "stop", "tool_calls"}
    PROVE  StreamInv'
<1>1. phase = "reading" /\ chunks < MaxChunks
  BY DEF Read
<1>0. \E w : Agrees(w, b)
  BY <1>1 DEF StreamInv, OnInv, OnTheWay
<1>2. ASSUME NEW w, Agrees(w, b)
      PROVE  Good(w, Say(Step(b), text), chunks + 1) /\ Told(Say(Step(b), text).b)
  BY <1>1, <1>2, FromBuilder, Says
<1>3. \A w : Agrees(w, b) => Good(w, Say(Step(b), text), chunks + 1)
  BY <1>2
<1>4. Told(Say(Step(b), text).b)
  BY <1>0, <1>2
<1> QED
  BY <1>3, <1>4, ReadKeeps

\* A call written as text.
LEMMA TextCallRead ==
    ASSUME StreamInv, Read(HeuristicTool(Step(b))),
           inThink' \in BOOLEAN, tagged' \in BOOLEAN, calling' \in BOOLEAN,
           finish' \in {"none", "stop", "tool_calls"}
    PROVE  StreamInv'
<1>1. phase = "reading" /\ chunks < MaxChunks
  BY DEF Read
<1>0. \E w : Agrees(w, b)
  BY <1>1 DEF StreamInv, OnInv, OnTheWay
<1>2. ASSUME NEW w, Agrees(w, b)
      PROVE  Good(w, HeuristicTool(Step(b)), chunks + 1) /\ Told(HeuristicTool(Step(b)).b)
  BY <1>1, <1>2, FromBuilder, HeuristicCalls
<1>3. \A w : Agrees(w, b) => Good(w, HeuristicTool(Step(b)), chunks + 1)
  BY <1>2
<1>4. Told(HeuristicTool(Step(b)).b)
  BY <1>0, <1>2
<1> QED
  BY <1>3, <1>4, ReadKeeps

\* A structured call.
LEMMA ToolRead ==
    ASSUME StreamInv, NEW c \in Calls, NEW name \in Names, NEW args \in Amounts,
           Read(ToolCall(CloseContent(Step(b)), c, name, args)),
           inThink' \in BOOLEAN, tagged' \in BOOLEAN, calling' \in BOOLEAN,
           finish' \in {"none", "stop", "tool_calls"}
    PROVE  StreamInv'
<1> DEFINE r == CloseContent(Step(b))
<1> DEFINE s == ToolCall(r, c, name, args)
<1>1. phase = "reading" /\ chunks < MaxChunks
  BY DEF Read
<1>0. \E w : Agrees(w, b)
  BY <1>1 DEF StreamInv, OnInv, OnTheWay
<1>2. ASSUME NEW w, Agrees(w, b)
      PROVE  Good(w, s, chunks + 1) /\ Told(s.b)
  <2>1. Good(w, Step(b), chunks) /\ Step(b).b = b /\ Told(b)
    BY <1>1, <1>2, FromBuilder
  <2>2. /\ chunks \in Int /\ chunks <= Limit /\ chunks + 1 <= Limit
    BY <1>1, FromBuilder
  <2>3. /\ Good(w, r, chunks) /\ r.b.think = b.think /\ r.b.text = b.text
        /\ r.b.said = b.said /\ r.b.thought = b.thought
    BY <2>1, <2>2, ContentClosed
  <2> HIDE DEF r
  <2>4. Good(w, s, chunks + 1) /\ SameWords(r.b, s.b)
    BY <2>2, <2>3, CallRead
  <2> HIDE DEF s
  <2>5. Told(s.b)
    BY <2>1, <2>3, <2>4 DEF SameWords, Told
  <2> QED
    BY <2>4, <2>5
<1>3. \A w : Agrees(w, b) => Good(w, s, chunks + 1)
  BY <1>2
<1>4. Told(s.b)
  BY <1>0, <1>2
<1>5. Read(s)
  OBVIOUS
<1> HIDE DEF s, r
<1> QED
  BY <1>3, <1>4, <1>5, ReadKeeps

\* FlushTags.
LEMMA TagsFlushed ==
    ASSUME NEW v, NEW s, NEW n \in Int, n + 1 <= Limit, n <= n + 1, Good(v, s, n), Told(s.b)
    PROVE  Good(v, FlushTags(s), n + 1) /\ Told(FlushTags(s).b)
<1>1. CASE ~tagged \/ (inThink /\ ~thinking)
  BY <1>1, GoodMore DEF FlushTags
<1>2. CASE ~(~tagged \/ (inThink /\ ~thinking)) /\ inThink
  BY <1>2, Thinks DEF FlushTags
<1>3. CASE ~(~tagged \/ (inThink /\ ~thinking)) /\ ~inThink
  <2>1. FlushTags(s) = Say(s, "solid")
    BY <1>3 DEF FlushTags
  <2> QED
    BY <2>1, Says
<1> QED
  BY <1>1, <1>2, <1>3

\* FlushCall.
LEMMA CallFlushed ==
    ASSUME NEW v, NEW s, NEW n \in Int, n + 1 <= Limit, n <= n + 1, Good(v, s, n), Told(s.b)
    PROVE  Good(v, FlushCall(s), n + 1) /\ Told(FlushCall(s).b)
<1>1. CASE calling
  BY <1>1, HeuristicCalls DEF FlushCall
<1>2. CASE ~calling
  BY <1>2, GoodMore DEF FlushCall
<1> QED
  BY <1>1, <1>2

\* Text or a call.
Substance(d) == d.text # NoIndex \/ Started(d) # {}

\* Fill: there is more than thinking.
LEMMA Filled ==
    ASSUME NEW v, NEW s, NEW n \in Int, n + 1 <= Limit, n <= n + 1, Good(v, s, n), Told(s.b)
    PROVE  Good(v, Fill(s), n + 1) /\ Substance(Fill(s).b)
<1>1. CASE NeedsText(s.b)
  <2>1. Fill(s) = Say(s, "blank")
    BY <1>1 DEF Fill
  <2>2. Good(v, Say(s, "blank"), n + 1) /\ Say(s, "blank").b.text # NoIndex
    BY Says
  <2> QED
    BY <2>1, <2>2 DEF Substance
<1>2. CASE ~NeedsText(s.b)
  <2>1. Fill(s) = s
    BY <1>2 DEF Fill
  <2>2. Good(v, s, n + 1)
    BY GoodMore
  <2>3. Substance(s.b)
    BY <1>2 DEF NeedsText, HasOutput, Told, Substance
  <2> QED
    BY <2>1, <2>2, <2>3
<1> QED
  BY <1>1, <1>2

\* The calls and words of a builder decide whether it has output or substance.
LEMMA SameOutput ==
    ASSUME NEW d, NEW x, SameCalls(d, x)
    PROVE  /\ HasOutput(x) <=> HasOutput(d)
           /\ Substance(x) <=> Substance(d)
           /\ Started(x) = Started(d)
BY DEF SameCalls, SameWords, HasOutput, Substance

\* All blocks are stopped, and the message ends.
LEMMA Closes ==
    ASSUME NEW v, NEW s, NEW n \in Int, n <= Limit, Good(v, s, n), HasOutput(s.b),
           NEW reason \in {"end_turn", "tool_use"}
    PROVE  LET r == End(CloseAll(s), reason)
           IN Over(v, r, reason) /\ SameCalls(s.b, r.b) /\ r.b.tool = s.b.tool
<1> DEFINE z == CloseAll(s)
<1>1. Shut(v, z, n) /\ z.b.tool = s.b.tool /\ SameCalls(s.b, z.b)
  BY AllClosed
<1> HIDE DEF z
<1>2. z.b.next > 0
  <2>1. Sound(z.b) /\ HasOutput(z.b)
    BY <1>1, SameOutput DEF Shut
  <2> QED
    BY <2>1 DEF Sound
<1>3. Over(v, End(z, reason), reason) /\ End(z, reason).b = z.b
  BY <1>1, <1>2, Ends
<1> QED
  BY <1>1, <1>3 DEF z

\* The whole of a normal end.
LEMMA Completes ==
    ASSUME NEW v, NEW s, NEW n \in Int, n + 3 <= Limit, Good(v, s, n), Told(s.b),
           NEW reason \in {"end_turn", "tool_use"}
    PROVE  LET r == End(CloseAll(FlushTasks(FlushAliases(Fill(FlushCall(FlushTags(s)))))), reason)
           IN Over(v, r, reason) /\ Substance(r.b)
<1> DEFINE r1 == FlushTags(s)
<1> DEFINE r2 == FlushCall(r1)
<1> DEFINE r3 == Fill(r2)
<1> DEFINE r4 == FlushAliases(r3)
<1> DEFINE r5 == FlushTasks(r4)
<1> DEFINE r6 == End(CloseAll(r5), reason)
<1>0. /\ Limit \in Int
      /\ n + 1 \in Int /\ n + 1 <= Limit /\ n <= n + 1
      /\ (n + 1) + 1 \in Int /\ (n + 1) + 1 <= Limit /\ n + 1 <= (n + 1) + 1
      /\ ((n + 1) + 1) + 1 \in Int /\ ((n + 1) + 1) + 1 <= Limit
      /\ (n + 1) + 1 <= ((n + 1) + 1) + 1
  BY StreamAssumption DEF Limit
<1>1. Good(v, r1, n + 1) /\ Told(r1.b)
  BY <1>0, TagsFlushed
<1> HIDE DEF r1
<1>2. Good(v, r2, (n + 1) + 1) /\ Told(r2.b)
  BY <1>0, <1>1, CallFlushed
<1> HIDE DEF r2
<1>3. Good(v, r3, ((n + 1) + 1) + 1) /\ Substance(r3.b)
  BY <1>0, <1>2, Filled
<1> HIDE DEF r3
<1>4. Good(v, r4, ((n + 1) + 1) + 1) /\ SameCalls(r3.b, r4.b)
  BY <1>0, <1>3, AliasesFlushed
<1> HIDE DEF r4
<1>5. Good(v, r5, ((n + 1) + 1) + 1) /\ SameCalls(r4.b, r5.b)
  BY <1>0, <1>4, TasksFlushed
<1> HIDE DEF r5
<1>6. Substance(r5.b) /\ HasOutput(r5.b)
  <2>1. Substance(r5.b)
    BY <1>3, <1>4, <1>5, SameOutput
  <2> QED
    BY <2>1 DEF Substance, HasOutput
<1>7. Over(v, r6, reason) /\ SameCalls(r5.b, r6.b)
  BY <1>0, <1>5, <1>6, Closes
<1> HIDE DEF r6
<1>8. Substance(r6.b)
  BY <1>6, <1>7, SameOutput
<1> QED
  BY <1>7, <1>8 DEF r6, r5, r4, r3, r2, r1

\* ContinueText with thinking, text or both.
LEMMA TextContinued ==
    ASSUME NEW v, NEW s, NEW n \in Int, n + 2 <= Limit, Good(v, s, n), Told(s.b),
           NEW thought \in BOOLEAN, NEW text \in BOOLEAN, thought \/ text
    PROVE  LET r == ContinueText(s, thought, text)
           IN Good(v, r, n + 2) /\ HasOutput(r.b)
<1>0. /\ Limit \in Int /\ n + 1 \in Int /\ n + 2 \in Int /\ n + 1 <= Limit
      /\ (n + 1) + 1 = n + 2 /\ (n + 1) + 1 <= Limit /\ n + 1 <= n + 2 /\ n <= n + 2
  BY StreamAssumption DEF Limit
<1>1. /\ Good(v, Think(s), n + 1) /\ Told(Think(s).b) /\ Think(s).b.think # NoIndex
  BY <1>0, Thinks
<1>2. CASE thought /\ text
  <2>1. ContinueText(s, thought, text) = Say(Think(s), "solid")
    BY <1>2 DEF ContinueText
  <2> DEFINE z == Think(s)
  <2> HIDE DEF z
  <2>2. Good(v, z, n + 1) /\ Told(z.b)
    BY <1>1 DEF z
  <2>3. Good(v, Say(z, "solid"), (n + 1) + 1) /\ Say(z, "solid").b.text # NoIndex
    BY <1>0, <2>2, Says
  <2> QED
    BY <1>0, <2>1, <2>3 DEF HasOutput, z
<1>3. CASE thought /\ ~text
  <2>1. ContinueText(s, thought, text) = Think(s)
    BY <1>3 DEF ContinueText
  <2>2. Good(v, Think(s), n + 2)
    BY <1>0, <1>1, GoodMore
  <2> QED
    BY <1>1, <2>1, <2>2 DEF HasOutput
<1>4. CASE ~thought /\ text
  <2>1. ContinueText(s, thought, text) = Say(s, "solid")
    BY <1>4 DEF ContinueText
  <2>2. Good(v, Say(s, "solid"), n + 1) /\ Say(s, "solid").b.text # NoIndex
    BY <1>0, Says
  <2>3. Good(v, Say(s, "solid"), n + 2)
    BY <1>0, <2>2, GoodMore
  <2> QED
    BY <2>1, <2>2, <2>3 DEF HasOutput
<1> QED
  BY <1>2, <1>3, <1>4

\* ErrorTail: whatever was there, the message ends.
LEMMA ErrorTailed ==
    ASSUME NEW v, NEW s, NEW n \in Int, n + 1 <= Limit, Good(v, s, n)
    PROVE  Over(v, ErrorTail(s), "end_turn")
<1> DEFINE r == CloseAll(s)
<1> DEFINE e == Emit(r, r.b, <<PlainEvent("error", "none")>>)
<1>0. n <= Limit /\ n + 1 \in Int
  BY StreamAssumption DEF Limit
<1>1. Shut(v, r, n) /\ ~r.b.thinkOn /\ ~r.b.textOn
  BY <1>0, AllClosed
<1>2. ErrorTail(s) = End(IF Started(r.b) # {} THEN e ELSE ErrorText(r), "end_turn")
  BY DEF ErrorTail
<1> HIDE DEF r
<1>3. CASE Started(r.b) # {}
  <2>1. r.b.next > 0
    <3>1. HasOutput(r.b) /\ Sound(r.b)
      BY <1>1, <1>3 DEF HasOutput, Shut
    <3> QED
      BY <3>1 DEF Sound
  <2>2. Shut(v, e, n) /\ e.b = r.b
    BY <1>1, <2>1, ErrorIsLegal
  <2> HIDE DEF e
  <2>3. Over(v, End(e, "end_turn"), "end_turn")
    BY <2>1, <2>2, Ends
  <2> QED
    BY <1>2, <1>3, <2>3
<1>4. CASE Started(r.b) = {}
  <2> DEFINE t == ErrorText(r)
  <2>1. Shut(v, t, n + 1) /\ t.b.next > 0
    BY <1>1, <1>4, ErrorTold
  <2> HIDE DEF t
  <2>2. Over(v, End(t, "end_turn"), "end_turn")
    BY <1>0, <2>1, Ends
  <2> QED
    BY <1>2, <1>4, <2>2 DEF t
<1> QED
  BY <1>3, <1>4

\* The message has ended for the builder, and the rest of it is on its way.
LEMMA OverKeeps ==
    ASSUME StreamInv, phase \in {"connect", "reading"}, phase' \in Ended,
           NEW w0, NEW w, Toward(Client, out, w0), Toward(w0, held, w),
           NEW s, NEW reason \in {"end_turn", "tool_use"}, Over(w, s, reason),
           b' = s.b, PushAll(s.e),
           phase' = "completed" => Substance(s.b),
           phase' = "recovered" /\ reason = "tool_use" =>
               \A c \in Started(s.b) : s.b.tool[c].sent = "whole",
           UNCHANGED <<thinking, parserVars, finish, chunks, retries, clientVars>>
    PROVE  StreamInv'
<1>1. TypeInv /\ TypeOK
  BY DEF StreamInv, TypeInv
<1>2. PICK x : Reach(w, s, x) /\ Finished(x, s.b, reason)
  BY DEF Over
<1>3. /\ out' \in Seq(Items) /\ held' = <<>> /\ held' \in Seq(Items) /\ committed' = TRUE
      /\ Toward(Client', out', x)
  BY <1>1, <1>2, PushedAll
<1>4. OverInv'
  <2>1. phase' = "recovered" /\ reason = "tool_use" =>
            \A c \in Started(b') : b'.tool[c].sent = "whole"
    OBVIOUS
  <2>2. Finished(x, b', reason)
    BY <1>2
  <2>3. phase' = "completed" => b'.text # NoIndex \/ Started(b') # {}
    BY DEF Substance
  <2> QED
    BY <1>3, <2>1, <2>2, <2>3 DEF OverInv
<1>5. TypeInv'
  <2>1. b' \in Builders
    BY DEF Over
  <2>2. phase' \in Phases
    BY DEF Phases
  <2>3. TypeOK'
    BY <1>1, <1>3, <2>1, <2>2 DEF TypeOK, parserVars
  <2> QED
    BY <1>1, <1>3, <2>3 DEF TypeInv, clientVars
<1>6. TryInv'
  <2>1. TryInv
    BY DEF StreamInv
  <2> QED
    BY <1>1, <1>2, <2>1, PushMade
<1> QED
  BY <1>4, <1>5, <1>6 DEF StreamInv, NewInv, OnInv, GoneInv, Ended

\* Complete.
LEMMA CompleteKeeps ==
    ASSUME StreamInv, Complete
    PROVE  StreamInv'
<1> DEFINE s == End(CloseAll(FlushTasks(FlushAliases(Fill(FlushCall(FlushTags(Step(b))))))),
                    StopReason(finish))
<1>1. /\ phase = "reading" /\ phase' = "completed"
      /\ b' = s.b /\ PushAll(s.e)
      /\ UNCHANGED <<thinking, parserVars, finish, chunks, retries, clientVars>>
  BY DEF Complete
<1>2. PICK w0, w : OnTheWay(w0, w)
  BY <1>1 DEF StreamInv, OnInv
<1>3. Good(w, Step(b), chunks) /\ Told(Step(b).b) /\ chunks \in Int /\ chunks + 3 <= Limit
  <2>1. Good(w, Step(b), chunks) /\ Told(Step(b).b) /\ chunks \in Nat /\ chunks <= MaxChunks
    BY <1>1, <1>2, FromBuilder DEF OnTheWay
  <2>2. chunks + 3 <= Limit
    BY <2>1, StreamAssumption DEF Limit
  <2> QED
    BY <2>1, <2>2
<1>4. StopReason(finish) \in {"end_turn", "tool_use"}
  BY DEF StopReason
<1>5. Over(w, s, StopReason(finish)) /\ Substance(s.b)
  BY <1>3, <1>4, Completes
<1> HIDE DEF s
<1>6. Toward(Client, out, w0) /\ Toward(w0, held, w)
  BY <1>2 DEF OnTheWay
<1> QED
  BY <1>1, <1>4, <1>5, <1>6, OverKeeps DEF Ended

\* EarlyRetry: the client has seen nothing of the attempt.
LEMMA RetryKeeps ==
    ASSUME StreamInv, phase \in {"connect", "reading"}, out = <<>>, ~committed,
           retries < MaxRetries, EarlyRetry, UNCHANGED clientVars
    PROVE  StreamInv'
<1>1. /\ retries' = retries + 1 /\ held' = <<>> /\ b' = NewBuilder
      /\ inThink' = FALSE /\ tagged' = FALSE /\ calling' = FALSE
      /\ finish' = "none" /\ chunks' = 0 /\ phase' = "connect"
      /\ thinking' = thinking /\ committed' = committed /\ out' = out
      /\ Client' = Client /\ got' = got
  BY DEF EarlyRetry, clientVars, Client
<1>2. PICK w0, w : OnTheWay(w0, w)
  BY DEF StreamInv, OnInv
<1>3. Toward(Client, out, w0) /\ Agrees(w0, NewBuilder)
  BY <1>2 DEF OnTheWay
<1>4. OnTheWay(w0, w0)'
  <2>1. Toward(w0, held', w0)
    BY <1>1, TowardNone
  <2>2. Toward(Client', out', w0)
    BY <1>1, <1>3
  <2>3. Agrees(w0, b')
    BY <1>1, <1>3
  <2> QED
    BY <1>3, <2>1, <2>2, <2>3 DEF OnTheWay
<1>5. OnInv'
  <2>1. Sound(b') /\ Told(b')
    BY <1>1, NewSound
  <2>2. b'.next <= chunks'
    BY <1>1 DEF NewBuilder
  <2> QED
    BY <1>4, <2>1, <2>2 DEF OnInv
<1>6. TypeInv'
  <2>1. TypeInv /\ TypeOK
    BY DEF StreamInv, TypeInv
  <2>2. b' \in Builders
    BY <1>1, NewSound DEF Sound
  <2>3. retries' \in 0..MaxRetries /\ chunks' \in 0..MaxChunks
    BY <1>1, <2>1, StreamAssumption DEF TypeOK
  <2>4. phase' \in Phases
    BY <1>1 DEF Phases
  <2>5. TypeOK'
    BY <1>1, <2>1, <2>2, <2>3, <2>4 DEF TypeOK
  <2>6. <<>> \in Seq(Items)
    BY EmptySeq
  <2> QED
    BY <1>1, <2>1, <2>5, <2>6 DEF TypeInv
<1>7. TryInv'
  <2>1. got'.tries = {}
    BY <1>1 DEF StreamInv, TryInv
  <2>2. out' = <<>> /\ held' = <<>>
    BY <1>1
  <2> QED
    BY <2>1, <2>2, NoneMade DEF TryInv
<1> QED
  BY <1>1, <1>5, <1>6, <1>7 DEF StreamInv, NewInv, OverInv, GoneInv, Ended

\* FinalError.
LEMMA FinalErrorKeeps ==
    ASSUME StreamInv, phase \in {"connect", "reading"}, FinalError, UNCHANGED clientVars
    PROVE  StreamInv'
<1> DEFINE d == IF ~committed /\ held = <<>> THEN NewBuilder ELSE b
<1> DEFINE s == ErrorTail(Step(d))
<1>1. /\ b' = s.b /\ PushAll(s.e) /\ phase' = "failed"
      /\ UNCHANGED <<thinking, parserVars, finish, chunks, retries>>
  BY DEF FinalError
<1>2. PICK w0, w : OnTheWay(w0, w)
  BY DEF StreamInv, OnInv
<1>3. /\ Toward(Client, out, w0) /\ Toward(w0, held, w) /\ Agrees(w, b)
      /\ ~committed => Agrees(w0, NewBuilder)
  BY <1>2 DEF OnTheWay
<1>4. Agrees(w, d) /\ Sound(d) /\ d.next <= chunks
  <2>1. Sound(b) /\ b.next <= chunks /\ chunks \in Nat
    BY FromBuilder DEF StreamInv, OnInv
  <2>2. CASE ~committed /\ held = <<>>
    <3>1. w = w0
      BY <1>3, <2>2, TowardNone
    <3>2. NewBuilder.next = 0
      BY DEF NewBuilder
    <3> QED
      BY <1>3, <2>1, <2>2, <3>1, <3>2, NewSound
  <2>3. CASE ~(~committed /\ held = <<>>)
    BY <1>3, <2>1, <2>3
  <2> QED
    BY <2>2, <2>3
<1> HIDE DEF d
<1>5. Good(w, Step(d), chunks)
  BY <1>4, GoodStep
<1>6. Over(w, s, "end_turn")
  BY <1>5, FromBuilder, ErrorTailed
<1> HIDE DEF s
<1> QED
  BY <1>1, <1>3, <1>6, OverKeeps DEF Ended

\* A recovery ends the message, with the whole input of every call if the client is
\* to run them.
LEMMA Recovered ==
    ASSUME StreamInv, phase \in {"connect", "reading"}, HasOutput(b),
           NEW s \in Recoveries, NEW w, Agrees(w, b)
    PROVE  \E reason \in {"end_turn", "tool_use"} :
              /\ Over(w, s, reason)
              /\ reason = "tool_use" => \A c \in Started(s.b) : s.b.tool[c].sent = "whole"
<1> DEFINE z == Step(b)
<1>0. /\ Good(w, z, chunks) /\ z.b = b /\ Told(b) /\ chunks \in Int
      /\ chunks <= Limit /\ chunks + 2 \in Int /\ chunks + 2 <= Limit
  <2>1. Good(w, z, chunks) /\ z.b = b /\ Told(b) /\ chunks \in Nat /\ chunks <= MaxChunks
    BY FromBuilder
  <2>2. chunks <= Limit /\ chunks + 2 <= Limit
    BY <2>1, StreamAssumption DEF Limit
  <2> QED
    BY <2>1, <2>2
<1>1. CASE Started(b) # {}
  <2> DEFINE y == IF AllComplete(b) THEN z ELSE RepairTools(z)
  <2>1. s = End(CloseAll(y), "tool_use")
    BY <1>1 DEF Recoveries
  <2>2. /\ Good(w, y, chunks) /\ HasOutput(y.b)
        /\ \A c \in Started(y.b) : y.b.tool[c].sent = "whole"
    <3>1. CASE AllComplete(b)
      BY <1>0, <3>1 DEF AllComplete
    <3>2. CASE ~AllComplete(b)
      <4> DEFINE r == RepairTools(z)
      <4>1. Good(w, r, chunks) /\ SameCalls(z.b, r.b) /\ \A c \in Started(r.b) : r.b.tool[c].sent = "whole"
        BY <1>0, CallsRepaired
      <4> HIDE DEF r, z
      <4>2. HasOutput(r.b)
        BY <1>0, <4>1, SameOutput
      <4> QED
        BY <3>2, <4>1, <4>2 DEF r
    <3> QED
      BY <3>1, <3>2
  <2> HIDE DEF y
  <2>3. Over(w, s, "tool_use") /\ SameCalls(y.b, s.b) /\ s.b.tool = y.b.tool
    BY <1>0, <2>1, <2>2, Closes
  <2> QED
    BY <2>2, <2>3, SameOutput
<1>2. CASE Started(b) = {}
  <2>1. PICK p \in (BOOLEAN \X BOOLEAN) \ {<<FALSE, FALSE>>} :
           s = End(CloseAll(ContinueText(z, p[1], p[2])), "end_turn")
    BY <1>2 DEF Recoveries
  <2>2. p[1] \in BOOLEAN /\ p[2] \in BOOLEAN /\ (p[1] \/ p[2])
    <3>1. p[1] \in BOOLEAN /\ p[2] \in BOOLEAN
      BY <2>1
    <3>2. p = <<p[1], p[2]>>
      BY <2>1
    <3>3. p # <<FALSE, FALSE>>
      BY <2>1
    <3>4. ~(p[1] = FALSE /\ p[2] = FALSE)
      BY <3>2, <3>3
    <3> QED
      BY <3>1, <3>4
  <2> DEFINE y == ContinueText(z, p[1], p[2])
  <2> HIDE DEF z
  <2>3. Good(w, y, chunks + 2) /\ HasOutput(y.b)
    BY <1>0, <2>2, TextContinued
  <2> HIDE DEF y
  <2>4. Over(w, s, "end_turn")
    BY <1>0, <2>1, <2>3, Closes DEF y
  <2> QED
    BY <2>4
<1> QED
  BY <1>1, <1>2

\* Recover.
LEMMA RecoverKeeps ==
    ASSUME StreamInv, phase \in {"connect", "reading"}, HasOutput(b),
           NEW s \in Recoveries, Recover(s), UNCHANGED clientVars
    PROVE  StreamInv'
<1>1. /\ b' = s.b /\ PushAll(s.e) /\ phase' = "recovered"
      /\ UNCHANGED <<thinking, parserVars, finish, chunks, retries>>
  BY DEF Recover
<1>2. PICK w0, w : OnTheWay(w0, w)
  BY DEF StreamInv, OnInv
<1>3. Toward(Client, out, w0) /\ Toward(w0, held, w) /\ Agrees(w, b)
  BY <1>2 DEF OnTheWay
<1>4. PICK reason \in {"end_turn", "tool_use"} :
         /\ Over(w, s, reason)
         /\ reason = "tool_use" => \A c \in Started(s.b) : s.b.tool[c].sent = "whole"
  BY <1>3, Recovered
<1> QED
  BY <1>1, <1>3, <1>4, OverKeeps DEF Ended

\* Fail.
LEMMA FailKeeps ==
    ASSUME StreamInv, phase \in {"connect", "reading"}, NEW opened, NEW retryable,
           Fail(opened, retryable)
    PROVE  StreamInv'
<1>1. UNCHANGED clientVars
  BY DEF Fail
<1>2. CASE CanRetry(opened, retryable)
  <2>1. EarlyRetry
    BY <1>2 DEF Fail
  <2>2. ~committed /\ retries < MaxRetries /\ out = <<>>
    BY <1>2 DEF CanRetry, Fail, Resumed
  <2> QED
    BY <1>1, <2>1, <2>2, RetryKeeps
<1>3. CASE ~CanRetry(opened, retryable)
  <2>1. FinalError \/ (HasOutput(b) /\ retryable /\ \E s \in Recoveries : Recover(s))
    BY <1>3 DEF Fail
  <2>2. CASE FinalError
    BY <1>1, <2>2, FinalErrorKeeps
  <2>3. CASE HasOutput(b) /\ retryable /\ \E s \in Recoveries : Recover(s)
    BY <1>1, <2>3, RecoverKeeps
  <2> QED
    BY <2>1, <2>2, <2>3
<1> QED
  BY <1>2, <1>3

\* Deliver: the client takes the first event on its way, which is legal.
LEMMA DeliverKeeps ==
    ASSUME StreamInv, Deliver
    PROVE  StreamInv'
<1> DEFINE i == Head(out)
<1> DEFINE e == i.event
<1>1. /\ out # <<>> /\ See(e) /\ Learn(e, i.try) /\ out' = Tail(out)
      /\ UNCHANGED <<phase, thinking, b, inThink, tagged, calling, finish, chunks, held,
                     committed, retries>>
  BY DEF Deliver, runnerVars, parserVars
<1>2. TypeInv /\ TypeOK /\ out \in Seq(Items)
  BY DEF StreamInv, TypeInv
<1>3. i \in Items /\ Tail(out) \in Seq(Items)
  BY <1>1, <1>2, EmptySeq, HeadTailProperties
<1>4. e \in Events /\ i.try \in Nat
  BY <1>3 DEF Items
<1> HIDE DEF i, e
<1>5. got' = [tries |-> IF e.type \in {"start", "delta", "stop"} THEN got.tries \cup {i.try} ELSE got.tries,
              input |-> [c \in Calls |-> IF e.call # c THEN got.input[c]
                                         ELSE IF e.type = "start" THEN "part" ELSE e.data],
              kinds |-> IF e.type = "start" THEN got.kinds \cup {e.kind} ELSE got.kinds,
              reason |-> IF e.type = "message_delta" THEN e.data ELSE got.reason]
  BY <1>1, <1>2 DEF Learn, TypeInv
<1>6. Client' = After(Client, e)
  <2>1. stage' = After(Client, e).stage
    BY <1>1 DEF See, After, Client
  <2>2. open' = After(Client, e).open
    BY <1>1 DEF See, After, Client
  <2>3. used' = After(Client, e).used
    BY <1>1 DEF See, After, Client
  <2>4. got'.input = After(Client, e).input
    BY <1>5 DEF After, Client
  <2>5. got'.kinds = After(Client, e).kinds /\ got'.reason = After(Client, e).reason
    BY <1>5 DEF After, Client
  <2>6. After(Client, e) =
          [stage |-> After(Client, e).stage, open |-> After(Client, e).open,
           used |-> After(Client, e).used, input |-> After(Client, e).input,
           kinds |-> After(Client, e).kinds, reason |-> After(Client, e).reason]
    BY DEF After
  <2>7. Client' = [stage |-> stage', open |-> open', used |-> used',
                   input |-> got'.input, kinds |-> got'.kinds, reason |-> got'.reason]
    BY DEF Client
  <2> QED
    BY <2>1, <2>2, <2>3, <2>4, <2>5, <2>6, <2>7
<1>7. ASSUME NEW w, Toward(Client, out, w)
      PROVE  Toward(Client', out', w)
  BY <1>1, <1>2, <1>6, <1>7, TowardRest DEF e, i
<1>8. TypeInv'
  <2>1. TypeOK'
    BY <1>1, <1>2 DEF TypeOK
  <2>2. got' \in [tries : SUBSET Nat, input : [Calls -> Data],
                  kinds : SUBSET {"none", "text", "thinking", "tool_use"}, reason : Data]
    <3>1. /\ got.tries \in SUBSET Nat /\ got.input \in [Calls -> Data] /\ got.reason \in Data
          /\ got.kinds \in SUBSET {"none", "text", "thinking", "tool_use"}
      BY <1>2 DEF TypeInv
    <3>2. e.data \in Data /\ e.kind \in {"none", "text", "thinking", "tool_use"}
      BY <1>4 DEF Events, Data
    <3>3. got'.input \in [Calls -> Data]
      BY <1>5, <3>1, <3>2 DEF Data, Amounts
    <3>4. /\ got'.tries \in SUBSET Nat /\ got'.reason \in Data
          /\ got'.kinds \in SUBSET {"none", "text", "thinking", "tool_use"}
      BY <1>4, <1>5, <3>1, <3>2
    <3>5. got' = [tries |-> got'.tries, input |-> got'.input, kinds |-> got'.kinds,
                  reason |-> got'.reason]
      BY <1>5
    <3> QED
      BY <3>3, <3>4, <3>5
  <2> QED
    BY <1>1, <1>2, <1>3, <2>1, <2>2 DEF TypeInv
<1>9. OnInv'
  <2> SUFFICES ASSUME phase \in {"connect", "reading"}
               PROVE  /\ Sound(b) /\ Told(b) /\ b.next <= chunks
                      /\ \E w0, w : OnTheWay(w0, w)'
    BY <1>1 DEF OnInv
  <2>1. Sound(b) /\ Told(b) /\ b.next <= chunks
    BY DEF StreamInv, OnInv
  <2>2. PICK w0, w : OnTheWay(w0, w)
    BY DEF StreamInv, OnInv
  <2>3. OnTheWay(w0, w)'
    BY <1>1, <1>7, <2>2 DEF OnTheWay
  <2> QED
    BY <2>1, <2>3
<1>10. OverInv'
  <2> SUFFICES ASSUME phase \in Ended
               PROVE  OverInv'
    BY <1>1 DEF OverInv, Ended
  <2>1. /\ held = <<>>
        /\ phase = "completed" => b.text # NoIndex \/ Started(b) # {}
    BY DEF StreamInv, OverInv
  <2>2. PICK w :
           /\ Toward(Client, out, w)
           /\ \E reason \in {"end_turn", "tool_use"} :
                 /\ Finished(w, b, reason)
                 /\ phase = "recovered" /\ reason = "tool_use" =>
                       \A c \in Started(b) : b.tool[c].sent = "whole"
    BY DEF StreamInv, OverInv
  <2>3. Toward(Client', out', w)
    BY <1>7, <2>2
  <2> QED
    BY <1>1, <2>1, <2>2, <2>3 DEF OverInv
<1>11. NewInv' /\ GoneInv'
  BY <1>1 DEF StreamInv, NewInv, GoneInv
<1>12. TryInv'
  <2>1. /\ MadeBy(out, retries) /\ MadeBy(held, retries) /\ got.tries \subseteq {retries}
        /\ ~committed => got.tries = {} /\ Plain(out)
    BY DEF StreamInv, TryInv
  <2>2. /\ Len(out) \in Nat \ {0} /\ Head(out) = out[1] /\ Len(out') = Len(out) - 1
        /\ \A k \in 1..Len(out') : out'[k] = out[k + 1]
    BY <1>1, <1>2, EmptySeq, HeadTailProperties
  <2>3. 1 \in 1..Len(out) /\ \A k \in 1..Len(out') : k + 1 \in 1..Len(out)
    BY <2>2
  <2>4. i = out[1]
    BY <2>2 DEF i
  <2>5. i.try = retries /\ (Plain(out) => i.event.type \notin {"start", "delta", "stop"})
    BY <2>1, <2>3, <2>4 DEF MadeBy, Plain
  <2>6. MadeBy(out', retries) /\ (Plain(out) => Plain(out'))
    BY <2>1, <2>2, <2>3 DEF MadeBy, Plain
  <2>7. got'.tries = IF e.type \in {"start", "delta", "stop"} THEN got.tries \cup {i.try}
                     ELSE got.tries
    BY <1>5
  <2>8. e = i.event
    BY DEF e
  <2> QED
    BY <1>1, <2>1, <2>5, <2>6, <2>7, <2>8 DEF TryInv
<1> QED
  BY <1>8, <1>9, <1>10, <1>11, <1>12 DEF StreamInv

\* Disconnect.
LEMMA DisconnectKeeps ==
    ASSUME StreamInv, Disconnect
    PROVE  StreamInv'
<1>1. /\ phase \notin {"gone"} \cup Ended /\ phase' = "gone"
      /\ out' = <<>> /\ held' = <<>>
      /\ UNCHANGED <<thinking, b, inThink, tagged, calling, finish, chunks, committed, retries,
                     stage, open, used, last, got>>
  BY DEF Disconnect, parserVars, clientVars
<1>2. TypeInv /\ TypeOK
  BY DEF StreamInv, TypeInv
<1>3. phase \in {"new", "connect", "reading"}
  BY <1>1, <1>2 DEF TypeOK, Phases
<1>4. stage # "stopped"
  <2>1. CASE phase = "new"
    BY <2>1 DEF StreamInv, NewInv
  <2>2. CASE phase \in {"connect", "reading"}
    <3> SUFFICES ASSUME stage = "stopped" PROVE FALSE
      OBVIOUS
    <3>1. PICK w0, w : OnTheWay(w0, w)
      BY <2>2 DEF StreamInv, OnInv
    <3>2. out \in Seq(Items) /\ held \in Seq(Items)
      BY <1>2 DEF TypeInv
    <3>3. Client.stage = "stopped"
      BY DEF Client
    <3>4. w0 = Client
      BY <3>1, <3>2, <3>3, NoMore DEF OnTheWay
    <3>5. w = w0
      BY <3>1, <3>2, <3>3, <3>4, NoMore DEF OnTheWay
    <3>6. w.stage = "body"
      BY <3>1 DEF OnTheWay, Agrees, Saw
    <3> QED
      BY <3>3, <3>4, <3>5, <3>6
  <2> QED
    BY <1>3, <2>1, <2>2
<1>5. <<>> \in Seq(Items)
  BY EmptySeq
<1>6. TypeInv'
  BY <1>1, <1>2, <1>5 DEF TypeInv, TypeOK, Phases
<1>7. TryInv'
  <2>1. got.tries \subseteq {retries} /\ (~committed => got.tries = {})
    BY DEF StreamInv, TryInv
  <2> QED
    BY <1>1, <2>1, NoneMade DEF TryInv
<1> QED
  BY <1>1, <1>4, <1>6, <1>7 DEF StreamInv, NewInv, OnInv, OverInv, GoneInv, Ended

\* Nothing happens.
LEMMA StutterKeeps ==
    ASSUME StreamInv, UNCHANGED vars
    PROVE  StreamInv'
<1>1. UNCHANGED <<phase, thinking, b, inThink, tagged, calling, finish, chunks, held, committed,
                  retries, out, stage, open, used, last, got>>
  BY DEF vars, runnerVars, parserVars, clientVars
<1>2. Client' = Client
  BY <1>1 DEF Client
<1>3. TypeInv'
  BY <1>1 DEF StreamInv, TypeInv, TypeOK
<1>4. NewInv' /\ GoneInv'
  BY <1>1 DEF StreamInv, NewInv, GoneInv
<1>5. OnInv'
  BY <1>1, <1>2 DEF StreamInv, OnInv, OnTheWay
<1>6. OverInv'
  BY <1>1, <1>2 DEF StreamInv, OverInv
<1>7. TryInv'
  BY <1>1 DEF StreamInv, TryInv
<1> QED
  BY <1>3, <1>4, <1>5, <1>6, <1>7 DEF StreamInv

\* Every step keeps the invariant.
LEMMA StreamStep ==
    ASSUME StreamInv, [Next]_vars
    PROVE  StreamInv'
<1>0. /\ inThink \in BOOLEAN /\ tagged \in BOOLEAN /\ calling \in BOOLEAN
      /\ finish \in {"none", "stop", "tool_calls"}
  BY DEF StreamInv, TypeInv, TypeOK
<1>1. CASE Begin
  BY <1>1, BeginKeeps
<1>2. CASE Connect
  BY <1>2, ConnectKeeps
<1>3. CASE Tag
  <2>1. /\ Read(Step(b)) /\ finish' = finish /\ calling' = calling
        /\ inThink' \in BOOLEAN /\ tagged' \in BOOLEAN
    BY <1>0, <1>3 DEF Tag, Content
  <2> QED
    BY <1>0, <2>1, NothingRead
<1>4. CASE Reasoning
  <2>1. /\ Read(Think(Step(b))) /\ finish' = finish /\ calling' = calling
        /\ inThink' = inThink /\ tagged' = tagged
    BY <1>4 DEF Reasoning, parserVars
  <2> QED
    BY <1>0, <2>1, ThinkingRead
<1>5. CASE TaggedThinking
  <2>1. /\ Read(IF thinking THEN Think(Step(b)) ELSE Step(b))
        /\ finish' = finish /\ calling' = calling
        /\ inThink' = inThink /\ tagged' = FALSE
    BY <1>5 DEF TaggedThinking, Content
  <2>2. CASE thinking
    BY <1>0, <2>1, <2>2, ThinkingRead
  <2>3. CASE ~thinking
    BY <1>0, <2>1, <2>3, NothingRead
  <2> QED
    BY <2>2, <2>3
<1>6. CASE TextCall
  <2>1. /\ Read(IF calling THEN HeuristicTool(Step(b)) ELSE Step(b))
        /\ finish' = finish /\ calling' = ~calling
        /\ inThink' = inThink /\ tagged' = FALSE
    BY <1>6 DEF TextCall, Content
  <2>a. calling' \in BOOLEAN
    BY <2>1
  <2>2. CASE calling
    BY <1>0, <2>1, <2>a, <2>2, TextCallRead
  <2>3. CASE ~calling
    BY <1>0, <2>1, <2>a, <2>3, NothingRead
  <2> QED
    BY <2>2, <2>3
<1>7. ASSUME NEW reason \in {"stop", "tool_calls"}, FinishReason(reason)
      PROVE  StreamInv'
  <2>1. /\ Read(Step(b)) /\ finish' = reason /\ calling' = calling
        /\ inThink' = inThink /\ tagged' = tagged
    BY <1>7 DEF FinishReason, parserVars
  <2> QED
    BY <1>0, <2>1, NothingRead
<1>8. CASE ConnectFails
  <2>1. phase = "connect" /\ \E retryable \in BOOLEAN : Fail(FALSE, retryable)
    BY <1>8 DEF ConnectFails
  <2> QED
    BY <2>1, FailKeeps
<1>9. CASE StreamFails
  <2>1. phase = "reading" /\ \E retryable \in BOOLEAN : Fail(TRUE, retryable)
    BY <1>9 DEF StreamFails
  <2> QED
    BY <2>1, FailKeeps
<1>10. CASE Complete
  BY <1>10, CompleteKeeps
<1>11. ASSUME NEW text \in {"blank", "solid"}, Text(text)
       PROVE  StreamInv'
  <2>1. /\ Read(Say(Step(b), text)) /\ finish' = finish /\ calling' = calling
        /\ inThink' = inThink /\ tagged' = FALSE
    BY <1>11 DEF Text, Content
  <2> QED
    BY <1>0, <2>1, TextRead
<1>12. ASSUME NEW c \in Calls, NEW name \in Names, NEW args \in Amounts, ToolChunk(c, name, args)
       PROVE  StreamInv'
  <2>1. /\ Read(ToolCall(CloseContent(Step(b)), c, name, args))
        /\ finish' = finish /\ calling' = calling
        /\ inThink' = inThink /\ tagged' = tagged
    BY <1>12 DEF ToolChunk, parserVars
  <2> QED
    BY <1>0, <2>1, ToolRead
<1>13. CASE Deliver
  BY <1>13, DeliverKeeps
<1>14. CASE Disconnect
  BY <1>14, DisconnectKeeps
<1>15. CASE UNCHANGED vars
  BY <1>15, StutterKeeps
<1> QED
  BY <1>1, <1>2, <1>3, <1>4, <1>5, <1>6, <1>7, <1>8, <1>9, <1>10, <1>11, <1>12, <1>13, <1>14,
     <1>15 DEF Next, Runner

\* The stream is always on its way to one well-formed message.
LEMMA StreamAlways == Spec => []StreamInv
<1>1. Init => StreamInv
  BY StreamInit
<1>2. StreamInv /\ [Next]_vars => StreamInv'
  BY StreamStep
<1> QED
  BY <1>1, <1>2, PTL DEF Spec

-----------------------------------------------------------------------------
(***************************************************************************)
(* What follows from the invariant.                                        *)
(***************************************************************************)

\* When the client has the end of the message, the builder has no more for it.
LEMMA AtTheEnd ==
    ASSUME StreamInv, stage = "stopped"
    PROVE  /\ phase \in Ended /\ held = <<>>
           /\ \E reason \in {"end_turn", "tool_use"} :
                 /\ Finished(Client, b, reason)
                 /\ phase = "recovered" /\ reason = "tool_use" =>
                       \A c \in Started(b) : b.tool[c].sent = "whole"
<1>1. TypeInv /\ TypeOK
  BY DEF StreamInv, TypeInv
<1>2. out \in Seq(Items) /\ held \in Seq(Items)
  BY <1>1 DEF TypeInv
<1>3. Client.stage = "stopped"
  BY DEF Client
<1>4. phase \notin {"new", "gone"}
  BY DEF StreamInv, NewInv, GoneInv
<1>5. phase \notin {"connect", "reading"}
  <2> SUFFICES ASSUME phase \in {"connect", "reading"} PROVE FALSE
    OBVIOUS
  <2>1. PICK w0, w : OnTheWay(w0, w)
    BY DEF StreamInv, OnInv
  <2>2. w0 = Client
    BY <1>2, <1>3, <2>1, NoMore DEF OnTheWay
  <2>3. w = w0
    BY <1>2, <1>3, <2>1, <2>2, NoMore DEF OnTheWay
  <2>4. w.stage = "body"
    BY <2>1 DEF OnTheWay, Agrees, Saw
  <2> QED
    BY <1>3, <2>2, <2>3, <2>4
<1>6. phase \in Ended
  BY <1>1, <1>4, <1>5 DEF TypeOK, Phases
<1>7. PICK w :
         /\ Toward(Client, out, w)
         /\ \E reason \in {"end_turn", "tool_use"} :
               /\ Finished(w, b, reason)
               /\ phase = "recovered" /\ reason = "tool_use" =>
                     \A c \in Started(b) : b.tool[c].sent = "whole"
  BY <1>6 DEF StreamInv, OverInv
<1>8. w = Client
  BY <1>2, <1>3, <1>7, NoMore
<1>9. held = <<>>
  BY <1>6 DEF StreamInv, OverInv
<1> QED
  BY <1>6, <1>7, <1>8, <1>9

\* OneAttempt: StreamRecoverySession repeats an attempt only while nothing of it has
\* left the holdback buffer, so whatever fails, and however often, the client has
\* content of one attempt only, and at the end of the message all of it.
THEOREM ContentOfOneAttempt == Spec => []OneAttempt
<1>1. StreamInv => OneAttempt
  <2> SUFFICES ASSUME StreamInv PROVE OneAttempt
    OBVIOUS
  <2>1. got.tries \subseteq {retries}
    BY DEF StreamInv, TryInv
  <2>2. ASSUME stage = "stopped"
        PROVE  held = <<>> /\ used = 0..(b.next - 1)
    BY <2>2, AtTheEnd DEF Finished, Client
  <2> QED
    BY <2>1, <2>2 DEF OneAttempt
<1> QED
  BY <1>1, StreamAlways, PTL

\* EndIsOfUse: OpenAIChatRecovery.events tells the client to run tools only when it
\* has repaired the input of every call, and a stream that completes is given a text
\* if it brought nothing but thinking.
THEOREM EndOfUse == Spec => []EndIsOfUse
<1>1. StreamInv => EndIsOfUse
  <2> SUFFICES ASSUME StreamInv, stage = "stopped" PROVE EndIsOfUse
    BY DEF EndIsOfUse
  <2>1. PICK reason \in {"end_turn", "tool_use"} :
           /\ Finished(Client, b, reason)
           /\ phase = "recovered" /\ reason = "tool_use" =>
                 \A c \in Started(b) : b.tool[c].sent = "whole"
    BY AtTheEnd
  <2>2. /\ got.reason = reason
        /\ \A c \in Calls : got.input[c] = InputOf(b, c)
        /\ b.text # NoIndex => "text" \in got.kinds
        /\ Started(b) # {} => "tool_use" \in got.kinds
    BY <2>1 DEF Finished, Client
  <2>3. ASSUME phase = "recovered", got.reason = "tool_use", NEW c \in Calls
        PROVE  got.input[c] \in {"none", "whole"}
    BY <2>1, <2>2, <2>3 DEF InputOf, Started
  <2>4. ASSUME phase = "completed"
        PROVE  got.kinds \cap {"text", "tool_use"} # {}
    <3>1. b.text # NoIndex \/ Started(b) # {}
      BY <2>4 DEF StreamInv, OverInv, Ended
    <3> QED
      BY <2>2, <3>1
  <2> QED
    BY <2>3, <2>4 DEF EndIsOfUse
<1> QED
  BY <1>1, StreamAlways, PTL

\* The types of the variables, with the builder's next index and the attempt within
\* their bounds.
THEOREM StreamTypeCorrect == Spec => []TypeOK
<1>1. StreamInv => TypeOK
  BY DEF StreamInv, TypeInv
<1> QED
  BY <1>1, StreamAlways, PTL

-----------------------------------------------------------------------------
(***************************************************************************)
(* The message that the client sees.                                       *)
(***************************************************************************)

\* The next event on its way is legal.
LEMMA NextAllowed ==
    ASSUME StreamInv, out # <<>>
    PROVE  Head(out).event \in Events /\ Allowed(Client, Head(out).event)
<1>1. TypeInv /\ TypeOK
  BY DEF StreamInv, TypeInv
<1>2. out \in Seq(Items)
  BY <1>1 DEF TypeInv
<1>3. PICK w : Toward(Client, out, w)
  <2>1. CASE phase \in {"new", "gone"}
    BY <2>1 DEF StreamInv, NewInv, GoneInv
  <2>2. CASE phase \in {"connect", "reading"}
    BY <2>2 DEF StreamInv, OnInv, OnTheWay
  <2>3. CASE phase \in Ended
    BY <2>3 DEF StreamInv, OverInv
  <2> QED
    BY <1>1, <2>1, <2>2, <2>3 DEF TypeOK, Phases
<1>4. Head(out) \in Items /\ Allowed(Client, Head(out).event)
  BY <1>2, <1>3, TowardRest
<1> QED
  BY <1>4 DEF Items

\* To see a legal event is a step of the message.
LEMMA LegalSeen ==
    ASSUME NEW e \in Events, Allowed(Client, e), See(e)
    PROVE  M!MessageNext
<1>0. /\ Client.stage = stage /\ Client.open = open /\ Client.used = used
  BY DEF Client
<1>1. CASE e.type = "message_start"
  <2>1. M!MessageStart
    BY <1>0, <1>1 DEF Allowed, See, M!MessageStart
  <2> QED
    BY <2>1 DEF M!MessageNext
<1>2. CASE e.type = "start"
  <2>1. e.index \in Indexes \ used /\ e.kind \in Kinds /\ stage = "body"
    BY <1>0, <1>2 DEF Allowed
  <2>2. M!BlockStart(e.index, e.kind)
    BY <1>2, <2>1 DEF See, M!BlockStart
  <2> QED
    BY <2>1, <2>2 DEF M!MessageNext, Indexes, Kinds
<1>3. CASE e.type = "delta"
  <2>1. /\ e.index \in Indexes /\ e.index \in DOMAIN open /\ open[e.index] = e.kind
        /\ e.kind \in Kinds /\ stage = "body"
    BY <1>0, <1>3 DEF Allowed
  <2>2. M!BlockDelta(e.index, e.kind)
    BY <1>3, <2>1 DEF See, M!BlockDelta
  <2> QED
    BY <2>1, <2>2 DEF M!MessageNext, Indexes, Kinds
<1>4. CASE e.type = "stop"
  <2>1. e.index \in Indexes /\ e.index \in DOMAIN open /\ stage = "body"
    BY <1>0, <1>4 DEF Allowed
  <2>2. M!BlockStop(e.index)
    BY <1>4, <2>1 DEF See, M!BlockStop
  <2> QED
    BY <2>1, <2>2 DEF M!MessageNext, Indexes
<1>5. CASE e.type = "error"
  <2>1. M!ErrorEvent
    BY <1>0, <1>5 DEF Allowed, See, M!ErrorEvent
  <2> QED
    BY <2>1 DEF M!MessageNext
<1>6. CASE e.type = "message_delta"
  <2>1. M!MessageDelta
    BY <1>0, <1>6 DEF Allowed, See, M!MessageDelta
  <2> QED
    BY <2>1 DEF M!MessageNext
<1>7. CASE e.type = "message_stop"
  <2>1. M!MessageStop
    BY <1>0, <1>7 DEF Allowed, See, M!MessageStop
  <2> QED
    BY <2>1 DEF M!MessageNext
<1> QED
  BY <1>1, <1>2, <1>3, <1>4, <1>5, <1>6, <1>7 DEF Events

\* Only a delivery changes what the client has seen.
LEMMA OnlyDelivered ==
    ASSUME [Next]_vars
    PROVE  Deliver \/ UNCHANGED clientVars
<1>1. Runner => UNCHANGED clientVars
  BY DEF Runner, Begin, Connect, Tag, Reasoning, TaggedThinking, TextCall, FinishReason,
         ConnectFails, StreamFails, Complete, Text, ToolChunk, Fail, Content, Read
<1>2. Disconnect => UNCHANGED clientVars
  BY DEF Disconnect
<1>3. UNCHANGED vars => UNCHANGED clientVars
  BY DEF vars
<1> QED
  BY <1>1, <1>2, <1>3 DEF Next

\* Contract: the runner with its holdback buffer, early retries, recoveries and error
\* tails implements Message, what stream_contracts.py asserts of one answer: every
\* step is one event of a well-formed message or none.
THEOREM MessageImplemented == Spec => Contract
<1>1. Init => M!MessageInit
  BY DEF Init
<1>2. StreamInv /\ [Next]_vars => [M!MessageNext]_(M!messageVars)
  <2> SUFFICES ASSUME StreamInv, [Next]_vars
               PROVE  M!MessageNext \/ UNCHANGED M!messageVars
    OBVIOUS
  <2>1. CASE Deliver
    <3>1. out # <<>> /\ See(Head(out).event)
      BY <2>1 DEF Deliver
    <3> QED
      BY <3>1, NextAllowed, LegalSeen
  <2>2. CASE UNCHANGED clientVars
    BY <2>2 DEF clientVars, M!messageVars
  <2> QED
    BY <2>1, <2>2, OnlyDelivered
<1> QED
  BY <1>1, <1>2, StreamAlways, PTL DEF Spec, Contract, M!MessageSpec
=============================================================================
