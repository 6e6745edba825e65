---------------------------- MODULE ExchangeProofs ----------------------------
(***************************************************************************)
(* Proofs about an exchange: what a native provider is sent of a history,  *)
(* and that what the client is given of the answer is of one attempt.      *)
(*                                                                         *)
(* The converters are functions over sequences.  Induction is done over    *)
(* sets: a set of sequences that has the empty one, and with any sequence  *)
(* every longer one, has them all.  So it is with the events that an       *)
(* answer becomes: what a block was given is collected over them, and the  *)
(* tracker observes them one after the other.                              *)
(***************************************************************************)
EXTENDS Exchange, SequenceLemmas, FiniteSetTheorems

-----------------------------------------------------------------------------
(***************************************************************************)
(* The blocks of some types.                                               *)
(***************************************************************************)

\* f collects the blocks of s that have a type of T, one block after the other.
Collects(f, s, T) ==
    f = [n \in 0 .. Len(s) |->
            IF n = 0 THEN <<>>
            ELSE IF s[n].type \in T THEN Append(f[n - 1], s[n]) ELSE f[n - 1]]

\* The same as facts about each value.
CollectsEach(f, s, T) ==
    /\ f[0] = <<>>
    /\ \A n \in 1 .. Len(s) :
          f[n] = IF s[n].type \in T THEN Append(f[n - 1], s[n]) ELSE f[n - 1]

\* There is such a function, and OfType is its last value.
LEMMA OfTypeCollects ==
    ASSUME NEW B, NEW s \in Seq(B), NEW T
    PROVE  \E f \in [0 .. Len(s) -> Seq(B)] : CollectsEach(f, s, T) /\ OfType(s, T) = f[Len(s)]
<1> DEFINE L == Len(s)
           step == [n \in 1 .. L |-> [t \in Seq(B) |-> IF s[n].type \in T THEN Append(t, s[n]) ELSE t]]
<1>1. L \in Nat /\ <<>> \in Seq(B)
  BY EmptySeq
<1>2. step \in [1 .. L -> [Seq(B) -> Seq(B)]]
  <2>1. ASSUME NEW n \in 1 .. L, NEW t \in Seq(B)
        PROVE  Append(t, s[n]) \in Seq(B)
    <3>1. s[n] \in B
      OBVIOUS
    <3> QED BY <3>1, AppendProperties
  <2> QED BY <2>1
<1>3. \E h \in [0 .. L -> Seq(B)] : h[0] = <<>> /\ \A n \in 1 .. L : h[n] = step[n][h[n - 1]]
  <2> DEFINE V == Seq(B)
             b == <<>>
  <2>1. L \in Nat /\ b \in V /\ step \in [1 .. L -> [V -> V]]
    BY <1>1, <1>2
  <2> HIDE DEF step, L, V, b
  <2>2. \E h : Recursive(h, V, L, b, step)
    BY <2>1, RecursionExists
  <2> QED BY <2>2 DEF V, b, Recursive
<1>4. PICK h \in [0 .. L -> Seq(B)] : h[0] = <<>> /\ \A n \in 1 .. L : h[n] = step[n][h[n - 1]]
  BY <1>3
<1>5. \A n \in 1 .. L : n - 1 \in 0 .. L /\ n \in 0 .. L /\ n # 0
  BY <1>1
<1>6. \A n \in 1 .. L : h[n] = IF s[n].type \in T THEN Append(h[n - 1], s[n]) ELSE h[n - 1]
  BY <1>4, <1>5
<1>7. Collects(h, s, T)
  <2>1. \A n \in 0 .. L : n = 0 \/ n \in 1 .. L
    BY <1>1
  <2> HIDE DEF step
  <2> QED BY <1>4, <1>6, <2>1 DEF Collects
<1> DEFINE f == CHOOSE g : Collects(g, s, T)
<1>8. Collects(f, s, T)
  BY <1>7
<1>9. OfType(s, T) = f[L]
  BY DEF OfType, Collects
<1> HIDE DEF f, L
<1>10. \A n \in 0 .. L : f[n] = IF n = 0 THEN <<>>
                                ELSE IF s[n].type \in T THEN Append(f[n - 1], s[n]) ELSE f[n - 1]
  BY <1>8 DEF Collects, L
<1>11. f[0] = <<>>
  <2>1. 0 \in 0 .. L
    BY <1>1
  <2> QED BY <1>10, <2>1
<1>12. \A n \in 1 .. L : f[n] = IF s[n].type \in T THEN Append(f[n - 1], s[n]) ELSE f[n - 1]
  BY <1>5, <1>10
<1> DEFINE S == {n \in Nat : n <= L => f[n] = h[n]}
<1>13. 0 \in S
  BY <1>4, <1>11
<1>14. ASSUME NEW n \in Nat, n \in S PROVE n + 1 \in S
  <2> SUFFICES ASSUME n + 1 <= L PROVE f[n + 1] = h[n + 1]
    OBVIOUS
  <2>1. n + 1 \in 1 .. L /\ (n + 1) - 1 = n /\ n <= L
    BY <1>1
  <2>2. f[n] = h[n]
    BY <1>14, <2>1
  <2> QED BY <1>6, <1>12, <2>1, <2>2
<1>15. \A n \in Nat : n \in S
  <2> HIDE DEF S
  <2> QED BY <1>13, <1>14, NumberInduction
<1>16. f[L] = h[L] /\ L \in 0 .. L
  BY <1>1, <1>15
<1>17. CollectsEach(h, s, T) /\ OfType(s, T) = h[L]
  BY <1>4, <1>6, <1>9, <1>16 DEF CollectsEach, L
<1> QED BY <1>17 DEF L

\* Of no block there is none, and of one more there is one more if its type fits.
LEMMA OfTypeUnfolds ==
    ASSUME NEW B, NEW s \in Seq(B), NEW e \in B, NEW T
    PROVE  /\ OfType(<<>>, T) = <<>>
           /\ OfType(s, T) \in Seq(B)
           /\ OfType(Append(s, e), T) = IF e.type \in T THEN Append(OfType(s, T), e)
                                        ELSE OfType(s, T)
<1>1. <<>> \in Seq(B) /\ Len(<<>>) = 0 /\ Len(s) \in Nat
  BY EmptySeq
<1>2. OfType(<<>>, T) = <<>>
  <2>1. PICK f : CollectsEach(f, <<>>, T) /\ OfType(<<>>, T) = f[Len(<<>>)]
    BY <1>1, OfTypeCollects
  <2> QED BY <1>1, <2>1 DEF CollectsEach
<1> DEFINE t == Append(s, e)
<1>3. t \in Seq(B) /\ Len(t) = Len(s) + 1 /\ (\A i \in 1 .. Len(s) : t[i] = s[i]) /\ t[Len(s) + 1] = e
  BY AppendProperties
<1> HIDE DEF t
<1>4. PICK f \in [0 .. Len(s) -> Seq(B)] : CollectsEach(f, s, T) /\ OfType(s, T) = f[Len(s)]
  BY OfTypeCollects
<1>5. PICK g : CollectsEach(g, t, T) /\ OfType(t, T) = g[Len(t)]
  BY <1>3, OfTypeCollects
<1> DEFINE S == {n \in Nat : n <= Len(s) => f[n] = g[n]}
<1>6. 0 \in S
  BY <1>4, <1>5 DEF CollectsEach
<1>7. ASSUME NEW n \in Nat, n \in S PROVE n + 1 \in S
  <2> SUFFICES ASSUME n + 1 <= Len(s) PROVE f[n + 1] = g[n + 1]
    OBVIOUS
  <2>1. n + 1 \in 1 .. Len(s) /\ n + 1 \in 1 .. Len(t) /\ (n + 1) - 1 = n /\ n <= Len(s)
    BY <1>1, <1>3
  <2>2. f[n] = g[n] /\ t[n + 1] = s[n + 1]
    BY <1>3, <1>7, <2>1
  <2>3. f[n + 1] = IF s[n + 1].type \in T THEN Append(f[n], s[n + 1]) ELSE f[n]
    BY <1>4, <2>1 DEF CollectsEach
  <2>4. g[n + 1] = IF t[n + 1].type \in T THEN Append(g[n], t[n + 1]) ELSE g[n]
    BY <1>5, <2>1 DEF CollectsEach
  <2> QED BY <2>2, <2>3, <2>4
<1>8. \A n \in Nat : n \in S
  <2> HIDE DEF S
  <2> QED BY <1>6, <1>7, NumberInduction
<1>9. f[Len(s)] = g[Len(s)]
  BY <1>1, <1>8
<1>10. g[Len(s) + 1] = IF e.type \in T THEN Append(g[Len(s)], e) ELSE g[Len(s)]
  <2>1. Len(s) + 1 \in 1 .. Len(t) /\ (Len(s) + 1) - 1 = Len(s)
    BY <1>1, <1>3
  <2> QED BY <1>3, <1>5, <2>1 DEF CollectsEach
<1>11. f[Len(s)] \in Seq(B)
  BY <1>1, <1>4
<1>12. OfType(t, T) = g[Len(s) + 1]
  BY <1>3, <1>5
<1> QED BY <1>2, <1>4, <1>9, <1>10, <1>11, <1>12 DEF t

\* All that is collected has one of the types.
LEMMA OfTypeFits ==
    ASSUME NEW B, NEW s \in Seq(B), NEW T
    PROVE  OfType(s, T) \in Seq({b \in B : b.type \in T})
<1> DEFINE C == {b \in B : b.type \in T}
           P == {u \in Seq(B) : OfType(u, T) \in Seq(C)}
<1>1. <<>> \in Seq(B) /\ <<>> \in Seq(C) /\ (B # {} => OfType(<<>>, T) = <<>>)
  BY EmptySeq, OfTypeUnfolds
<1>2. CASE B = {}
  <2>1. s = <<>>
    BY <1>2, EmptySeq
  <2>2. OfType(<<>>, T) = <<>>
    <3>1. <<>> \in Seq({1}) /\ 1 \in {1}
      BY EmptySeq
    <3> QED BY <3>1, OfTypeUnfolds
  <2> QED BY <1>1, <2>1, <2>2
<1>3. CASE B # {}
  <2>1. <<>> \in P
    BY <1>1, <1>3
  <2>2. ASSUME NEW u \in Seq(B), NEW e \in B, u \in P PROVE Append(u, e) \in P
    <3>1. Append(u, e) \in Seq(B)
      BY AppendProperties
    <3>2. OfType(Append(u, e), T) \in Seq(C)
      <4>1. CASE e.type \in T
        <5>1. e \in C /\ OfType(u, T) \in Seq(C)
          BY <2>2, <4>1
        <5>2. Append(OfType(u, T), e) \in Seq(C)
          <6> HIDE DEF C
          <6> QED BY <5>1, AppendProperties
        <5>3. OfType(Append(u, e), T) = Append(OfType(u, T), e)
          BY <4>1, OfTypeUnfolds
        <5> HIDE DEF C
        <5> QED BY <5>2, <5>3
      <4>2. CASE e.type \notin T
        BY <2>2, <4>2, OfTypeUnfolds
      <4> QED BY <4>1, <4>2
    <3> QED BY <3>1, <3>2
  <2>3. s \in P
    <3> HIDE DEF P
    <3> QED BY <2>1, <2>2, SequenceInduction
  <2> QED BY <2>3
<1> QED BY <1>2, <1>3

\* Who collects from what was collected gets what he would have got at first.
LEMMA OfTypeWithin ==
    ASSUME NEW B, NEW s \in Seq(B), NEW A, NEW T, \A b \in B : b.type \in T => b.type \in A
    PROVE  OfType(OfType(s, A), T) = OfType(s, T)
<1> DEFINE P == {u \in Seq(B) : OfType(OfType(u, A), T) = OfType(u, T)}
<1>1. <<>> \in P
  <2>1. <<>> \in Seq({1}) /\ 1 \in {1} /\ <<>> \in Seq(B)
    BY EmptySeq
  <2>2. OfType(<<>>, A) = <<>> /\ OfType(<<>>, T) = <<>>
    BY <2>1, OfTypeUnfolds
  <2> QED BY <2>1, <2>2
<1>2. ASSUME NEW u \in Seq(B), NEW e \in B, u \in P PROVE Append(u, e) \in P
  <2>1. Append(u, e) \in Seq(B)
    BY AppendProperties
  <2>2. OfType(u, A) \in Seq(B) /\ OfType(OfType(u, A), T) = OfType(u, T)
    BY <1>2, OfTypeUnfolds
  <2>3. CASE e.type \in A
    <3>1. OfType(Append(u, e), A) = Append(OfType(u, A), e)
      BY <2>3, OfTypeUnfolds
    <3>2. OfType(Append(OfType(u, A), e), T) = IF e.type \in T THEN Append(OfType(OfType(u, A), T), e)
                                               ELSE OfType(OfType(u, A), T)
      <4> DEFINE v == OfType(u, A)
      <4>1. v \in Seq(B)
        BY <2>2
      <4> HIDE DEF v
      <4>2. OfType(Append(v, e), T) = IF e.type \in T THEN Append(OfType(v, T), e) ELSE OfType(v, T)
        BY <4>1, OfTypeUnfolds
      <4> QED BY <4>2 DEF v
    <3>3. OfType(Append(u, e), T) = IF e.type \in T THEN Append(OfType(u, T), e) ELSE OfType(u, T)
      BY OfTypeUnfolds
    <3> QED BY <2>1, <2>2, <3>1, <3>2, <3>3
  <2>4. CASE e.type \notin A
    <3>1. OfType(Append(u, e), A) = OfType(u, A) /\ e.type \notin T
      BY <2>4, OfTypeUnfolds
    <3>2. OfType(Append(u, e), T) = OfType(u, T)
      BY <3>1, OfTypeUnfolds
    <3> QED BY <2>1, <2>2, <3>1, <3>2
  <2> QED BY <2>3, <2>4
<1>3. s \in P
  <2> HIDE DEF P
  <2> QED BY <1>1, <1>2, SequenceInduction
<1> QED BY <1>3

\* Each block of such a type is collected, and two of them stay in their order.
Keeps(u, t, T) ==
    /\ \A i \in DOMAIN u : u[i].type \in T => \E k \in DOMAIN t : t[k] = u[i]
    /\ \A i, j \in DOMAIN u : u[i].type \in T /\ u[j].type \in T /\ i < j =>
          \E k, l \in DOMAIN t : k < l /\ t[k] = u[i] /\ t[l] = u[j]

\* OfType loses no block of the types and disorders none.
LEMMA OfTypeKeeps ==
    ASSUME NEW B, NEW s \in Seq(B), NEW T
    PROVE  Keeps(s, OfType(s, T), T)
<1> DEFINE P == {u \in Seq(B) : Keeps(u, OfType(u, T), T)}
<1>1. <<>> \in P
  <2>1. <<>> \in Seq(B) /\ DOMAIN <<>> = {}
    BY EmptySeq
  <2> QED BY <2>1 DEF Keeps
<1>2. ASSUME NEW u \in Seq(B), NEW e \in B, u \in P PROVE Append(u, e) \in P
  <2> DEFINE v == Append(u, e)
             t == OfType(u, T)
             w == OfType(v, T)
  <2>1. /\ v \in Seq(B) /\ Len(v) = Len(u) + 1 /\ (\A i \in 1 .. Len(u) : v[i] = u[i])
        /\ v[Len(u) + 1] = e /\ Len(u) \in Nat
    BY AppendProperties
  <2>2. t \in Seq(B) /\ w = IF e.type \in T THEN Append(t, e) ELSE t
    BY OfTypeUnfolds
  <2>3. Keeps(u, t, T)
    BY <1>2
  <2> HIDE DEF v, t, w
  <2>4. /\ Len(t) \in Nat /\ DOMAIN t = 1 .. Len(t)
        /\ DOMAIN u = 1 .. Len(u) /\ DOMAIN v = 1 .. (Len(u) + 1)
    BY <2>1, <2>2
  <2>5. \A k \in DOMAIN t : k \in DOMAIN w /\ w[k] = t[k]
    <3>1. CASE e.type \in T
      <4>1. w = Append(t, e)
        BY <2>2, <3>1
      <4>2. Len(w) = Len(t) + 1 /\ (\A i \in 1 .. Len(t) : w[i] = t[i]) /\ w \in Seq(B)
        BY <2>2, <4>1, AppendProperties
      <4> QED BY <2>4, <4>2
    <3>2. CASE e.type \notin T
      BY <2>2, <3>2
    <3> QED BY <3>1, <3>2
  <2>6. e.type \in T => Len(t) + 1 \in DOMAIN w /\ w[Len(t) + 1] = e
    <3> SUFFICES ASSUME e.type \in T PROVE Len(t) + 1 \in DOMAIN w /\ w[Len(t) + 1] = e
      OBVIOUS
    <3>1. w = Append(t, e)
      BY <2>2
    <3>2. Len(w) = Len(t) + 1 /\ w[Len(t) + 1] = e /\ w \in Seq(B)
      BY <2>2, <3>1, AppendProperties
    <3> QED BY <2>4, <3>2
  <2>7. \A i \in DOMAIN v : (i \in DOMAIN u /\ v[i] = u[i]) \/ (i = Len(u) + 1 /\ v[i] = e)
    BY <2>1, <2>4
  <2>8. \A i \in DOMAIN v : v[i].type \in T => \E k \in DOMAIN w : w[k] = v[i]
    BY <2>3, <2>5, <2>6, <2>7 DEF Keeps
  <2>9. ASSUME NEW i \in DOMAIN v, NEW j \in DOMAIN v, v[i].type \in T, v[j].type \in T, i < j
        PROVE  \E k, l \in DOMAIN w : k < l /\ w[k] = v[i] /\ w[l] = v[j]
    <3>1. i \in DOMAIN u /\ v[i] = u[i]
      BY <2>4, <2>7, <2>9
    <3>2. CASE j \in DOMAIN u /\ v[j] = u[j]
      <4>1. PICK k, l \in DOMAIN t : k < l /\ t[k] = u[i] /\ t[l] = u[j]
        BY <2>3, <2>9, <3>1, <3>2 DEF Keeps
      <4> QED BY <2>5, <3>1, <3>2, <4>1
    <3>3. CASE j = Len(u) + 1 /\ v[j] = e
      <4>1. PICK k \in DOMAIN t : t[k] = u[i]
        BY <2>3, <2>9, <3>1 DEF Keeps
      <4>2. k \in DOMAIN w /\ w[k] = v[i] /\ k < Len(t) + 1
        BY <2>4, <2>5, <3>1, <4>1
      <4>3. Len(t) + 1 \in DOMAIN w /\ w[Len(t) + 1] = v[j]
        BY <2>6, <2>9, <3>3
      <4> QED BY <4>2, <4>3
    <3> QED BY <2>7, <3>2, <3>3
  <2>10. Keeps(v, w, T)
    BY <2>8, <2>9 DEF Keeps
  <2> QED BY <2>1, <2>10 DEF v, w
<1>3. s \in P
  <2> HIDE DEF P
  <2> QED BY <1>1, <1>2, SequenceInduction
<1> QED BY <1>3

\* What is collected comes from there, and nothing is collected if nothing fits.
LEMMA OfTypeEmpty ==
    ASSUME NEW B, NEW s \in Seq(B), NEW T
    PROVE  OfType(s, T) = <<>> <=> \A i \in DOMAIN s : s[i].type \notin T
<1> DEFINE P == {u \in Seq(B) : (\A i \in DOMAIN u : u[i].type \notin T) => OfType(u, T) = <<>>}
<1>1. <<>> \in P
  <2>1. <<>> \in Seq({1}) /\ 1 \in {1} /\ <<>> \in Seq(B)
    BY EmptySeq
  <2>2. OfType(<<>>, T) = <<>>
    BY <2>1, OfTypeUnfolds
  <2> QED BY <2>1, <2>2
<1>2. ASSUME NEW u \in Seq(B), NEW e \in B, u \in P PROVE Append(u, e) \in P
  <2> DEFINE v == Append(u, e)
  <2>1. /\ v \in Seq(B) /\ Len(v) = Len(u) + 1 /\ (\A i \in 1 .. Len(u) : v[i] = u[i])
        /\ v[Len(u) + 1] = e /\ Len(u) \in Nat
    BY AppendProperties
  <2> HIDE DEF v
  <2>2. DOMAIN v = 1 .. (Len(u) + 1) /\ DOMAIN u = 1 .. Len(u)
    BY <2>1
  <2>3. ASSUME \A i \in DOMAIN v : v[i].type \notin T PROVE OfType(v, T) = <<>>
    <3>1. \A i \in DOMAIN u : u[i].type \notin T
      BY <2>1, <2>2, <2>3
    <3>2. OfType(u, T) = <<>>
      BY <1>2, <3>1
    <3>3. e.type \notin T
      BY <2>1, <2>2, <2>3
    <3> QED BY <3>2, <3>3, OfTypeUnfolds DEF v
  <2> QED BY <2>1, <2>3 DEF v
<1>3. s \in P
  <2> HIDE DEF P
  <2> QED BY <1>1, <1>2, SequenceInduction
<1>4. ASSUME NEW i \in DOMAIN s, s[i].type \in T PROVE OfType(s, T) # <<>>
  <2>1. \E k \in DOMAIN OfType(s, T) : TRUE
    BY <1>4, OfTypeKeeps DEF Keeps
  <2> QED BY <2>1
<1> QED BY <1>3, <1>4

-----------------------------------------------------------------------------
(***************************************************************************)
(* The messages of a history.                                              *)
(***************************************************************************)

Blk == [type : BlockTypes, id : Nat]
Texts == {bl \in Blk : bl.type = "text"}
UserBlocks == {bl \in Blk : bl.type \in {"text", "tool_result"} \cup Attachments}
AnswerBlocks == {bl \in Blk : bl.type \in {"text", "tool_use"} \cup Thoughts}

SomeMessages == [role : {"user", "assistant", "system"}, blocks : Seq(Blk), plain : BOOLEAN,
              reasoning : Seq(Nat)]

\* A message of the user has a block, and what a role may say is known.
Fits(m) ==
    /\ m.role = "user" => m.blocks \in Seq(UserBlocks) /\ m.blocks # <<>>
    /\ m.role = "assistant" => m.blocks \in Seq(AnswerBlocks)
    /\ m.plain => m.blocks \in Seq(Texts)

Fitting == {m \in SomeMessages : Fits(m)}
Chatting == {m \in Fitting : m.role # "system"}

Items == [type : {"user", "developer", "assistant", "reasoning", "call", "output"}, id : Nat]

\* A history is one of the Messages API or one of the Responses API.
HistoryInv ==
    \/ client = "messages" /\ history \in Seq(Fitting)
    \/ client = "responses" /\ history \in Seq(Items)

\* f collects the messages of ms that are not of the system.
Leaves(f, ms) ==
    f = [n \in 0 .. Len(ms) |->
            IF n = 0 THEN <<>>
            ELSE IF ms[n].role # "system" THEN Append(f[n - 1], ms[n]) ELSE f[n - 1]]

\* The messages of the system are left out.
LEMMA ConversedFits ==
    ASSUME NEW ms \in Seq(Fitting)
    PROVE  Conversed(ms) \in Seq(Chatting)
<1> DEFINE L == Len(ms)
           V == Seq(Chatting)
           step == [n \in 1 .. L |-> [t \in V |->
                       IF ms[n].role # "system" THEN Append(t, ms[n]) ELSE t]]
           b == <<>>
<1>1. L \in Nat /\ b \in V
  BY EmptySeq
<1>2. \A n \in 1 .. L : ms[n].role # "system" => ms[n] \in Chatting
  BY DEF Chatting
<1>3. \A n \in 1 .. L : \A t \in V : ms[n].role # "system" => Append(t, ms[n]) \in V
  BY <1>2, AppendProperties
<1>4. step \in [1 .. L -> [V -> V]]
  <2> HIDE DEF V
  <2> QED BY <1>3
<1>5. \E h : Recursive(h, V, L, b, step)
  <2> HIDE DEF V, L, b, step
  <2> QED BY <1>1, <1>4, RecursionExists
<1>6. PICK h : Recursive(h, V, L, b, step)
  BY <1>5
<1>7. \A n \in 1 .. L : n - 1 \in 0 .. L /\ n \in 0 .. L /\ n # 0
  BY <1>1
<1>8. /\ h \in [0 .. L -> V] /\ h[0] = <<>>
      /\ \A n \in 1 .. L : h[n] = IF ms[n].role # "system" THEN Append(h[n - 1], ms[n]) ELSE h[n - 1]
  <2> HIDE DEF V
  <2> QED BY <1>6, <1>7 DEF Recursive
<1>9. Leaves(h, ms)
  <2>1. \A n \in 0 .. L : n = 0 \/ n \in 1 .. L
    BY <1>1
  <2> HIDE DEF V
  <2> QED BY <1>8, <2>1 DEF Leaves
<1> DEFINE f == CHOOSE g : Leaves(g, ms)
<1>10. Leaves(f, ms)
  BY <1>9
<1>11. Conversed(ms) = f[L]
  BY DEF Conversed, Leaves
<1> HIDE DEF f, L, V, step
<1>12. \A n \in 0 .. L : f[n] = IF n = 0 THEN <<>>
                                ELSE IF ms[n].role # "system" THEN Append(f[n - 1], ms[n]) ELSE f[n - 1]
  BY <1>10 DEF Leaves, L
<1> DEFINE S == {n \in Nat : n <= L => f[n] \in V}
<1>13. 0 \in S
  <2>1. 0 \in 0 .. L
    BY <1>1
  <2> QED BY <1>1, <1>12, <2>1
<1>14. ASSUME NEW n \in Nat, n \in S PROVE n + 1 \in S
  <2> SUFFICES ASSUME n + 1 <= L PROVE f[n + 1] \in V
    OBVIOUS
  <2>1. n + 1 \in 1 .. L /\ (n + 1) - 1 = n /\ n <= L /\ n + 1 \in 0 .. L /\ n + 1 # 0
    BY <1>1
  <2>2. f[n] \in V
    BY <1>14, <2>1
  <2>3. f[n + 1] = IF ms[n + 1].role # "system" THEN Append(f[n], ms[n + 1]) ELSE f[n]
    BY <1>12, <2>1
  <2> QED BY <1>3, <2>1, <2>2, <2>3
<1>15. \A n \in Nat : n \in S
  <2> HIDE DEF S
  <2> QED BY <1>13, <1>14, NumberInduction
<1>16. f[L] \in V
  BY <1>1, <1>15
<1> QED BY <1>11, <1>16 DEF V

\* What the items of a Responses client have become so far.
Accs == [out : Seq(Chatting), reasoning : Seq(Nat), system : Seq(Blk)]

\* A message with one block, or one of reasoning alone.
LEMMA MadeMessages ==
    ASSUME NEW n \in Nat, NEW r \in Seq(Nat)
    PROVE  /\ [Message("assistant", <<Block("text", n)>>) EXCEPT !.reasoning = r] \in Chatting
           /\ [Message("assistant", <<Block("tool_use", n)>>) EXCEPT !.reasoning = r] \in Chatting
           /\ Message("user", <<Block("tool_result", n)>>) \in Chatting
           /\ Message("user", <<Block("text", n)>>) \in Chatting
           /\ [Plain("assistant", <<>>) EXCEPT !.reasoning = r] \in Chatting
           /\ Block("text", n) \in Blk
<1>1. /\ Block("text", n) \in Blk /\ Block("tool_use", n) \in Blk /\ Block("tool_result", n) \in Blk
      /\ Block("text", n).type = "text" /\ Block("tool_use", n).type = "tool_use"
      /\ Block("tool_result", n).type = "tool_result"
  BY DEF Block, Blk, BlockTypes
<1>2. ASSUME NEW S, NEW e \in S PROVE <<e>> \in Seq(S) /\ <<e>> # <<>>
  BY <1>2
<1>3. /\ Block("text", n) \in UserBlocks /\ Block("text", n) \in AnswerBlocks
      /\ Block("tool_use", n) \in AnswerBlocks /\ Block("tool_result", n) \in UserBlocks
  BY <1>1 DEF UserBlocks, AnswerBlocks
<1> DEFINE a == Block("text", n)
           c == Block("tool_use", n)
           d == Block("tool_result", n)
<1>4. /\ <<a>> \in Seq(Blk) /\ <<c>> \in Seq(Blk) /\ <<d>> \in Seq(Blk)
      /\ <<a>> \in Seq(UserBlocks) /\ <<d>> \in Seq(UserBlocks)
      /\ <<a>> \in Seq(AnswerBlocks) /\ <<c>> \in Seq(AnswerBlocks)
      /\ <<a>> # <<>> /\ <<d>> # <<>>
  <2> HIDE DEF a, c, d
  <2> QED BY <1>1, <1>2, <1>3 DEF a, c, d
<1> HIDE DEF a, c, d
<1>5. <<>> \in Seq(Nat) /\ <<>> \in Seq(Blk) /\ <<>> \in Seq(AnswerBlocks) /\ <<>> \in Seq(Texts)
  BY EmptySeq
<1>6. ASSUME NEW role \in {"user", "assistant"}, NEW bls \in Seq(Blk), NEW q \in Seq(Nat),
             role = "user" => bls \in Seq(UserBlocks) /\ bls # <<>>,
             role = "assistant" => bls \in Seq(AnswerBlocks)
      PROVE  /\ Message(role, bls) \in Chatting
             /\ [Message(role, bls) EXCEPT !.reasoning = q] \in Chatting
  BY <1>5, <1>6 DEF Message, Chatting, Fitting, Fits, SomeMessages
<1>7. [Plain("assistant", <<>>) EXCEPT !.reasoning = r] \in Chatting
  <2> DEFINE e == <<>>
  <2>1. e \in Seq(Blk) /\ e \in Seq(AnswerBlocks) /\ e \in Seq(Texts) /\ <<>> \in Seq(Nat)
    BY <1>5
  <2> HIDE DEF e
  <2>2. [Plain("assistant", e) EXCEPT !.reasoning = r] \in Chatting
    BY <2>1 DEF Plain, Message, Chatting, Fitting, Fits, SomeMessages
  <2> QED BY <2>2 DEF e
<1> QED BY <1>1, <1>4, <1>6, <1>7 DEF a, c, d

\* A step of the items keeps the accumulator's type.
LEMMA AppendItemFits ==
    ASSUME NEW acc \in Accs, NEW item \in Items
    PROVE  AppendItem(acc, item) \in Accs
<1> DEFINE out == acc.out
           r == acc.reasoning
           n == item.id
           ms == Reasoned(acc)
<1>1. out \in Seq(Chatting) /\ r \in Seq(Nat) /\ acc.system \in Seq(Blk) /\ n \in Nat
      /\ acc = [out |-> out, reasoning |-> r, system |-> acc.system] /\ <<>> \in Seq(Nat)
  BY EmptySeq DEF Accs, Items
<1>2. \A m \in Chatting : \A t \in Seq(Chatting) : Append(t, m) \in Seq(Chatting)
  BY AppendProperties
<1>3. ms \in Seq(Chatting)
  <2>1. [Plain("assistant", <<>>) EXCEPT !.reasoning = r] \in Chatting
    BY <1>1, MadeMessages
  <2> QED BY <1>1, <1>2, <2>1 DEF Reasoned
<1>4. Append(acc.system, Block("text", n)) \in Seq(Blk) /\ Append(r, n) \in Seq(Nat)
  BY <1>1, MadeMessages, AppendProperties
<1>5. /\ Append(out, [Message("assistant", <<Block("text", n)>>) EXCEPT !.reasoning = r]) \in Seq(Chatting)
      /\ Append(out, [Message("assistant", <<Block("tool_use", n)>>) EXCEPT !.reasoning = r]) \in Seq(Chatting)
      /\ Append(ms, Message("user", <<Block("tool_result", n)>>)) \in Seq(Chatting)
      /\ Append(ms, Message("user", <<Block("text", n)>>)) \in Seq(Chatting)
  <2> HIDE DEF ms, out, r
  <2> QED BY <1>1, <1>2, <1>3, MadeMessages
<1>6. ASSUME NEW o \in Seq(Chatting), NEW q \in Seq(Nat), NEW y \in Seq(Blk)
      PROVE  [out |-> o, reasoning |-> q, system |-> y] \in Accs
  BY DEF Accs
<1>7. CASE item.type = "reasoning"
  <2>1. AppendItem(acc, item) = [acc EXCEPT !.reasoning = Append(r, n)]
    BY <1>7 DEF AppendItem
  <2>2. AppendItem(acc, item) = [out |-> out, reasoning |-> Append(r, n), system |-> acc.system]
    BY <1>1, <2>1
  <2> QED BY <1>1, <1>4, <1>6, <2>2
<1>8. CASE item.type = "assistant"
  <2>1. AppendItem(acc, item) =
            [out |-> Append(out, [Message("assistant", <<Block("text", n)>>) EXCEPT !.reasoning = r]),
             reasoning |-> <<>>, system |-> acc.system]
    BY <1>8 DEF AppendItem
  <2> QED BY <1>1, <1>5, <1>6, <2>1
<1>9. CASE item.type = "call"
  <2>1. AppendItem(acc, item) =
            [out |-> Append(out, [Message("assistant", <<Block("tool_use", n)>>) EXCEPT !.reasoning = r]),
             reasoning |-> <<>>, system |-> acc.system]
    BY <1>9 DEF AppendItem
  <2> QED BY <1>1, <1>5, <1>6, <2>1
<1>10. CASE item.type = "output"
  <2>1. AppendItem(acc, item) = [out |-> Append(ms, Message("user", <<Block("tool_result", n)>>)),
                                 reasoning |-> <<>>, system |-> acc.system]
    BY <1>10 DEF AppendItem
  <2> QED BY <1>1, <1>5, <1>6, <2>1
<1>11. CASE item.type = "user"
  <2>1. AppendItem(acc, item) = [out |-> Append(ms, Message("user", <<Block("text", n)>>)),
                                 reasoning |-> <<>>, system |-> acc.system]
    BY <1>11 DEF AppendItem
  <2> QED BY <1>1, <1>5, <1>6, <2>1
<1>12. CASE item.type = "developer"
  <2>1. AppendItem(acc, item) = [out |-> ms, reasoning |-> <<>>,
                                 system |-> Append(acc.system, Block("text", n))]
    BY <1>12 DEF AppendItem
  <2> QED BY <1>1, <1>3, <1>4, <1>6, <2>1
<1> QED BY <1>7, <1>8, <1>9, <1>10, <1>11, <1>12 DEF Items

\* f says what the items have become, one item after the other.
Becomes(f, items) ==
    f = [n \in 0 .. Len(items) |->
            IF n = 0 THEN [out |-> <<>>, reasoning |-> <<>>, system |-> <<>>]
            ELSE AppendItem(f[n - 1], items[n])]

\* The messages that the items become are those of a chat.
LEMMA PayloadFits ==
    ASSUME NEW items \in Seq(Items)
    PROVE  AnthropicPayload(items).messages \in Seq(Chatting)
<1> DEFINE L == Len(items)
           b == [out |-> <<>>, reasoning |-> <<>>, system |-> <<>>]
           step == [n \in 1 .. L |-> [acc \in Accs |-> AppendItem(acc, items[n])]]
<1>1. L \in Nat /\ b \in Accs
  BY EmptySeq DEF Accs
<1>2. \A n \in 1 .. L : \A acc \in Accs : AppendItem(acc, items[n]) \in Accs
  BY AppendItemFits
<1>3. step \in [1 .. L -> [Accs -> Accs]]
  BY <1>2
<1>4. \E h : Recursive(h, Accs, L, b, step)
  <2> HIDE DEF L, b, step
  <2> QED BY <1>1, <1>3, RecursionExists
<1>5. PICK h : Recursive(h, Accs, L, b, step)
  BY <1>4
<1>6. \A n \in 1 .. L : n - 1 \in 0 .. L /\ n \in 0 .. L /\ n # 0
  BY <1>1
<1>7. /\ h \in [0 .. L -> Accs] /\ h[0] = b
      /\ \A n \in 1 .. L : h[n] = AppendItem(h[n - 1], items[n])
  <2> HIDE DEF b
  <2> QED BY <1>5, <1>6 DEF Recursive
<1>8. Becomes(h, items)
  <2>1. \A n \in 0 .. L : n = 0 \/ n \in 1 .. L
    BY <1>1
  <2> QED BY <1>7, <2>1 DEF Becomes
<1> DEFINE f == CHOOSE g : Becomes(g, items)
<1>9. Becomes(f, items)
  BY <1>8
<1>10. AnthropicPayload(items).messages = Reasoned(f[L])
  BY DEF AnthropicPayload, Becomes
<1> HIDE DEF f, step
<1>11. \A n \in 0 .. L : f[n] = IF n = 0 THEN b ELSE AppendItem(f[n - 1], items[n])
  BY <1>9 DEF Becomes
<1> HIDE DEF L, b
<1> DEFINE S == {n \in Nat : n <= L => f[n] \in Accs}
<1>12. 0 \in S
  <2>1. 0 \in 0 .. L
    BY <1>1
  <2> QED BY <1>1, <1>11, <2>1
<1>13. ASSUME NEW n \in Nat, n \in S PROVE n + 1 \in S
  <2> SUFFICES ASSUME n + 1 <= L PROVE f[n + 1] \in Accs
    OBVIOUS
  <2>1. n + 1 \in 1 .. L /\ (n + 1) - 1 = n /\ n <= L /\ n + 1 \in 0 .. L /\ n + 1 # 0
    BY <1>1
  <2>2. f[n] \in Accs
    BY <1>13, <2>1
  <2>3. f[n + 1] = AppendItem(f[n], items[n + 1])
    BY <1>11, <2>1
  <2> QED BY <1>2, <2>1, <2>2, <2>3
<1>14. \A n \in Nat : n \in S
  <2> HIDE DEF S
  <2> QED BY <1>12, <1>13, NumberInduction
<1>15. f[L] \in Accs
  BY <1>1, <1>14
<1>16. Reasoned(f[L]) \in Seq(Chatting)
  <2> DEFINE acc == f[L]
  <2>1. acc.out \in Seq(Chatting) /\ acc.reasoning \in Seq(Nat)
    BY <1>15 DEF Accs
  <2> HIDE DEF acc
  <2>2. [Plain("assistant", <<>>) EXCEPT !.reasoning = acc.reasoning] \in Chatting
    BY <2>1, MadeMessages
  <2>3. Reasoned(acc) \in Seq(Chatting)
    BY <2>1, <2>2, AppendProperties DEF Reasoned
  <2> QED BY <2>3 DEF acc
<1> QED BY <1>10, <1>16

\* What a provider is asked with is the messages of a chat.
LEMMA RequestFits == HistoryInv => Messages \in Seq(Chatting)
<1>1. CASE client = "messages" /\ history \in Seq(Fitting)
  <2>1. Messages = Conversed(history)
    BY <1>1 DEF Messages, Request, Normalized
  <2> QED BY <1>1, <2>1, ConversedFits
<1>2. CASE client = "responses" /\ history \in Seq(Items)
  <2>1. Messages = AnthropicPayload(history).messages
    BY <1>2 DEF Messages, Request
  <2> QED BY <1>2, <2>1, PayloadFits
<1> QED BY <1>1, <1>2 DEF HistoryInv

-----------------------------------------------------------------------------
(***************************************************************************)
(* What a client writes.                                                   *)
(***************************************************************************)

\* A sequence of blocks of the types R.
LEMMA NumberedFits ==
    ASSUME NEW R \in SUBSET BlockTypes, NEW types \in Seq(R), NEW base \in Nat
    PROVE  /\ Numbered(types, base) \in Seq({bl \in Blk : bl.type \in R})
           /\ Len(Numbered(types, base)) = Len(types)
<1>1. DOMAIN types = 1 .. Len(types) /\ Len(types) \in Nat
  OBVIOUS
<1>2. \A k \in 1 .. Len(types) : Block(types[k], base + k) \in {bl \in Blk : bl.type \in R}
  BY <1>1 DEF Block, Blk
<1> QED BY <1>1, <1>2 DEF Numbered

\* The message that a text, or a text and an attachment, becomes.
LEMMA UserFits ==
    ASSUME NEW types \in Seq({"text", "document", "image"}), types # <<>>, NEW base \in Nat
    PROVE  /\ Message("user", Numbered(types, base)) \in Fitting
           /\ types \in Seq({"text"}) => Plain("user", Numbered(types, base)) \in Fitting
<1> DEFINE bls == Numbered(types, base)
           R == {"text", "document", "image"}
<1>1. bls \in Seq({bl \in Blk : bl.type \in R}) /\ Len(bls) = Len(types)
  <2>1. R \in SUBSET BlockTypes
    BY DEF BlockTypes, Thoughts, Attachments
  <2> QED BY <2>1, NumberedFits
<1>2. {bl \in Blk : bl.type \in R} \subseteq UserBlocks /\ UserBlocks \subseteq Blk
  BY DEF UserBlocks, Attachments
<1>3. bls \in Seq(UserBlocks)
  <2> HIDE DEF bls, R
  <2> QED BY <1>1, <1>2, SeqMonotonic
<1>4. bls \in Seq(Blk)
  <2> HIDE DEF bls, R
  <2> QED BY <1>2, <1>3, SeqMonotonic
<1>5. bls # <<>>
  BY <1>1, EmptySeq
<1>6. types \in Seq({"text"}) => bls \in Seq(Texts)
  <2> SUFFICES ASSUME types \in Seq({"text"}) PROVE bls \in Seq(Texts)
    OBVIOUS
  <2>1. {"text"} \in SUBSET BlockTypes
    BY DEF BlockTypes
  <2>2. bls \in Seq({bl \in Blk : bl.type \in {"text"}})
    BY <2>1, NumberedFits
  <2>3. {bl \in Blk : bl.type \in {"text"}} \subseteq Texts
    BY DEF Texts
  <2> HIDE DEF bls
  <2> QED BY <2>2, <2>3, SeqMonotonic
<1>7. <<>> \in Seq(Nat)
  BY EmptySeq
<1> HIDE DEF bls
<1>8. Message("user", bls) \in Fitting
  BY <1>3, <1>4, <1>5, <1>7 DEF Message, Fitting, Fits, SomeMessages
<1>9. bls \in Seq(Texts) => Plain("user", bls) \in Fitting
  BY <1>3, <1>4, <1>5, <1>7 DEF Plain, Message, Fitting, Fits, SomeMessages
<1> QED BY <1>6, <1>8, <1>9 DEF bls

\* The message of the system, and those of the assistant.
LEMMA OthersFit ==
    ASSUME NEW base \in Nat
    PROVE  /\ Message("system", Numbered(<<"text">>, base)) \in Fitting
           /\ Plain("assistant", Numbered(<<"text">>, base)) \in Fitting
           /\ \A types \in Seq({"text", "tool_use"} \cup Thoughts) :
                 Message("assistant", Numbered(types, base)) \in Fitting
<1>1. <<>> \in Seq(Nat) /\ <<"text">> \in Seq({"text"})
  BY EmptySeq
<1>2. {"text"} \in SUBSET BlockTypes
  BY DEF BlockTypes
<1> DEFINE e == <<"text">>
           bls == Numbered(e, base)
<1>3. bls \in Seq({bl \in Blk : bl.type \in {"text"}})
  <2>1. e \in Seq({"text"})
    BY <1>1
  <2> HIDE DEF e
  <2> QED BY <1>2, <2>1, NumberedFits
<1>4. /\ {bl \in Blk : bl.type \in {"text"}} \subseteq Blk
      /\ {bl \in Blk : bl.type \in {"text"}} \subseteq Texts
      /\ {bl \in Blk : bl.type \in {"text"}} \subseteq AnswerBlocks
  BY DEF Texts, AnswerBlocks
<1>5. bls \in Seq(Blk) /\ bls \in Seq(Texts) /\ bls \in Seq(AnswerBlocks)
  <2> HIDE DEF bls
  <2> QED BY <1>3, <1>4, SeqMonotonic
<1>6. Message("system", bls) \in Fitting
  <2> HIDE DEF bls
  <2> QED BY <1>1, <1>5 DEF Message, Fitting, Fits, SomeMessages
<1>7. Plain("assistant", bls) \in Fitting
  <2> HIDE DEF bls
  <2> QED BY <1>1, <1>5 DEF Plain, Message, Fitting, Fits, SomeMessages
<1>8. ASSUME NEW types \in Seq({"text", "tool_use"} \cup Thoughts)
      PROVE  Message("assistant", Numbered(types, base)) \in Fitting
  <2> DEFINE R == {"text", "tool_use"} \cup Thoughts
             told == Numbered(types, base)
  <2>1. R \in SUBSET BlockTypes /\ {bl \in Blk : bl.type \in R} \subseteq AnswerBlocks
        /\ AnswerBlocks \subseteq Blk
    BY DEF BlockTypes, AnswerBlocks
  <2> HIDE DEF R
  <2>2. told \in Seq({bl \in Blk : bl.type \in R})
    BY <2>1, NumberedFits DEF R
  <2> HIDE DEF told
  <2>3. told \in Seq(AnswerBlocks)
    BY <2>1, <2>2, SeqMonotonic
  <2>4. told \in Seq(Blk)
    BY <2>1, <2>3, SeqMonotonic
  <2>5. Message("assistant", told) \in Fitting
    BY <1>1, <2>3, <2>4 DEF Message, Fitting, Fits, SomeMessages
  <2> QED BY <2>5 DEF told
<1> QED BY <1>6, <1>7, <1>8

\* The calls of a message are numbers.
LEMMA CallsAreNumbers ==
    ASSUME NEW bls \in Seq(Blk)
    PROVE  Calls(bls) \in Seq(Nat)
<1> DEFINE t == OfType(bls, {"tool_use"})
<1>1. t \in Seq(Blk)
  <2>1. t \in Seq({bl \in Blk : bl.type \in {"tool_use"}})
    BY OfTypeFits
  <2>2. {bl \in Blk : bl.type \in {"tool_use"}} \subseteq Blk
    OBVIOUS
  <2> HIDE DEF t
  <2> QED BY <2>1, <2>2, SeqMonotonic
<1> HIDE DEF t
<1>2. \A k \in 1 .. Len(t) : t[k].id \in Nat
  <2>1. \A k \in 1 .. Len(t) : t[k] \in Blk
    BY <1>1
  <2> QED BY <2>1 DEF Blk
<1>3. DOMAIN t = 1 .. Len(t) /\ Len(t) \in Nat
  BY <1>1
<1>4. [k \in DOMAIN t |-> t[k].id] \in Seq(Nat)
  BY <1>2, <1>3
<1> QED BY <1>4 DEF Calls, Ids, t

\* The results of the calls of a message, with what the user adds.
LEMMA ResultsFit ==
    ASSUME NEW order \in Seq(Nat), order # <<>>, NEW base \in Nat,
           NEW more \in Seq({"text", "document", "image"})
    PROVE  Message("user", [k \in DOMAIN order |-> Block("tool_result", order[k])]
                           \o Numbered(more, base)) \in Fitting
<1> DEFINE results == [k \in DOMAIN order |-> Block("tool_result", order[k])]
           rest == Numbered(more, base)
           R == {"text", "document", "image"}
           bls == results \o rest
<1>1. Len(order) \in Nat /\ DOMAIN order = 1 .. Len(order) /\ Len(order) # 0
  BY EmptySeq
<1>2. \A k \in 1 .. Len(order) : Block("tool_result", order[k]) \in UserBlocks
  BY DEF Block, UserBlocks, Blk, BlockTypes
<1>3. results \in Seq(UserBlocks) /\ Len(results) = Len(order)
  BY <1>1, <1>2
<1>4. rest \in Seq({bl \in Blk : bl.type \in R})
  <2>1. R \in SUBSET BlockTypes
    BY DEF BlockTypes, Attachments
  <2> QED BY <2>1, NumberedFits
<1>5. {bl \in Blk : bl.type \in R} \subseteq UserBlocks /\ UserBlocks \subseteq Blk
  BY DEF UserBlocks, Attachments
<1> HIDE DEF results, rest, R
<1>6. rest \in Seq(UserBlocks)
  BY <1>4, <1>5, SeqMonotonic
<1>7. bls \in Seq(UserBlocks) /\ Len(bls) = Len(results) + Len(rest) /\ Len(rest) \in Nat
  <2>1. results \in Seq(UserBlocks) /\ Len(rest) \in Nat
    BY <1>3, <1>6
  <2> QED BY <1>6, <2>1, ConcatProperties
<1>8. bls # <<>>
  BY <1>1, <1>3, <1>7, EmptySeq
<1> HIDE DEF bls
<1>9. bls \in Seq(Blk)
  BY <1>5, <1>7, SeqMonotonic
<1>10. <<>> \in Seq(Nat)
  BY EmptySeq
<1>11. Message("user", bls) \in Fitting
  BY <1>7, <1>8, <1>9, <1>10 DEF Message, Fitting, Fits, SomeMessages
<1> QED BY <1>11 DEF bls, results, rest

\* The last message that was spoken is one of the history.
LEMMA LastFits ==
    ASSUME history \in Seq(Fitting), client = "messages", Spoken # <<>>
    PROVE  LastOf.blocks \in Seq(Blk)
<1>1. Spoken \in Seq(Chatting)
  BY ConversedFits DEF Spoken
<1>2. Len(Spoken) \in Nat /\ Len(Spoken) # 0
  BY <1>1, EmptySeq
<1>3. Spoken[Len(Spoken)] \in Chatting
  <2>1. Len(Spoken) \in 1 .. Len(Spoken)
    BY <1>2
  <2> HIDE DEF Spoken
  <2> QED BY <1>1, <2>1
<1> QED BY <1>3 DEF LastOf, Last, Chatting, Fitting, SomeMessages

\* What is added to a history of messages, or of items, fits.
LEMMA AddFits ==
    ASSUME HistoryInv, NEW e, Add(e),
           (client = "messages" /\ e \in Fitting) \/ (client = "responses" /\ e \in Items)
    PROVE  HistoryInv'
<1>1. history' = Append(history, e) /\ client' = client
  BY DEF Add
<1>2. CASE client = "messages" /\ e \in Fitting
  <2>1. history \in Seq(Fitting)
    BY <1>2 DEF HistoryInv
  <2>2. Append(history, e) \in Seq(Fitting)
    BY <1>2, <2>1, AppendProperties
  <2> QED BY <1>1, <1>2, <2>2 DEF HistoryInv
<1>3. CASE client = "responses" /\ e \in Items
  <2>1. history \in Seq(Items)
    BY <1>3 DEF HistoryInv
  <2>2. Append(history, e) \in Seq(Items)
    BY <1>3, <2>1, AppendProperties
  <2> QED BY <1>1, <1>3, <2>2 DEF HistoryInv
<1> QED BY <1>2, <1>3

\* Every way to write keeps the history one of its kind.
LEMMA WriteFits == HistoryInv /\ Write => HistoryInv'
<1> SUFFICES ASSUME HistoryInv, Write PROVE HistoryInv'
  OBVIOUS
<1>1. Len(history) \in Nat /\ Base \in Nat
  <2>1. Len(history) \in Nat
    BY DEF HistoryInv
  <2> QED BY <2>1 DEF Base
<1>2. client = "messages" => history \in Seq(Fitting)
  BY DEF HistoryInv
<1>3. client = "responses" => history \in Seq(Items)
  BY DEF HistoryInv
<1>4. CASE WriteUser
  <2> DEFINE K == {"text", "document", "image"}
  <2>1. client = "messages"
    BY <1>4 DEF WriteUser
  <2>2. \A t \in {"text", "document"} : <<t>> \in Seq(K) /\ <<t>> # <<>>
    OBVIOUS
  <2>3. <<"text", "image">> \in Seq(K) /\ <<"text", "image">> # <<>> /\ <<"text">> \in Seq({"text"})
    OBVIOUS
  <2>4. CASE Add(Plain("user", Numbered(<<"text">>, Base)))
    <3>1. Plain("user", Numbered(<<"text">>, Base)) \in Fitting
      BY <1>1, <2>2, <2>3, UserFits
    <3> QED BY <2>1, <2>4, <3>1, AddFits
  <2>5. ASSUME NEW t \in {"text", "document"}, Add(Message("user", Numbered(<<t>>, Base)))
        PROVE  HistoryInv'
    <3>1. Message("user", Numbered(<<t>>, Base)) \in Fitting
      BY <1>1, <2>2, UserFits
    <3> QED BY <2>1, <2>5, <3>1, AddFits
  <2>6. CASE Add(Message("user", Numbered(<<"text", "image">>, Base)))
    <3>1. Message("user", Numbered(<<"text", "image">>, Base)) \in Fitting
      BY <1>1, <2>3, UserFits
    <3> QED BY <2>1, <2>6, <3>1, AddFits
  <2> QED BY <1>4, <2>4, <2>5, <2>6 DEF WriteUser
<1>5. CASE WriteSystem
  <2>1. client = "messages" /\ Add(Message("system", Numbered(<<"text">>, Base)))
    BY <1>5 DEF WriteSystem
  <2>2. Message("system", Numbered(<<"text">>, Base)) \in Fitting
    BY <1>1, OthersFit
  <2> QED BY <2>1, <2>2, AddFits
<1>6. CASE WriteAnswer
  <2>1. client = "messages"
    BY <1>6 DEF WriteAnswer
  <2>2. ASSUME NEW types \in Answers PROVE types \in Seq({"text", "tool_use"} \cup Thoughts)
    <3> DEFINE K == {"text", "tool_use"} \cup Thoughts
    <3>1. CASE types \in SeqOf({"text", "thinking", "tool_use"}, MaxBlocksWritten)
      <4>1. PICK m \in 0 .. MaxBlocksWritten : types \in [1 .. m -> {"text", "thinking", "tool_use"}]
        BY <3>1 DEF SeqOf
      <4>2. m \in Nat
        BY ConversationAssumption
      <4>3. types \in [1 .. m -> K]
        BY <4>1 DEF Thoughts
      <4> QED BY <4>2, <4>3
    <3>2. CASE types = <<"redacted_thinking", "tool_use">>
      BY <3>2 DEF Thoughts
    <3> QED BY <2>2, <3>1, <3>2 DEF Answers
  <2>3. ASSUME NEW types \in Answers, Add(Message("assistant", Numbered(types, Base)))
        PROVE  HistoryInv'
    <3>1. Message("assistant", Numbered(types, Base)) \in Fitting
      BY <1>1, <2>2, OthersFit
    <3> QED BY <2>1, <2>3, <3>1, AddFits
  <2>4. CASE Add(Plain("assistant", Numbered(<<"text">>, Base)))
    <3>1. Plain("assistant", Numbered(<<"text">>, Base)) \in Fitting
      BY <1>1, OthersFit
    <3> QED BY <2>1, <2>4, <3>1, AddFits
  <2> QED BY <1>6, <2>3, <2>4 DEF WriteAnswer
<1>7. CASE WriteResults
  <2> DEFINE calls == Calls(LastOf.blocks)
             K == {"text", "document", "image"}
  <2>1. client = "messages" /\ Spoken # <<>> /\ calls # <<>>
    BY <1>7 DEF WriteResults
  <2>2. calls \in Seq(Nat)
    BY <1>2, <2>1, LastFits, CallsAreNumbers
  <2>3. Reverse(calls) \in Seq(Nat) /\ Reverse(calls) # <<>>
    <3> HIDE DEF calls
    <3>1. Len(calls) \in Nat /\ Len(calls) # 0
      BY <2>1, <2>2, EmptySeq
    <3>2. \A i \in 1 .. Len(calls) : (Len(calls) - i) + 1 \in 1 .. Len(calls)
      BY <3>1
    <3>3. \A i \in 1 .. Len(calls) : calls[(Len(calls) - i) + 1] \in Nat
      BY <2>2, <3>2
    <3>4. Reverse(calls) \in Seq(Nat) /\ Len(Reverse(calls)) = Len(calls)
      BY <3>1, <3>3 DEF Reverse
    <3> QED BY <3>1, <3>4, EmptySeq
  <2>4. PICK order \in {calls, Reverse(calls)}, more \in {<<>>, <<"text">>, <<"document">>} :
          Add(Message("user", [k \in DOMAIN order |-> Block("tool_result", order[k])]
                              \o Numbered(more, Base)))
    BY <1>7 DEF WriteResults
  <2>5. order \in Seq(Nat) /\ order # <<>> /\ more \in Seq(K)
    <3>1. order \in Seq(Nat) /\ order # <<>>
      <4> HIDE DEF calls
      <4> QED BY <2>1, <2>2, <2>3
    <3>2. more \in Seq(K)
      <4>1. <<>> \in Seq(K) /\ <<"text">> \in Seq(K) /\ <<"document">> \in Seq(K)
        BY EmptySeq
      <4> QED BY <4>1
    <3> QED BY <3>1, <3>2
  <2>6. Message("user", [k \in DOMAIN order |-> Block("tool_result", order[k])]
                        \o Numbered(more, Base)) \in Fitting
    BY <1>1, <2>5, ResultsFit
  <2> QED BY <2>1, <2>4, <2>6, AddFits
<1>8. CASE WriteItem
  <2>1. client = "responses"
    BY <1>8 DEF WriteItem
  <2>2. \A id \in Unanswered : id \in Nat
    <3>1. \A i \in ToSet(history) : i \in Items
      BY <1>3, <2>1 DEF ToSet
    <3> QED BY <3>1 DEF Unanswered, Items
  <2>3. PICK type, id : /\ type \in {"user", "developer", "assistant", "reasoning", "call", "output"}
                        /\ id \in Nat /\ Add(Item(type, id))
    BY <1>1, <1>8, <2>2 DEF WriteItem
  <2>4. Item(type, id) \in Items
    BY <2>3 DEF Item, Items
  <2> QED BY <2>1, <2>3, <2>4, AddFits
<1> QED BY <1>4, <1>5, <1>6, <1>7, <1>8 DEF Write

\* Throughout an exchange the history is one of its kind.
THEOREM HistoryFits == ExchangeSpec => []HistoryInv
<1>1. ExchangeInit => HistoryInv
  <2>1. <<>> \in Seq(Fitting) /\ <<>> \in Seq(Items)
    BY EmptySeq
  <2> QED BY <2>1 DEF ExchangeInit, Blank, HistoryInv
<1>2. HistoryInv /\ [ExchangeNext]_exchange => HistoryInv'
  <2> SUFFICES ASSUME HistoryInv, [ExchangeNext]_exchange PROVE HistoryInv'
    OBVIOUS
  <2>1. CASE Prepare
    BY <2>1, WriteFits DEF Prepare
  <2>2. CASE Ask
    <3>1. client' = "messages" /\ history' = <<>> /\ <<>> \in Seq(Fitting)
      BY <2>2, EmptySeq DEF Ask
    <3> QED BY <3>1 DEF HistoryInv
  <2>3. CASE Answer
    BY <2>3 DEF Answer, conversation, HistoryInv
  <2>4. CASE UNCHANGED exchange
    BY <2>4 DEF exchange, conversation, HistoryInv
  <2> QED BY <2>1, <2>2, <2>3, <2>4 DEF ExchangeNext
<1> QED BY <1>1, <1>2, PTL DEF ExchangeSpec

-----------------------------------------------------------------------------
(***************************************************************************)
(* What a native provider is sent.                                         *)
(***************************************************************************)

\* What every provider takes.
Common == {"text", "tool_use", "tool_result"}

\* No block has one of these types.
Free(bls, T) == \A i \in DOMAIN bls : bls[i].type \notin T

\* n is m without the blocks of the types H, if the assistant has written it in blocks.
Sanitized(n, m, H) ==
    /\ n.role = m.role /\ n.plain = m.plain
    /\ n.blocks = IF m.role = "assistant" /\ ~m.plain THEN OfType(m.blocks, BlockTypes \ H)
                  ELSE m.blocks

\* The fields of a message of a chat.
LEMMA ChattingFields ==
    ASSUME NEW m \in Chatting
    PROVE  /\ m.role \in {"user", "assistant"} /\ m.blocks \in Seq(Blk)
           /\ m.plain \in BOOLEAN /\ m.reasoning \in Seq(Nat)
           /\ m.role = "user" => m.blocks \in Seq(UserBlocks) /\ m.blocks # <<>>
           /\ m.role = "assistant" => m.blocks \in Seq(AnswerBlocks)
           /\ m.plain => m.blocks \in Seq(Texts)
BY DEF Chatting, Fitting, Fits, SomeMessages

\* A message of the user has no thoughts, one of the assistant no attachments, and
\* one that is a string neither.
LEMMA ChattingFree ==
    ASSUME NEW m \in Chatting
    PROVE  /\ (m.role = "user" \/ m.plain) => Free(m.blocks, Thoughts \cup {"tool_use"})
           /\ (m.role = "assistant" \/ m.plain) => Free(m.blocks, Attachments)
<1> DEFINE bls == m.blocks
<1>1. /\ m.role = "user" => bls \in Seq(UserBlocks)
      /\ m.role = "assistant" => bls \in Seq(AnswerBlocks)
      /\ m.plain => bls \in Seq(Texts)
  BY ChattingFields
<1> HIDE DEF bls
<1>2. bls \in Seq(UserBlocks) => Free(bls, Thoughts \cup {"tool_use"})
  <2> SUFFICES ASSUME bls \in Seq(UserBlocks), NEW i \in DOMAIN bls
               PROVE  bls[i].type \notin Thoughts \cup {"tool_use"}
    BY DEF Free
  <2>1. bls[i] \in UserBlocks
    OBVIOUS
  <2> QED BY <2>1 DEF UserBlocks, Attachments, Thoughts
<1>3. bls \in Seq(AnswerBlocks) => Free(bls, Attachments)
  <2> SUFFICES ASSUME bls \in Seq(AnswerBlocks), NEW i \in DOMAIN bls
               PROVE  bls[i].type \notin Attachments
    BY DEF Free
  <2>1. bls[i] \in AnswerBlocks
    OBVIOUS
  <2> QED BY <2>1 DEF AnswerBlocks, Attachments, Thoughts
<1>4. bls \in Seq(Texts) => Free(bls, Thoughts \cup {"tool_use"}) /\ Free(bls, Attachments)
  <2> SUFFICES ASSUME bls \in Seq(Texts), NEW i \in DOMAIN bls
               PROVE  bls[i].type = "text"
    BY DEF Free, Thoughts, Attachments
  <2>1. bls[i] \in Texts
    OBVIOUS
  <2> QED BY <2>1 DEF Texts
<1> QED BY <1>1, <1>2, <1>3, <1>4 DEF bls

\* What has been collected without the types H is free of them, and keeps what all
\* providers take.
LEMMA WithoutTypes ==
    ASSUME NEW bls \in Seq(Blk), NEW H, H \cap Common = {}
    PROVE  /\ OfType(bls, BlockTypes \ H) \in Seq(Blk)
           /\ Free(OfType(bls, BlockTypes \ H), H)
           /\ OfType(OfType(bls, BlockTypes \ H), Common) = OfType(bls, Common)
           /\ \A T : Free(bls, T) => Free(OfType(bls, BlockTypes \ H), T)
<1> DEFINE A == BlockTypes \ H
           kept == OfType(bls, A)
           C == {bl \in Blk : bl.type \in A}
<1>1. kept \in Seq(C)
  <2> HIDE DEF A
  <2> QED BY OfTypeFits
<1>2. C \subseteq Blk
  OBVIOUS
<1>3. kept \in Seq(Blk)
  <2> HIDE DEF kept, C
  <2> QED BY <1>1, <1>2, SeqMonotonic
<1>4. Free(kept, H)
  <2> SUFFICES ASSUME NEW i \in DOMAIN kept PROVE kept[i].type \notin H
    BY DEF Free
  <2>1. kept[i] \in C
    <3> HIDE DEF kept, C
    <3> QED BY <1>1
  <2> QED BY <2>1
<1>5. OfType(kept, Common) = OfType(bls, Common)
  <2>1. \A bl \in Blk : bl.type \in Common => bl.type \in A
    BY DEF Common, BlockTypes
  <2> HIDE DEF A
  <2> QED BY <2>1, OfTypeWithin
<1>6. ASSUME NEW T, Free(bls, T) PROVE Free(kept, T)
  <2> DEFINE U == T \cap A
  <2>1. \A bl \in Blk : bl.type \in U => bl.type \in A
    OBVIOUS
  <2>2. OfType(kept, U) = OfType(bls, U)
    <3> HIDE DEF A, U
    <3> QED BY <2>1, OfTypeWithin
  <2>3. \A i \in DOMAIN bls : bls[i].type \notin U
    BY <1>6 DEF Free
  <2>4. OfType(bls, U) = <<>>
    <3> HIDE DEF U
    <3> QED BY <2>3, OfTypeEmpty
  <2>5. \A i \in DOMAIN kept : kept[i].type \notin U
    <3> HIDE DEF U, kept
    <3> QED BY <1>3, <2>2, <2>4, OfTypeEmpty
  <2>6. \A i \in DOMAIN kept : kept[i].type \in A
    <3> SUFFICES ASSUME NEW i \in DOMAIN kept PROVE kept[i].type \in A
      OBVIOUS
    <3>1. kept[i] \in C
      <4> HIDE DEF kept, C
      <4> QED BY <1>1
    <3> HIDE DEF kept, A
    <3> QED BY <3>1
  <2> HIDE DEF kept, A
  <2> QED BY <2>5, <2>6 DEF Free, U
<1> QED BY <1>3, <1>4, <1>5, <1>6

\* Blocks that are free of some types have none of them.
LEMMA FreeHasNone ==
    ASSUME NEW bls \in Seq(Blk), NEW T, Free(bls, T)
    PROVE  OfType(bls, T) = <<>>
BY OfTypeEmpty DEF Free

\* A sanitized message tells what the first one told, and hides the types H.
LEMMA SanitizedTells ==
    ASSUME NEW m \in Chatting, NEW n, NEW H \in SUBSET Thoughts, Sanitized(n, m, H)
    PROVE  /\ n.blocks \in Seq(Blk)
           /\ OfType(n.blocks, Common) = OfType(m.blocks, Common)
           /\ Free(n.blocks, H)
           /\ \A T : Free(m.blocks, T) => Free(n.blocks, T)
<1>1. H \cap Common = {}
  BY DEF Thoughts, Common
<1>2. m.blocks \in Seq(Blk)
  BY ChattingFields
<1>3. CASE m.role = "assistant" /\ ~m.plain
  <2>1. n.blocks = OfType(m.blocks, BlockTypes \ H)
    BY <1>3 DEF Sanitized
  <2> QED BY <1>1, <1>2, <2>1, WithoutTypes
<1>4. CASE ~(m.role = "assistant" /\ ~m.plain)
  <2>1. n.blocks = m.blocks
    BY <1>4 DEF Sanitized
  <2>2. m.role = "user" \/ m.plain
    BY <1>4, ChattingFields
  <2>3. Free(m.blocks, H)
    BY <2>2, ChattingFree DEF Free
  <2> QED BY <1>2, <2>1, <2>3
<1> QED BY <1>3, <1>4

\* Each message of a native body is a sanitized one.
LEMMA NativeEach ==
    ASSUME NEW ms, NEW enabled \in BOOLEAN, NEW signed \in BOOLEAN
    PROVE  LET native == NativeMessages(ms, enabled, signed)
           IN  /\ DOMAIN native = DOMAIN ms
               /\ \E H \in SUBSET Thoughts :
                     /\ ~enabled => H = Thoughts
                     /\ ~signed => "thinking" \in H
                     /\ \A k \in DOMAIN ms : ms[k] \in Chatting => Sanitized(native[k], ms[k], H)
<1> DEFINE H == CASE ~enabled -> Thoughts
                  [] enabled /\ ~signed -> {"thinking"}
                  [] OTHER -> {}
           native == NativeMessages(ms, enabled, signed)
<1>1. H \in SUBSET Thoughts /\ (~enabled => H = Thoughts) /\ (~signed => "thinking" \in H)
  BY DEF Thoughts
<1>2. native = [k \in DOMAIN ms |->
                  IF ms[k].role = "assistant" /\ ~ms[k].plain
                  THEN [ms[k] EXCEPT !.blocks = OfType(@, BlockTypes \ H)] ELSE ms[k]]
  BY DEF NativeMessages, WithBlocks
<1> HIDE DEF native, H
<1>3. DOMAIN native = DOMAIN ms
  BY <1>2
<1>4. ASSUME NEW k \in DOMAIN ms, ms[k] \in Chatting PROVE Sanitized(native[k], ms[k], H)
  <2> DEFINE m == ms[k]
  <2>1. native[k] = IF m.role = "assistant" /\ ~m.plain
                    THEN [m EXCEPT !.blocks = OfType(@, BlockTypes \ H)] ELSE m
    BY <1>2
  <2>2. m \in SomeMessages
    BY <1>4 DEF Chatting, Fitting
  <2> HIDE DEF m
  <2>3. Sanitized(native[k], m, H)
    BY <2>1, <2>2 DEF Sanitized, SomeMessages
  <2> QED BY <2>3 DEF m
<1> QED BY <1>1, <1>3, <1>4 DEF native

\* What is left of a message when the attachments are stripped.
Stripped(n, m) ==
    /\ n.role = m.role /\ n.plain = m.plain /\ n.reasoning = m.reasoning
    /\ n.blocks = IF m.role = "user" /\ ~m.plain
                  THEN IF OfType(m.blocks, BlockTypes \ Attachments) = <<>> THEN <<Omitted>>
                       ELSE OfType(m.blocks, BlockTypes \ Attachments)
                  ELSE m.blocks

\* Each message is stripped.
LEMMA StrippedEach ==
    ASSUME NEW ms
    PROVE  /\ DOMAIN StripAttachments(ms) = DOMAIN ms
           /\ \A k \in DOMAIN ms : ms[k] \in Chatting =>
                 StripAttachments(ms)[k] \in SomeMessages /\ Stripped(StripAttachments(ms)[k], ms[k])
<1> DEFINE s == StripAttachments(ms)
           left(bls) == LET kept == OfType(bls, BlockTypes \ Attachments)
                        IN  IF kept = <<>> THEN <<Omitted>> ELSE kept
<1>1. s = [k \in DOMAIN ms |->
             IF ms[k].role = "user" /\ ~ms[k].plain
             THEN [ms[k] EXCEPT !.blocks = left(@)] ELSE ms[k]]
  BY DEF StripAttachments, WithBlocks
<1> HIDE DEF s
<1>2. DOMAIN s = DOMAIN ms
  BY <1>1
<1>3. ASSUME NEW k \in DOMAIN ms, ms[k] \in Chatting
      PROVE  s[k] \in SomeMessages /\ Stripped(s[k], ms[k])
  <2> DEFINE m == ms[k]
             new == left(m.blocks)
  <2>1. s[k] = IF m.role = "user" /\ ~m.plain THEN [m EXCEPT !.blocks = new] ELSE m
    <3> HIDE DEF left
    <3> QED BY <1>1
  <2>2. m \in SomeMessages /\ m.blocks \in Seq(Blk)
    BY <1>3 DEF Chatting, Fitting, SomeMessages
  <2>3. Omitted \in Blk
    BY DEF Omitted, Block, Blk, BlockTypes
  <2>4. new \in Seq(Blk)
    <3>1. Attachments \cap Common = {}
      BY DEF Attachments, Common
    <3>2. OfType(m.blocks, BlockTypes \ Attachments) \in Seq(Blk)
      <4> HIDE DEF m
      <4> QED BY <2>2, <3>1, WithoutTypes
    <3>3. <<Omitted>> \in Seq(Blk)
      BY <2>3
    <3> HIDE DEF m
    <3> QED BY <3>2, <3>3
  <2>5. new = IF OfType(m.blocks, BlockTypes \ Attachments) = <<>> THEN <<Omitted>>
              ELSE OfType(m.blocks, BlockTypes \ Attachments)
    OBVIOUS
  <2> HIDE DEF m, new
  <2>6. s[k] \in SomeMessages /\ Stripped(s[k], m)
    BY <2>1, <2>2, <2>4, <2>5 DEF Stripped, SomeMessages
  <2> QED BY <2>6 DEF m
<1> QED BY <1>2, <1>3 DEF s

\* A stripped message is one of a chat, has no attachments, and tells what the first
\* one told unless it is nothing but the note.
LEMMA StrippedTells ==
    ASSUME NEW m \in Chatting, NEW n \in SomeMessages, Stripped(n, m)
    PROVE  /\ n \in Chatting
           /\ Free(n.blocks, Attachments)
           /\ \/ OfType(n.blocks, Common) = OfType(m.blocks, Common)
              \/ n.role = "user" /\ n.blocks = <<Omitted>>
<1> DEFINE kept == OfType(m.blocks, BlockTypes \ Attachments)
<1>1. Attachments \cap Common = {}
  BY DEF Attachments, Common
<1>2. m.blocks \in Seq(Blk)
  BY ChattingFields
<1>3. /\ kept \in Seq(Blk) /\ Free(kept, Attachments)
      /\ OfType(kept, Common) = OfType(m.blocks, Common)
      /\ \A T : Free(m.blocks, T) => Free(kept, T)
  BY <1>1, <1>2, WithoutTypes
<1>4. CASE m.role = "user" /\ ~m.plain
  <2>1. n.role = "user" /\ ~n.plain /\ n.blocks = IF kept = <<>> THEN <<Omitted>> ELSE kept
    BY <1>4 DEF Stripped
  <2>2. kept \in Seq(UserBlocks)
    <3> DEFINE F == {bl \in UserBlocks : bl.type \in BlockTypes \ Attachments}
    <3>1. m.blocks \in Seq(UserBlocks)
      BY <1>4, ChattingFields
    <3>2. kept \in Seq(F) /\ F \subseteq UserBlocks
      BY <3>1, OfTypeFits
    <3> HIDE DEF F, kept
    <3> QED BY <3>2, SeqMonotonic
  <2>3. Omitted \in UserBlocks /\ Omitted.type = "text"
    BY DEF Omitted, Block, UserBlocks, Blk, BlockTypes
  <2>4. <<Omitted>> \in Seq(UserBlocks) /\ <<Omitted>> # <<>> /\ Free(<<Omitted>>, Attachments)
    BY <2>3 DEF Free, Attachments
  <2> HIDE DEF kept
  <2>5. n.blocks \in Seq(UserBlocks) /\ n.blocks # <<>> /\ Free(n.blocks, Attachments)
    BY <1>3, <2>1, <2>2, <2>4
  <2>6. n \in Chatting
    BY <2>1, <2>5 DEF Chatting, Fitting, Fits
  <2> QED BY <1>3, <2>1, <2>5, <2>6
<1>5. CASE ~(m.role = "user" /\ ~m.plain)
  <2>1. n.role = m.role /\ n.plain = m.plain /\ n.blocks = m.blocks
    BY <1>5 DEF Stripped
  <2>2. n \in Chatting
    BY <2>1, ChattingFields DEF Chatting, Fitting, Fits
  <2>3. m.role = "assistant" \/ m.plain
    BY <1>5, ChattingFields
  <2> QED BY <2>1, <2>2, <2>3, ChattingFree
<1> QED BY <1>4, <1>5

\* The first call is a call.
LEMMA FirstIsCall ==
    ASSUME NEW bls \in Seq(Blk), Calls(bls) # <<>>
    PROVE  FirstToolUse(bls) \in 1 .. Len(bls) /\ bls[FirstToolUse(bls)].type = "tool_use"
<1> DEFINE I == {i \in 1 .. Len(bls) : bls[i].type = "tool_use"}
           R == OpToRel(<, Nat)
<1>1. Len(bls) \in Nat /\ DOMAIN bls = 1 .. Len(bls) /\ I \subseteq Nat
  OBVIOUS
<1>2. I # {}
  <2>1. OfType(bls, {"tool_use"}) # <<>>
    <3> DEFINE t == OfType(bls, {"tool_use"})
    <3>1. Calls(bls) = [k \in DOMAIN t |-> t[k].id]
      BY DEF Calls, Ids
    <3> HIDE DEF t
    <3>2. t = <<>> => Calls(bls) = <<>>
      <4> SUFFICES ASSUME t = <<>> PROVE Calls(bls) = <<>>
        OBVIOUS
      <4>1. DOMAIN t = {}
        BY EmptySeq
      <4>2. Calls(bls) \in Seq(Nat) /\ Calls(bls) = [k \in {} |-> t[k].id]
        BY <3>1, <4>1, CallsAreNumbers
      <4>3. DOMAIN Calls(bls) = {}
        BY <4>2
      <4>4. Len(Calls(bls)) = 0
        BY <4>2, <4>3
      <4> QED BY <4>2, <4>4, EmptySeq
    <3> QED BY <3>2 DEF t
  <2>2. PICK i \in DOMAIN bls : bls[i].type \in {"tool_use"}
    BY <2>1, OfTypeEmpty
  <2> QED BY <1>1, <2>2
<1>3. IsWellFoundedOn(R, Nat)
  BY NatLessThanWellFounded
<1>4. \A x, y \in Nat : x < y => <<x, y>> \in R
  BY DEF OpToRel
<1>5. FirstToolUse(bls) = Min(I)
  BY <1>2 DEF FirstToolUse, SelectInSeq
<1> HIDE DEF I, R
<1>6. PICK n \in I : \A m \in I : ~(<<m, n>> \in R)
  BY <1>1, <1>2, <1>3, WFMin, Zenon
<1>7. ASSUME NEW m \in I PROVE n <= m
  <2>1. m \in Nat /\ n \in Nat
    BY <1>1
  <2>2. ~(m < n)
    BY <1>4, <1>6, <2>1
  <2> QED BY <2>1, <2>2
<1>8. Min(I) \in I
  BY <1>6, <1>7 DEF Min
<1> QED BY <1>5, <1>8 DEF I

\* Who thinks before his calls has a thought in front of a call.
LEMMA ThoughtBeforeCall ==
    ASSUME NEW m \in Chatting, ThinksBeforeCalls(m)
    PROVE  \E i, j \in DOMAIN m.blocks :
              i < j /\ m.blocks[i].type = "thinking" /\ m.blocks[j].type = "tool_use"
<1> DEFINE bls == m.blocks
           f == FirstToolUse(bls)
           part == SubSeq(bls, 1, f)
<1>1. bls \in Seq(Blk) /\ Calls(bls) # <<>> /\ OfType(part, {"thinking"}) # <<>>
  BY ChattingFields DEF ThinksBeforeCalls
<1> HIDE DEF bls
<1>2. f \in 1 .. Len(bls) /\ bls[f].type = "tool_use" /\ Len(bls) \in Nat /\ DOMAIN bls = 1 .. Len(bls)
  BY <1>1, FirstIsCall
<1> HIDE DEF f
<1>3. part \in Seq(Blk) /\ Len(part) = f /\ \A i \in 1 .. f : part[i] = bls[i]
  <2>1. /\ part = [i \in 1 .. f |-> bls[i]]
    BY <1>1, <1>2
  <2> QED BY <1>1, <1>2, <2>1
<1> HIDE DEF part
<1>4. PICK i \in DOMAIN part : part[i].type \in {"thinking"}
  BY <1>1, <1>3, OfTypeEmpty
<1>5. i \in 1 .. f /\ bls[i].type = "thinking"
  BY <1>2, <1>3, <1>4
<1>6. i # f
  BY <1>2, <1>5
<1>7. i \in DOMAIN bls /\ f \in DOMAIN bls /\ i < f
  BY <1>2, <1>5, <1>6
<1> QED BY <1>2, <1>5, <1>7 DEF bls

\* Each message of DeepSeek's body is a sanitized one of the stripped ones.
LEMMA DeepEach ==
    ASSUME NEW ms \in Seq(Chatting), NEW enabled \in BOOLEAN
    PROVE  LET body == DeepSeekBody(ms, enabled)
               H == IF body.thinks THEN {"redacted_thinking"} ELSE Thoughts
           IN  /\ DOMAIN body.messages = DOMAIN ms
               /\ body.thinks = DeepSeekThinks(StripAttachments(ms), enabled)
               /\ \A k \in DOMAIN ms :
                     Sanitized(body.messages[k], StripAttachments(ms)[k], H)
<1> DEFINE s == StripAttachments(ms)
           thinks == DeepSeekThinks(s, enabled)
           H == IF thinks THEN {"redacted_thinking"} ELSE Thoughts
           body == DeepSeekBody(ms, enabled)
           d == DeepSeekSanitized(s, thinks)
<1>1. body = [thinks |-> thinks, messages |-> WithoutReasoning(d)]
  BY DEF DeepSeekBody
<1>2. DOMAIN s = DOMAIN ms /\ \A k \in DOMAIN ms : s[k] \in SomeMessages
  <2>1. \A k \in DOMAIN ms : ms[k] \in Chatting
    OBVIOUS
  <2> QED BY <2>1, StrippedEach
<1>3. d = [k \in DOMAIN s |->
             IF s[k].role = "assistant" /\ ~s[k].plain
             THEN [s[k] EXCEPT !.blocks = OfType(@, BlockTypes \ H)] ELSE s[k]]
  BY DEF DeepSeekSanitized, WithBlocks
<1> HIDE DEF s, d, H
<1>4. DOMAIN d = DOMAIN ms /\ \A k \in DOMAIN ms : Sanitized(d[k], s[k], H) /\ DOMAIN d[k] = DOMAIN s[k]
  <2>1. ASSUME NEW k \in DOMAIN ms PROVE Sanitized(d[k], s[k], H) /\ DOMAIN d[k] = DOMAIN s[k]
    <3> DEFINE m == s[k]
    <3>1. d[k] = IF m.role = "assistant" /\ ~m.plain
                 THEN [m EXCEPT !.blocks = OfType(@, BlockTypes \ H)] ELSE m
      BY <1>2, <1>3
    <3>2. m \in SomeMessages
      BY <1>2
    <3> HIDE DEF m
    <3>3. Sanitized(d[k], m, H) /\ DOMAIN d[k] = DOMAIN m
      BY <3>1, <3>2 DEF Sanitized, SomeMessages
    <3> QED BY <3>3 DEF m
  <2> QED BY <1>2, <1>3, <2>1
<1>5. WithoutReasoning(d) = [k \in DOMAIN d |-> [d[k] EXCEPT !.reasoning = <<>>]]
  BY DEF WithoutReasoning
<1>6. /\ DOMAIN WithoutReasoning(d) = DOMAIN ms
      /\ \A k \in DOMAIN ms : Sanitized(WithoutReasoning(d)[k], s[k], H)
  <2>1. ASSUME NEW k \in DOMAIN ms PROVE Sanitized(WithoutReasoning(d)[k], s[k], H)
    <3>1. WithoutReasoning(d)[k] = [d[k] EXCEPT !.reasoning = <<>>]
      BY <1>4, <1>5
    <3>2. Sanitized(d[k], s[k], H) /\ DOMAIN d[k] = {"role", "blocks", "plain", "reasoning"}
      BY <1>2, <1>4 DEF SomeMessages
    <3> QED BY <3>1, <3>2 DEF Sanitized
  <2> QED BY <1>4, <1>5, <2>1
<1>7. body.thinks = thinks /\ body.messages = WithoutReasoning(d)
  BY <1>1
<1> HIDE DEF body, thinks
<1> QED BY <1>6, <1>7 DEF body, s, H, thinks

\* What a native provider is sent of any messages of a chat.
LEMMA NativeTold ==
    ASSUME NEW ms \in Seq(Chatting), NEW enabled \in BOOLEAN, NEW signed \in BOOLEAN
    PROVE  LET native == NativeMessages(ms, enabled, signed)
           IN  /\ DOMAIN native = DOMAIN ms
               /\ \A k \in DOMAIN ms :
                     /\ OfType(native[k].blocks, Common) = OfType(ms[k].blocks, Common)
                     /\ ~enabled => OfType(native[k].blocks, Thoughts) = <<>>
                     /\ ~signed => OfType(native[k].blocks, {"thinking"}) = <<>>
<1> DEFINE native == NativeMessages(ms, enabled, signed)
<1>1. /\ DOMAIN native = DOMAIN ms
      /\ \E H \in SUBSET Thoughts :
            /\ ~enabled => H = Thoughts
            /\ ~signed => "thinking" \in H
            /\ \A k \in DOMAIN ms : ms[k] \in Chatting => Sanitized(native[k], ms[k], H)
  BY NativeEach
<1> HIDE DEF native
<1>2. PICK H \in SUBSET Thoughts :
            /\ ~enabled => H = Thoughts
            /\ ~signed => "thinking" \in H
            /\ \A k \in DOMAIN ms : ms[k] \in Chatting => Sanitized(native[k], ms[k], H)
  BY <1>1
<1>3. ASSUME NEW k \in DOMAIN ms
      PROVE  /\ OfType(native[k].blocks, Common) = OfType(ms[k].blocks, Common)
             /\ ~enabled => OfType(native[k].blocks, Thoughts) = <<>>
             /\ ~signed => OfType(native[k].blocks, {"thinking"}) = <<>>
  <2> DEFINE m == ms[k]
             n == native[k]
  <2>1. m \in Chatting
    OBVIOUS
  <2>2. Sanitized(n, m, H)
    BY <1>2, <2>1
  <2> HIDE DEF m, n
  <2>3. /\ n.blocks \in Seq(Blk) /\ Free(n.blocks, H)
        /\ OfType(n.blocks, Common) = OfType(m.blocks, Common)
    BY <2>1, <2>2, SanitizedTells
  <2>4. ~enabled => Free(n.blocks, Thoughts)
    BY <1>2, <2>3
  <2>5. ~signed => Free(n.blocks, {"thinking"})
    BY <1>2, <2>3 DEF Free
  <2> QED BY <2>3, <2>4, <2>5, FreeHasNone DEF m, n
<1> QED BY <1>1, <1>3 DEF native

\* What DeepSeek is sent of any messages of a chat, message by message.
LEMMA DeepTold ==
    ASSUME NEW ms \in Seq(Chatting), NEW enabled \in BOOLEAN
    PROVE  LET body == DeepSeekBody(ms, enabled)
               deep == body.messages
           IN  /\ DOMAIN deep = DOMAIN ms
               /\ \A k \in DOMAIN ms :
                     /\ deep[k].blocks \in Seq(Blk)
                     /\ \/ OfType(deep[k].blocks, Common) = OfType(ms[k].blocks, Common)
                        \/ deep[k].blocks = <<Omitted>>
                     /\ deep[k].role = "user" => deep[k].blocks # <<>>
                     /\ Free(deep[k].blocks, {"redacted_thinking"} \cup Attachments)
                     /\ ~body.thinks => Free(deep[k].blocks, {"thinking"})
<1> DEFINE body == DeepSeekBody(ms, enabled)
           deep == body.messages
           s == StripAttachments(ms)
           H == IF body.thinks THEN {"redacted_thinking"} ELSE Thoughts
<1>1. DOMAIN deep = DOMAIN ms /\ \A k \in DOMAIN ms : Sanitized(deep[k], s[k], H)
  BY DeepEach
<1>2. H \in SUBSET Thoughts /\ "redacted_thinking" \in H /\ (~body.thinks => "thinking" \in H)
  BY DEF Thoughts
<1>3. \A k \in DOMAIN ms : s[k] \in SomeMessages /\ Stripped(s[k], ms[k])
  <2>1. \A k \in DOMAIN ms : ms[k] \in Chatting
    OBVIOUS
  <2> QED BY <2>1, StrippedEach
<1> HIDE DEF body, s, H
<1>4. ASSUME NEW k \in DOMAIN ms
      PROVE  /\ deep[k].blocks \in Seq(Blk)
             /\ \/ OfType(deep[k].blocks, Common) = OfType(ms[k].blocks, Common)
                \/ deep[k].blocks = <<Omitted>>
             /\ deep[k].role = "user" => deep[k].blocks # <<>>
             /\ Free(deep[k].blocks, {"redacted_thinking"} \cup Attachments)
             /\ ~body.thinks => Free(deep[k].blocks, {"thinking"})
  <2> DEFINE m == ms[k]
             t == s[k]
             n == deep[k]
  <2>1. m \in Chatting /\ t \in SomeMessages /\ Stripped(t, m) /\ Sanitized(n, t, H)
    BY <1>1, <1>3
  <2> HIDE DEF m, t, n
  <2>2. /\ t \in Chatting /\ Free(t.blocks, Attachments)
        /\ \/ OfType(t.blocks, Common) = OfType(m.blocks, Common)
           \/ t.role = "user" /\ t.blocks = <<Omitted>>
    BY <2>1, StrippedTells
  <2>3. /\ n.blocks \in Seq(Blk) /\ Free(n.blocks, H)
        /\ OfType(n.blocks, Common) = OfType(t.blocks, Common)
        /\ Free(n.blocks, Attachments)
    BY <1>2, <2>1, <2>2, SanitizedTells
  <2>4. t.role = "user" => n.role = "user" /\ n.blocks = t.blocks
    BY <2>1 DEF Sanitized
  <2>5. n.role = "user" => n.blocks # <<>>
    <3>1. n.role = t.role
      BY <2>1 DEF Sanitized
    <3> QED BY <2>2, <2>4, <3>1, ChattingFields
  <2>6. OfType(n.blocks, Common) = OfType(m.blocks, Common) \/ n.blocks = <<Omitted>>
    BY <2>2, <2>3, <2>4
  <2>7. Free(n.blocks, {"redacted_thinking"} \cup Attachments)
    BY <1>2, <2>3 DEF Free
  <2>8. ~body.thinks => Free(n.blocks, {"thinking"})
    BY <1>2, <2>3 DEF Free
  <2> QED BY <2>3, <2>5, <2>6, <2>7, <2>8 DEF m, n
<1> QED BY <1>1, <1>4 DEF body

\* If DeepSeek thinks where there are calls, it is shown a thought in front of one.
LEMMA DeepThinks ==
    ASSUME NEW ms \in Seq(Chatting), NEW enabled \in BOOLEAN,
           DeepSeekBody(ms, enabled).thinks,
           NEW c \in DOMAIN ms, OfType(DeepSeekBody(ms, enabled).messages[c].blocks, {"tool_use"}) # <<>>
    PROVE  LET deep == DeepSeekBody(ms, enabled).messages
           IN  \E k \in DOMAIN ms : \E i, j \in DOMAIN deep[k].blocks :
                  i < j /\ deep[k].blocks[i].type = "thinking" /\ deep[k].blocks[j].type = "tool_use"
<1> DEFINE deep == DeepSeekBody(ms, enabled).messages
           s == StripAttachments(ms)
           H == {"redacted_thinking"}
<1>1. /\ DOMAIN deep = DOMAIN ms /\ \A k \in DOMAIN ms : Sanitized(deep[k], s[k], H)
      /\ DeepSeekThinks(s, enabled)
  BY DeepEach
<1>2. DOMAIN s = DOMAIN ms /\ \A k \in DOMAIN ms : s[k] \in Chatting
  <2>1. \A k \in DOMAIN ms : ms[k] \in Chatting
    OBVIOUS
  <2> QED BY <2>1, StrippedEach, StrippedTells
<1>3. OfType(deep[c].blocks, {"tool_use"}) # <<>>
  OBVIOUS
<1> HIDE DEF deep, s
<1>4. H \in SUBSET Thoughts
  BY DEF Thoughts
<1>5. HasToolHistory(s)
  <2> DEFINE t == s[c]
             n == deep[c]
             U == {"tool_use", "tool_result"}
  <2>1. t \in Chatting /\ Sanitized(n, t, H)
    BY <1>1, <1>2
  <2> HIDE DEF t, n, H
  <2>2. n.blocks \in Seq(Blk) /\ (Free(t.blocks, {"tool_use"}) => Free(n.blocks, {"tool_use"}))
    BY <1>4, <2>1, SanitizedTells
  <2>3. ~Free(n.blocks, {"tool_use"})
    BY <1>3, <2>2, FreeHasNone DEF n
  <2>4. PICK i \in DOMAIN t.blocks : t.blocks[i].type \in {"tool_use"}
    BY <2>2, <2>3 DEF Free
  <2>5. t.blocks \in Seq(Blk) /\ t.blocks[i].type \in U
    BY <2>1, <2>4, ChattingFields
  <2>6. OfType(t.blocks, U) # <<>>
    <3> HIDE DEF U
    <3> QED BY <2>4, <2>5, OfTypeEmpty
  <2> QED BY <1>2, <2>6 DEF HasToolHistory, t
<1>6. PICK k \in DOMAIN ms : ThinksBeforeCalls(s[k])
  BY <1>1, <1>2, <1>5 DEF DeepSeekThinks
<1> DEFINE m == s[k]
           n == deep[k]
<1>7. m \in Chatting /\ Sanitized(n, m, H) /\ ThinksBeforeCalls(m)
  BY <1>1, <1>2, <1>6
<1> HIDE DEF m, n
<1>8. PICK i, j \in DOMAIN m.blocks :
         i < j /\ m.blocks[i].type = "thinking" /\ m.blocks[j].type = "tool_use"
  BY <1>7, ThoughtBeforeCall
<1>9. m.role = "assistant" /\ ~m.plain
  <2>1. ~Free(m.blocks, Thoughts \cup {"tool_use"})
    BY <1>8 DEF Free
  <2> QED BY <1>7, <2>1, ChattingFree, ChattingFields
<1> DEFINE A == BlockTypes \ H
<1>10. n.blocks = OfType(m.blocks, A) /\ "thinking" \in A /\ "tool_use" \in A
  BY <1>7, <1>9 DEF Sanitized, BlockTypes, Thoughts
<1> HIDE DEF A
<1>11. Keeps(m.blocks, n.blocks, A)
  BY <1>7, <1>10, ChattingFields, OfTypeKeeps
<1>12. PICK x, y \in DOMAIN n.blocks : x < y /\ n.blocks[x] = m.blocks[i] /\ n.blocks[y] = m.blocks[j]
  BY <1>8, <1>10, <1>11 DEF Keeps
<1>13. x < y /\ n.blocks[x].type = "thinking" /\ n.blocks[y].type = "tool_use"
  BY <1>8, <1>12
<1> QED BY <1>12, <1>13 DEF n, deep

\* A history of its kind is told to native providers as it should be.
LEMMA NativeTells == HistoryInv => NativeTellsAll
<1> SUFFICES ASSUME HistoryInv, NEW enabled \in BOOLEAN, NEW signed \in BOOLEAN
             PROVE  LET native == NativeMessages(Messages, enabled, signed)
                        deep == DeepSeekBody(Messages, enabled).messages
                        thinks == DeepSeekBody(Messages, enabled).thinks
                        Kept(messages) == [k \in DOMAIN messages |-> OfType(messages[k].blocks, Common)]
                        Holds(messages, types) ==
                            \E k \in DOMAIN messages : OfType(messages[k].blocks, types) # <<>>
                    IN  /\ Kept(native) = Kept(Messages)
                        /\ ~enabled => ~Holds(native, Thoughts)
                        /\ ~signed => ~Holds(native, {"thinking"})
                        /\ \A k \in DOMAIN deep :
                            /\ Kept(deep)[k] = Kept(Messages)[k] \/ deep[k].blocks = <<Omitted>>
                            /\ deep[k].role = "user" => deep[k].blocks # <<>>
                        /\ ~Holds(deep, {"redacted_thinking"} \cup Attachments)
                        /\ ~thinks => ~Holds(deep, {"thinking"})
                        /\ (thinks /\ Holds(deep, {"tool_use"})) =>
                            \E k \in DOMAIN deep : \E i, j \in DOMAIN deep[k].blocks :
                                i < j /\ deep[k].blocks[i].type = "thinking"
                                      /\ deep[k].blocks[j].type = "tool_use"
  BY DEF NativeTellsAll, Common
<1> DEFINE ms == Messages
           native == NativeMessages(ms, enabled, signed)
           body == DeepSeekBody(ms, enabled)
           deep == body.messages
           T == {"redacted_thinking"} \cup Attachments
<1>1. ms \in Seq(Chatting)
  BY RequestFits
<1> HIDE DEF ms
<1>2. /\ DOMAIN native = DOMAIN ms
      /\ \A k \in DOMAIN ms :
            /\ OfType(native[k].blocks, Common) = OfType(ms[k].blocks, Common)
            /\ ~enabled => OfType(native[k].blocks, Thoughts) = <<>>
            /\ ~signed => OfType(native[k].blocks, {"thinking"}) = <<>>
  BY <1>1, NativeTold
<1>3. /\ DOMAIN deep = DOMAIN ms
      /\ \A k \in DOMAIN ms :
            /\ deep[k].blocks \in Seq(Blk)
            /\ \/ OfType(deep[k].blocks, Common) = OfType(ms[k].blocks, Common)
               \/ deep[k].blocks = <<Omitted>>
            /\ deep[k].role = "user" => deep[k].blocks # <<>>
            /\ Free(deep[k].blocks, {"redacted_thinking"} \cup Attachments)
            /\ ~body.thinks => Free(deep[k].blocks, {"thinking"})
  BY <1>1, DeepTold
<1>4. ASSUME body.thinks, NEW c \in DOMAIN ms, OfType(deep[c].blocks, {"tool_use"}) # <<>>
      PROVE  \E k \in DOMAIN ms : \E i, j \in DOMAIN deep[k].blocks :
                i < j /\ deep[k].blocks[i].type = "thinking" /\ deep[k].blocks[j].type = "tool_use"
  BY <1>1, <1>4, DeepThinks
<1> HIDE DEF native, body, T
<1>5. \A k \in DOMAIN ms :
         OfType(deep[k].blocks, T) = <<>> /\ (~body.thinks => OfType(deep[k].blocks, {"thinking"}) = <<>>)
  BY <1>3, FreeHasNone DEF T
<1>6. [k \in DOMAIN native |-> OfType(native[k].blocks, Common)]
         = [k \in DOMAIN ms |-> OfType(ms[k].blocks, Common)]
  BY <1>2
<1>7. \A k \in DOMAIN deep :
         \/ [j \in DOMAIN deep |-> OfType(deep[j].blocks, Common)][k]
               = [j \in DOMAIN ms |-> OfType(ms[j].blocks, Common)][k]
         \/ deep[k].blocks = <<Omitted>>
  BY <1>3
<1> QED BY <1>2, <1>3, <1>4, <1>5, <1>6, <1>7 DEF native, body, ms, T

\* Every request to a native provider has the calls and the results that the client
\* wrote, no thought that the provider does not take, no message of the user that
\* is empty; and DeepSeek thinks about results only if it is shown a thought that led
\* to calls.
THEOREM NativeTellsAllHolds == ExchangeSpec => []NativeTellsAll
BY HistoryFits, NativeTells, PTL

-----------------------------------------------------------------------------
(***************************************************************************)
(* The answer.  While an attempt runs, the events that were yielded, what  *)
(* the tracker has noted of them, the segments of the policy and the       *)
(* blocks of the provider say the same of each block (StreamInv), until a  *)
(* thought without a start has reached the client: from then on only the   *)
(* frame of the attempt is kept (AnswerInv).                               *)
(***************************************************************************)

\* A piece of a block, and the events and states of the stream.
PieceType == [from : Nat, n : Nat]
PlainTypes == {"message_start", "message_delta", "message_stop", "done", "error"}
StartEvents == [t : {"start"}, index : Nat, kind : Kinds, call : Nat, named : BOOLEAN]
DeltaEvents == [t : {"delta"}, index : Nat, kind : Kinds, pieces : Seq(PieceType)]
StopEvents == [t : {"stop"}, index : Nat]
Events == [t : PlainTypes] \cup StartEvents \cup DeltaEvents \cup StopEvents
TrackedBlocks == [index : Nat, kind : Kinds, named : BOOLEAN, pieces : Seq(PieceType)]
Trackers == [blocks : Seq(TrackedBlocks), stack : Seq(Nat), reason : BOOLEAN, stopped : BOOLEAN]
SegmentType == [kind : Kinds, down : Nat, open : BOOLEAN, call : Nat, named : BOOLEAN]
UpstreamBlocks == [kind : Kinds, open : BOOLEAN, pieces : 0 .. 2]
Stages == {"start", "blocks", "delta", "stopped", "done"}

\* The provider numbers its blocks from 0.
Upstreams == [blocks : UNION {[0 .. (n - 1) -> UpstreamBlocks] : n \in 0 .. MaxBlocks}, stage : Stages]
Segments == UNION {[D -> SegmentType] : D \in SUBSET Nat}
Policies == [next : Nat, segment : Segments,
             dropped : SUBSET Nat, pending : SUBSET Nat, stopped : BOOLEAN]

\* A call that is closed is whole, and all blocks are closed when the message ends.
AllClosed(up) == \A u \in DOMAIN up.blocks : ~up.blocks[u].open
Regular(up) ==
    /\ up \in Upstreams
    /\ up.stage \in {"delta", "stopped"} => AllClosed(up)
    /\ \A u \in DOMAIN up.blocks :
          up.blocks[u].kind = "tool_use" /\ ~up.blocks[u].open => up.blocks[u].pieces = 2
AtEnd(up) == up.stage \in {"stopped", "done"} /\ AllClosed(up)

\* The provider's blocks that have a segment, and those that are dropped.
Sorted(p, blocks) ==
    /\ p \in Policies
    /\ DOMAIN p.segment \cup p.dropped \subseteq DOMAIN blocks
    /\ DOMAIN p.segment \cap p.dropped = {}
    /\ \A u \in DOMAIN p.segment :
          p.segment[u].down < p.next /\ p.segment[u].kind = blocks[u].kind

\* What a client that got these events was told is what the tracker has noted.
Noted(events, blocks) ==
    /\ \A k \in DOMAIN blocks : /\ blocks[k].index = k - 1
                                /\ blocks[k].pieces = CarriedIn(events, k - 1)
    /\ \A i \in Nat : i >= Len(blocks) => CarriedIn(events, i) = <<>>
    /\ \A n \in DOMAIN events : events[n].t = "start" =>
           /\ events[n].index < Len(blocks)
           /\ events[n].kind = blocks[events[n].index + 1].kind

\* Every piece is from one of these.
From(pieces, sources) == \A j \in DOMAIN pieces : pieces[j].from \in sources
Clean(events, sources) ==
    \A n \in DOMAIN events : events[n].t = "delta" => From(events[n].pieces, sources)

\* The tracker knows what these events of an attempt have told.
Witnessed(events, tk, attempt) ==
    /\ events \in Seq(Events) /\ tk \in Trackers
    /\ Noted(events, tk.blocks) /\ Clean(events, {attempt})

Yielded == sent \o held

\* Every block of the client is one of the provider's, with what it has sent of it.
Given(attempt, n) == [j \in 1 .. n |-> Piece(attempt, j)]
Owned(p, told, blocks, attempt) ==
    /\ \A u \in DOMAIN p.segment :
          told[p.segment[u].down + 1].pieces = Given(attempt, blocks[u].pieces)
    /\ \A u \in DOMAIN p.segment : told[p.segment[u].down + 1].kind = blocks[u].kind
    /\ \A k \in DOMAIN told : \E u \in DOMAIN p.segment : p.segment[u].down = k - 1
    /\ \A u, v \in DOMAIN p.segment : p.segment[u].down = p.segment[v].down => u = v
    /\ \A u \in DOMAIN p.segment : blocks[u].open => p.segment[u].open \/ u \in p.pending

\* No segment is of a kind that the client did not ask for, and what has none is a
\* thought that it did not ask for.
Unwanted(kind, enabled) == kind = "thinking" /\ ~enabled
Wanted(p, blocks, enabled) ==
    /\ \A u \in DOMAIN p.segment : ~Unwanted(p.segment[u].kind, enabled)
    /\ \A u \in DOMAIN blocks \ DOMAIN p.segment : Unwanted(blocks[u].kind, enabled)

\* The client was told each segment's kind.
Kindred(p, told) ==
    \A u \in DOMAIN p.segment : told[p.segment[u].down + 1].kind = p.segment[u].kind

\* The provider, the policy, the tracker and the events of an attempt fit together;
\* own, when the provider has come back to no block that was closed.
Live(up, p, tk, events, attempt, own, enabled) ==
    /\ Regular(up) /\ (p.stopped \/ tk.stopped => AtEnd(up))
    /\ Sorted(p, up.blocks) /\ Wanted(p, up.blocks, enabled) /\ Kindred(p, tk.blocks)
    /\ Witnessed(events, tk, attempt) /\ Len(tk.blocks) = p.next
    /\ own => Owned(p, tk.blocks, up.blocks, attempt)

LiveInv == Live(upstream, policy, tracker, Yielded, retries, "returned" \notin quirks, thinking)

StreamTypes ==
    /\ phase \in {"opening", "reading", "recovering"} \cup Ended
    /\ thinking \in BOOLEAN /\ router \in BOOLEAN /\ committed \in BOOLEAN
    /\ retries \in 0 .. MaxRetries
    /\ sent \in Seq(Events) /\ held \in Seq(Events) /\ tracker \in Trackers

\* Nothing was given to the client before the holdback ended, and what was is of the
\* attempt that runs; once the stream is over it is one attempt's for good.
StreamInv ==
    /\ StreamTypes
    /\ committed => held = <<>>
    /\ ~committed => sent = <<>> \/ phase \in Ended
    /\ phase = "opening" => /\ policy = NewPolicy /\ tracker = NewTracker
                            /\ sent = <<>> /\ held = <<>> /\ ~committed
    /\ phase \in {"reading", "recovering"} => LiveInv
    /\ phase \in Ended => AnswerOfOneAttempt

\* What holds of an attempt whatever the provider sends.
Frame ==
    /\ phase \in {"opening", "reading", "recovering"} \cup Ended
    /\ thinking \in BOOLEAN /\ router \in BOOLEAN /\ committed \in BOOLEAN
    /\ retries \in 0 .. MaxRetries
    /\ committed => held = <<>>
    /\ ~committed => sent = <<>> \/ phase \in Ended
    /\ phase = "opening" => /\ policy = NewPolicy /\ tracker = NewTracker
                            /\ sent = <<>> /\ held = <<>> /\ ~committed

AnswerInv == Frame /\ ("loose" \notin quirks => StreamInv)

-----------------------------------------------------------------------------
\* Only, by a function.
Picks(B, S) == [e \in B |-> IF e \in S THEN <<e>> ELSE <<>>]

\* It maps each element to itself or to nothing.
LEMMA OnlyIsEach ==
    ASSUME NEW B, NEW S
    PROVE  /\ Maps(Picks(B, S), B, B)
           /\ \A e \in B : Picks(B, S)[e] = IF e \in S THEN <<e>> ELSE <<>>
           /\ \A u \in Seq(B) : Only(u, S) = FlattenSeq(Each(u, Picks(B, S)))
<1> DEFINE F == Picks(B, S)
<1>1. \A e \in B : F[e] = IF e \in S THEN <<e>> ELSE <<>>
  BY DEF Picks
<1>2. Maps(F, B, B)
  <2>1. \A e \in B : <<e>> \in Seq(B) /\ <<>> \in Seq(B)
    BY EmptySeq
  <2> QED BY <2>1 DEF Maps, Picks
<1> HIDE DEF F
<1>3. \A u \in Seq(B) : Only(u, S) = FlattenSeq(Each(u, F))
  <2> SUFFICES ASSUME NEW u \in Seq(B) PROVE Only(u, S) = FlattenSeq(Each(u, F))
    OBVIOUS
  <2>1. \A k \in DOMAIN u : F[u[k]] = IF u[k] \in S THEN <<u[k]>> ELSE <<>>
    BY <1>1
  <2>2. [k \in DOMAIN u |-> IF u[k] \in S THEN <<u[k]>> ELSE <<>>] = Each(u, F)
    BY <2>1 DEF Each
  <2> QED BY <2>2 DEF Only
<1> QED BY <1>1, <1>2, <1>3 DEF F

\* Elements are picked from two sequences as from each.
LEMMA OnlyConcat ==
    ASSUME NEW B, NEW s \in Seq(B), NEW t \in Seq(B), NEW w, Concats(s, t, w), NEW S
    PROVE  /\ Only(s, S) \in Seq(B) /\ Only(t, S) \in Seq(B)
           /\ Concats(Only(s, S), Only(t, S), Only(w, S))
<1>1. w \in Seq(B)
  BY ConcatProperties DEF Concats
<1>2. PICK F : /\ Maps(F, B, B)
               /\ \A u \in Seq(B) : Only(u, S) = FlattenSeq(Each(u, F))
  BY OnlyIsEach
<1>3. /\ FlattenSeq(Each(s, F)) \in Seq(B) /\ FlattenSeq(Each(t, F)) \in Seq(B)
      /\ Concats(FlattenSeq(Each(s, F)), FlattenSeq(Each(t, F)), FlattenSeq(Each(w, F)))
  <2>1. Maps(F, B, B)
    BY <1>2
  <2> QED BY <2>1, EachConcat
<1> QED BY <1>1, <1>2, <1>3

\* Those that are picked are elements.
LEMMA OnlyTyped ==
    ASSUME NEW B, NEW s \in Seq(B), NEW S
    PROVE  Only(s, S) \in Seq(B)
<1>1. Concats(s, s, s \o s)
  BY DEF Concats
<1> QED BY <1>1, OnlyConcat

\* One element more.
LEMMA OnlyOne ==
    ASSUME NEW B, NEW s \in Seq(B), NEW e \in B, NEW S
    PROVE  Only(Append(s, e), S) = IF e \in S THEN Append(Only(s, S), e) ELSE Only(s, S)
<1>1. Append(s, e) \in Seq(B)
  BY AppendProperties
<1>2. PICK F : /\ Maps(F, B, B)
               /\ \A x \in B : F[x] = IF x \in S THEN <<x>> ELSE <<>>
               /\ \A u \in Seq(B) : Only(u, S) = FlattenSeq(Each(u, F))
  BY OnlyIsEach
<1>3. /\ FlattenSeq(Each(s, F)) \in Seq(B)
      /\ FlattenSeq(Each(Append(s, e), F)) = FlattenSeq(Each(s, F)) \o F[e]
  BY <1>2, EachFacts
<1>4. ASSUME NEW o \in Seq(B) PROVE o \o <<e>> = Append(o, e) /\ o \o <<>> = o
  BY AppendIsConcat, ConcatEmptySeq
<1> QED BY <1>1, <1>2, <1>3, <1>4

\* All of a sequence, or nothing of it.
Within(s, S) == \A k \in DOMAIN s : s[k] \in S
Outside(s, S) == \A k \in DOMAIN s : s[k] \notin S

\* All of them are picked, or none.
LEMMA OnlyAll ==
    ASSUME NEW B, NEW S
    PROVE  \A s \in Seq(B) : /\ Within(s, S) => Only(s, S) = s
                             /\ Outside(s, S) => Only(s, S) = <<>>
<1> DEFINE P == {s \in Seq(B) : (Within(s, S) => Only(s, S) = s) /\ (Outside(s, S) => Only(s, S) = <<>>)}
<1>1. <<>> \in P
  <2>1. [k \in DOMAIN <<>> |-> IF (<<>>)[k] \in S THEN <<(<<>>)[k]>> ELSE <<>>] = <<>>
    BY EmptyDomain, EmptySeq
  <2>2. FlattenSeq(<<>>) = <<>>
    BY FlattenUnfolds, EmptySeq
  <2>3. Only(<<>>, S) = <<>>
    BY <2>1, <2>2 DEF Only
  <2> QED BY <2>3, EmptySeq
<1>2. ASSUME NEW s \in Seq(B), NEW e \in B, s \in P PROVE Append(s, e) \in P
  <2> DEFINE a == Append(s, e)
  <2>1. /\ a \in Seq(B) /\ Len(s) \in Nat /\ DOMAIN a = 1 .. (Len(s) + 1) /\ DOMAIN s = 1 .. Len(s)
        /\ a[Len(s) + 1] = e /\ \A k \in 1 .. Len(s) : a[k] = s[k]
    BY AppendProperties
  <2>2. Len(s) + 1 \in DOMAIN a /\ \A k \in DOMAIN s : k \in DOMAIN a /\ a[k] = s[k]
    BY <2>1
  <2>3. Only(a, S) = IF e \in S THEN Append(Only(s, S), e) ELSE Only(s, S)
    BY OnlyOne
  <2>4. /\ Within(s, S) => Only(s, S) = s
        /\ Outside(s, S) => Only(s, S) = <<>>
    BY <1>2
  <2>5. /\ Within(a, S) => Within(s, S) /\ e \in S
        /\ Outside(a, S) => Outside(s, S) /\ e \notin S
    <3> HIDE DEF a
    <3> QED BY <2>1, <2>2 DEF Within, Outside
  <2>6. Within(a, S) => Only(a, S) = a
    BY <2>3, <2>4, <2>5
  <2>7. Outside(a, S) => Only(a, S) = <<>>
    BY <2>3, <2>4, <2>5
  <2> HIDE DEF a
  <2> QED BY <2>1, <2>6, <2>7 DEF a
<1>3. \A s \in Seq(B) : s \in P
  <2> HIDE DEF P
  <2> QED BY <1>1, <1>2, SequenceInduction
<1>4. ASSUME NEW s \in P PROVE (Within(s, S) => Only(s, S) = s) /\ (Outside(s, S) => Only(s, S) = <<>>)
  OBVIOUS
<1> HIDE DEF P
<1> QED BY <1>3, <1>4

\* What an event has.
LEMMA EventFacts ==
    ASSUME NEW e \in Events
    PROVE  /\ e.t = "start" => e \in StartEvents
           /\ e.t = "delta" => e \in DeltaEvents
           /\ e.t = "stop" => e \in StopEvents
           /\ e.t \notin {"start", "delta", "stop"} => e \in [t : PlainTypes]
           /\ e.t \in PlainTypes \cup {"start", "delta", "stop"}
BY DEF Events, StartEvents, DeltaEvents, StopEvents, PlainTypes

\* How events are made.
LEMMA MadeEvents ==
    ASSUME NEW i \in Nat
    PROVE  /\ StopEvent(i) \in Events /\ StopEvent(i).t = "stop"
           /\ \A kind \in Kinds, pieces \in Seq(PieceType) :
                 /\ DeltaEvent(i, kind, pieces) \in Events
                 /\ DeltaEvent(i, kind, pieces).t = "delta"
                 /\ DeltaEvent(i, kind, pieces).index = i
                 /\ DeltaEvent(i, kind, pieces).pieces = pieces
           /\ \A kind \in Kinds, call \in Nat, named \in BOOLEAN :
                 /\ StartEvent(i, kind, call, named) \in Events
                 /\ StartEvent(i, kind, call, named).t = "start"
                 /\ StartEvent(i, kind, call, named).index = i
                 /\ StartEvent(i, kind, call, named).kind = kind
                 /\ StartEvent(i, kind, call, named).named = named
           /\ \A t \in PlainTypes : Event(t) \in Events /\ Event(t).t = t
<1>1. StopEvent(i) \in StopEvents
  BY DEF StopEvent, StopEvents
<1>2. \A kind \in Kinds, pieces \in Seq(PieceType) : DeltaEvent(i, kind, pieces) \in DeltaEvents
  BY DEF DeltaEvent, DeltaEvents
<1>3. \A kind \in Kinds, call \in Nat, named \in BOOLEAN :
         StartEvent(i, kind, call, named) \in StartEvents
  BY DEF StartEvent, StartEvents
<1>4. \A t \in PlainTypes : Event(t) \in [t : PlainTypes] /\ Event(t).t = t
  BY DEF Event
<1>5. \A e : e \in StopEvents \/ e \in DeltaEvents \/ e \in StartEvents \/ e \in [t : PlainTypes]
               => e \in Events
  BY DEF Events
<1>6. StopEvent(i).t = "stop"
  BY DEF StopEvent
<1>7. \A kind \in Kinds, pieces \in Seq(PieceType) :
         /\ DeltaEvent(i, kind, pieces).t = "delta" /\ DeltaEvent(i, kind, pieces).index = i
         /\ DeltaEvent(i, kind, pieces).pieces = pieces
  BY DEF DeltaEvent
<1>8. \A kind \in Kinds, call \in Nat, named \in BOOLEAN :
         /\ StartEvent(i, kind, call, named).t = "start" /\ StartEvent(i, kind, call, named).index = i
         /\ StartEvent(i, kind, call, named).kind = kind /\ StartEvent(i, kind, call, named).named = named
  BY DEF StartEvent
<1> QED BY <1>1, <1>2, <1>3, <1>4, <1>5, <1>6, <1>7, <1>8

\* What block i is given by an event, and by a sequence of events.
Gives(e, i) == IF e.t = "delta" /\ e.index = i THEN e.pieces ELSE <<>>
Carries(i) == [e \in Events |-> Gives(e, i)]

\* What a block is given, event by event.
LEMMA CarriedIsEach ==
    ASSUME NEW i
    PROVE  /\ Maps(Carries(i), Events, PieceType)
           /\ \A e \in Events : Carries(i)[e] = Gives(e, i) /\ Gives(e, i) \in Seq(PieceType)
           /\ \A s \in Seq(Events) : CarriedIn(s, i) = FlattenSeq(Each(s, Carries(i)))
<1> DEFINE F == Carries(i)
<1>1. \A e \in Events : Gives(e, i) \in Seq(PieceType)
  <2> SUFFICES ASSUME NEW e \in Events PROVE Gives(e, i) \in Seq(PieceType)
    OBVIOUS
  <2>1. e.t = "delta" => e.pieces \in Seq(PieceType)
    BY EventFacts DEF DeltaEvents
  <2> QED BY <2>1, EmptySeq DEF Gives
<1>2. \A e \in Events : F[e] = Gives(e, i)
  BY DEF Carries
<1>3. Maps(F, Events, PieceType)
  BY <1>1 DEF Maps, Carries
<1> HIDE DEF F
<1>4. \A s \in Seq(Events) : CarriedIn(s, i) = FlattenSeq(Each(s, F))
  <2> SUFFICES ASSUME NEW s \in Seq(Events) PROVE CarriedIn(s, i) = FlattenSeq(Each(s, F))
    OBVIOUS
  <2>0. \A k \in DOMAIN s : s[k] \in Events
    OBVIOUS
  <2>1. \A k \in DOMAIN s : F[s[k]] = IF s[k].t = "delta" /\ s[k].index = i THEN s[k].pieces ELSE <<>>
    BY <1>2, <2>0 DEF Gives
  <2>2. [k \in DOMAIN s |-> IF s[k].t = "delta" /\ s[k].index = i THEN s[k].pieces ELSE <<>>]
           = Each(s, F)
    BY <2>1 DEF Each
  <2> QED BY <2>2 DEF CarriedIn
<1> QED BY <1>1, <1>2, <1>3, <1>4 DEF F

\* Of no events, of one more, and of two sequences.
LEMMA CarriedFacts ==
    ASSUME NEW s \in Seq(Events), NEW i
    PROVE  /\ CarriedIn(<<>>, i) = <<>>
           /\ CarriedIn(s, i) \in Seq(PieceType)
           /\ \A e \in Events : CarriedIn(Append(s, e), i) = CarriedIn(s, i) \o Gives(e, i)
<1>1. PICK F : /\ Maps(F, Events, PieceType)
               /\ \A e \in Events : F[e] = Gives(e, i)
               /\ \A u \in Seq(Events) : CarriedIn(u, i) = FlattenSeq(Each(u, F))
  BY CarriedIsEach
<1>2. CarriedIn(<<>>, i) = <<>>
  BY <1>1, EachOfEmpty, EmptySeq
<1>3. \A e \in Events : /\ CarriedIn(s, i) \in Seq(PieceType)
                        /\ CarriedIn(Append(s, e), i) = CarriedIn(s, i) \o Gives(e, i)
  <2> SUFFICES ASSUME NEW e \in Events
               PROVE  /\ CarriedIn(s, i) \in Seq(PieceType)
                      /\ CarriedIn(Append(s, e), i) = CarriedIn(s, i) \o Gives(e, i)
    OBVIOUS
  <2>1. Append(s, e) \in Seq(Events)
    BY AppendProperties
  <2>2. /\ FlattenSeq(Each(s, F)) \in Seq(PieceType)
        /\ FlattenSeq(Each(Append(s, e), F)) = FlattenSeq(Each(s, F)) \o F[e]
    BY <1>1, EachFacts
  <2> QED BY <1>1, <2>1, <2>2
<1>4. \E e : e \in Events
  <2>1. Event("done") \in Events
    BY MadeEvents DEF PlainTypes
  <2> QED BY <2>1
<1> QED BY <1>2, <1>3, <1>4

\* And of two sequences, one behind the other.
LEMMA CarriedConcat ==
    ASSUME NEW s \in Seq(Events), NEW t \in Seq(Events), NEW i
    PROVE  CarriedIn(s \o t, i) = CarriedIn(s, i) \o CarriedIn(t, i)
<1>1. PICK F : /\ Maps(F, Events, PieceType)
               /\ \A u \in Seq(Events) : CarriedIn(u, i) = FlattenSeq(Each(u, F))
  BY CarriedIsEach
<1>2. Concats(s, t, s \o t) /\ s \o t \in Seq(Events)
  BY ConcatProperties DEF Concats
<1>3. Concats(FlattenSeq(Each(s, F)), FlattenSeq(Each(t, F)), FlattenSeq(Each(s \o t, F)))
  <2>1. Maps(F, Events, PieceType)
    BY <1>1
  <2> QED BY <1>2, <2>1, EachConcat
<1> QED BY <1>1, <1>2, <1>3 DEF Concats

-----------------------------------------------------------------------------
(***************************************************************************)
(* The tracker.                                                            *)
(***************************************************************************)

NewBlock(e) == [index |-> e.index, kind |-> e.kind, named |-> e.named, pieces |-> <<>>]

\* A tracker of these parts.
IsMade(tk, b, s, r, st) == tk = [blocks |-> b, stack |-> s, reason |-> r, stopped |-> st]

\* It has them, and is one.
LEMMA MadeTracker ==
    ASSUME NEW tk, NEW b \in Seq(TrackedBlocks), NEW s \in Seq(Nat), NEW r \in BOOLEAN,
           NEW st \in BOOLEAN, IsMade(tk, b, s, r, st)
    PROVE  tk \in Trackers /\ tk.blocks = b /\ (tk.stopped <=> st)
BY DEF IsMade, Trackers

\* What one event changes in the tracker.
LEMMA ObserveFacts ==
    ASSUME NEW tk \in Trackers, NEW e \in Events
    PROVE  /\ Observe(tk, e) \in Trackers
           /\ e.t = "start" => Observe(tk, e).blocks = Append(tk.blocks, NewBlock(e))
           /\ e.t = "delta" => Observe(tk, e).blocks = Filled(tk.blocks, e)
           /\ e.t \notin {"start", "delta"} => Observe(tk, e).blocks = tk.blocks
           /\ Observe(tk, e).stopped <=> (tk.stopped \/ e.t = "message_stop")
<1>1. /\ tk.blocks \in Seq(TrackedBlocks) /\ tk.stack \in Seq(Nat)
      /\ tk.reason \in BOOLEAN /\ tk.stopped \in BOOLEAN
      /\ tk = [blocks |-> tk.blocks, stack |-> tk.stack, reason |-> tk.reason, stopped |-> tk.stopped]
  BY DEF Trackers
<1>3. CASE e.t = "start"
  <2>1. e \in StartEvents
    BY <1>3, EventFacts
  <2>2. NewBlock(e) \in TrackedBlocks /\ e.index \in Nat
    BY <2>1, EmptySeq DEF StartEvents, NewBlock, TrackedBlocks
  <2>3. Append(tk.blocks, NewBlock(e)) \in Seq(TrackedBlocks) /\ Append(tk.stack, e.index) \in Seq(Nat)
    BY <1>1, <2>2, AppendProperties
  <2> DEFINE b == Append(tk.blocks, NewBlock(e))
             st == Append(tk.stack, e.index)
             new == Observe(tk, e)
  <2>4. IsMade(new, b, st, tk.reason, tk.stopped)
    BY <1>1, <1>3 DEF Observe, NewBlock, IsMade
  <2>5. b \in Seq(TrackedBlocks) /\ st \in Seq(Nat) /\ tk.reason \in BOOLEAN /\ tk.stopped \in BOOLEAN
    BY <1>1, <2>3
  <2> HIDE DEF b, st, new
  <2>6. new \in Trackers /\ new.blocks = b /\ (new.stopped <=> tk.stopped)
    BY <2>4, <2>5, MadeTracker
  <2> QED BY <1>3, <2>6 DEF b, new
<1>4. CASE e.t = "delta"
  <2>1. e \in DeltaEvents
    BY <1>4, EventFacts
  <2>2. Filled(tk.blocks, e) \in Seq(TrackedBlocks)
    <3> DEFINE bs == tk.blocks
    <3>1. ASSUME NEW k \in 1 .. Len(bs) PROVE Filled(bs, e)[k] \in TrackedBlocks
      <4>0. bs[k] \in TrackedBlocks
        BY <1>1
      <4>1. bs[k] \in TrackedBlocks /\ bs[k].pieces \in Seq(PieceType) /\ e.pieces \in Seq(PieceType)
        BY <2>1, <4>0 DEF TrackedBlocks, DeltaEvents
      <4>2. bs[k].pieces \o e.pieces \in Seq(PieceType)
        <5> DEFINE x == bs[k].pieces
                   y == e.pieces
        <5>1. x \in Seq(PieceType) /\ y \in Seq(PieceType)
          BY <4>1
        <5> HIDE DEF x, y
        <5>2. x \o y \in Seq(PieceType)
          BY <5>1, ConcatProperties
        <5> QED BY <5>2 DEF x, y
      <4>3. [bs[k] EXCEPT !.pieces = @ \o e.pieces] \in TrackedBlocks
        BY <4>1, <4>2 DEF TrackedBlocks
      <4>4. k \in DOMAIN bs
        BY <1>1
      <4> QED BY <4>1, <4>3, <4>4 DEF Filled
    <3>2. DOMAIN bs = 1 .. Len(bs) /\ Len(bs) \in Nat
      BY <1>1
    <3>3. Filled(bs, e) = [k \in 1 .. Len(bs) |-> Filled(bs, e)[k]]
      BY <3>2 DEF Filled
    <3> DEFINE new == Filled(bs, e)
               n == Len(bs)
    <3>4. n \in Nat /\ new = [k \in 1 .. n |-> new[k]] /\ \A k \in 1 .. n : new[k] \in TrackedBlocks
      BY <3>1, <3>2, <3>3
    <3> HIDE DEF new, n
    <3>5. new \in Seq(TrackedBlocks)
      BY <3>4
    <3> QED BY <3>5 DEF new
  <2>3. IsMade(Observe(tk, e), Filled(tk.blocks, e), tk.stack, tk.reason, tk.stopped)
    <3>1. Observe(tk, e) = [tk EXCEPT !.blocks = Filled(tk.blocks, e)]
      BY <1>4 DEF Observe
    <3> QED BY <1>1, <3>1 DEF IsMade
  <2>4. /\ Observe(tk, e) \in Trackers /\ Observe(tk, e).blocks = Filled(tk.blocks, e)
        /\ Observe(tk, e).stopped <=> tk.stopped
    BY <1>1, MadeTracker, <2>2, <2>3
  <2> QED BY <1>4, <2>4
<1>5. CASE e.t = "stop"
  <2>1. \A S : Only(tk.stack, S) \in Seq(Nat)
    BY <1>1, OnlyTyped
  <2>2. IsMade(Observe(tk, e), tk.blocks, Only(tk.stack, ToSet(tk.stack) \ {e.index}), tk.reason, tk.stopped)
    BY <1>1, <1>5 DEF Observe, IsMade
  <2>3. /\ Observe(tk, e) \in Trackers /\ Observe(tk, e).blocks = tk.blocks
        /\ Observe(tk, e).stopped <=> tk.stopped
    BY <1>1, MadeTracker, <2>1, <2>2
  <2> QED BY <1>5, <2>3
<1>6. CASE e.t = "message_delta"
  <2> DEFINE r == TRUE
             st == tk.stopped
             new == Observe(tk, e)
  <2>1. IsMade(new, tk.blocks, tk.stack, r, st)
    BY <1>1, <1>6 DEF Observe, IsMade
  <2>2. r \in BOOLEAN /\ st \in BOOLEAN
    BY <1>1
  <2> HIDE DEF r, st, new
  <2>3. new \in Trackers /\ new.blocks = tk.blocks /\ (new.stopped <=> st)
    BY <1>1, <2>1, <2>2, MadeTracker
  <2> QED BY <1>6, <2>3 DEF new, st
<1>7. CASE e.t = "message_stop"
  <2> DEFINE r == tk.reason
             st == TRUE
             new == Observe(tk, e)
  <2>1. IsMade(new, tk.blocks, tk.stack, r, st)
    BY <1>1, <1>7 DEF Observe, IsMade
  <2>2. r \in BOOLEAN /\ st \in BOOLEAN
    BY <1>1
  <2> HIDE DEF r, st, new
  <2>3. new \in Trackers /\ new.blocks = tk.blocks /\ (new.stopped <=> st)
    BY <1>1, <2>1, <2>2, MadeTracker
  <2> QED BY <1>7, <2>3 DEF new, st
<1>8. CASE e.t \notin {"start", "delta", "stop", "message_delta", "message_stop"}
  <2>1. Observe(tk, e) = tk
    BY <1>8 DEF Observe
  <2> QED BY <1>1, <1>8, <2>1
<1> QED BY <1>3, <1>4, <1>5, <1>6, <1>7, <1>8

\* f observes the events of s one after the other.
Observes(f, tk, s) ==
    f = [n \in 0 .. Len(s) |-> IF n = 0 THEN tk ELSE Observe(f[n - 1], s[n])]
ObservesEach(f, tk, s) ==
    f[0] = tk /\ \A n \in 1 .. Len(s) : f[n] = Observe(f[n - 1], s[n])

\* There is such a function, and ObserveAll is its last value.
LEMMA ObserveAllUnfolds ==
    ASSUME NEW tk \in Trackers, NEW s \in Seq(Events)
    PROVE  \E f \in [0 .. Len(s) -> Trackers] :
               ObservesEach(f, tk, s) /\ ObserveAll(tk, s) = f[Len(s)]
<1> DEFINE L == Len(s)
           step == [n \in 1 .. L |-> [t \in Trackers |-> Observe(t, s[n])]]
<1>1. L \in Nat
  OBVIOUS
<1>2. step \in [1 .. L -> [Trackers -> Trackers]]
  <2>1. ASSUME NEW n \in 1 .. L, NEW t \in Trackers PROVE Observe(t, s[n]) \in Trackers
    <3>1. s[n] \in Events
      OBVIOUS
    <3> QED BY <3>1, ObserveFacts
  <2> QED BY <2>1
<1>3. PICK h : h \in [0 .. L -> Trackers] /\ h[0] = tk /\ \A n \in 1 .. L : h[n] = step[n][h[n - 1]]
  <2> DEFINE V == Trackers
             b == tk
  <2>1. L \in Nat /\ b \in V /\ step \in [1 .. L -> [V -> V]]
    BY <1>1, <1>2
  <2> HIDE DEF step, L, V, b
  <2>2. \E h : Recursive(h, V, L, b, step)
    BY <2>1, RecursionExists
  <2> QED BY <2>2 DEF V, b, Recursive
<1>4. \A n \in 1 .. L : n - 1 \in 0 .. L /\ n \in 0 .. L /\ n # 0
  BY <1>1
<1>5. \A n \in 1 .. L : h[n] = Observe(h[n - 1], s[n])
  BY <1>3, <1>4
<1>6. Observes(h, tk, s)
  <2>1. \A n \in 0 .. L : n = 0 \/ n \in 1 .. L
    BY <1>1
  <2> HIDE DEF step
  <2> QED BY <1>3, <1>5, <2>1 DEF Observes
<1> DEFINE f == CHOOSE g : Observes(g, tk, s)
<1>7. Observes(f, tk, s)
  BY <1>6
<1>8. ObserveAll(tk, s) = f[L]
  BY DEF ObserveAll, Observes
<1> HIDE DEF f, L
<1>9. \A n \in 0 .. L : f[n] = IF n = 0 THEN tk ELSE Observe(f[n - 1], s[n])
  BY <1>7 DEF Observes, L
<1>10. f[0] = tk /\ \A n \in 1 .. L : f[n] = Observe(f[n - 1], s[n])
  <2>1. 0 \in 0 .. L
    BY <1>1
  <2> QED BY <1>4, <1>9, <2>1
<1> DEFINE S == {n \in Nat : n <= L => f[n] = h[n]}
<1>11. 0 \in S
  BY <1>3, <1>10
<1>12. ASSUME NEW n \in Nat, n \in S PROVE n + 1 \in S
  <2> SUFFICES ASSUME n + 1 <= L PROVE f[n + 1] = h[n + 1]
    OBVIOUS
  <2>1. n + 1 \in 1 .. L /\ (n + 1) - 1 = n /\ n <= L
    BY <1>1
  <2>2. f[n] = h[n]
    BY <1>12, <2>1
  <2> QED BY <1>5, <1>10, <2>1, <2>2
<1>13. \A n \in Nat : n \in S
  <2> HIDE DEF S
  <2> QED BY <1>11, <1>12, NumberInduction
<1>14. f[L] = h[L]
  BY <1>1, <1>13
<1>15. ObservesEach(h, tk, s) /\ ObserveAll(tk, s) = h[L]
  BY <1>3, <1>5, <1>8, <1>14 DEF ObservesEach, L
<1> QED BY <1>3, <1>15 DEF L

\* ObserveAll, event by event.
LEMMA ObserveAllFacts ==
    ASSUME NEW tk \in Trackers, NEW s \in Seq(Events)
    PROVE  /\ ObserveAll(tk, <<>>) = tk
           /\ ObserveAll(tk, s) \in Trackers
           /\ \A e \in Events : ObserveAll(tk, Append(s, e)) = Observe(ObserveAll(tk, s), e)
<1>1. ObserveAll(tk, <<>>) = tk
  <2>1. <<>> \in Seq(Events) /\ Len(<<>>) = 0
    BY EmptySeq
  <2>2. PICK f : ObservesEach(f, tk, <<>>) /\ ObserveAll(tk, <<>>) = f[Len(<<>>)]
    BY <2>1, ObserveAllUnfolds
  <2> QED BY <2>1, <2>2 DEF ObservesEach
<1>2. PICK f \in [0 .. Len(s) -> Trackers] : ObservesEach(f, tk, s) /\ ObserveAll(tk, s) = f[Len(s)]
  BY ObserveAllUnfolds
<1>3. ObserveAll(tk, s) \in Trackers
  <2>1. Len(s) \in 0 .. Len(s)
    OBVIOUS
  <2> QED BY <1>2, <2>1
<1>4. ASSUME NEW e \in Events PROVE ObserveAll(tk, Append(s, e)) = Observe(ObserveAll(tk, s), e)
  <2> DEFINE a == Append(s, e)
             L == Len(s)
  <2>1. a \in Seq(Events) /\ Len(a) = L + 1 /\ a[L + 1] = e /\ L \in Nat /\ \A n \in 1 .. L : a[n] = s[n]
    BY AppendProperties
  <2>2. PICK g \in [0 .. Len(a) -> Trackers] : ObservesEach(g, tk, a) /\ ObserveAll(tk, a) = g[Len(a)]
    BY <2>1, ObserveAllUnfolds
  <2>3. /\ g[0] = tk /\ \A n \in 1 .. (L + 1) : g[n] = Observe(g[n - 1], a[n])
        /\ f[0] = tk /\ \A n \in 1 .. L : f[n] = Observe(f[n - 1], s[n])
    BY <1>2, <2>1, <2>2 DEF ObservesEach
  <2> HIDE DEF a, L
  <2> DEFINE S == {n \in Nat : n <= L => f[n] = g[n]}
  <2>4. 0 \in S
    BY <2>3
  <2>5. ASSUME NEW n \in Nat, n \in S PROVE n + 1 \in S
    <3> SUFFICES ASSUME n + 1 <= L PROVE f[n + 1] = g[n + 1]
      OBVIOUS
    <3>1. n + 1 \in 1 .. L /\ n + 1 \in 1 .. (L + 1) /\ (n + 1) - 1 = n /\ n <= L
      BY <2>1
    <3>2. f[n] = g[n]
      BY <2>5, <3>1
    <3> QED BY <2>1, <2>3, <3>1, <3>2
  <2>6. \A n \in Nat : n \in S
    <3> HIDE DEF S
    <3> QED BY <2>4, <2>5, NumberInduction
  <2>7. f[L] = g[L]
    BY <2>1, <2>6
  <2>8. L + 1 \in 1 .. (L + 1) /\ (L + 1) - 1 = L
    BY <2>1
  <2>9. g[L + 1] = Observe(f[L], e)
    BY <2>1, <2>3, <2>7, <2>8
  <2> QED BY <1>2, <2>1, <2>2, <2>9 DEF a, L
<1> QED BY <1>1, <1>3, <1>4

\* Stops, one behind the other.
AreStops(s) == \A k \in DOMAIN s : s[k].t = "stop"

\* They change no block, and give nothing to any.
LEMMA StopsKeep ==
    ASSUME NEW tk \in Trackers
    PROVE  \A s \in Seq(Events) : AreStops(s) =>
               /\ ObserveAll(tk, s).blocks = tk.blocks /\ (ObserveAll(tk, s).stopped <=> tk.stopped)
               /\ \A i : CarriedIn(s, i) = <<>>
<1> DEFINE Still(s) == /\ ObserveAll(tk, s).blocks = tk.blocks
                       /\ ObserveAll(tk, s).stopped <=> tk.stopped
                       /\ \A i : CarriedIn(s, i) = <<>>
           P == {s \in Seq(Events) : AreStops(s) => Still(s)}
<1>1. <<>> \in P
  BY EmptySeq, ObserveAllFacts, CarriedFacts
<1>2. ASSUME NEW s \in Seq(Events), NEW e \in Events, s \in P PROVE Append(s, e) \in P
  <2> DEFINE a == Append(s, e)
  <2>1. /\ a \in Seq(Events) /\ Len(s) \in Nat /\ DOMAIN a = 1 .. (Len(s) + 1) /\ DOMAIN s = 1 .. Len(s)
        /\ a[Len(s) + 1] = e /\ \A k \in 1 .. Len(s) : a[k] = s[k]
    BY AppendProperties
  <2>2. Len(s) + 1 \in DOMAIN a /\ \A k \in DOMAIN s : k \in DOMAIN a /\ a[k] = s[k]
    BY <2>1
  <2> SUFFICES ASSUME AreStops(a) PROVE Still(a)
    BY <2>1
  <2>3. AreStops(s) /\ e.t = "stop"
    <3> HIDE DEF a
    <3> QED BY <2>1, <2>2 DEF AreStops
  <2>4. Still(s)
    BY <1>2, <2>3
  <2> DEFINE t == ObserveAll(tk, s)
  <2>5. t \in Trackers /\ ObserveAll(tk, a) = Observe(t, e)
    BY ObserveAllFacts
  <2>6. ObserveAll(tk, a).blocks = t.blocks /\ (ObserveAll(tk, a).stopped <=> t.stopped)
    <3> HIDE DEF t, a
    <3> QED BY <2>3, <2>5, ObserveFacts
  <2>7. ASSUME NEW i PROVE CarriedIn(a, i) = <<>>
    <3>1. CarriedIn(a, i) = CarriedIn(s, i) \o Gives(e, i)
      BY CarriedFacts
    <3>2. Gives(e, i) = <<>> /\ CarriedIn(s, i) = <<>>
      BY <2>3, <2>4 DEF Gives
    <3> QED BY <3>1, <3>2, EmptySeq, ConcatEmptySeq
  <2> QED BY <2>4, <2>6, <2>7
<1>3. \A s \in Seq(Events) : s \in P
  <2> HIDE DEF P
  <2> QED BY <1>1, <1>2, SequenceInduction
<1> QED BY <1>3

\* What the tracker has noted stays true, whatever the next event.
LEMMA NotedStart ==
    ASSUME NEW E \in Seq(Events), NEW bs \in Seq(TrackedBlocks), Noted(E, bs),
           NEW e \in Events, e.t = "start", e.index = Len(bs)
    PROVE  Noted(Append(E, e), Append(bs, NewBlock(e)))
<1> DEFINE F == Append(E, e)
           cs == Append(bs, NewBlock(e))
           L == Len(bs)
<1>1. e \in StartEvents /\ NewBlock(e) \in TrackedBlocks
  BY EventFacts, EmptySeq DEF StartEvents, NewBlock, TrackedBlocks
<1>2. /\ L \in Nat /\ DOMAIN bs = 1 .. L /\ DOMAIN cs = 1 .. (L + 1) /\ Len(cs) = L + 1
      /\ cs[L + 1] = NewBlock(e) /\ \A k \in 1 .. L : cs[k] = bs[k]
  BY <1>1, AppendProperties
<1>3. /\ Len(E) \in Nat /\ DOMAIN E = 1 .. Len(E) /\ DOMAIN F = 1 .. (Len(E) + 1)
      /\ F[Len(E) + 1] = e /\ \A k \in 1 .. Len(E) : F[k] = E[k]
  BY AppendProperties
<1>4. ASSUME NEW i PROVE CarriedIn(F, i) = CarriedIn(E, i)
  <2>1. CarriedIn(F, i) = CarriedIn(E, i) \o Gives(e, i) /\ CarriedIn(E, i) \in Seq(PieceType)
    BY CarriedFacts
  <2>2. Gives(e, i) = <<>>
    BY DEF Gives
  <2> QED BY <2>1, <2>2, ConcatEmptySeq
<1>5. NewBlock(e).index = L /\ NewBlock(e).pieces = <<>> /\ NewBlock(e).kind = e.kind
  BY DEF NewBlock
<1> HIDE DEF F, cs, L
<1>6. /\ \A k \in 1 .. L : bs[k].index = k - 1 /\ bs[k].pieces = CarriedIn(E, k - 1)
      /\ \A i \in Nat : i >= L => CarriedIn(E, i) = <<>>
      /\ \A n \in DOMAIN E : E[n].t = "start" => E[n].index < L /\ E[n].kind = bs[E[n].index + 1].kind
  BY <1>2 DEF Noted, L
<1>7. ASSUME NEW k \in 1 .. (L + 1) PROVE cs[k].index = k - 1 /\ cs[k].pieces = CarriedIn(F, k - 1)
  <2>1. CASE k \in 1 .. L
    BY <1>2, <1>4, <1>6, <2>1
  <2>2. CASE k = L + 1
    <3>1. k - 1 = L /\ CarriedIn(E, L) = <<>>
      BY <1>2, <1>6, <2>2
    <3> QED BY <1>2, <1>4, <1>5, <2>2, <3>1
  <2> QED BY <1>2, <2>1, <2>2
<1>8. \A i \in Nat : i >= L + 1 => CarriedIn(F, i) = <<>>
  BY <1>2, <1>4, <1>6
<1>9. ASSUME NEW n \in DOMAIN F, F[n].t = "start"
      PROVE  F[n].index < L + 1 /\ F[n].kind = cs[F[n].index + 1].kind
  <2>1. CASE n \in 1 .. Len(E)
    <3>1. F[n] = E[n] /\ E[n].index < L /\ E[n].kind = bs[E[n].index + 1].kind
      BY <1>3, <1>6, <1>9, <2>1
    <3>2. E[n].index \in Nat
      <4>1. E[n] \in Events
        BY <1>3, <2>1
      <4> QED BY <1>9, <3>1, <4>1, EventFacts DEF StartEvents
    <3>3. E[n].index + 1 \in 1 .. L
      BY <1>2, <3>1, <3>2
    <3> QED BY <1>2, <3>1, <3>2, <3>3
  <2>2. CASE n = Len(E) + 1
    BY <1>2, <1>3, <1>5, <2>2 DEF L
  <2> QED BY <1>3, <2>1, <2>2
<1> QED BY <1>2, <1>7, <1>8, <1>9 DEF Noted, F, cs

\* After a delta to a block of its kind that was started.
LEMMA NotedDelta ==
    ASSUME NEW E \in Seq(Events), NEW bs \in Seq(TrackedBlocks), Noted(E, bs),
           NEW e \in Events, e.t = "delta", e.index < Len(bs), e.kind = bs[e.index + 1].kind
    PROVE  /\ Noted(Append(E, e), Filled(bs, e)) /\ DOMAIN Filled(bs, e) = DOMAIN bs
           /\ Len(Filled(bs, e)) = Len(bs)
           /\ \A k \in DOMAIN bs : /\ Filled(bs, e)[k].kind = bs[k].kind
                                   /\ k # e.index + 1 => Filled(bs, e)[k] = bs[k]
           /\ e.index + 1 \in DOMAIN bs
           /\ Filled(bs, e)[e.index + 1].pieces = bs[e.index + 1].pieces \o e.pieces
<1> DEFINE F == Append(E, e)
           cs == Filled(bs, e)
           L == Len(bs)
<1>1. e \in DeltaEvents /\ e.index \in Nat /\ e.pieces \in Seq(PieceType)
  BY EventFacts DEF DeltaEvents
<1>2. L \in Nat /\ DOMAIN bs = 1 .. L /\ DOMAIN cs = 1 .. L /\ \A k \in 1 .. L : bs[k] \in TrackedBlocks
  BY DEF Filled
<1>3. /\ Len(E) \in Nat /\ DOMAIN E = 1 .. Len(E) /\ DOMAIN F = 1 .. (Len(E) + 1)
      /\ F[Len(E) + 1] = e /\ \A k \in 1 .. Len(E) : F[k] = E[k]
  BY AppendProperties
<1>4. /\ \A k \in 1 .. L : bs[k].index = k - 1 /\ bs[k].pieces = CarriedIn(E, k - 1)
      /\ \A i \in Nat : i >= L => CarriedIn(E, i) = <<>>
      /\ \A n \in DOMAIN E : E[n].t = "start" => E[n].index < L /\ E[n].kind = bs[E[n].index + 1].kind
  BY <1>2 DEF Noted
<1>5. ASSUME NEW k \in 1 .. L
      PROVE  /\ cs[k].index = bs[k].index /\ cs[k].kind = bs[k].kind
             /\ k # e.index + 1 => cs[k] = bs[k]
             /\ k = e.index + 1 => cs[k].pieces = bs[k].pieces \o e.pieces
  <2>1. bs[k].index = e.index <=> k = e.index + 1
    BY <1>1, <1>2, <1>4
  <2>2. bs[k] \in TrackedBlocks
    BY <1>2
  <2> DEFINE new == [bs[k] EXCEPT !.pieces = @ \o e.pieces]
  <2>3. new.index = bs[k].index /\ new.kind = bs[k].kind /\ new.pieces = bs[k].pieces \o e.pieces
    BY <2>2 DEF TrackedBlocks
  <2>4. cs[k] = IF bs[k].index = e.index /\ bs[k].kind = e.kind THEN new ELSE bs[k]
    BY <1>2 DEF Filled
  <2>5. k = e.index + 1 => bs[k].kind = e.kind
    OBVIOUS
  <2> HIDE DEF new
  <2> QED BY <2>1, <2>3, <2>4, <2>5
<1>6. ASSUME NEW i PROVE CarriedIn(F, i) = CarriedIn(E, i) \o Gives(e, i) /\ CarriedIn(E, i) \in Seq(PieceType)
  BY CarriedFacts
<1>7. ASSUME NEW i, i # e.index PROVE CarriedIn(F, i) = CarriedIn(E, i)
  <2>1. Gives(e, i) = <<>>
    BY <1>7 DEF Gives
  <2>2. CarriedIn(E, i) \o <<>> = CarriedIn(E, i)
    BY <1>6, ConcatEmptySeq
  <2> QED BY <1>6, <2>1, <2>2
<1>8. CarriedIn(F, e.index) = CarriedIn(E, e.index) \o e.pieces
  <2>1. Gives(e, e.index) = e.pieces
    BY DEF Gives
  <2> QED BY <1>6, <2>1
<1>9. L = Len(bs) /\ Len(cs) = L
  <2>1. cs = [k \in 1 .. L |-> cs[k]]
    BY <1>2 DEF Filled
  <2> HIDE DEF cs, L
  <2>2. Len(cs) = L
    BY <1>2, <2>1
  <2> QED BY <2>2 DEF L
<1> HIDE DEF F, cs, L
<1>10. ASSUME NEW k \in 1 .. L PROVE cs[k].index = k - 1 /\ cs[k].pieces = CarriedIn(F, k - 1)
  <2>1. CASE k = e.index + 1
    <3>1. k - 1 = e.index
      BY <1>1, <2>1
    <3> QED BY <1>4, <1>5, <1>8, <2>1, <3>1
  <2>2. CASE k # e.index + 1
    <3>1. k - 1 # e.index
      BY <1>1, <1>2, <2>2
    <3> QED BY <1>4, <1>5, <1>7, <2>2, <3>1
  <2> QED BY <2>1, <2>2
<1>11. ASSUME NEW i \in Nat, i >= L PROVE CarriedIn(F, i) = <<>>
  <2>1. i # e.index
    BY <1>1, <1>2, <1>9, <1>11
  <2> QED BY <1>4, <1>7, <1>11, <2>1
<1>12. ASSUME NEW n \in DOMAIN F, F[n].t = "start"
       PROVE  F[n].index < L /\ F[n].kind = cs[F[n].index + 1].kind
  <2>1. n \in 1 .. Len(E)
    BY <1>3, <1>12
  <2>2. F[n] = E[n] /\ E[n].index < L /\ E[n].kind = bs[E[n].index + 1].kind
    BY <1>3, <1>4, <1>12, <2>1
  <2>3. E[n].index \in Nat
    <3>1. E[n] \in Events
      BY <1>3, <2>1
    <3> QED BY <1>12, <2>2, <3>1, EventFacts DEF StartEvents
  <2>4. E[n].index + 1 \in 1 .. L
    BY <1>2, <2>2, <2>3
  <2> QED BY <1>5, <2>2, <2>4
<1>13. Noted(F, cs)
  BY <1>2, <1>9, <1>10, <1>11, <1>12 DEF Noted
<1>14. e.index + 1 \in 1 .. L
  BY <1>1, <1>2, <1>9
<1> QED BY <1>2, <1>5, <1>9, <1>13, <1>14 DEF F, cs

\* An event that is neither a start nor a delta tells nothing of the blocks.
LEMMA NotedOther ==
    ASSUME NEW E \in Seq(Events), NEW bs \in Seq(TrackedBlocks), Noted(E, bs),
           NEW e \in Events, e.t \notin {"start", "delta"}
    PROVE  Noted(Append(E, e), bs)
<1> DEFINE F == Append(E, e)
<1>1. /\ Len(E) \in Nat /\ DOMAIN E = 1 .. Len(E) /\ DOMAIN F = 1 .. (Len(E) + 1)
      /\ F[Len(E) + 1] = e /\ \A k \in 1 .. Len(E) : F[k] = E[k]
  BY AppendProperties
<1>2. ASSUME NEW i PROVE CarriedIn(F, i) = CarriedIn(E, i)
  <2>1. CarriedIn(F, i) = CarriedIn(E, i) \o Gives(e, i) /\ CarriedIn(E, i) \in Seq(PieceType)
    BY CarriedFacts
  <2>2. Gives(e, i) = <<>>
    BY DEF Gives
  <2> QED BY <2>1, <2>2, ConcatEmptySeq
<1> HIDE DEF F
<1>3. ASSUME NEW n \in DOMAIN F, F[n].t = "start"
      PROVE  F[n].index < Len(bs) /\ F[n].kind = bs[F[n].index + 1].kind
  <2>1. n \in DOMAIN E /\ F[n] = E[n]
    BY <1>1, <1>3
  <2> QED BY <1>3, <2>1 DEF Noted
<1> QED BY <1>2, <1>3 DEF Noted, F

\* What is clean stays so with another event.
LEMMA CleanOne ==
    ASSUME NEW E \in Seq(Events), NEW S, Clean(E, S), NEW e \in Events,
           e.t = "delta" => From(e.pieces, S)
    PROVE  Clean(Append(E, e), S)
<1> DEFINE F == Append(E, e)
<1>1. /\ Len(E) \in Nat /\ DOMAIN E = 1 .. Len(E) /\ DOMAIN F = 1 .. (Len(E) + 1)
      /\ F[Len(E) + 1] = e /\ \A k \in 1 .. Len(E) : F[k] = E[k]
  BY AppendProperties
<1> HIDE DEF F
<1>2. ASSUME NEW n \in DOMAIN F, F[n].t = "delta" PROVE From(F[n].pieces, S)
  <2>1. n \in 1 .. Len(E) \/ n = Len(E) + 1
    BY <1>1
  <2>2. CASE n \in 1 .. Len(E)
    <3>1. F[n] = E[n] /\ n \in DOMAIN E
      BY <1>1, <2>2
    <3> QED BY <1>2, <3>1 DEF Clean
  <2> QED BY <1>1, <1>2, <2>1, <2>2
<1> QED BY <1>2 DEF Clean, F

\* The tracker observes what is told: one event.
LEMMA WitnessedOne ==
    ASSUME NEW E, NEW tk, NEW attempt, Witnessed(E, tk, attempt), NEW e \in Events,
           e.t = "start" => e.index = Len(tk.blocks),
           e.t = "delta" => /\ e.index < Len(tk.blocks) /\ From(e.pieces, {attempt})
                            /\ e.kind = tk.blocks[e.index + 1].kind
    PROVE  Witnessed(Append(E, e), Observe(tk, e), attempt)
<1>1. /\ E \in Seq(Events) /\ tk \in Trackers /\ tk.blocks \in Seq(TrackedBlocks)
      /\ Noted(E, tk.blocks) /\ Clean(E, {attempt})
  BY DEF Witnessed, Trackers
<1>2. Append(E, e) \in Seq(Events) /\ Observe(tk, e) \in Trackers
  BY <1>1, AppendProperties, ObserveFacts
<1>3. Clean(Append(E, e), {attempt})
  BY <1>1, CleanOne
<1>4. Noted(Append(E, e), Observe(tk, e).blocks)
  <2>1. CASE e.t = "start"
    <3>1. Noted(Append(E, e), Append(tk.blocks, NewBlock(e)))
      BY <1>1, <2>1, NotedStart
    <3> QED BY <1>1, <2>1, <3>1, ObserveFacts
  <2>2. CASE e.t = "delta"
    <3> DEFINE bs == tk.blocks
    <3>0. bs \in Seq(TrackedBlocks) /\ Noted(E, bs) /\ e.index < Len(bs) /\ e.kind = bs[e.index + 1].kind
      BY <1>1, <2>2
    <3> HIDE DEF bs
    <3>2. Noted(Append(E, e), Filled(bs, e))
      BY <1>1, <2>2, <3>0, NotedDelta
    <3>1. Noted(Append(E, e), Filled(tk.blocks, e))
      BY <3>2 DEF bs
    <3> QED BY <1>1, <2>2, <3>1, ObserveFacts
  <2>3. CASE e.t \notin {"start", "delta"}
    <3>1. Noted(Append(E, e), tk.blocks)
      BY <1>1, <2>3, NotedOther
    <3> QED BY <1>1, <2>3, <3>1, ObserveFacts
  <2> QED BY <2>1, <2>2, <2>3
<1> QED BY <1>2, <1>3, <1>4 DEF Witnessed

\* Stops, one behind the other.
LEMMA WitnessedStops ==
    ASSUME NEW E, NEW tk, NEW attempt, Witnessed(E, tk, attempt)
    PROVE  \A s \in Seq(Events) : AreStops(s) => Witnessed(E \o s, ObserveAll(tk, s), attempt)
<1>1. E \in Seq(Events) /\ tk \in Trackers
  BY DEF Witnessed
<1> DEFINE P == {s \in Seq(Events) : AreStops(s) => Witnessed(E \o s, ObserveAll(tk, s), attempt)}
<1>2. <<>> \in P
  BY <1>1, EmptySeq, ConcatEmptySeq, ObserveAllFacts
<1>3. ASSUME NEW s \in Seq(Events), NEW e \in Events, s \in P PROVE Append(s, e) \in P
  <2> DEFINE a == Append(s, e)
  <2>1. /\ a \in Seq(Events) /\ Len(s) \in Nat /\ DOMAIN a = 1 .. (Len(s) + 1) /\ DOMAIN s = 1 .. Len(s)
        /\ a[Len(s) + 1] = e /\ \A k \in 1 .. Len(s) : a[k] = s[k]
    BY AppendProperties
  <2>2. Len(s) + 1 \in DOMAIN a /\ \A k \in DOMAIN s : k \in DOMAIN a /\ a[k] = s[k]
    BY <2>1
  <2> SUFFICES ASSUME AreStops(a) PROVE Witnessed(E \o a, ObserveAll(tk, a), attempt)
    BY <2>1
  <2>3. AreStops(s) /\ e.t = "stop"
    <3> HIDE DEF a
    <3> QED BY <2>1, <2>2 DEF AreStops
  <2> DEFINE t == ObserveAll(tk, s)
             F == E \o s
  <2>4. Witnessed(F, t, attempt)
    BY <1>3, <2>3
  <2>5. ObserveAll(tk, a) = Observe(t, e)
    BY <1>1, ObserveAllFacts
  <2>6. E \o a = Append(F, e)
    BY <1>1, AppendApart
  <2> HIDE DEF a, t, F
  <2>7. Witnessed(Append(F, e), Observe(t, e), attempt)
    BY <2>3, <2>4, WitnessedOne
  <2> QED BY <2>5, <2>6, <2>7
<1>4. \A s \in Seq(Events) : s \in P
  <2> HIDE DEF P
  <2> QED BY <1>2, <1>3, SequenceInduction
<1> QED BY <1>4

-----------------------------------------------------------------------------
(***************************************************************************)
(* The block policy: what each of its operators keeps.                     *)
(***************************************************************************)

\* A function on a set of numbers.
LEMMA SegmentFacts ==
    /\ \A D \in SUBSET Nat : \A f \in [D -> SegmentType] : f \in Segments
    /\ \A f \in Segments : DOMAIN f \in SUBSET Nat /\ f \in [DOMAIN f -> SegmentType]
<1>1. ASSUME NEW f \in Segments PROVE DOMAIN f \in SUBSET Nat /\ f \in [DOMAIN f -> SegmentType]
  <2>1. PICK D \in SUBSET Nat : f \in [D -> SegmentType]
    BY DEF Segments
  <2> QED BY <2>1
<1>2. \A D \in SUBSET Nat : \A f \in [D -> SegmentType] : f \in Segments
  BY DEF Segments
<1> QED BY <1>1, <1>2

\* A policy of these parts.
IsPolicy(q, next, segment, dropped, pending, stopped) ==
    q = [next |-> next, segment |-> segment, dropped |-> dropped, pending |-> pending, stopped |-> stopped]

\* It has them, and is one.
LEMMA MadePolicy ==
    ASSUME NEW q, NEW next \in Nat, NEW segment \in Segments,
           NEW dropped \in SUBSET Nat, NEW pending \in SUBSET Nat, NEW stopped \in BOOLEAN,
           IsPolicy(q, next, segment, dropped, pending, stopped)
    PROVE  /\ q \in Policies /\ q.next = next /\ q.segment = segment /\ q.dropped = dropped
           /\ q.pending = pending /\ (q.stopped <=> stopped)
BY DEF IsPolicy, Policies

\* The parts of a policy.
LEMMA PolicyParts ==
    ASSUME NEW p \in Policies
    PROVE  /\ p.next \in Nat /\ p.dropped \in SUBSET Nat /\ p.pending \in SUBSET Nat /\ p.stopped \in BOOLEAN
           /\ p.segment \in Segments
           /\ DOMAIN p.segment \in SUBSET Nat /\ p.segment \in [DOMAIN p.segment -> SegmentType]
           /\ p = [next |-> p.next, segment |-> p.segment, dropped |-> p.dropped,
                   pending |-> p.pending, stopped |-> p.stopped]
           /\ IsPolicy(p, p.next, p.segment, p.dropped, p.pending, p.stopped)
<1>1. /\ p.next \in Nat /\ p.dropped \in SUBSET Nat /\ p.pending \in SUBSET Nat /\ p.stopped \in BOOLEAN
      /\ p.segment \in Segments
      /\ p = [next |-> p.next, segment |-> p.segment, dropped |-> p.dropped,
              pending |-> p.pending, stopped |-> p.stopped]
  BY DEF Policies
<1> QED BY <1>1, SegmentFacts DEF IsPolicy

\* q has the blocks of p where they were, and loses the provider's of none.
Steady(p, q) ==
    /\ q \in Policies /\ q.next = p.next /\ q.dropped = p.dropped
    /\ DOMAIN q.segment = DOMAIN p.segment
    /\ \A v \in DOMAIN p.segment :
          q.segment[v].kind = p.segment[v].kind /\ q.segment[v].down = p.segment[v].down
Holding(p, q, v) == p.segment[v].open \/ v \in p.pending => q.segment[v].open \/ v \in q.pending

\* Closing the others keeps all of them, and tells of stops only.
LEMMA ClosingKeeps ==
    ASSUME NEW p \in Policies, NEW u
    PROVE  /\ Steady(p, CloseOthers(p, u).p)
           /\ \A v \in DOMAIN p.segment : Holding(p, CloseOthers(p, u).p, v)
           /\ CloseOthers(p, u).p.stopped <=> p.stopped
           /\ CloseOthers(p, u).events \in Seq(Events) /\ AreStops(CloseOthers(p, u).events)
<1> DEFINE D == DOMAIN p.segment
           others == {v \in D \ {u} : p.segment[v].open}
           closed == Closed(p.segment, others)
           q == CloseOthers(p, u).p
           c == CloseOthers(p, u).events
<1>1. /\ p.next \in Nat /\ p.dropped \subseteq Nat /\ p.pending \subseteq Nat /\ p.stopped \in BOOLEAN
      /\ D \subseteq Nat /\ p.segment \in [D -> SegmentType]
      /\ p = [next |-> p.next, segment |-> p.segment, dropped |-> p.dropped,
              pending |-> p.pending, stopped |-> p.stopped]
  BY PolicyParts
<1>2. IsPolicy(q, p.next, closed, p.dropped, p.pending \cup others, p.stopped)
  <2>1. q = [p EXCEPT !.segment = closed, !.pending = p.pending \cup others]
    BY <1>1 DEF CloseOthers
  <2> HIDE DEF q, closed, others
  <2> QED BY <1>1, <2>1 DEF IsPolicy
<1>3. ASSUME NEW v \in D
      PROVE  /\ closed[v] \in SegmentType
             /\ closed[v].kind = p.segment[v].kind /\ closed[v].down = p.segment[v].down
             /\ closed[v].open <=> (p.segment[v].open /\ v \notin others)
  <2>1. p.segment[v] \in SegmentType
    BY <1>1
  <2> DEFINE s == p.segment[v]
             b == s.open /\ v \notin others
             t == [s EXCEPT !.open = b]
  <2>2. s \in SegmentType /\ b \in BOOLEAN
    BY <2>1 DEF SegmentType
  <2> HIDE DEF s, b
  <2>3. t \in SegmentType /\ t.kind = s.kind /\ t.down = s.down /\ (t.open <=> b)
    BY <2>2 DEF SegmentType
  <2> HIDE DEF t
  <2>4. closed[v] = t
    BY DEF Closed, t, s, b
  <2> QED BY <2>3, <2>4 DEF s, b
<1>5. DOMAIN closed = D /\ others \subseteq D
  BY DEF Closed
<1>4. closed \in [D -> SegmentType]
  <2>1. closed = [v \in D |-> closed[v]]
    BY DEF Closed
  <2> QED BY <1>3, <2>1
<1>6. ASSUME NEW v \in D, p.segment[v].open PROVE closed[v].open \/ v \in others
  BY <1>3, <1>6
<1>7. ASSUME NEW v \in others PROVE StopEvent(p.segment[v].down) \in StopEvents
  <2>1. p.segment[v] \in SegmentType
    BY <1>1
  <2>2. p.segment[v].down \in Nat
    BY <2>1 DEF SegmentType
  <2> QED BY <2>2 DEF StopEvent, StopEvents
<1> HIDE DEF closed, others, q, c
<1>8. /\ q \in Policies /\ q.next = p.next /\ q.segment = closed /\ q.dropped = p.dropped
      /\ q.pending = p.pending \cup others /\ (q.stopped <=> p.stopped)
  <2> DEFINE more == p.pending \cup others
  <2>1. /\ D \in SUBSET Nat /\ p.dropped \in SUBSET Nat /\ more \in SUBSET Nat
        /\ p.next \in Nat /\ p.stopped \in BOOLEAN /\ closed \in Segments
        /\ IsPolicy(q, p.next, closed, p.dropped, more, p.stopped)
    BY <1>1, <1>2, <1>4, <1>5, SegmentFacts
  <2> HIDE DEF D, more
  <2>2. /\ q \in Policies /\ q.next = p.next /\ q.segment = closed /\ q.dropped = p.dropped
        /\ q.pending = more /\ (q.stopped <=> p.stopped)
    BY <2>1, MadePolicy
  <2> QED BY <2>2 DEF more
<1>9. Steady(p, q)
  BY <1>3, <1>5, <1>8 DEF Steady
<1>10. \A v \in D : Holding(p, q, v)
  BY <1>6, <1>8 DEF Holding
<1>11. c \in Seq(StopEvents)
  <2> DEFINE s == [k \in 1 .. MaxBlocks |-> k]
             F == [k \in 1 .. MaxBlocks |->
                      IF k - 1 \in others THEN <<StopEvent(p.segment[k - 1].down)>> ELSE <<>>]
  <2>1. s \in Seq(1 .. MaxBlocks)
    BY NativeAssumption
  <2>2. Maps(F, 1 .. MaxBlocks, StopEvents)
    <3>1. ASSUME NEW k \in 1 .. MaxBlocks PROVE F[k] \in Seq(StopEvents)
      <4>1. CASE k - 1 \in others
        <5>1. StopEvent(p.segment[k - 1].down) \in StopEvents
          BY <1>7, <4>1
        <5> QED BY <4>1, <5>1
      <4>2. CASE k - 1 \notin others
        BY <4>2, EmptySeq
      <4> QED BY <4>1, <4>2
    <3> QED BY <3>1 DEF Maps
  <2>3. DOMAIN s = 1 .. MaxBlocks /\ \A k \in 1 .. MaxBlocks : s[k] = k
    OBVIOUS
  <2>4. [k \in 1 .. MaxBlocks |->
            IF k - 1 \in others THEN <<StopEvent(p.segment[k - 1].down)>> ELSE <<>>] = Each(s, F)
    BY <2>3 DEF Each
  <2>5. c = FlattenSeq(Each(s, F))
    BY <2>4 DEF c, CloseOthers, others
  <2> DEFINE A == 1 .. MaxBlocks
  <2>6. s \in Seq(A) /\ Maps(F, A, StopEvents)
    BY <2>1, <2>2
  <2> HIDE DEF s, F, A
  <2>7. FlattenSeq(Each(s, F)) \in Seq(StopEvents)
    BY <2>6, EachOfAny
  <2> QED BY <2>5, <2>7
<1>12. c \in Seq(Events) /\ AreStops(c)
  <2>1. \A e \in StopEvents : e \in Events /\ e.t = "stop"
    BY DEF Events, StopEvents
  <2>2. \A k \in DOMAIN c : c[k] \in StopEvents
    BY <1>11
  <2> QED BY <1>11, <2>1, <2>2 DEF AreStops
<1> QED BY <1>8, <1>9, <1>10, <1>12 DEF q, c

\* q has block u besides, or anew, at the next index.
Opened(p, q, u, kind) ==
    /\ q \in Policies /\ q.next = p.next + 1 /\ q.dropped = p.dropped /\ q.pending = p.pending
    /\ q.stopped <=> p.stopped
    /\ DOMAIN q.segment = DOMAIN p.segment \cup {u}
    /\ q.segment[u].kind = kind /\ q.segment[u].down = p.next /\ q.segment[u].open
    /\ \A v \in DOMAIN p.segment \ {u} : q.segment[v] = p.segment[v]

\* Allocate opens it.
LEMMA AllocateOpens ==
    ASSUME NEW p \in Policies, NEW u \in Nat, NEW kind \in Kinds, NEW call \in Nat, NEW named \in BOOLEAN
    PROVE  /\ Opened(p, Allocate(p, u, kind, call, named).p, u, kind)
           /\ Allocate(p, u, kind, call, named).events = <<StartEvent(p.next, kind, call, named)>>
<1> DEFINE D == DOMAIN p.segment
           new == [kind |-> kind, down |-> p.next, open |-> TRUE, call |-> call, named |-> named]
           more == [v \in D \cup {u} |-> IF v = u THEN new ELSE p.segment[v]]
           q == Allocate(p, u, kind, call, named).p
<1>1. /\ p.next \in Nat /\ p.dropped \subseteq Nat /\ p.pending \subseteq Nat /\ p.stopped \in BOOLEAN
      /\ D \subseteq Nat /\ p.segment \in [D -> SegmentType]
      /\ p = [next |-> p.next, segment |-> p.segment, dropped |-> p.dropped,
              pending |-> p.pending, stopped |-> p.stopped]
  BY PolicyParts
<1>2. With(p.segment, u, new) = more
  BY DEF With
<1>3. IsPolicy(q, p.next + 1, more, p.dropped, p.pending, p.stopped)
  <2>1. q = [p EXCEPT !.next = p.next + 1, !.segment = more]
    BY <1>1, <1>2 DEF Allocate
  <2> HIDE DEF q, more
  <2> QED BY <1>1, <2>1 DEF IsPolicy
<1>4. new \in SegmentType /\ new.kind = kind /\ new.down = p.next /\ new.open
  BY <1>1 DEF SegmentType
<1> HIDE DEF new, q
<1>5. more \in [D \cup {u} -> SegmentType] /\ DOMAIN more = D \cup {u}
  BY <1>1, <1>4
<1>6. more[u] = new /\ \A v \in D \ {u} : more[v] = p.segment[v]
  OBVIOUS
<1> HIDE DEF more
<1>7. /\ q \in Policies /\ q.next = p.next + 1 /\ q.segment = more /\ q.dropped = p.dropped
      /\ q.pending = p.pending /\ (q.stopped <=> p.stopped)
  <2> DEFINE E == D \cup {u}
             next == p.next + 1
  <2>1. E \in SUBSET Nat /\ next \in Nat /\ p.dropped \in SUBSET Nat /\ p.pending \in SUBSET Nat
        /\ p.stopped \in BOOLEAN
        /\ more \in Segments /\ IsPolicy(q, next, more, p.dropped, p.pending, p.stopped)
    BY <1>1, <1>3, <1>5, SegmentFacts
  <2>0. next \in Nat /\ E \in SUBSET Nat
    BY <2>1
  <2> HIDE DEF E, next, D
  <2>2. /\ q \in Policies /\ q.next = next /\ q.segment = more /\ q.dropped = p.dropped
        /\ q.pending = p.pending /\ (q.stopped <=> p.stopped)
    BY <2>0, <2>1, MadePolicy
  <2> QED BY <2>2 DEF next
<1>8. Opened(p, q, u, kind)
  BY <1>4, <1>5, <1>6, <1>7 DEF Opened
<1> QED BY <1>8 DEF q, Allocate

\* q has block u besides, or anew, and loses none of the others.
Grown(p, q, u, kind) ==
    /\ q \in Policies /\ q.next = p.next + 1 /\ q.dropped = p.dropped
    /\ q.stopped <=> p.stopped
    /\ DOMAIN q.segment = DOMAIN p.segment \cup {u}
    /\ q.segment[u].kind = kind /\ q.segment[u].down = p.next /\ q.segment[u].open
    /\ \A v \in DOMAIN p.segment \ {u} :
          /\ q.segment[v].kind = p.segment[v].kind /\ q.segment[v].down = p.segment[v].down
          /\ Holding(p, q, v)

\* q may have dropped u besides.
Dropping(p, q, u) ==
    /\ q \in Policies /\ q.next = p.next /\ q.segment = p.segment /\ q.pending = p.pending
    /\ q.stopped <=> p.stopped
    /\ q.dropped \subseteq p.dropped \cup {u}

\* The events that open a block: stops, then a start.
Opens(events, index, kind, call, named) ==
    \E c \in Seq(Events) : AreStops(c) /\ events = Append(c, StartEvent(index, kind, call, named))

\* A start alone opens it.
LEMMA OpensAlone ==
    ASSUME NEW events, NEW index, NEW kind, NEW call, NEW named,
           StartEvent(index, kind, call, named) \in Events,
           events = <<StartEvent(index, kind, call, named)>>
    PROVE  Opens(events, index, kind, call, named)
<1> DEFINE e == StartEvent(index, kind, call, named)
           c == <<>>
<1>1. c \in Seq(Events) /\ AreStops(c)
  BY EmptySeq, EmptyDomain DEF AreStops
<1>2. e \in Events
  OBVIOUS
<1> HIDE DEF e
<1>3. <<e>> = Append(c, e)
  BY EmptySeq
<1> HIDE DEF c
<1> QED BY <1>1, <1>3 DEF Opens, e

\* A start drops the block or opens it.
LEMMA StartOpens ==
    ASSUME NEW p \in Policies, NEW u \in Nat, NEW kind \in Kinds, NEW call \in Nat
    PROVE  LET done == PolicyStart(p, u, kind, call)
           IN  \/ Dropping(p, done.p, u) /\ done.events = <<>> /\ Unwanted(kind, thinking)
               \/ /\ Grown(p, done.p, u, kind) /\ Opens(done.events, p.next, kind, call, TRUE)
                  /\ ~Unwanted(kind, thinking)
<1> DEFINE done == PolicyStart(p, u, kind, call)
<1>1. CASE kind = "thinking" /\ ~thinking
  <2> DEFINE more == p.dropped \cup {u}
             q == [p EXCEPT !.dropped = more]
  <2>1. done.p = q /\ done.events = <<>>
    BY <1>1 DEF PolicyStart, Drop
  <2>2. /\ p.next \in Nat /\ more \in SUBSET Nat /\ p.pending \in SUBSET Nat /\ p.stopped \in BOOLEAN
        /\ p.segment \in Segments /\ p.segment \in [DOMAIN p.segment -> SegmentType]
        /\ p = [next |-> p.next, segment |-> p.segment, dropped |-> p.dropped,
                pending |-> p.pending, stopped |-> p.stopped]
    BY PolicyParts
  <2>3. IsPolicy(q, p.next, p.segment, more, p.pending, p.stopped)
    <3> HIDE DEF more
    <3> QED BY <2>2 DEF IsPolicy
  <2> HIDE DEF q
  <2>4. /\ q \in Policies /\ q.next = p.next /\ q.segment = p.segment /\ q.dropped = more
        /\ q.pending = p.pending /\ (q.stopped <=> p.stopped)
    <3> HIDE DEF more
    <3> QED BY <2>2, <2>3, MadePolicy
  <2> QED BY <1>1, <2>1, <2>4 DEF Dropping, Unwanted
<1>2. CASE ~(kind = "thinking" /\ ~thinking)
  <2> DEFINE mid == CloseOthers(p, u).p
             c == CloseOthers(p, u).events
             e == StartEvent(mid.next, kind, call, TRUE)
             opened == Allocate(mid, u, kind, call, TRUE)
  <2>1. /\ Steady(p, mid) /\ (mid.stopped <=> p.stopped) /\ \A v \in DOMAIN p.segment : Holding(p, mid, v)
        /\ c \in Seq(Events) /\ AreStops(c)
    BY ClosingKeeps
  <2>2. done.p = opened.p /\ done.events = c \o opened.events
    BY <1>2 DEF PolicyStart
  <2> HIDE DEF mid, c, done
  <2>3. mid \in Policies /\ mid.next = p.next /\ mid.next \in Nat
    BY <2>1, PolicyParts DEF Steady
  <2>4. Opened(mid, opened.p, u, kind) /\ opened.events = <<e>>
    <3> DEFINE b == TRUE
    <3>1. b \in BOOLEAN
      OBVIOUS
    <3> HIDE DEF b
    <3>2. /\ Opened(mid, Allocate(mid, u, kind, call, b).p, u, kind)
          /\ Allocate(mid, u, kind, call, b).events = <<StartEvent(mid.next, kind, call, b)>>
      BY <2>3, <3>1, AllocateOpens
    <3> QED BY <3>2 DEF b
  <2>5. e \in Events
    BY <2>3, MadeEvents
  <2> HIDE DEF e, opened
  <2>6. done.events = Append(c, e)
    BY <2>1, <2>2, <2>4, <2>5, AppendIsConcat
  <2>7. Grown(p, done.p, u, kind)
    BY <2>1, <2>2, <2>3, <2>4 DEF Grown, Steady, Opened, Holding
  <2> QED BY <1>2, <2>1, <2>3, <2>6, <2>7 DEF Opens, Unwanted, e, done
<1> QED BY <1>1, <1>2

\* A delta is dropped; reaches the block that is open under its index; or opens one.
Missed(p, done, u, kind) ==
    /\ u \in p.dropped \/ Unwanted(kind, thinking)
    /\ done.p = p /\ done.events = <<>>
Reached(p, done, u, kind, pieces) ==
    /\ u \notin p.dropped /\ u \in DOMAIN p.segment /\ p.segment[u].open
    /\ done.p = p /\ done.events = <<DeltaEvent(p.segment[u].down, kind, pieces)>>
Reopened(p, done, u, kind, pieces) ==
    /\ u \notin p.dropped
    /\ u \in DOMAIN p.segment => ~p.segment[u].open
    /\ Grown(p, done.p, u, kind) /\ ~Unwanted(kind, thinking)
    /\ \E o : \E named \in BOOLEAN, same \in Nat :
          /\ Opens(o, p.next, kind, same, named)
          /\ done.events = Append(o, DeltaEvent(p.next, kind, pieces))
Arrives(p, done, u, kind, pieces) ==
    Missed(p, done, u, kind) \/ Reached(p, done, u, kind, pieces) \/ Reopened(p, done, u, kind, pieces)

\* It does nothing else.
LEMMA DeltaReaches ==
    ASSUME NEW p \in Policies, NEW u \in Nat, NEW kind \in Kinds, NEW call \in Nat, NEW pieces,
           u \in DOMAIN p.segment \cup p.dropped \/ kind # "thinking" \/ Unwanted(kind, thinking)
    PROVE  Arrives(p, PolicyDelta(p, u, kind, call, pieces), u, kind, pieces)
<1> DEFINE done == PolicyDelta(p, u, kind, call, pieces)
           known == u \in DOMAIN p.segment
           less == p.pending \ {u}
           mid == [p EXCEPT !.pending = less]
<1>1. /\ p.next \in Nat /\ less \in SUBSET Nat /\ p.dropped \in SUBSET Nat /\ p.stopped \in BOOLEAN
      /\ p.segment \in Segments /\ p.segment \in [DOMAIN p.segment -> SegmentType]
      /\ p = [next |-> p.next, segment |-> p.segment, dropped |-> p.dropped,
              pending |-> p.pending, stopped |-> p.stopped]
  BY PolicyParts
<1>2. CASE u \in p.dropped \/ (kind = "thinking" /\ ~thinking)
  BY <1>2 DEF PolicyDelta, Drop, Arrives, Missed, Unwanted
<1>3. CASE u \notin p.dropped /\ ~(kind = "thinking" /\ ~thinking) /\ known /\ p.segment[u].open
  BY <1>3 DEF PolicyDelta, Arrives, Reached
<1>4. CASE u \notin p.dropped /\ ~(kind = "thinking" /\ ~thinking) /\ known /\ ~p.segment[u].open
  <2> DEFINE same == p.segment[u].call
             named == p.segment[u].named
             opened == Allocate(mid, u, kind, same, named)
  <2>1. same \in Nat /\ named \in BOOLEAN
    <3>1. p.segment[u] \in SegmentType
      BY <1>1, <1>4
    <3> QED BY <3>1 DEF SegmentType
  <2>2. IsPolicy(mid, p.next, p.segment, p.dropped, less, p.stopped)
    <3> HIDE DEF less
    <3> QED BY <1>1 DEF IsPolicy
  <2>3. done.p = opened.p /\ done.events = Append(opened.events, DeltaEvent(p.next, kind, pieces))
    BY <1>4 DEF PolicyDelta
  <2> HIDE DEF mid, same, named, done
  <2>4. /\ mid \in Policies /\ mid.next = p.next /\ mid.segment = p.segment /\ mid.dropped = p.dropped
        /\ mid.pending = less /\ (mid.stopped <=> p.stopped)
    <3> HIDE DEF less
    <3> QED BY <1>1, <2>2, MadePolicy
  <2>5. Opened(mid, opened.p, u, kind) /\ opened.events = <<StartEvent(mid.next, kind, same, named)>>
    BY <2>1, <2>4, AllocateOpens
  <2> HIDE DEF opened
  <2>6. Grown(p, done.p, u, kind)
    <3>1. \A v \in DOMAIN p.segment \ {u} : v \in p.pending => v \in mid.pending
      BY <2>4
    <3> HIDE DEF less
    <3> QED BY <2>3, <2>4, <2>5, <3>1 DEF Grown, Opened, Holding
  <2>7. Opens(opened.events, p.next, kind, same, named)
    <3>1. StartEvent(p.next, kind, same, named) \in Events
      BY <1>1, <2>1, MadeEvents
    <3> QED BY <2>4, <2>5, <3>1, OpensAlone
  <2>8. \E o : \E n \in BOOLEAN, s \in Nat :
           /\ Opens(o, p.next, kind, s, n) /\ done.events = Append(o, DeltaEvent(p.next, kind, pieces))
    BY <2>1, <2>3, <2>7
  <2> QED BY <1>4, <2>6, <2>8 DEF done, Arrives, Reopened, Unwanted
<1>5. CASE u \notin p.dropped /\ ~(kind = "thinking" /\ ~thinking) /\ ~known
  <2> DEFINE b == FALSE
             opened == Allocate(p, u, kind, call, b)
  <2>1. done.p = opened.p /\ done.events = Append(opened.events, DeltaEvent(p.next, kind, pieces))
    BY <1>5 DEF PolicyDelta, Unwanted
  <2>2. b \in BOOLEAN
    OBVIOUS
  <2> HIDE DEF b, done
  <2>3. Opened(p, opened.p, u, kind) /\ opened.events = <<StartEvent(p.next, kind, call, b)>>
    BY <2>2, AllocateOpens
  <2> HIDE DEF opened
  <2>4. Grown(p, done.p, u, kind)
    BY <2>1, <2>3 DEF Grown, Opened, Holding
  <2>5. Opens(opened.events, p.next, kind, call, b)
    <3>1. StartEvent(p.next, kind, call, b) \in Events
      BY <1>1, <2>2, MadeEvents
    <3> QED BY <2>3, <3>1, OpensAlone
  <2>6. \E o : \E n \in BOOLEAN, s \in Nat :
           /\ Opens(o, p.next, kind, s, n) /\ done.events = Append(o, DeltaEvent(p.next, kind, pieces))
    BY <2>1, <2>2, <2>5
  <2> QED BY <1>5, <2>4, <2>6 DEF done, Arrives, Reopened, Unwanted
<1> QED BY <1>2, <1>3, <1>4, <1>5

\* A stop closes the block, or is what the policy waited for, or is dropped; that of a
\* thought without a segment is dropped too.
LEMMA StopCloses ==
    ASSUME NEW p \in Policies, NEW u, u \in DOMAIN p.segment \cup p.dropped \/ ~thinking
    PROVE  LET done == PolicyStop(p, u)
           IN  /\ Steady(p, done.p) /\ (done.p.stopped <=> p.stopped)
               /\ \A v \in DOMAIN p.segment \ {u} : Holding(p, done.p, v)
               /\ done.events \in Seq(Events) /\ AreStops(done.events)
<1> DEFINE done == PolicyStop(p, u)
           q == done.p
           less == p.pending \ {u}
<1>1. /\ p.next \in Nat /\ p.pending \in SUBSET Nat /\ p.dropped \in SUBSET Nat /\ p.stopped \in BOOLEAN
      /\ p.segment \in Segments /\ p.segment \in [DOMAIN p.segment -> SegmentType]
      /\ p = [next |-> p.next, segment |-> p.segment, dropped |-> p.dropped,
              pending |-> p.pending, stopped |-> p.stopped]
      /\ less \in SUBSET Nat
  BY PolicyParts
<1>2. <<>> \in Seq(Events) /\ AreStops(<<>>)
  BY EmptySeq, EmptyDomain DEF AreStops
<1>3. CASE done = [p |-> p, events |-> <<>>]
  BY <1>2, <1>3 DEF Steady, Holding
<1>4. CASE done = [p |-> [p EXCEPT !.pending = less], events |-> <<>>]
  <2>1. q = [p EXCEPT !.pending = less] /\ done.events = <<>>
    BY <1>4
  <2> HIDE DEF q, done
  <2>2. IsPolicy(q, p.next, p.segment, p.dropped, less, p.stopped)
    <3> HIDE DEF less
    <3> QED BY <1>1, <2>1 DEF IsPolicy
  <2>3. /\ q \in Policies /\ q.next = p.next /\ q.segment = p.segment /\ q.dropped = p.dropped
        /\ q.pending = less /\ (q.stopped <=> p.stopped)
    <3> HIDE DEF less
    <3> QED BY <1>1, <2>2, MadePolicy
  <2> QED BY <1>2, <2>1, <2>3 DEF Steady, Holding, q, done
<1>5. CASE /\ u \in DOMAIN p.segment
           /\ done = [p |-> [p EXCEPT !.segment[u].open = FALSE],
                      events |-> <<StopEvent(p.segment[u].down)>>]
  <2> DEFINE new == [p.segment EXCEPT ![u].open = FALSE]
             e == StopEvent(p.segment[u].down)
  <2>1. q = [p EXCEPT !.segment = new] /\ done.events = <<e>>
    BY <1>1, <1>5
  <2>2. p.segment[u] \in SegmentType
    BY <1>1, <1>5
  <2>3. /\ new \in [DOMAIN p.segment -> SegmentType] /\ DOMAIN new = DOMAIN p.segment
        /\ new[u].kind = p.segment[u].kind /\ new[u].down = p.segment[u].down
        /\ \A v \in DOMAIN p.segment \ {u} : new[v] = p.segment[v]
    <3>1. [p.segment[u] EXCEPT !.open = FALSE] \in SegmentType
      BY <2>2 DEF SegmentType
    <3>2. new = [v \in DOMAIN p.segment |->
                    IF v = u THEN [p.segment[u] EXCEPT !.open = FALSE] ELSE p.segment[v]]
      BY <1>1, <1>5
    <3>3. [p.segment[u] EXCEPT !.open = FALSE].kind = p.segment[u].kind
          /\ [p.segment[u] EXCEPT !.open = FALSE].down = p.segment[u].down
      BY <2>2 DEF SegmentType
    <3> QED BY <1>1, <1>5, <3>1, <3>2, <3>3
  <2>4. e \in Events /\ e.t = "stop"
    BY <2>2, MadeEvents DEF SegmentType
  <2> HIDE DEF q, done, new, e
  <2>5. IsPolicy(q, p.next, new, p.dropped, p.pending, p.stopped)
    BY <1>1, <2>1 DEF IsPolicy
  <2>6. /\ q \in Policies /\ q.next = p.next /\ q.segment = new /\ q.dropped = p.dropped
        /\ q.pending = p.pending /\ (q.stopped <=> p.stopped)
    <3>1. new \in Segments
      BY <2>3, PolicyParts, SegmentFacts
    <3> QED BY <1>1, <2>5, <3>1, MadePolicy
  <2>7. done.events \in Seq(Events) /\ AreStops(done.events)
    BY <2>1, <2>4 DEF AreStops
  <2>8. Steady(p, q) /\ \A v \in DOMAIN p.segment \ {u} : Holding(p, q, v)
    BY <2>3, <2>6 DEF Steady, Holding
  <2> QED BY <2>6, <2>7, <2>8 DEF q, done
<1>6. ~(u \notin DOMAIN p.segment \cup p.dropped \cup p.pending /\ thinking)
  OBVIOUS
<1>7. CASE u \in p.dropped
  <2>1. done = [p |-> p, events |-> <<>>]
    BY <1>7 DEF PolicyStop, Drop
  <2> QED BY <1>3, <2>1
<1>8. CASE u \notin p.dropped /\ u \in p.pending
  <2>1. done = [p |-> [p EXCEPT !.pending = less], events |-> <<>>]
    BY <1>8 DEF PolicyStop, Drop
  <2> QED BY <1>4, <2>1
<1>9. CASE u \notin p.dropped /\ u \notin p.pending /\ u \in DOMAIN p.segment /\ p.segment[u].open
  <2>1. u \in DOMAIN p.segment
    BY <1>9
  <2>2. done = [p |-> [p EXCEPT !.segment[u].open = FALSE],
                events |-> <<StopEvent(p.segment[u].down)>>]
    BY <1>9, <2>1 DEF PolicyStop
  <2> QED BY <1>5, <2>1, <2>2
<1>10. CASE u \notin p.dropped /\ u \notin p.pending /\ ~(u \in DOMAIN p.segment /\ p.segment[u].open)
  <2>1. done = [p |-> p, events |-> <<>>]
    BY <1>6, <1>10 DEF PolicyStop, Drop
  <2> QED BY <1>3, <2>1
<1> QED BY <1>7, <1>8, <1>9, <1>10

-----------------------------------------------------------------------------
(***************************************************************************)
(* The provider's blocks, the policy's segments and the tracker's blocks.  *)
(***************************************************************************)

\* What is given of a block grows by the next piece.
LEMMA GivenFacts ==
    ASSUME NEW a \in Nat, NEW n \in Nat
    PROVE  /\ Given(a, n) \in Seq(PieceType) /\ DOMAIN Given(a, n) = 1 .. n /\ Given(a, 0) = <<>>
           /\ Given(a, n) \o <<Piece(a, n + 1)>> = Given(a, n + 1)
<1> DEFINE g == Given(a, n)
           h == Given(a, n + 1)
           x == Piece(a, n + 1)
<1>1. \A j \in Nat : Piece(a, j) \in PieceType
  BY DEF Piece, PieceType
<1>2. /\ g \in Seq(PieceType) /\ Len(g) = n /\ DOMAIN g = 1 .. n
      /\ \A j \in 1 .. n : g[j] = Piece(a, j)
  BY <1>1 DEF Given
<1>3. h \in Seq(PieceType) /\ Len(h) = n + 1 /\ \A j \in 1 .. (n + 1) : h[j] = Piece(a, j)
  BY <1>1 DEF Given
<1>4. x \in PieceType
  BY <1>1
<1>5. Given(a, 0) = <<>>
  <2>1. DOMAIN Given(a, 0) = {}
    BY DEF Given
  <2>2. Given(a, 0) \in Seq(PieceType)
    BY <1>1 DEF Given
  <2> QED BY <2>1, <2>2, EmptySeq
<1>6. x = h[n + 1]
  BY <1>3
<1> HIDE DEF g, h, x
<1> DEFINE k == Append(g, x)
<1>7. /\ k \in Seq(PieceType) /\ Len(k) = n + 1 /\ k[n + 1] = x
      /\ \A j \in 1 .. n : k[j] = g[j]
  BY <1>2, <1>4, AppendProperties
<1>8. g \o <<x>> = k
  BY <1>2, <1>4, AppendIsConcat
<1> HIDE DEF k
<1>9. \A j \in 1 .. (n + 1) : j \in 1 .. n \/ j = n + 1
  OBVIOUS
<1>10. \A j \in 1 .. (n + 1) : k[j] = h[j]
  BY <1>2, <1>3, <1>6, <1>7, <1>9
<1>11. k = h
  BY <1>3, <1>7, <1>10, SeqEqual
<1> QED BY <1>2, <1>5, <1>8, <1>11 DEF g, h, x

\* The provider's blocks are the same, of the same kinds.
Alike(B, C) == DOMAIN C = DOMAIN B /\ \A v \in DOMAIN B : C[v].kind = B[v].kind

\* One more of them.
Appears(B, C, u, kind, n) ==
    /\ u \notin DOMAIN B /\ DOMAIN C = DOMAIN B \cup {u}
    /\ C[u].kind = kind /\ C[u].pieces = n
    /\ \A v \in DOMAIN B : C[v] = B[v]

\* What a segment and a block have, after each step of the policy.
LEMMA SortedSteady ==
    ASSUME NEW p, NEW q, NEW B, NEW C, Sorted(p, B), Steady(p, q), Alike(B, C)
    PROVE  Sorted(q, C)
BY DEF Sorted, Steady, Alike

\* After a block that is dropped.
LEMMA SortedDropping ==
    ASSUME NEW p, NEW q, NEW B, NEW C, NEW u, NEW kind, NEW n,
           Sorted(p, B), Dropping(p, q, u), Appears(B, C, u, kind, n)
    PROVE  Sorted(q, C)
BY DEF Sorted, Dropping, Appears

\* After one that is opened.
LEMMA SortedGrown ==
    ASSUME NEW p, NEW q, NEW B, NEW C, NEW u, NEW kind,
           Sorted(p, B), Grown(p, q, u, kind), u \notin p.dropped,
           \/ \E n : Appears(B, C, u, kind, n)
           \/ Alike(B, C) /\ u \in DOMAIN p.segment /\ B[u].kind = kind
    PROVE  Sorted(q, C)
<1>1. /\ p \in Policies /\ q \in Policies /\ q.next = p.next + 1 /\ q.dropped = p.dropped
      /\ DOMAIN q.segment = DOMAIN p.segment \cup {u}
      /\ DOMAIN p.segment \cup p.dropped \subseteq DOMAIN B /\ DOMAIN p.segment \cap p.dropped = {}
  BY DEF Sorted, Grown
<1>2. p.next \in Nat /\ p.segment \in [DOMAIN p.segment -> SegmentType] /\ q.next \in Nat
  BY <1>1, PolicyParts
<1>3. DOMAIN q.segment \cup q.dropped \subseteq DOMAIN C
  BY <1>1 DEF Appears, Alike
<1>4. DOMAIN q.segment \cap q.dropped = {}
  BY <1>1
<1>5. ASSUME NEW v \in DOMAIN q.segment
      PROVE  q.segment[v].down < q.next /\ q.segment[v].kind = C[v].kind
  <2>1. CASE v = u
    <3>1. q.segment[u].down = p.next /\ q.segment[u].kind = kind
      BY DEF Grown
    <3>2. C[u].kind = kind
      BY <1>1 DEF Appears, Alike
    <3> QED BY <1>1, <1>2, <2>1, <3>1, <3>2
  <2>2. CASE v # u
    <3>1. v \in DOMAIN p.segment /\ v \in DOMAIN B
      BY <1>1, <2>2
    <3>2. q.segment[v].down = p.segment[v].down /\ q.segment[v].kind = p.segment[v].kind
      BY <2>2, <3>1 DEF Grown
    <3>3. p.segment[v].down < p.next /\ p.segment[v].kind = B[v].kind
      BY <3>1 DEF Sorted
    <3>4. p.segment[v] \in SegmentType
      BY <1>2, <3>1
    <3>5. p.segment[v].down \in Nat
      BY <3>4 DEF SegmentType
    <3>6. C[v].kind = B[v].kind
      BY <3>1 DEF Appears, Alike
    <3> QED BY <1>1, <1>2, <3>2, <3>3, <3>5, <3>6
  <2> QED BY <2>1, <2>2
<1> QED BY <1>1, <1>3, <1>4, <1>5 DEF Sorted

\* What the policy has of what the client asked for, and of what it did not.
LEMMA WantedSteady ==
    ASSUME NEW p, NEW q, NEW B, NEW C, NEW enabled,
           Wanted(p, B, enabled), Steady(p, q), Alike(B, C)
    PROVE  Wanted(q, C, enabled)
BY DEF Wanted, Steady, Alike

\* After a block that is dropped.
LEMMA WantedDropping ==
    ASSUME NEW p, NEW q, NEW B, NEW C, NEW u, NEW kind, NEW n, NEW enabled,
           Wanted(p, B, enabled), Dropping(p, q, u), Appears(B, C, u, kind, n), Unwanted(kind, enabled)
    PROVE  Wanted(q, C, enabled)
BY DEF Wanted, Dropping, Appears

\* After one that is opened.
LEMMA WantedGrown ==
    ASSUME NEW p, NEW q, NEW B, NEW C, NEW u, NEW kind, NEW n, NEW enabled,
           Wanted(p, B, enabled), Grown(p, q, u, kind), Appears(B, C, u, kind, n) \/ Alike(B, C),
           ~Unwanted(kind, enabled)
    PROVE  Wanted(q, C, enabled)
<1>1. /\ DOMAIN q.segment = DOMAIN p.segment \cup {u} /\ q.segment[u].kind = kind
      /\ \A v \in DOMAIN p.segment \ {u} : q.segment[v].kind = p.segment[v].kind
  BY DEF Grown
<1>2. \A v \in DOMAIN C \ DOMAIN q.segment : v \in DOMAIN B \ DOMAIN p.segment /\ C[v].kind = B[v].kind
  BY <1>1 DEF Appears, Alike
<1> QED BY <1>1, <1>2 DEF Wanted

\* What the client was told of the kinds.
LEMMA KindredSteady ==
    ASSUME NEW p, NEW q, NEW told, Kindred(p, told), Steady(p, q)
    PROVE  Kindred(q, told)
BY DEF Kindred, Steady

\* After a block that is dropped.
LEMMA KindredDropping ==
    ASSUME NEW p, NEW q, NEW u, NEW told, Kindred(p, told), Dropping(p, q, u)
    PROVE  Kindred(q, told)
BY DEF Kindred, Dropping

\* Every segment is one of those that were told.
LEMMA SegmentTold ==
    ASSUME NEW p, NEW B, Sorted(p, B), NEW v \in DOMAIN p.segment
    PROVE  p.segment[v].down \in Nat /\ p.segment[v].down + 1 \in 1 .. p.next
<1>1. p.segment[v] \in SegmentType /\ p.next \in Nat
  BY PolicyParts DEF Sorted
<1>2. p.segment[v].down \in Nat /\ p.segment[v].down < p.next
  BY <1>1 DEF Sorted, SegmentType
<1> DEFINE d == p.segment[v].down
           n == p.next
<1>3. d \in Nat /\ d < n /\ n \in Nat
  BY <1>1, <1>2
<1> HIDE DEF d, n
<1>4. d + 1 \in 1 .. n
  BY <1>3
<1> QED BY <1>3, <1>4 DEF d, n

\* One block more, with these pieces.
Longer(told, more, kind, pieces) ==
    /\ DOMAIN more = 1 .. (Len(told) + 1) /\ Len(more) = Len(told) + 1
    /\ \A k \in 1 .. Len(told) : more[k] = told[k]
    /\ more[Len(told) + 1].kind = kind /\ more[Len(told) + 1].pieces = pieces

\* After one that is opened.
LEMMA KindredGrown ==
    ASSUME NEW p, NEW q, NEW B, NEW u, NEW kind, NEW told, NEW more, NEW pieces, Sorted(p, B),
           Kindred(p, told), Grown(p, q, u, kind), Len(told) = p.next, Longer(told, more, kind, pieces)
    PROVE  Kindred(q, more)
<1>1. /\ DOMAIN q.segment = DOMAIN p.segment \cup {u}
      /\ q.segment[u].kind = kind /\ q.segment[u].down = p.next
      /\ \A v \in DOMAIN p.segment \ {u} :
            q.segment[v].kind = p.segment[v].kind /\ q.segment[v].down = p.segment[v].down
  BY DEF Grown
<1>2. \A k \in 1 .. p.next : more[k] = told[k]
  BY DEF Longer
<1>3. more[p.next + 1].kind = kind
  BY DEF Longer
<1>4. ASSUME NEW v \in DOMAIN p.segment \ {u} PROVE more[q.segment[v].down + 1].kind = q.segment[v].kind
  <2>1. p.segment[v].down + 1 \in 1 .. p.next
    BY SegmentTold
  <2>2. more[p.segment[v].down + 1] = told[p.segment[v].down + 1]
    BY <1>2, <2>1
  <2> QED BY <1>1, <2>2 DEF Kindred
<1> QED BY <1>1, <1>3, <1>4 DEF Kindred

\* More pieces in block k.
Fills(told, more, k, pieces) ==
    /\ DOMAIN more = DOMAIN told /\ k \in DOMAIN told
    /\ \A j \in DOMAIN told : more[j].kind = told[j].kind /\ (j # k => more[j] = told[j])
    /\ more[k].pieces = told[k].pieces \o pieces

\* After a piece more.
LEMMA KindredFilled ==
    ASSUME NEW p, NEW B, NEW told, NEW more, NEW k, NEW pieces, Sorted(p, B), Kindred(p, told),
           DOMAIN told = 1 .. p.next, Fills(told, more, k, pieces)
    PROVE  Kindred(p, more)
<1>1. \A v \in DOMAIN p.segment : p.segment[v].down + 1 \in DOMAIN told
  BY SegmentTold
<1> QED BY <1>1 DEF Kindred, Fills

\* The same for all that the client was told of them.
LEMMA OwnedSteady ==
    ASSUME NEW p, NEW q, NEW B, NEW C, NEW told, NEW a,
           Sorted(p, B), Owned(p, told, B, a), Steady(p, q), Alike(B, C),
           \A v \in DOMAIN p.segment : C[v].pieces = B[v].pieces,
           \A v \in DOMAIN p.segment : C[v].open => B[v].open /\ Holding(p, q, v)
    PROVE  Owned(q, told, C, a)
<1>1. DOMAIN q.segment = DOMAIN p.segment /\ DOMAIN p.segment \subseteq DOMAIN B
  BY DEF Sorted, Steady
<1>2. \A v \in DOMAIN p.segment : q.segment[v].down = p.segment[v].down /\ C[v].kind = B[v].kind
  BY <1>1 DEF Steady, Alike
<1>3. \A v \in DOMAIN p.segment : C[v].open => q.segment[v].open \/ v \in q.pending
  BY DEF Owned, Holding
<1> QED BY <1>1, <1>2, <1>3 DEF Owned

\* After a block that is dropped.
LEMMA OwnedDropping ==
    ASSUME NEW p, NEW q, NEW B, NEW C, NEW told, NEW a, NEW u, NEW kind, NEW n,
           Sorted(p, B), Owned(p, told, B, a), Dropping(p, q, u), Appears(B, C, u, kind, n)
    PROVE  Owned(q, told, C, a)
<1>1. q.segment = p.segment /\ q.pending = p.pending
  BY DEF Dropping
<1>2. \A v \in DOMAIN p.segment : C[v] = B[v]
  BY DEF Sorted, Appears
<1> QED BY <1>1, <1>2 DEF Owned

\* A block more, at the end of those that were told.
LEMMA OwnedGrown ==
    ASSUME NEW p, NEW q, NEW B, NEW C, NEW told \in Seq(TrackedBlocks), NEW more, NEW a, NEW u,
           NEW kind, NEW n, Sorted(p, B), Owned(p, told, B, a), Grown(p, q, u, kind),
           Appears(B, C, u, kind, n), Len(told) = p.next,
           NEW pieces, pieces = Given(a, n), Longer(told, more, kind, pieces)
    PROVE  Owned(q, more, C, a)
<1>0. /\ DOMAIN told = 1 .. p.next /\ DOMAIN more = 1 .. (p.next + 1)
      /\ \A k \in 1 .. p.next : more[k] = told[k]
      /\ more[p.next + 1].kind = kind /\ more[p.next + 1].pieces = Given(a, n)
  BY DEF Longer
<1>1. /\ p \in Policies /\ q \in Policies /\ DOMAIN q.segment = DOMAIN p.segment \cup {u}
      /\ DOMAIN p.segment \subseteq DOMAIN B /\ u \notin DOMAIN B
      /\ C[u].kind = kind /\ C[u].pieces = n /\ \A v \in DOMAIN B : C[v] = B[v]
      /\ q.segment[u].down = p.next /\ q.segment[u].open
  BY DEF Sorted, Grown, Appears
<1>2. p.next \in Nat
  BY <1>1, PolicyParts
<1>3. ASSUME NEW v \in DOMAIN p.segment
      PROVE  /\ v # u /\ q.segment[v].down = p.segment[v].down /\ Holding(p, q, v)
             /\ C[v] = B[v] /\ q.segment[v].down \in Nat /\ q.segment[v].down < p.next
             /\ more[q.segment[v].down + 1] = told[p.segment[v].down + 1]
  <2>1. v # u /\ C[v] = B[v]
    BY <1>1
  <2>2. q.segment[v].down = p.segment[v].down /\ Holding(p, q, v)
    BY <2>1 DEF Grown
  <2>3. p.segment[v] \in SegmentType
    BY <1>1, PolicyParts
  <2>4. p.segment[v].down \in Nat /\ p.segment[v].down < p.next
    BY <2>3 DEF Sorted, SegmentType
  <2>5. p.segment[v].down + 1 \in 1 .. p.next
    BY <1>2, <2>4
  <2> QED BY <1>0, <2>1, <2>2, <2>4, <2>5
<1>4. ASSUME NEW v \in DOMAIN q.segment
      PROVE  /\ more[q.segment[v].down + 1].pieces = Given(a, C[v].pieces)
             /\ more[q.segment[v].down + 1].kind = C[v].kind
             /\ C[v].open => q.segment[v].open \/ v \in q.pending
  <2>1. CASE v = u
    BY <1>0, <1>1, <2>1
  <2>2. CASE v # u
    <3>1. v \in DOMAIN p.segment
      BY <1>1, <2>2
    <3> QED BY <1>3, <3>1 DEF Owned, Holding
  <2> QED BY <2>1, <2>2
<1>5. ASSUME NEW k \in DOMAIN more PROVE \E v \in DOMAIN q.segment : q.segment[v].down = k - 1
  <2>1. CASE k = p.next + 1
    <3>1. k - 1 = p.next
      BY <1>2, <2>1
    <3> QED BY <1>1, <3>1
  <2>2. CASE k \in DOMAIN told
    <3>1. PICK v \in DOMAIN p.segment : p.segment[v].down = k - 1
      BY <2>2 DEF Owned
    <3> QED BY <1>1, <1>3, <3>1
  <2> QED BY <1>0, <1>2, <2>1, <2>2
<1>6. ASSUME NEW v \in DOMAIN q.segment, NEW w \in DOMAIN q.segment,
             q.segment[v].down = q.segment[w].down
      PROVE  v = w
  <2>1. CASE v = u /\ w # u
    <3>1. w \in DOMAIN p.segment
      BY <1>1, <2>1
    <3> QED BY <1>1, <1>2, <1>3, <1>6, <2>1, <3>1
  <2>2. CASE v # u /\ w = u
    <3>1. v \in DOMAIN p.segment
      BY <1>1, <2>2
    <3> QED BY <1>1, <1>2, <1>3, <1>6, <2>2, <3>1
  <2>3. CASE v # u /\ w # u
    <3>1. v \in DOMAIN p.segment /\ w \in DOMAIN p.segment
      BY <1>1, <2>3
    <3> QED BY <1>3, <1>6, <3>1 DEF Owned
  <2> QED BY <2>1, <2>2, <2>3
<1> QED BY <1>4, <1>5, <1>6 DEF Owned

\* The provider has sent one piece more of a block that was open.
Advances(B, C, u) ==
    /\ Alike(B, C) /\ B[u].pieces \in 0 .. 1 /\ C[u].pieces = B[u].pieces + 1 /\ B[u].open
    /\ \A v \in DOMAIN B \ {u} : C[v] = B[v]

\* A piece more, in a block that was told.
LEMMA OwnedFilled ==
    ASSUME NEW p, NEW B, NEW C, NEW told, NEW more, NEW a \in Nat, NEW u \in DOMAIN p.segment,
           Sorted(p, B), Owned(p, told, B, a), Advances(B, C, u), DOMAIN told = 1 .. p.next,
           Fills(told, more, p.segment[u].down + 1, <<Piece(a, B[u].pieces + 1)>>)
    PROVE  Owned(p, more, C, a)
<1>1. p \in Policies /\ p.next \in Nat /\ DOMAIN p.segment \subseteq DOMAIN B
  BY PolicyParts DEF Sorted
<1>2. ASSUME NEW v \in DOMAIN p.segment
      PROVE  p.segment[v].down \in Nat /\ p.segment[v].down + 1 \in DOMAIN told
  BY SegmentTold
<1>3. \A v \in DOMAIN p.segment \ {u} : p.segment[v].down + 1 # p.segment[u].down + 1
  <2>1. \A v \in DOMAIN p.segment \ {u} : p.segment[v].down # p.segment[u].down
    BY DEF Owned
  <2> SUFFICES ASSUME NEW v \in DOMAIN p.segment \ {u}
               PROVE  p.segment[v].down + 1 # p.segment[u].down + 1
    OBVIOUS
  <2> DEFINE d == p.segment[v].down
             e == p.segment[u].down
  <2>2. d \in Nat /\ e \in Nat /\ d # e
    BY <1>2, <2>1
  <2> HIDE DEF d, e
  <2>3. d + 1 # e + 1
    BY <2>2
  <2> QED BY <2>3 DEF d, e
<1>4. more[p.segment[u].down + 1].pieces = Given(a, C[u].pieces)
  <2> DEFINE n == B[u].pieces
  <2>1. told[p.segment[u].down + 1].pieces = Given(a, n)
    BY DEF Owned
  <2>2. n \in Nat /\ C[u].pieces = n + 1
    BY DEF Advances
  <2> HIDE DEF n
  <2>3. Given(a, n) \o <<Piece(a, n + 1)>> = Given(a, n + 1)
    BY <2>2, GivenFacts
  <2> QED BY <2>1, <2>2, <2>3 DEF n, Fills
<1>5. ASSUME NEW v \in DOMAIN p.segment
      PROVE  /\ more[p.segment[v].down + 1].pieces = Given(a, C[v].pieces)
             /\ more[p.segment[v].down + 1].kind = C[v].kind
             /\ C[v].open => p.segment[v].open \/ v \in p.pending
  <2>1. /\ told[p.segment[v].down + 1].pieces = Given(a, B[v].pieces)
        /\ told[p.segment[v].down + 1].kind = B[v].kind
        /\ B[v].open => p.segment[v].open \/ v \in p.pending
    BY DEF Owned
  <2>2. p.segment[v].down + 1 \in DOMAIN told /\ v \in DOMAIN B
    BY <1>1, <1>2
  <2>3. more[p.segment[v].down + 1].kind = C[v].kind
    BY <2>1, <2>2 DEF Fills, Advances, Alike
  <2>4. C[v].open => B[v].open
    BY <2>2 DEF Advances
  <2>5. more[p.segment[v].down + 1].pieces = Given(a, C[v].pieces)
    <3>1. CASE v = u
      BY <1>4, <3>1
    <3>2. CASE v # u
      <4>1. C[v] = B[v]
        BY <2>2, <3>2 DEF Advances
      <4>2. more[p.segment[v].down + 1] = told[p.segment[v].down + 1]
        BY <1>3, <2>2, <3>2 DEF Fills
      <4> QED BY <2>1, <4>1, <4>2
    <3> QED BY <3>1, <3>2
  <2> QED BY <2>1, <2>3, <2>4, <2>5
<1>6. \A k \in DOMAIN more : \E v \in DOMAIN p.segment : p.segment[v].down = k - 1
  BY DEF Owned, Fills
<1>7. \A v, w \in DOMAIN p.segment : p.segment[v].down = p.segment[w].down => v = w
  BY DEF Owned
<1> QED BY <1>5, <1>6, <1>7 DEF Owned

-----------------------------------------------------------------------------
(***************************************************************************)
(* What the client and the tracker get of the events of one step.          *)
(***************************************************************************)

\* These events were yielded, and t is what the tracker is then.
Follows(E, tk, events, attempt, t) ==
    /\ events \in Seq(Events) /\ t \in Trackers /\ t = ObserveAll(tk, events)
    /\ Witnessed(E \o events, t, attempt)

\* One event behind others.
LEMMA FollowsOne ==
    ASSUME NEW E \in Seq(Events), NEW tk \in Trackers, NEW attempt, NEW events, NEW t,
           Follows(E, tk, events, attempt, t), NEW e \in Events,
           e.t = "start" => e.index = Len(t.blocks),
           e.t = "delta" => /\ e.index < Len(t.blocks) /\ From(e.pieces, {attempt})
                            /\ e.kind = t.blocks[e.index + 1].kind
    PROVE  Follows(E, tk, Append(events, e), attempt, Observe(t, e))
<1> DEFINE a == Append(events, e)
           F == E \o events
<1>1. events \in Seq(Events) /\ t \in Trackers /\ t = ObserveAll(tk, events) /\ Witnessed(F, t, attempt)
  BY DEF Follows
<1>2. a \in Seq(Events)
  BY <1>1, AppendProperties
<1>3. ObserveAll(tk, a) = Observe(t, e) /\ Observe(t, e) \in Trackers
  BY <1>1, ObserveAllFacts, ObserveFacts
<1>4. E \o a = Append(F, e)
  BY <1>1, AppendApart
<1> HIDE DEF a, F
<1>5. Witnessed(Append(F, e), Observe(t, e), attempt)
  BY <1>1, WitnessedOne
<1> QED BY <1>2, <1>3, <1>4, <1>5 DEF Follows, a

\* No events at all, and stops.
LEMMA FollowsStops ==
    ASSUME NEW E \in Seq(Events), NEW tk, NEW attempt, Witnessed(E, tk, attempt),
           NEW s \in Seq(Events), AreStops(s)
    PROVE  \E t : /\ Follows(E, tk, s, attempt, t)
                  /\ t.blocks = tk.blocks /\ (t.stopped <=> tk.stopped)
<1>1. tk \in Trackers
  BY DEF Witnessed
<1> DEFINE t == ObserveAll(tk, s)
<1>2. t \in Trackers /\ t.blocks = tk.blocks /\ (t.stopped <=> tk.stopped) /\ Witnessed(E \o s, t, attempt)
  BY <1>1, WitnessedStops, StopsKeep, ObserveAllFacts
<1>3. Follows(E, tk, s, attempt, t)
  BY <1>2 DEF Follows
<1> QED BY <1>2, <1>3

\* No events.
LEMMA FollowsNone ==
    ASSUME NEW E \in Seq(Events), NEW tk, NEW attempt, Witnessed(E, tk, attempt)
    PROVE  Follows(E, tk, <<>>, attempt, tk)
<1>1. tk \in Trackers /\ E \in Seq(Events) /\ <<>> \in Seq(Events)
  BY EmptySeq DEF Witnessed
<1> QED BY <1>1, ObserveAllFacts, ConcatEmptySeq DEF Follows

\* An event of the message.
LEMMA FollowsPlain ==
    ASSUME NEW E \in Seq(Events), NEW tk, NEW attempt, Witnessed(E, tk, attempt), NEW ty \in PlainTypes
    PROVE  \E t : /\ Follows(E, tk, <<Event(ty)>>, attempt, t)
                  /\ t.blocks = tk.blocks /\ (t.stopped <=> (tk.stopped \/ ty = "message_stop"))
<1> DEFINE e == Event(ty)
           none == <<>>
<1>1. e \in Events /\ e.t = ty
  BY MadeEvents
<1>2. tk \in Trackers /\ none \in Seq(Events) /\ <<e>> = Append(none, e)
  BY EmptySeq DEF Witnessed
<1>3. Follows(E, tk, none, attempt, tk)
  BY FollowsNone
<1>4. e.t \notin {"start", "delta"}
  BY <1>1 DEF PlainTypes
<1> HIDE DEF none, e
<1>5. Follows(E, tk, Append(none, e), attempt, Observe(tk, e))
  BY <1>1, <1>2, <1>3, <1>4, FollowsOne
<1>6. Observe(tk, e).blocks = tk.blocks /\ (Observe(tk, e).stopped <=> (tk.stopped \/ ty = "message_stop"))
  BY <1>1, <1>2, <1>4, ObserveFacts
<1>7. Follows(E, tk, <<e>>, attempt, Observe(tk, e))
  BY <1>2, <1>5
<1> QED BY <1>6, <1>7 DEF e

\* Those that open a block.
LEMMA FollowsOpens ==
    ASSUME NEW E \in Seq(Events), NEW tk, NEW attempt, Witnessed(E, tk, attempt), NEW events,
           NEW kind \in Kinds, NEW call \in Nat, NEW named \in BOOLEAN,
           NEW next, next = Len(tk.blocks), Opens(events, next, kind, call, named)
    PROVE  \E t : /\ Follows(E, tk, events, attempt, t)
                  /\ Longer(tk.blocks, t.blocks, kind, <<>>) /\ (t.stopped <=> tk.stopped)
<1> DEFINE L == Len(tk.blocks)
           e == StartEvent(L, kind, call, named)
           cs == Append(tk.blocks, NewBlock(e))
<1>1. tk \in Trackers /\ tk.blocks \in Seq(TrackedBlocks) /\ L \in Nat
  BY DEF Witnessed, Trackers
<1>2. PICK c \in Seq(Events) : AreStops(c) /\ events = Append(c, e)
  BY DEF Opens
<1>3. e \in Events /\ e.t = "start" /\ e.index = L /\ e.kind = kind
  BY <1>1, MadeEvents
<1>4. PICK t : Follows(E, tk, c, attempt, t) /\ t.blocks = tk.blocks /\ (t.stopped <=> tk.stopped)
  BY <1>2, FollowsStops
<1>5. NewBlock(e) \in TrackedBlocks
  <2>1. e \in StartEvents
    BY <1>3, EventFacts
  <2> HIDE DEF e
  <2> QED BY <2>1, EmptySeq DEF NewBlock, TrackedBlocks, StartEvents
<1>6. NewBlock(e).kind = kind /\ NewBlock(e).pieces = <<>>
  BY <1>3 DEF NewBlock
<1>7. Longer(tk.blocks, cs, kind, <<>>)
  <2> DEFINE b == NewBlock(e)
             bs == tk.blocks
  <2>1. bs \in Seq(TrackedBlocks) /\ b \in TrackedBlocks /\ b.kind = kind /\ b.pieces = <<>>
    BY <1>1, <1>5, <1>6
  <2> HIDE DEF b, bs
  <2>2. /\ DOMAIN Append(bs, b) = 1 .. (Len(bs) + 1) /\ Len(Append(bs, b)) = Len(bs) + 1
        /\ \A k \in 1 .. Len(bs) : Append(bs, b)[k] = bs[k]
        /\ Append(bs, b)[Len(bs) + 1] = b
    BY <2>1, AppendProperties
  <2>3. Longer(bs, Append(bs, b), kind, <<>>)
    BY <2>1, <2>2 DEF Longer
  <2> QED BY <2>3 DEF b, bs
<1>8. t \in Trackers
  BY <1>4 DEF Follows
<1> HIDE DEF e, cs
<1>9. Follows(E, tk, Append(c, e), attempt, Observe(t, e))
  <2>1. e.t # "delta" /\ e.index = Len(t.blocks)
    BY <1>3, <1>4
  <2> QED BY <1>1, <1>3, <1>4, <2>1, FollowsOne
<1>10. Observe(t, e).blocks = cs /\ (Observe(t, e).stopped <=> tk.stopped)
  <2>1. Observe(t, e).blocks = Append(t.blocks, NewBlock(e))
    BY <1>3, <1>8, ObserveFacts
  <2>2. Observe(t, e).stopped <=> (t.stopped \/ e.t = "message_stop")
    BY <1>3, <1>8, ObserveFacts
  <2> QED BY <1>3, <1>4, <2>1, <2>2 DEF cs
<1> QED BY <1>2, <1>7, <1>9, <1>10

\* Block d of those that were told is of this kind.
IsOfKind(told, d, kind) == told[d + 1].kind = kind

\* A delta behind others.
LEMMA FollowsDelta ==
    ASSUME NEW E \in Seq(Events), NEW tk \in Trackers, NEW attempt, NEW events, NEW t,
           Follows(E, tk, events, attempt, t),
           NEW d \in Nat, d < Len(t.blocks), NEW kind \in Kinds, IsOfKind(t.blocks, d, kind),
           NEW pieces \in Seq(PieceType), From(pieces, {attempt})
    PROVE  \E after :
              /\ Follows(E, tk, Append(events, DeltaEvent(d, kind, pieces)), attempt, after)
              /\ Fills(t.blocks, after.blocks, d + 1, pieces) /\ Len(after.blocks) = Len(t.blocks)
              /\ after.stopped <=> t.stopped
<1> DEFINE e == DeltaEvent(d, kind, pieces)
           bs == t.blocks
<1>1. e \in Events /\ e.t = "delta" /\ e.index = d /\ e.pieces = pieces /\ e.kind = kind
  <2>1. e \in Events /\ e.t = "delta" /\ e.index = d /\ e.pieces = pieces
    BY MadeEvents
  <2>2. e.kind = kind
    BY DEF DeltaEvent
  <2> QED BY <2>1, <2>2
<1>2. t \in Trackers /\ bs \in Seq(TrackedBlocks)
  BY DEF Follows, Trackers
<1>3. Noted(E \o events, bs) /\ E \o events \in Seq(Events)
  BY DEF Follows, Witnessed
<1> HIDE DEF e
<1>4. Follows(E, tk, Append(events, e), attempt, Observe(t, e))
  <2>1. e.t # "start" /\ e.index < Len(t.blocks) /\ From(e.pieces, {attempt})
        /\ e.kind = t.blocks[e.index + 1].kind
    BY <1>1 DEF IsOfKind
  <2> QED BY <1>1, <1>2, <2>1, FollowsOne
<1>5. Observe(t, e).blocks = Filled(bs, e) /\ (Observe(t, e).stopped <=> t.stopped)
  BY <1>1, <1>2, ObserveFacts
<1> HIDE DEF bs
<1>6. /\ DOMAIN Filled(bs, e) = DOMAIN bs /\ Len(Filled(bs, e)) = Len(bs)
      /\ \A k \in DOMAIN bs : /\ Filled(bs, e)[k].kind = bs[k].kind
                              /\ k # e.index + 1 => Filled(bs, e)[k] = bs[k]
      /\ e.index + 1 \in DOMAIN bs
      /\ Filled(bs, e)[e.index + 1].pieces = bs[e.index + 1].pieces \o e.pieces
  <2>1. e.index < Len(bs) /\ e.kind = bs[e.index + 1].kind
    BY <1>1 DEF bs, IsOfKind
  <2> DEFINE F == E \o events
  <2>2. F \in Seq(Events) /\ Noted(F, bs)
    BY <1>3
  <2> HIDE DEF F
  <2> QED BY <1>1, <1>2, <2>1, <2>2, NotedDelta
<1>7. Fills(bs, Filled(bs, e), d + 1, pieces)
  BY <1>1, <1>6 DEF Fills
<1> QED BY <1>4, <1>5, <1>6, <1>7 DEF bs, e

-----------------------------------------------------------------------------
(***************************************************************************)
(* One step of the provider, of the policy and of the tracker.             *)
(***************************************************************************)

\* No block is there more or less.
LEMMA StepSteady ==
    ASSUME NEW up, NEW up2, NEW p, NEW q, NEW tk, NEW t, NEW E, NEW events, NEW a, NEW own, NEW own2,
           NEW enabled, Live(up, p, tk, E, a, own, enabled), own2 => own,
           Regular(up2), q.stopped \/ t.stopped => AtEnd(up2), Alike(up.blocks, up2.blocks),
           Steady(p, q), Follows(E, tk, events, a, t), t.blocks = tk.blocks,
           \A v \in DOMAIN p.segment : up2.blocks[v].pieces = up.blocks[v].pieces,
           \A v \in DOMAIN p.segment :
              up2.blocks[v].open => up.blocks[v].open /\ Holding(p, q, v)
    PROVE  Live(up2, q, t, E \o events, a, own2, enabled)
<1>1. /\ Sorted(p, up.blocks) /\ Len(tk.blocks) = p.next /\ Wanted(p, up.blocks, enabled)
      /\ Kindred(p, tk.blocks)
  BY DEF Live
<1>2. Sorted(q, up2.blocks) /\ Kindred(q, t.blocks)
  BY <1>1, SortedSteady, KindredSteady
<1>3. Wanted(q, up2.blocks, enabled) /\ q.next = p.next
  BY <1>1, WantedSteady DEF Steady
<1>4. own2 => Owned(q, t.blocks, up2.blocks, a)
  <2> SUFFICES ASSUME own2 PROVE Owned(q, t.blocks, up2.blocks, a)
    OBVIOUS
  <2>1. Owned(p, tk.blocks, up.blocks, a)
    BY DEF Live
  <2> QED BY <1>1, <2>1, OwnedSteady
<1>5. Witnessed(E \o events, t, a)
  BY DEF Follows
<1> QED BY <1>1, <1>2, <1>3, <1>4, <1>5 DEF Live

\* A block appears that the policy drops.
LEMMA StepDropping ==
    ASSUME NEW up, NEW up2, NEW p, NEW q, NEW tk, NEW t, NEW E, NEW events, NEW a, NEW own, NEW own2,
           NEW enabled, Live(up, p, tk, E, a, own, enabled), own2 => own,
           Regular(up2), q.stopped \/ t.stopped => AtEnd(up2), NEW u, NEW kind, NEW n,
           Appears(up.blocks, up2.blocks, u, kind, n),
           Unwanted(kind, enabled),
           Dropping(p, q, u), Follows(E, tk, events, a, t), t.blocks = tk.blocks
    PROVE  Live(up2, q, t, E \o events, a, own2, enabled)
<1>1. /\ Sorted(p, up.blocks) /\ Len(tk.blocks) = p.next /\ Wanted(p, up.blocks, enabled)
      /\ Kindred(p, tk.blocks)
  BY DEF Live
<1>2. Sorted(q, up2.blocks) /\ Kindred(q, t.blocks)
  BY <1>1, SortedDropping, KindredDropping
<1>3. Wanted(q, up2.blocks, enabled) /\ q.next = p.next
  BY <1>1, WantedDropping DEF Dropping
<1>4. own2 => Owned(q, t.blocks, up2.blocks, a)
  <2> SUFFICES ASSUME own2 PROVE Owned(q, t.blocks, up2.blocks, a)
    OBVIOUS
  <2>1. Owned(p, tk.blocks, up.blocks, a)
    BY DEF Live
  <2> QED BY <1>1, <2>1, OwnedDropping
<1>5. Witnessed(E \o events, t, a)
  BY DEF Follows
<1> QED BY <1>1, <1>2, <1>3, <1>4, <1>5 DEF Live

\* A block appears that the policy opens, or one is opened again.
LEMMA StepGrown ==
    ASSUME NEW up, NEW up2, NEW p, NEW q, NEW tk, NEW t, NEW E, NEW events, NEW a, NEW own, NEW own2,
           NEW enabled, Live(up, p, tk, E, a, own, enabled), own2 => own,
           Regular(up2), q.stopped \/ t.stopped => AtEnd(up2), NEW u, NEW kind, NEW n,
           Grown(p, q, u, kind), u \notin p.dropped, ~Unwanted(kind, enabled),
           \/ Appears(up.blocks, up2.blocks, u, kind, n)
           \/ Alike(up.blocks, up2.blocks) /\ u \in DOMAIN p.segment /\ up.blocks[u].kind = kind /\ ~own2,
           Follows(E, tk, events, a, t), NEW pieces, Longer(tk.blocks, t.blocks, kind, pieces),
           own2 => pieces = Given(a, n)
    PROVE  Live(up2, q, t, E \o events, a, own2, enabled)
<1>1. /\ Sorted(p, up.blocks) /\ Len(tk.blocks) = p.next /\ Wanted(p, up.blocks, enabled)
      /\ Kindred(p, tk.blocks) /\ tk \in Trackers /\ tk.blocks \in Seq(TrackedBlocks)
  BY DEF Live, Witnessed, Trackers
<1>2. Sorted(q, up2.blocks) /\ Kindred(q, t.blocks)
  BY <1>1, SortedGrown, KindredGrown
<1>3. Wanted(q, up2.blocks, enabled)
  BY <1>1, WantedGrown
<1>4. q.next = p.next + 1 /\ Len(t.blocks) = q.next
  BY <1>1 DEF Grown, Longer
<1>5. own2 => Owned(q, t.blocks, up2.blocks, a)
  <2> SUFFICES ASSUME own2 PROVE Owned(q, t.blocks, up2.blocks, a)
    OBVIOUS
  <2>1. Owned(p, tk.blocks, up.blocks, a) /\ Appears(up.blocks, up2.blocks, u, kind, n)
    BY DEF Live
  <2> QED BY <1>1, <2>1, OwnedGrown
<1>6. Witnessed(E \o events, t, a)
  BY DEF Follows
<1> QED BY <1>2, <1>3, <1>4, <1>5, <1>6 DEF Live

\* A block that is open gets its next piece.
LEMMA StepFilled ==
    ASSUME NEW up, NEW up2, NEW p, NEW tk, NEW t, NEW E, NEW events, NEW a \in Nat, NEW own, NEW own2,
           NEW enabled, Live(up, p, tk, E, a, own, enabled), own2 => own,
           Regular(up2), p.stopped \/ t.stopped => AtEnd(up2), NEW u \in DOMAIN p.segment,
           Advances(up.blocks, up2.blocks, u), Follows(E, tk, events, a, t),
           Fills(tk.blocks, t.blocks, p.segment[u].down + 1, <<Piece(a, up.blocks[u].pieces + 1)>>),
           Len(t.blocks) = Len(tk.blocks)
    PROVE  Live(up2, p, t, E \o events, a, own2, enabled)
<1>1. /\ Sorted(p, up.blocks) /\ Len(tk.blocks) = p.next /\ Wanted(p, up.blocks, enabled)
      /\ Kindred(p, tk.blocks) /\ tk \in Trackers /\ tk.blocks \in Seq(TrackedBlocks)
  BY DEF Live, Witnessed, Trackers
<1>2. Sorted(p, up2.blocks) /\ Wanted(p, up2.blocks, enabled) /\ Kindred(p, t.blocks)
  <2>1. Steady(p, p) /\ Alike(up.blocks, up2.blocks)
    BY <1>1 DEF Steady, Sorted, Advances
  <2>2. DOMAIN tk.blocks = 1 .. p.next
    BY <1>1
  <2> QED BY <1>1, <2>1, <2>2, SortedSteady, WantedSteady, KindredFilled
<1>3. own2 => Owned(p, t.blocks, up2.blocks, a)
  <2> SUFFICES ASSUME own2 PROVE Owned(p, t.blocks, up2.blocks, a)
    OBVIOUS
  <2>1. Owned(p, tk.blocks, up.blocks, a)
    BY DEF Live
  <2>2. DOMAIN tk.blocks = 1 .. p.next
    BY <1>1
  <2> QED BY <1>1, <2>1, <2>2, OwnedFilled
<1>4. Witnessed(E \o events, t, a)
  BY DEF Follows
<1> QED BY <1>1, <1>2, <1>3, <1>4 DEF Live

\* The block that was opened is told its first piece with it.
LEMMA LongerFilled ==
    ASSUME NEW told \in Seq(TrackedBlocks), NEW more, NEW full, NEW kind,
           NEW pieces \in Seq(PieceType),
           Longer(told, more, kind, <<>>), Fills(more, full, Len(told) + 1, pieces),
           Len(full) = Len(more)
    PROVE  Longer(told, full, kind, pieces)
<1> DEFINE L == Len(told)
<1>1. L \in Nat
  OBVIOUS
<1>2. /\ DOMAIN more = 1 .. (L + 1) /\ Len(more) = L + 1 /\ \A k \in 1 .. L : more[k] = told[k]
      /\ more[L + 1].kind = kind /\ more[L + 1].pieces = <<>>
  BY DEF Longer
<1>3. /\ DOMAIN full = DOMAIN more
      /\ \A j \in DOMAIN more : full[j].kind = more[j].kind /\ (j # L + 1 => full[j] = more[j])
      /\ full[L + 1].pieces = more[L + 1].pieces \o pieces
  BY DEF Fills
<1>4. <<>> \o pieces = pieces
  BY ConcatEmptySeq
<1> HIDE DEF L
<1>5. \A k \in 1 .. L : k \in 1 .. (L + 1) /\ k # L + 1
  BY <1>1
<1>6. L + 1 \in 1 .. (L + 1)
  BY <1>1
<1>7. /\ DOMAIN full = 1 .. (L + 1) /\ Len(full) = L + 1 /\ \A k \in 1 .. L : full[k] = told[k]
      /\ full[L + 1].kind = kind /\ full[L + 1].pieces = pieces
  BY <1>2, <1>3, <1>4, <1>5, <1>6
<1> QED BY <1>7 DEF L, Longer

-----------------------------------------------------------------------------
(***************************************************************************)
(* What the provider's steps make of its blocks.                           *)
(***************************************************************************)

\* The blocks are numbered from 0.
LEMMA UpstreamFacts ==
    ASSUME NEW up \in Upstreams
    PROVE  /\ up.stage \in Stages /\ up = [blocks |-> up.blocks, stage |-> up.stage]
           /\ \E n \in 0 .. MaxBlocks : /\ up.blocks \in [0 .. (n - 1) -> UpstreamBlocks]
                                        /\ Cardinality(DOMAIN up.blocks) = n
<1>1. /\ up.stage \in Stages /\ up = [blocks |-> up.blocks, stage |-> up.stage]
      /\ up.blocks \in UNION {[0 .. (n - 1) -> UpstreamBlocks] : n \in 0 .. MaxBlocks}
  BY DEF Upstreams
<1>2. PICK n \in 0 .. MaxBlocks : up.blocks \in [0 .. (n - 1) -> UpstreamBlocks]
  BY <1>1
<1>3. n \in Nat /\ DOMAIN up.blocks = 0 .. (n - 1)
  BY <1>2, NativeAssumption
<1>4. Cardinality(0 .. (n - 1)) = n
  BY <1>3, FS_Interval
<1> QED BY <1>1, <1>2, <1>3, <1>4

\* Blocks of these numbers make an upstream.
IsUpstream(up, B, stage) == up = [blocks |-> B, stage |-> stage]

\* It has them, and is one.
LEMMA MadeUpstream ==
    ASSUME NEW up, NEW n \in 0 .. MaxBlocks, NEW B \in [0 .. (n - 1) -> UpstreamBlocks],
           NEW stage \in Stages, IsUpstream(up, B, stage)
    PROVE  up \in Upstreams /\ up.blocks = B /\ up.stage = stage
<1> DEFINE S == UNION {[0 .. (m - 1) -> UpstreamBlocks] : m \in 0 .. MaxBlocks}
<1>1. B \in S
  OBVIOUS
<1>2. Upstreams = [blocks : S, stage : Stages]
  BY DEF Upstreams
<1> HIDE DEF S
<1> QED BY <1>1, <1>2 DEF IsUpstream

\* The provider begins a block.
Beginning(up, up2, u, kind, pieces) ==
    up2 = [up EXCEPT !.blocks = With(up.blocks, u, [kind |-> kind, open |-> TRUE, pieces |-> pieces])]

\* It fits afterwards, with that block more.
LEMMA Begins ==
    ASSUME NEW up, Regular(up), up.stage = "blocks", NEW u, u = Cardinality(DOMAIN up.blocks),
           u < MaxBlocks, NEW kind \in Kinds, NEW pieces \in 0 .. 2, NEW up2,
           Beginning(up, up2, u, kind, pieces)
    PROVE  /\ Regular(up2) /\ up2.stage = "blocks" /\ u \in Nat
           /\ Appears(up.blocks, up2.blocks, u, kind, pieces)
<1> DEFINE B == up.blocks
           new == [kind |-> kind, open |-> TRUE, pieces |-> pieces]
           C == With(B, u, new)
<1>1. up \in Upstreams
  BY DEF Regular
<1>2. PICK n \in 0 .. MaxBlocks : B \in [0 .. (n - 1) -> UpstreamBlocks] /\ Cardinality(DOMAIN B) = n
  BY <1>1, UpstreamFacts
<1>3. n \in Nat /\ u = n /\ n + 1 \in 0 .. MaxBlocks /\ DOMAIN B = 0 .. (n - 1) /\ MaxBlocks \in Nat
  BY <1>2, NativeAssumption
<1>4. new \in UpstreamBlocks /\ new.kind = kind /\ new.pieces = pieces /\ new.open
  BY DEF UpstreamBlocks
<1>5. up2 = [blocks |-> C, stage |-> "blocks"]
  <2>1. up = [blocks |-> B, stage |-> "blocks"]
    BY <1>1, UpstreamFacts
  <2>2. up2 = [up EXCEPT !.blocks = C]
    BY DEF Beginning
  <2> HIDE DEF B, C
  <2> QED BY <2>1, <2>2
<1> HIDE DEF new, B
<1>6. DOMAIN C = DOMAIN B \cup {u} /\ C[u] = new /\ \A v \in DOMAIN B \ {u} : C[v] = B[v]
  BY DEF With
<1>7. u \notin DOMAIN B /\ DOMAIN C = 0 .. n
  <2>1. n \notin 0 .. (n - 1) /\ (0 .. (n - 1)) \cup {n} = 0 .. n
    BY <1>3
  <2> HIDE DEF C
  <2> QED BY <1>3, <1>6, <2>1
<1>8. \A v \in DOMAIN B : C[v] = B[v]
  BY <1>6, <1>7
<1>9. C \in [0 .. n -> UpstreamBlocks]
  <2>1. \A v \in 0 .. n : C[v] \in UpstreamBlocks
    BY <1>2, <1>3, <1>4, <1>6, <1>7, <1>8
  <2>2. C = [v \in 0 .. n |-> C[v]]
    BY <1>7 DEF With
  <2> HIDE DEF C
  <2> QED BY <2>1, <2>2
<1> HIDE DEF C
<1>10. up2 \in Upstreams /\ up2.blocks = C /\ up2.stage = "blocks"
  <2> DEFINE m == n + 1
             s == "blocks"
  <2>1. m \in 0 .. MaxBlocks /\ C \in [0 .. (m - 1) -> UpstreamBlocks] /\ s \in Stages
    BY <1>3, <1>9 DEF Stages
  <2>2. IsUpstream(up2, C, s)
    BY <1>5 DEF IsUpstream
  <2> HIDE DEF m, s
  <2>3. up2 \in Upstreams /\ up2.blocks = C /\ up2.stage = s
    BY <2>1, <2>2, MadeUpstream
  <2> QED BY <2>3 DEF s
<1>11. ASSUME NEW v \in DOMAIN C, C[v].kind = "tool_use", ~C[v].open PROVE C[v].pieces = 2
  <2>1. v \in DOMAIN B /\ C[v] = B[v]
    BY <1>4, <1>6, <1>8, <1>11
  <2> QED BY <1>11, <2>1 DEF Regular, B
<1>12. Regular(up2)
  BY <1>10, <1>11 DEF Regular
<1>13. Appears(B, C, u, kind, pieces)
  BY <1>4, <1>6, <1>7, <1>8 DEF Appears
<1> QED BY <1>3, <1>10, <1>12, <1>13 DEF B

\* It changes one that is open.
BlockBecomes(up, up2, u, new) == up2 = [up EXCEPT !.blocks = [up.blocks EXCEPT ![u] = new]]

\* It fits afterwards, with nothing else changed.
LEMMA Changes ==
    ASSUME NEW up, Regular(up), up.stage = "blocks", NEW u \in DOMAIN up.blocks, up.blocks[u].open,
           NEW new \in UpstreamBlocks, new.kind = up.blocks[u].kind,
           new.kind = "tool_use" /\ ~new.open => new.pieces = 2,
           NEW up2, BlockBecomes(up, up2, u, new)
    PROVE  /\ Regular(up2) /\ up2.stage = "blocks" /\ Alike(up.blocks, up2.blocks)
           /\ up2.blocks[u] = new /\ \A v \in DOMAIN up.blocks \ {u} : up2.blocks[v] = up.blocks[v]
<1> DEFINE B == up.blocks
           C == [B EXCEPT ![u] = new]
<1>1. up \in Upstreams
  BY DEF Regular
<1>2. PICK n \in 0 .. MaxBlocks : B \in [0 .. (n - 1) -> UpstreamBlocks]
  BY <1>1, UpstreamFacts
<1>3. /\ C \in [0 .. (n - 1) -> UpstreamBlocks] /\ DOMAIN C = DOMAIN B /\ C[u] = new
      /\ \A v \in DOMAIN B \ {u} : C[v] = B[v]
  BY <1>2
<1>4. up2 = [blocks |-> C, stage |-> "blocks"]
  <2>1. up = [blocks |-> B, stage |-> "blocks"]
    BY <1>1, UpstreamFacts
  <2>2. up2 = [up EXCEPT !.blocks = C]
    BY DEF BlockBecomes
  <2> HIDE DEF B, C
  <2> QED BY <2>1, <2>2
<1> HIDE DEF C
<1>5. up2 \in Upstreams /\ up2.blocks = C /\ up2.stage = "blocks"
  <2> DEFINE s == "blocks"
  <2>1. s \in Stages /\ IsUpstream(up2, C, s)
    BY <1>4 DEF Stages, IsUpstream
  <2> HIDE DEF s
  <2>2. up2 \in Upstreams /\ up2.blocks = C /\ up2.stage = s
    BY <1>2, <1>3, <2>1, MadeUpstream
  <2> QED BY <2>2 DEF s
<1>6. ASSUME NEW v \in DOMAIN C, C[v].kind = "tool_use", ~C[v].open PROVE C[v].pieces = 2
  <2>1. CASE v = u
    BY <1>3, <1>6, <2>1
  <2>2. CASE v # u
    <3>1. v \in DOMAIN B /\ C[v] = B[v]
      BY <1>3, <2>2
    <3> QED BY <1>6, <3>1 DEF Regular, B
  <2> QED BY <2>1, <2>2
<1>7. Regular(up2)
  BY <1>5, <1>6 DEF Regular
<1>8. Alike(B, C)
  <2>1. \A v \in DOMAIN B : C[v].kind = B[v].kind
    <3> SUFFICES ASSUME NEW v \in DOMAIN B PROVE C[v].kind = B[v].kind
      OBVIOUS
    <3>1. CASE v = u
      BY <1>3, <3>1 DEF B
    <3>2. CASE v # u
      BY <1>3, <3>2
    <3> QED BY <3>1, <3>2
  <2> QED BY <1>3, <2>1 DEF Alike
<1> QED BY <1>3, <1>5, <1>7, <1>8 DEF B

\* It goes on to another part of the message.
LEMMA GoesOn ==
    ASSUME NEW up, Regular(up), NEW stage \in Stages, stage \in {"delta", "stopped"} => AllClosed(up),
           NEW up2, up2 = [up EXCEPT !.stage = stage]
    PROVE  Regular(up2) /\ up2.stage = stage /\ up2.blocks = up.blocks
<1> DEFINE B == up.blocks
<1>1. up \in Upstreams
  BY DEF Regular
<1>2. PICK n \in 0 .. MaxBlocks : B \in [0 .. (n - 1) -> UpstreamBlocks]
  BY <1>1, UpstreamFacts
<1>3. IsUpstream(up2, B, stage)
  BY <1>1, UpstreamFacts DEF IsUpstream
<1>4. up2 \in Upstreams /\ up2.blocks = B /\ up2.stage = stage
  <2> HIDE DEF B
  <2> QED BY <1>2, <1>3, MadeUpstream
<1> QED BY <1>4 DEF Regular, AllClosed

-----------------------------------------------------------------------------
(***************************************************************************)
(* The steps that read an event of the provider.                           *)
(***************************************************************************)

\* The holdback buffer delays events, and keeps their order.
LEMMA PushYields ==
    ASSUME StreamInv, phase = "reading", NEW events \in Seq(Events), Push(events)
    PROVE  /\ sent' \in Seq(Events) /\ held' \in Seq(Events) /\ sent' \o held' = Yielded \o events
           /\ committed' \in BOOLEAN /\ (committed' => held' = <<>>) /\ (~committed' => sent' = <<>>)
<1>1. /\ sent \in Seq(Events) /\ held \in Seq(Events) /\ committed \in BOOLEAN
      /\ committed => held = <<>>
      /\ ~committed => sent = <<>>
  BY DEF StreamInv, StreamTypes, Ended
<1>2. ASSUME NEW x \in Seq(Events), NEW y \in Seq(Events)
      PROVE  x \o y \in Seq(Events)
  BY ConcatProperties
<1>3. ASSUME NEW x \in Seq(Events) PROVE x \o <<>> = x /\ <<>> \o x = x
  BY ConcatEmptySeq
<1>4. CASE committed
  <2>1. sent' = sent \o events /\ held' = held /\ committed' = committed
    BY <1>4 DEF Push
  <2> QED BY <1>1, <1>2, <1>3, <1>4, <2>1 DEF Yielded
<1>5. CASE ~committed /\ held' = held \o events /\ sent' = sent /\ committed' = committed
  <2>0. ASSUME NEW x \in Seq(Events), NEW y \in Seq(Events), NEW z \in Seq(Events)
        PROVE  (x \o y) \o z = x \o (y \o z)
    BY ConcatAssociative
  <2>1. sent \o (held \o events) = (sent \o held) \o events
    BY <1>1, <2>0
  <2> QED BY <1>1, <1>2, <1>5, <2>1 DEF Yielded
<1>6. CASE ~committed /\ sent' = sent \o held \o events /\ held' = <<>> /\ committed' = TRUE
  <2> DEFINE all == sent \o held \o events
  <2>1. all \in Seq(Events) /\ all = Yielded \o events
    BY <1>1, <1>2 DEF Yielded
  <2>2. sent' = all /\ <<>> \in Seq(Events)
    BY <1>6, EmptySeq
  <2> HIDE DEF all
  <2> QED BY <1>3, <1>6, <2>1, <2>2
<1> QED BY <1>4, <1>5, <1>6 DEF Push

\* What a step that reads must keep.
LEMMA ReadKeeps ==
    ASSUME StreamInv, phase = "reading", NEW events, Push(events),
           UNCHANGED <<phase, thinking, router, retries>>, NEW E, E = Yielded,
           Follows(E, tracker, events, retries, tracker'),
           Live(upstream', policy', tracker', E \o events, retries, "returned" \notin quirks', thinking)
    PROVE  StreamInv'
<1>1. events \in Seq(Events) /\ tracker' \in Trackers
  BY DEF Follows
<1>2. /\ sent' \in Seq(Events) /\ held' \in Seq(Events) /\ sent' \o held' = Yielded \o events
      /\ committed' \in BOOLEAN /\ (committed' => held' = <<>>) /\ (~committed' => sent' = <<>>)
  BY <1>1, PushYields
<1>3. LiveInv'
  BY <1>2 DEF LiveInv, Yielded
<1>4. StreamTypes'
  BY <1>1, <1>2 DEF StreamInv, StreamTypes
<1>5. phase' = "reading" /\ phase' \notin Ended /\ phase' # "opening"
  BY DEF Ended
<1> QED BY <1>2, <1>3, <1>4, <1>5 DEF StreamInv

\* What a step that reads begins with.
LEMMA ReadBegins ==
    ASSUME StreamInv, NEW ev, Read(ev)
    PROVE  /\ phase = "reading" /\ UNCHANGED <<phase, thinking, router, retries>>
           /\ Live(upstream, policy, tracker, Yielded, retries, "returned" \notin quirks, thinking)
           /\ Regular(upstream) /\ policy \in Policies /\ tracker \in Trackers /\ policy.next \in Nat
           /\ DOMAIN policy.segment \cup policy.dropped \subseteq Blocks /\ Blocks \subseteq Nat
           /\ Yielded \in Seq(Events) /\ Witnessed(Yielded, tracker, retries)
           /\ Len(tracker.blocks) = policy.next /\ tracker.blocks \in Seq(TrackedBlocks)
           /\ retries \in Nat /\ thinking \in BOOLEAN
           /\ policy' = Transform(policy, ev).p
           /\ tracker' = ObserveAll(tracker, Transform(policy, ev).events)
           /\ Push(Transform(policy, ev).events)
<1>1. /\ phase = "reading" /\ UNCHANGED <<phase, thinking, router, retries>>
      /\ policy' = Transform(policy, ev).p
      /\ tracker' = ObserveAll(tracker, Transform(policy, ev).events)
      /\ Push(Transform(policy, ev).events)
  BY DEF Read
<1>2. LiveInv
  BY <1>1 DEF StreamInv
<1>3. /\ Live(upstream, policy, tracker, Yielded, retries, "returned" \notin quirks, thinking)
      /\ Regular(upstream) /\ policy \in Policies /\ tracker \in Trackers
      /\ DOMAIN policy.segment \cup policy.dropped \subseteq Blocks
      /\ Yielded \in Seq(Events) /\ Witnessed(Yielded, tracker, retries)
      /\ Len(tracker.blocks) = policy.next /\ tracker.blocks \in Seq(TrackedBlocks)
  BY <1>2 DEF LiveInv, Live, Sorted, Witnessed, Trackers, Blocks
<1>4. policy.next \in Nat /\ Blocks \subseteq Nat
  <2>1. policy.next \in Nat
    BY <1>3, PolicyParts
  <2>2. PICK n \in 0 .. MaxBlocks : upstream.blocks \in [0 .. (n - 1) -> UpstreamBlocks]
    BY <1>3, UpstreamFacts DEF Regular
  <2>3. n \in Nat /\ Blocks = 0 .. (n - 1)
    BY <2>2, NativeAssumption DEF Blocks
  <2> QED BY <2>1, <2>3
<1>5. retries \in Nat /\ thinking \in BOOLEAN
  BY NativeAssumption DEF StreamInv, StreamTypes
<1> QED BY <1>1, <1>3, <1>4, <1>5

\* Until the message stops nothing of it is ignored.
LEMMA NothingIgnored ==
    ASSUME NEW ev, NEW p,
           Live(upstream, p, tracker, Yielded, retries, "returned" \notin quirks, thinking),
           upstream.stage \notin {"stopped", "done"}, ev.t \in {"start", "delta", "stop"}
    PROVE  /\ ~p.stopped /\ ~tracker.stopped
           /\ ev.t = "start" => Transform(p, ev) = PolicyStart(p, ev.index, ev.kind, ev.call)
           /\ ev.t = "delta" => Transform(p, ev) = PolicyDelta(p, ev.index, ev.kind, ev.call, ev.pieces)
           /\ ev.t = "stop" => Transform(p, ev) = PolicyStop(p, ev.index)
<1>1. ~p.stopped /\ ~tracker.stopped
  BY DEF Live, AtEnd
<1> QED BY <1>1 DEF Transform

\* An event of the message.
LEMMA PlainKeeps ==
    ASSUME StreamInv, NEW ty \in PlainTypes, Read(Event(ty)), NEW stage \in Stages,
           upstream' = [upstream EXCEPT !.stage = stage],
           "returned" \notin quirks' => "returned" \notin quirks,
           stage \in {"delta", "stopped"} => AllClosed(upstream),
           ty = "message_stop" => stage = "stopped",
           upstream.stage \in {"stopped", "done"} => stage = "done"
    PROVE  StreamInv'
<1> DEFINE E == Yielded
           done == Transform(policy, Event(ty))
           p == policy
           q == policy'
           own == "returned" \notin quirks
           own2 == "returned" \notin quirks'
<1>1. /\ phase = "reading" /\ UNCHANGED <<phase, thinking, router, retries>>
      /\ Live(upstream, p, tracker, E, retries, own, thinking)
      /\ Regular(upstream) /\ p \in Policies /\ tracker \in Trackers
      /\ E \in Seq(Events) /\ Witnessed(E, tracker, retries)
      /\ q = done.p /\ tracker' = ObserveAll(tracker, done.events) /\ Push(done.events)
  BY ReadBegins
<1>2. Regular(upstream') /\ upstream'.stage = stage /\ upstream'.blocks = upstream.blocks
  BY <1>1, GoesOn
<1>3. /\ Steady(p, q) /\ (q.stopped => p.stopped \/ ty = "message_stop")
      /\ \A v \in DOMAIN p.segment : Holding(p, q, v)
      /\ done.events = <<>> \/ done.events = <<Event(ty)>>
  <2>1. Event(ty).t = ty /\ ty \notin {"start", "delta", "stop"}
    BY DEF Event, PlainTypes
  <2>2. CASE done = [p |-> p, events |-> <<>>]
    BY <1>1, <2>2 DEF Steady, Holding
  <2>3. CASE done = [p |-> [p EXCEPT !.stopped = @ \/ ty = "message_stop"], events |-> <<Event(ty)>>]
    <3> DEFINE b == p.stopped \/ ty = "message_stop"
    <3>1. q = [p EXCEPT !.stopped = b] /\ done.events = <<Event(ty)>>
      BY <1>1, <2>3
    <3>2. /\ p.next \in Nat /\ p.dropped \in SUBSET Nat /\ p.pending \in SUBSET Nat
          /\ p.segment \in Segments /\ b \in BOOLEAN
          /\ p = [next |-> p.next, segment |-> p.segment, dropped |-> p.dropped,
                  pending |-> p.pending, stopped |-> p.stopped]
      BY <1>1, PolicyParts
    <3> HIDE DEF b, p, q, done
    <3>3. IsPolicy(q, p.next, p.segment, p.dropped, p.pending, b)
      BY <3>1, <3>2 DEF IsPolicy
    <3>4. /\ q \in Policies /\ q.next = p.next /\ q.segment = p.segment /\ q.dropped = p.dropped
          /\ q.pending = p.pending /\ (q.stopped <=> b)
      BY <3>2, <3>3, MadePolicy
    <3> QED BY <3>1, <3>4 DEF Steady, Holding, b
  <2> QED BY <2>1, <2>2, <2>3 DEF Transform, Drop
<1>4. PICK t : /\ Follows(E, tracker, done.events, retries, t)
               /\ t.blocks = tracker.blocks
               /\ t.stopped => tracker.stopped \/ ty = "message_stop"
  <2>1. CASE done.events = <<>>
    BY <1>1, <2>1, FollowsNone
  <2>2. CASE done.events = <<Event(ty)>>
    <3> HIDE DEF E, done
    <3>1. PICK t : /\ Follows(E, tracker, <<Event(ty)>>, retries, t)
                   /\ t.blocks = tracker.blocks /\ (t.stopped <=> (tracker.stopped \/ ty = "message_stop"))
      BY <1>1, FollowsPlain
    <3> QED BY <2>2, <3>1
  <2> QED BY <1>3, <2>1, <2>2
<1>5. t = tracker'
  BY <1>1, <1>4 DEF Follows
<1>6. p.stopped \/ tracker.stopped => AtEnd(upstream)
  BY <1>1 DEF Live
<1>7. q.stopped \/ t.stopped => AtEnd(upstream')
  <2>1. AllClosed(upstream) => AllClosed(upstream')
    BY <1>2 DEF AllClosed
  <2> QED BY <1>2, <1>3, <1>4, <1>6, <2>1 DEF AtEnd
<1>8. Alike(upstream.blocks, upstream'.blocks)
  BY <1>2 DEF Alike
<1>9. /\ \A v \in DOMAIN p.segment : upstream'.blocks[v].pieces = upstream.blocks[v].pieces
      /\ \A v \in DOMAIN p.segment :
            upstream'.blocks[v].open => upstream.blocks[v].open /\ Holding(p, q, v)
  BY <1>2, <1>3
<1>10. own2 => own
  OBVIOUS
<1> HIDE DEF E, done, p, q, own, own2
<1>11. Live(upstream', q, t, E \o done.events, retries, own2, thinking)
  <2>1. /\ Live(upstream, p, tracker, E, retries, own, thinking) /\ (own2 => own)
        /\ Regular(upstream') /\ (q.stopped \/ t.stopped => AtEnd(upstream'))
        /\ Alike(upstream.blocks, upstream'.blocks) /\ Steady(p, q)
        /\ Follows(E, tracker, done.events, retries, t) /\ t.blocks = tracker.blocks
    BY <1>1, <1>2, <1>3, <1>4, <1>7, <1>8, <1>10
  <2> QED BY <1>9, <2>1, StepSteady
<1> QED BY <1>1, <1>4, <1>5, <1>11, ReadKeeps DEF E, done, p, q, own2

\* A block starts.
LEMMA StartKeeps ==
    ASSUME StreamInv, NEW kind \in Kinds, SendStart(kind)
    PROVE  StreamInv'
<1> DEFINE E == Yielded
           u == Fresh
           call == IF kind = "tool_use" THEN u + 1 ELSE 0
           ev == [t |-> "start", index |-> u, kind |-> kind, call |-> call]
           p == policy
           done == PolicyStart(p, u, kind, call)
           q == policy'
           own == "returned" \notin quirks
           own2 == "returned" \notin quirks'
<1>1. /\ upstream.stage = "blocks" /\ u < MaxBlocks /\ Read(ev) /\ upstream' = Begun(kind, 0)
      /\ quirks' = quirks \cup Overlap
  BY DEF SendStart
<1>2. own2 => own
  BY <1>1
<1>3. /\ phase = "reading" /\ UNCHANGED <<phase, thinking, router, retries>>
      /\ Live(upstream, p, tracker, E, retries, own, thinking)
      /\ Regular(upstream) /\ p \in Policies /\ tracker \in Trackers /\ p.next \in Nat
      /\ DOMAIN p.segment \cup p.dropped \subseteq Blocks /\ Blocks \subseteq Nat
      /\ E \in Seq(Events) /\ Witnessed(E, tracker, retries)
      /\ Len(tracker.blocks) = p.next /\ tracker.blocks \in Seq(TrackedBlocks)
      /\ retries \in Nat
      /\ q = Transform(p, ev).p
      /\ tracker' = ObserveAll(tracker, Transform(p, ev).events)
      /\ Push(Transform(p, ev).events)
  BY <1>1, ReadBegins
<1>4. Transform(p, ev) = done /\ ~p.stopped /\ ~tracker.stopped
  <2>1. ev.t = "start" /\ ev.index = u /\ ev.kind = kind /\ ev.call = call
    OBVIOUS
  <2> HIDE DEF ev, p, call, u
  <2> QED BY <1>1, <1>3, <2>1, NothingIgnored
<1>5. /\ Regular(upstream') /\ upstream'.stage = "blocks" /\ u \in Nat
      /\ Appears(upstream.blocks, upstream'.blocks, u, kind, 0)
  <2>1. /\ u = Cardinality(DOMAIN upstream.blocks)
        /\ Beginning(upstream, upstream', u, kind, 0)
    BY <1>1 DEF Begun, Fresh, Blocks, Beginning
  <2> DEFINE n == 0
  <2>2. n \in 0 .. 2 /\ Beginning(upstream, upstream', u, kind, n)
    BY <2>1
  <2> HIDE DEF n, u
  <2>3. /\ Regular(upstream') /\ upstream'.stage = "blocks" /\ u \in Nat
        /\ Appears(upstream.blocks, upstream'.blocks, u, kind, n)
    BY <1>1, <1>3, <2>1, <2>2, Begins
  <2> QED BY <2>3 DEF n
<1>6. call \in Nat /\ u \notin p.dropped
  <2>1. u \notin Blocks
    BY <1>5 DEF Appears, Blocks
  <2> QED BY <1>3, <1>5, <2>1
<1> HIDE DEF E, u, call, ev, done, p, q, own, own2
<1>7. /\ q = done.p /\ tracker' = ObserveAll(tracker, done.events) /\ Push(done.events)
  BY <1>3, <1>4
<1>8. CASE Dropping(p, q, u) /\ done.events = <<>> /\ Unwanted(kind, thinking)
  <2>1. Follows(E, tracker, done.events, retries, tracker)
    BY <1>3, <1>8, FollowsNone
  <2>2. tracker' = tracker
    BY <1>7, <2>1 DEF Follows
  <2>3. ~(q.stopped \/ tracker.stopped)
    BY <1>4, <1>8 DEF Dropping
  <2>4. Live(upstream', q, tracker, E \o done.events, retries, own2, thinking)
    BY <1>2, <1>3, <1>5, <1>8, <2>1, <2>3, StepDropping
  <2> QED BY <1>3, <1>7, <2>1, <2>2, <2>4, ReadKeeps DEF E, q, own2
<1>9. CASE Grown(p, q, u, kind) /\ ~Unwanted(kind, thinking)
           /\ \E named \in BOOLEAN : Opens(done.events, p.next, kind, call, named)
  <2>1. PICK named \in BOOLEAN : Opens(done.events, p.next, kind, call, named)
    BY <1>9
  <2>2. PICK t : /\ Follows(E, tracker, done.events, retries, t)
                 /\ Longer(tracker.blocks, t.blocks, kind, <<>>) /\ (t.stopped <=> tracker.stopped)
    <3> DEFINE next == p.next
    <3>1. Opens(done.events, next, kind, call, named) /\ next = Len(tracker.blocks)
      BY <1>3, <2>1
    <3> HIDE DEF next
    <3> QED BY <1>3, <1>6, <3>1, FollowsOpens
  <2>3. t = tracker'
    BY <1>7, <2>2 DEF Follows
  <2>4. ~(q.stopped \/ t.stopped)
    BY <1>4, <1>9, <2>2 DEF Grown
  <2> DEFINE none == <<>>
             n == 0
  <2>5. none = Given(retries, n) /\ Longer(tracker.blocks, t.blocks, kind, none)
        /\ Appears(upstream.blocks, upstream'.blocks, u, kind, n)
    <3>1. n \in Nat
      OBVIOUS
    <3> QED BY <1>3, <1>5, <2>2, <3>1, GivenFacts
  <2> HIDE DEF none, n
  <2>6. Live(upstream', q, t, E \o done.events, retries, own2, thinking)
    BY <1>2, <1>3, <1>5, <1>6, <1>9, <2>2, <2>4, <2>5, StepGrown
  <2> QED BY <1>3, <1>7, <2>2, <2>3, <2>6, ReadKeeps DEF E, q, own2
<1> QED
  <2>1. \/ Dropping(p, done.p, u) /\ done.events = <<>> /\ Unwanted(kind, thinking)
        \/ /\ Grown(p, done.p, u, kind) /\ Opens(done.events, p.next, kind, call, TRUE)
           /\ ~Unwanted(kind, thinking)
    <3>1. u \in Nat
      BY <1>5
    <3> QED BY <1>3, <1>6, <3>1, StartOpens DEF done
  <2> QED BY <1>7, <1>8, <1>9, <2>1

\* Events that open a block and tell its next pieces.
LEMMA FollowsBoth ==
    ASSUME NEW E \in Seq(Events), NEW tk, NEW attempt, Witnessed(E, tk, attempt), NEW o, NEW next,
           next = Len(tk.blocks), NEW kind \in Kinds, NEW call \in Nat, NEW named \in BOOLEAN,
           Opens(o, next, kind, call, named), NEW pieces \in Seq(PieceType), From(pieces, {attempt})
    PROVE  \E t : /\ Follows(E, tk, Append(o, DeltaEvent(next, kind, pieces)), attempt, t)
                  /\ Longer(tk.blocks, t.blocks, kind, pieces) /\ (t.stopped <=> tk.stopped)
<1>1. tk \in Trackers /\ tk.blocks \in Seq(TrackedBlocks) /\ next \in Nat
  BY DEF Witnessed, Trackers
<1>2. PICK m : /\ Follows(E, tk, o, attempt, m)
               /\ Longer(tk.blocks, m.blocks, kind, <<>>) /\ (m.stopped <=> tk.stopped)
  BY FollowsOpens
<1>3. next < Len(m.blocks) /\ IsOfKind(m.blocks, next, kind)
  BY <1>1, <1>2 DEF Longer, IsOfKind
<1>4. PICK t : /\ Follows(E, tk, Append(o, DeltaEvent(next, kind, pieces)), attempt, t)
               /\ Fills(m.blocks, t.blocks, next + 1, pieces) /\ Len(t.blocks) = Len(m.blocks)
               /\ t.stopped <=> m.stopped
  BY <1>1, <1>2, <1>3, FollowsDelta
<1>5. Longer(tk.blocks, t.blocks, kind, pieces)
  <2>1. Fills(m.blocks, t.blocks, Len(tk.blocks) + 1, pieces)
    BY <1>4
  <2> QED BY <1>1, <1>2, <1>4, <2>1, LongerFilled
<1> QED BY <1>2, <1>4, <1>5

\* One piece of an attempt.
LEMMA OnePiece ==
    ASSUME NEW attempt \in Nat, NEW n \in Nat
    PROVE  <<Piece(attempt, n)>> \in Seq(PieceType) /\ From(<<Piece(attempt, n)>>, {attempt})
<1>1. Piece(attempt, n) \in PieceType /\ Piece(attempt, n).from = attempt
  BY DEF Piece, PieceType
<1> QED BY <1>1 DEF From

\* A block starts with its first piece, unless that is of a thought and passed on.
LEMMA HeadlessKeeps ==
    ASSUME StreamInv, NEW kind \in Kinds, SendHeadless(kind), "loose" \notin quirks'
    PROVE  StreamInv'
<1> DEFINE E == Yielded
           u == Fresh
           call == IF kind = "tool_use" THEN u + 1 ELSE 0
           pieces == <<Piece(retries, 1)>>
           ev == [t |-> "delta", index |-> u, kind |-> kind, call |-> call, pieces |-> pieces]
           p == policy
           done == PolicyDelta(p, u, kind, call, pieces)
           q == policy'
           own == "returned" \notin quirks
           own2 == "returned" \notin quirks'
<1>1. /\ upstream.stage = "blocks" /\ u < MaxBlocks /\ Read(ev) /\ upstream' = Begun(kind, 1)
      /\ quirks \subseteq quirks' /\ (kind = "thinking" /\ thinking => "loose" \in quirks')
  BY DEF SendHeadless
<1>2. (own2 => own) /\ (kind # "thinking" \/ Unwanted(kind, thinking))
  BY <1>1 DEF Unwanted
<1>3. /\ phase = "reading" /\ UNCHANGED <<phase, thinking, router, retries>>
      /\ Live(upstream, p, tracker, E, retries, own, thinking)
      /\ Regular(upstream) /\ p \in Policies /\ tracker \in Trackers /\ p.next \in Nat
      /\ DOMAIN p.segment \cup p.dropped \subseteq Blocks /\ Blocks \subseteq Nat
      /\ E \in Seq(Events) /\ Witnessed(E, tracker, retries)
      /\ Len(tracker.blocks) = p.next /\ tracker.blocks \in Seq(TrackedBlocks)
      /\ retries \in Nat
      /\ q = Transform(p, ev).p
      /\ tracker' = ObserveAll(tracker, Transform(p, ev).events)
      /\ Push(Transform(p, ev).events)
  BY <1>1, ReadBegins
<1>4. Transform(p, ev) = done /\ ~p.stopped /\ ~tracker.stopped
  <2>1. /\ ev.t = "delta" /\ ev.index = u /\ ev.kind = kind /\ ev.call = call
        /\ ev.pieces = pieces
    OBVIOUS
  <2> HIDE DEF ev, p, call, u, pieces
  <2> QED BY <1>1, <1>3, <2>1, NothingIgnored
<1>5. /\ Regular(upstream') /\ upstream'.stage = "blocks" /\ u \in Nat
      /\ Appears(upstream.blocks, upstream'.blocks, u, kind, 1)
  <2>1. /\ u = Cardinality(DOMAIN upstream.blocks)
        /\ Beginning(upstream, upstream', u, kind, 1)
    BY <1>1 DEF Begun, Fresh, Blocks, Beginning
  <2> DEFINE n == 1
  <2>2. n \in 0 .. 2 /\ Beginning(upstream, upstream', u, kind, n)
    BY <2>1
  <2> HIDE DEF n, u
  <2>3. /\ Regular(upstream') /\ upstream'.stage = "blocks" /\ u \in Nat
        /\ Appears(upstream.blocks, upstream'.blocks, u, kind, n)
    BY <1>1, <1>3, <2>1, <2>2, Begins
  <2> QED BY <2>3 DEF n
<1>6. call \in Nat /\ u \notin p.dropped /\ u \notin DOMAIN p.segment
  <2>1. u \notin Blocks
    BY <1>5 DEF Appears, Blocks
  <2> QED BY <1>3, <1>5, <2>1
<1>7. pieces \in Seq(PieceType) /\ From(pieces, {retries}) /\ pieces = Given(retries, 1)
  <2>1. pieces \in Seq(PieceType) /\ From(pieces, {retries})
    <3> DEFINE n == 1
    <3>1. n \in Nat
      OBVIOUS
    <3> HIDE DEF n
    <3>2. <<Piece(retries, n)>> \in Seq(PieceType) /\ From(<<Piece(retries, n)>>, {retries})
      BY <1>3, <3>1, OnePiece
    <3> QED BY <3>2 DEF n
  <2>2. Given(retries, 0) \o <<Piece(retries, 0 + 1)>> = Given(retries, 0 + 1) /\ Given(retries, 0) = <<>>
    BY <1>3, GivenFacts
  <2>3. <<>> \o pieces = pieces
    BY <2>1, ConcatEmptySeq
  <2> QED BY <2>1, <2>2, <2>3
<1> HIDE DEF E, u, call, ev, done, p, q, own, own2, pieces
<1>8. /\ q = done.p /\ tracker' = ObserveAll(tracker, done.events) /\ Push(done.events)
  BY <1>3, <1>4
<1> DEFINE n == 1
<1>9. pieces = Given(retries, n) /\ Appears(upstream.blocks, upstream'.blocks, u, kind, n)
  BY <1>5, <1>7
<1> HIDE DEF n
<1>10. CASE Unwanted(kind, thinking)
  <2>1. done.p = p /\ done.events = <<>>
    BY <1>10 DEF done, PolicyDelta, Drop, Unwanted
  <2>2. q = p /\ Dropping(p, q, u)
    BY <1>3, <1>8, <2>1 DEF Dropping
  <2>3. Follows(E, tracker, done.events, retries, tracker)
    BY <1>3, <2>1, FollowsNone
  <2>4. tracker' = tracker
    BY <1>8, <2>3 DEF Follows
  <2>5. ~(q.stopped \/ tracker.stopped)
    BY <1>4, <2>2
  <2>6. Live(upstream', q, tracker, E \o done.events, retries, own2, thinking)
    BY <1>2, <1>3, <1>5, <1>9, <1>10, <2>2, <2>3, <2>5, StepDropping
  <2> QED BY <1>3, <1>8, <2>3, <2>4, <2>6, ReadKeeps DEF E, q, own2
<1>11. CASE ~Unwanted(kind, thinking)
  <2>1. PICK o : /\ Grown(p, q, u, kind)
                 /\ \E named \in BOOLEAN, same \in Nat :
                       /\ Opens(o, p.next, kind, same, named)
                       /\ done.events = Append(o, DeltaEvent(p.next, kind, pieces))
    <3>1. u \in Nat /\ kind # "thinking" /\ kind \in Kinds /\ p \in Policies /\ call \in Nat
      BY <1>2, <1>3, <1>5, <1>6, <1>11
    <3>2. Arrives(p, done, u, kind, pieces)
      BY <3>1, DeltaReaches DEF done
    <3>3. ~Missed(p, done, u, kind) /\ ~Reached(p, done, u, kind, pieces)
      BY <1>6, <1>11 DEF Missed, Reached
    <3>4. /\ Grown(p, done.p, u, kind)
          /\ \E o : \E named \in BOOLEAN, same \in Nat :
                /\ Opens(o, p.next, kind, same, named)
                /\ done.events = Append(o, DeltaEvent(p.next, kind, pieces))
      BY <3>2, <3>3 DEF Arrives, Reopened
    <3> QED BY <1>8, <3>4
  <2>2. PICK named \in BOOLEAN, same \in Nat :
            /\ Opens(o, p.next, kind, same, named)
            /\ done.events = Append(o, DeltaEvent(p.next, kind, pieces))
    BY <2>1
  <2>3. PICK t : /\ Follows(E, tracker, done.events, retries, t)
                 /\ Longer(tracker.blocks, t.blocks, kind, pieces) /\ (t.stopped <=> tracker.stopped)
    <3> DEFINE next == p.next
    <3>1. next = Len(tracker.blocks) /\ Opens(o, next, kind, same, named)
      BY <1>3, <2>2
    <3> HIDE DEF next
    <3>2. \E t : /\ Follows(E, tracker, Append(o, DeltaEvent(next, kind, pieces)), retries, t)
                 /\ Longer(tracker.blocks, t.blocks, kind, pieces) /\ (t.stopped <=> tracker.stopped)
      BY <1>3, <1>7, <3>1, FollowsBoth
    <3> QED BY <2>2, <3>2 DEF next
  <2>4. t = tracker'
    BY <1>8, <2>3 DEF Follows
  <2>5. ~(q.stopped \/ t.stopped)
    BY <1>4, <2>1, <2>3 DEF Grown
  <2>6. Live(upstream', q, t, E \o done.events, retries, own2, thinking)
    BY <1>2, <1>3, <1>5, <1>6, <1>9, <1>11, <2>1, <2>3, <2>5, StepGrown
  <2> QED BY <1>3, <1>8, <2>3, <2>4, <2>6, ReadKeeps DEF E, q, own2
<1> QED BY <1>10, <1>11

\* A block that is open has these.
LEMMA OpenBlock ==
    ASSUME Regular(upstream), NEW u \in OpenBlocks
    PROVE  /\ u \in Blocks /\ u \in Nat /\ upstream.blocks[u].open /\ upstream.blocks[u] \in UpstreamBlocks
           /\ upstream.blocks[u].kind \in Kinds /\ upstream.blocks[u].pieces \in 0 .. 2
           /\ CallOf(u) \in Nat
<1>1. u \in DOMAIN upstream.blocks /\ upstream.blocks[u].open
  BY DEF OpenBlocks, Blocks
<1>2. PICK n \in 0 .. MaxBlocks : upstream.blocks \in [0 .. (n - 1) -> UpstreamBlocks]
  BY UpstreamFacts DEF Regular
<1>3. u \in 0 .. (n - 1) /\ n \in Nat /\ upstream.blocks[u] \in UpstreamBlocks
  BY <1>1, <1>2, NativeAssumption
<1>4. u \in Nat /\ u + 1 \in Nat
  BY <1>3
<1> QED BY <1>1, <1>3, <1>4 DEF Blocks, UpstreamBlocks, CallOf

\* A piece more of a block.
LEMMA DeltaKeeps ==
    ASSUME StreamInv, NEW u \in OpenBlocks, SendDelta(u)
    PROVE  StreamInv'
<1> DEFINE E == Yielded
           B == upstream.blocks
           C == upstream'.blocks
           kind == B[u].kind
           call == CallOf(u)
           n == B[u].pieces
           pieces == <<Piece(retries, n + 1)>>
           ev == [t |-> "delta", index |-> u, kind |-> kind, call |-> call, pieces |-> pieces]
           p == policy
           done == PolicyDelta(p, u, kind, call, pieces)
           q == policy'
           own == "returned" \notin quirks
           own2 == "returned" \notin quirks'
           new == [B[u] EXCEPT !.pieces = n + 1]
<1>1. /\ upstream.stage = "blocks" /\ n < 2 /\ Read(ev)
      /\ BlockBecomes(upstream, upstream', u, new)
      /\ quirks' = quirks \cup (IF u \in p.pending THEN {"returned"} ELSE {})
  BY DEF SendDelta, BlockBecomes
<1>2. (own2 => own) /\ (own2 => u \notin p.pending)
  BY <1>1
<1>3. /\ phase = "reading" /\ UNCHANGED <<phase, thinking, router, retries>>
      /\ Live(upstream, p, tracker, E, retries, own, thinking)
      /\ Regular(upstream) /\ p \in Policies /\ tracker \in Trackers /\ p.next \in Nat
      /\ DOMAIN p.segment \cup p.dropped \subseteq Blocks
      /\ E \in Seq(Events) /\ Witnessed(E, tracker, retries)
      /\ Len(tracker.blocks) = p.next /\ tracker.blocks \in Seq(TrackedBlocks)
      /\ retries \in Nat
      /\ q = Transform(p, ev).p
      /\ tracker' = ObserveAll(tracker, Transform(p, ev).events)
      /\ Push(Transform(p, ev).events)
  BY <1>1, ReadBegins
<1>4. /\ u \in Blocks /\ u \in Nat /\ B[u].open /\ B[u] \in UpstreamBlocks /\ kind \in Kinds
      /\ n \in 0 .. 1 /\ call \in Nat /\ u \in DOMAIN B
  BY <1>1, <1>3, OpenBlock DEF Blocks
<1>5. Transform(p, ev) = done /\ ~p.stopped /\ ~tracker.stopped
  <2>1. /\ ev.t = "delta" /\ ev.index = u /\ ev.kind = kind /\ ev.call = call
        /\ ev.pieces = pieces
    OBVIOUS
  <2> HIDE DEF ev, p, call, pieces, kind
  <2> QED BY <1>1, <1>3, <2>1, NothingIgnored
<1>6. Regular(upstream') /\ upstream'.stage = "blocks" /\ Advances(B, C, u)
  <2>1. new \in UpstreamBlocks /\ new.kind = kind /\ new.open /\ new.pieces = n + 1
    BY <1>4 DEF UpstreamBlocks
  <2> HIDE DEF new
  <2>2. /\ Regular(upstream') /\ upstream'.stage = "blocks" /\ Alike(B, C)
        /\ C[u] = new /\ \A v \in DOMAIN B \ {u} : C[v] = B[v]
    BY <1>1, <1>3, <1>4, <2>1, Changes
  <2> QED BY <1>4, <2>1, <2>2 DEF Advances
<1>7. pieces \in Seq(PieceType) /\ From(pieces, {retries})
  <2>1. n + 1 \in Nat
    BY <1>4
  <2> QED BY <1>3, <2>1, OnePiece
<1>8. /\ Sorted(p, B) /\ Wanted(p, B, thinking) /\ Kindred(p, tracker.blocks)
      /\ own => Owned(p, tracker.blocks, B, retries)
  BY <1>3 DEF Live
<1>9. Alike(B, C) /\ \A v \in DOMAIN B \ {u} : C[v] = B[v]
  BY <1>6 DEF Advances
<1> HIDE DEF E, call, ev, done, p, q, own, own2, pieces, new
<1>10. /\ q = done.p /\ tracker' = ObserveAll(tracker, done.events) /\ Push(done.events)
  BY <1>3, <1>5
<1>11. CASE Missed(p, done, u, kind)
  <2>0. (u \in p.dropped \/ Unwanted(kind, thinking)) /\ done.p = p /\ done.events = <<>>
    BY <1>11 DEF Missed
  <2>1. Follows(E, tracker, done.events, retries, tracker)
    BY <1>3, <2>0, FollowsNone
  <2>2. tracker' = tracker /\ q = p
    BY <1>10, <2>0, <2>1 DEF Follows
  <2>3. ~(q.stopped \/ tracker.stopped)
    BY <1>5, <2>2
  <2>4. u \notin DOMAIN p.segment
    BY <1>8, <2>0 DEF Sorted, Wanted
  <2>5. Steady(p, q) /\ \A v \in DOMAIN p.segment : Holding(p, q, v)
    BY <1>3, <2>2 DEF Steady, Holding
  <2>6. \A v \in DOMAIN p.segment : C[v] = B[v]
    BY <1>8, <1>9, <2>4 DEF Sorted
  <2>7. /\ \A v \in DOMAIN p.segment : C[v].pieces = B[v].pieces
        /\ \A v \in DOMAIN p.segment : C[v].open => B[v].open /\ Holding(p, q, v)
    BY <2>5, <2>6
  <2>8. Live(upstream', q, tracker, E \o done.events, retries, own2, thinking)
    BY <1>2, <1>3, <1>6, <1>9, <2>1, <2>3, <2>5, <2>7, StepSteady
  <2> QED BY <1>3, <1>10, <2>1, <2>2, <2>8, ReadKeeps DEF E, q, own2
<1>12. CASE Reached(p, done, u, kind, pieces)
  <2>0. /\ u \in DOMAIN p.segment /\ p.segment[u].open
        /\ done.p = p /\ done.events = <<DeltaEvent(p.segment[u].down, kind, pieces)>>
    BY <1>12 DEF Reached
  <2> DEFINE d == p.segment[u].down
  <2>1. d \in Nat /\ d < Len(tracker.blocks) /\ IsOfKind(tracker.blocks, d, kind)
    <3>1. p.segment[u] \in SegmentType
      BY <1>3, <2>0, PolicyParts
    <3>2. IsOfKind(tracker.blocks, d, kind)
      BY <1>8, <2>0 DEF Kindred, Sorted, IsOfKind
    <3> QED BY <1>3, <1>8, <2>0, <3>1, <3>2 DEF Sorted, SegmentType
  <2>2. Follows(E, tracker, <<>>, retries, tracker)
    BY <1>3, FollowsNone
  <2>3. PICK t : /\ Follows(E, tracker, Append(<<>>, DeltaEvent(d, kind, pieces)), retries, t)
                 /\ Fills(tracker.blocks, t.blocks, d + 1, pieces) /\ Len(t.blocks) = Len(tracker.blocks)
                 /\ t.stopped <=> tracker.stopped
    <3> DEFINE none == <<>>
    <3>1. none \in Seq(Events) /\ Follows(E, tracker, none, retries, tracker)
      BY <2>2, EmptySeq
    <3>2. kind \in Kinds /\ d \in Nat /\ d < Len(tracker.blocks) /\ IsOfKind(tracker.blocks, d, kind)
          /\ pieces \in Seq(PieceType) /\ From(pieces, {retries})
          /\ E \in Seq(Events) /\ tracker \in Trackers
      BY <1>3, <1>4, <1>7, <2>1
    <3> HIDE DEF d, kind, none, B
    <3>3. \E t : /\ Follows(E, tracker, Append(none, DeltaEvent(d, kind, pieces)), retries, t)
                 /\ Fills(tracker.blocks, t.blocks, d + 1, pieces) /\ Len(t.blocks) = Len(tracker.blocks)
                 /\ t.stopped <=> tracker.stopped
      BY <3>1, <3>2, FollowsDelta
    <3> QED BY <3>3 DEF none
  <2>4. Append(<<>>, DeltaEvent(d, kind, pieces)) = done.events
    BY <2>0
  <2>5. t = tracker' /\ Follows(E, tracker, done.events, retries, t)
    BY <1>10, <2>3, <2>4 DEF Follows
  <2>6. ~(p.stopped \/ t.stopped)
    BY <1>5, <2>3
  <2>7. Fills(tracker.blocks, t.blocks, p.segment[u].down + 1, <<Piece(retries, B[u].pieces + 1)>>)
    BY <2>3 DEF pieces
  <2>8. Live(upstream', p, t, E \o done.events, retries, own2, thinking)
    BY <1>2, <1>3, <1>6, <2>0, <2>3, <2>5, <2>6, <2>7, StepFilled
  <2>9. q = p
    BY <1>10, <2>0
  <2> QED BY <1>3, <1>10, <2>5, <2>8, <2>9, ReadKeeps DEF E, p, q, own2
<1>13. CASE Reopened(p, done, u, kind, pieces)
  <2>0. /\ u \notin p.dropped /\ (u \in DOMAIN p.segment => ~p.segment[u].open)
        /\ Grown(p, done.p, u, kind) /\ ~Unwanted(kind, thinking)
        /\ \E o : \E named \in BOOLEAN, same \in Nat :
              /\ Opens(o, p.next, kind, same, named)
              /\ done.events = Append(o, DeltaEvent(p.next, kind, pieces))
    BY <1>13 DEF Reopened
  <2>1. PICK o : \E named \in BOOLEAN, same \in Nat :
                  /\ Opens(o, p.next, kind, same, named)
                  /\ done.events = Append(o, DeltaEvent(p.next, kind, pieces))
    BY <2>0
  <2>2. PICK named \in BOOLEAN, same \in Nat :
                  /\ Opens(o, p.next, kind, same, named)
                  /\ done.events = Append(o, DeltaEvent(p.next, kind, pieces))
    BY <2>1
  <2>3. PICK t : /\ Follows(E, tracker, done.events, retries, t)
                 /\ Longer(tracker.blocks, t.blocks, kind, pieces) /\ (t.stopped <=> tracker.stopped)
    <3> DEFINE next == p.next
    <3>1. next = Len(tracker.blocks) /\ Opens(o, next, kind, same, named)
      BY <1>3, <2>2
    <3>3. kind \in Kinds /\ pieces \in Seq(PieceType) /\ From(pieces, {retries})
          /\ E \in Seq(Events) /\ Witnessed(E, tracker, retries)
      BY <1>3, <1>4, <1>7
    <3> HIDE DEF next, kind, B
    <3>2. \E t : /\ Follows(E, tracker, Append(o, DeltaEvent(next, kind, pieces)), retries, t)
                 /\ Longer(tracker.blocks, t.blocks, kind, pieces) /\ (t.stopped <=> tracker.stopped)
      BY <3>3, <2>2, <3>1, FollowsBoth
    <3> QED BY <2>2, <3>2 DEF next
  <2>4. t = tracker' /\ Grown(p, q, u, kind) /\ u \notin p.dropped
    BY <1>10, <2>0, <2>3 DEF Follows
  <2>5. ~(q.stopped \/ t.stopped)
    BY <1>5, <2>3, <2>4 DEF Grown
  <2>6. u \in DOMAIN p.segment /\ ~p.segment[u].open
    BY <1>4, <1>8, <2>0 DEF Wanted
  <2>7. ~own2
    BY <1>2, <1>4, <1>8, <2>6 DEF Owned
  <2>8. /\ Alike(B, C) /\ u \in DOMAIN p.segment /\ B[u].kind = kind /\ ~own2
        /\ ~Unwanted(kind, thinking)
    BY <1>9, <2>0, <2>6, <2>7
  <2> HIDE DEF kind
  <2>9. Live(upstream', q, t, E \o done.events, retries, own2, thinking)
    BY <1>2, <1>3, <1>6, <2>3, <2>4, <2>5, <2>7, <2>8, StepGrown
  <2> QED BY <1>3, <1>10, <2>3, <2>4, <2>9, ReadKeeps DEF E, q, own2
<1> QED
  <2>1. /\ u \in DOMAIN p.segment \cup p.dropped \/ kind # "thinking" \/ Unwanted(kind, thinking)
        /\ p \in Policies /\ u \in Nat /\ kind \in Kinds /\ call \in Nat
    BY <1>3, <1>4, <1>8 DEF call, Wanted
  <2> HIDE DEF kind, B
  <2>2. Arrives(p, done, u, kind, pieces)
    BY <2>1, DeltaReaches DEF done
  <2> QED BY <1>11, <1>12, <1>13, <2>2 DEF Arrives

\* A block ends.
LEMMA StopKeeps ==
    ASSUME StreamInv, NEW u \in OpenBlocks, SendStop(u)
    PROVE  StreamInv'
<1> DEFINE E == Yielded
           B == upstream.blocks
           C == upstream'.blocks
           ev == [t |-> "stop", index |-> u]
           p == policy
           done == PolicyStop(p, u)
           q == policy'
           own == "returned" \notin quirks
           own2 == "returned" \notin quirks'
           new == [B[u] EXCEPT !.open = FALSE]
<1>1. /\ upstream.stage = "blocks" /\ (B[u].kind = "tool_use" => B[u].pieces = 2) /\ Read(ev)
      /\ BlockBecomes(upstream, upstream', u, new)
      /\ quirks' = quirks
  BY DEF SendStop, BlockBecomes
<1>2. own2 => own
  BY <1>1
<1>3. /\ phase = "reading" /\ UNCHANGED <<phase, thinking, router, retries>>
      /\ Live(upstream, p, tracker, E, retries, own, thinking)
      /\ Regular(upstream) /\ p \in Policies /\ tracker \in Trackers
      /\ DOMAIN p.segment \cup p.dropped \subseteq Blocks
      /\ E \in Seq(Events) /\ Witnessed(E, tracker, retries)
      /\ q = Transform(p, ev).p
      /\ tracker' = ObserveAll(tracker, Transform(p, ev).events)
      /\ Push(Transform(p, ev).events)
  BY <1>1, ReadBegins
<1>4. u \in Blocks /\ B[u].open /\ B[u] \in UpstreamBlocks /\ u \in DOMAIN B
  BY <1>3, OpenBlock DEF Blocks
<1>5. Transform(p, ev) = done /\ ~p.stopped /\ ~tracker.stopped
  <2>1. ev.t = "stop" /\ ev.index = u
    OBVIOUS
  <2> HIDE DEF ev, p
  <2> QED BY <1>1, <1>3, <2>1, NothingIgnored
<1>6. /\ Regular(upstream') /\ upstream'.stage = "blocks" /\ Alike(B, C)
      /\ C[u].pieces = B[u].pieces /\ ~C[u].open /\ \A v \in DOMAIN B \ {u} : C[v] = B[v]
  <2>1. new \in UpstreamBlocks /\ new.kind = B[u].kind /\ ~new.open /\ new.pieces = B[u].pieces
    BY <1>4 DEF UpstreamBlocks
  <2> HIDE DEF new
  <2>2. /\ Regular(upstream') /\ upstream'.stage = "blocks" /\ Alike(B, C)
        /\ C[u] = new /\ \A v \in DOMAIN B \ {u} : C[v] = B[v]
    BY <1>1, <1>3, <1>4, <2>1, Changes
  <2> QED BY <2>1, <2>2
<1>7. Sorted(p, B) /\ (u \in DOMAIN p.segment \/ ~thinking)
  BY <1>3, <1>4 DEF Live, Wanted, Unwanted
<1> HIDE DEF E, ev, done, p, q, own, own2, new
<1>8. /\ q = done.p /\ tracker' = ObserveAll(tracker, done.events) /\ Push(done.events)
  BY <1>3, <1>5
<1>9. /\ Steady(p, q) /\ (q.stopped <=> p.stopped)
      /\ \A v \in DOMAIN p.segment \ {u} : Holding(p, q, v)
      /\ done.events \in Seq(Events) /\ AreStops(done.events)
  <2>1. p \in Policies /\ (u \in DOMAIN p.segment \cup p.dropped \/ ~thinking)
    BY <1>3, <1>7
  <2>2. /\ Steady(p, done.p) /\ (done.p.stopped <=> p.stopped)
        /\ \A v \in DOMAIN p.segment \ {u} : Holding(p, done.p, v)
        /\ done.events \in Seq(Events) /\ AreStops(done.events)
    BY <2>1, StopCloses DEF done
  <2> QED BY <1>8, <2>2
<1>10. PICK t : /\ Follows(E, tracker, done.events, retries, t)
                /\ t.blocks = tracker.blocks /\ (t.stopped <=> tracker.stopped)
  BY <1>3, <1>9, FollowsStops
<1>11. t = tracker' /\ ~(q.stopped \/ t.stopped)
  BY <1>5, <1>8, <1>9, <1>10 DEF Follows
<1>12. /\ \A v \in DOMAIN p.segment : C[v].pieces = B[v].pieces
       /\ \A v \in DOMAIN p.segment : C[v].open => B[v].open /\ Holding(p, q, v)
  <2>1. DOMAIN p.segment \subseteq DOMAIN B
    BY <1>7 DEF Sorted
  <2>2. \A v \in DOMAIN p.segment : v # u => C[v] = B[v]
    BY <1>6, <2>1
  <2> HIDE DEF B, C
  <2> QED BY <1>6, <1>9, <2>2
<1>13. Live(upstream', q, t, E \o done.events, retries, own2, thinking)
  BY <1>2, <1>3, <1>6, <1>9, <1>10, <1>11, <1>12, StepSteady
<1> QED BY <1>3, <1>8, <1>10, <1>11, <1>13, ReadKeeps DEF E, q, own2

\* Whatever the provider sends, when no block of it is open.
LEMMA NoneOpen ==
    ASSUME OpenBlocks = {}
    PROVE  AllClosed(upstream)
BY DEF OpenBlocks, Blocks, AllClosed

\* Each event of the provider.
LEMMA ProviderKeeps ==
    ASSUME StreamInv, Provider, "loose" \notin quirks'
    PROVE  StreamInv'
<1>1. CASE SendMessageStart
  <2> DEFINE ty == "message_start"
             stage == "blocks"
  <2>1. /\ ty \in PlainTypes /\ Read(Event(ty)) /\ stage \in Stages
        /\ upstream' = [upstream EXCEPT !.stage = stage] /\ quirks' = quirks
        /\ stage \notin {"delta", "stopped"} /\ ty # "message_stop"
        /\ upstream.stage \notin {"stopped", "done"}
    BY <1>1 DEF SendMessageStart, PlainTypes, Stages
  <2> HIDE DEF ty, stage
  <2> QED BY <2>1, PlainKeeps
<1>2. CASE \E kind \in Kinds : SendStart(kind)
  BY <1>2, StartKeeps
<1>3. CASE \E kind \in Kinds : SendHeadless(kind)
  BY <1>3, HeadlessKeeps
<1>4. CASE \E u \in OpenBlocks : SendDelta(u) \/ SendStop(u)
  BY <1>4, DeltaKeeps, StopKeeps
<1>5. CASE SendMessageDelta
  <2> DEFINE ty == "message_delta"
             stage == "delta"
  <2>1. /\ ty \in PlainTypes /\ Read(Event(ty)) /\ stage \in Stages
        /\ upstream' = [upstream EXCEPT !.stage = stage] /\ quirks' = quirks
        /\ ty # "message_stop" /\ upstream.stage \notin {"stopped", "done"} /\ AllClosed(upstream)
    BY <1>5, NoneOpen DEF SendMessageDelta, PlainTypes, Stages
  <2> HIDE DEF ty, stage
  <2> QED BY <2>1, PlainKeeps
<1>6. CASE SendMessageStop
  <2> DEFINE ty == "message_stop"
             stage == "stopped"
  <2>0. AllClosed(upstream)
    <3>1. phase = "reading"
      BY <1>6 DEF SendMessageStop, Read
    <3> QED BY <1>6, <3>1 DEF SendMessageStop, StreamInv, LiveInv, Live, Regular
  <2>1. /\ ty \in PlainTypes /\ Read(Event(ty)) /\ stage \in Stages
        /\ upstream' = [upstream EXCEPT !.stage = stage] /\ quirks' = quirks
        /\ stage = "stopped" /\ upstream.stage \notin {"stopped", "done"}
    BY <1>6 DEF SendMessageStop, PlainTypes, Stages
  <2> HIDE DEF ty, stage
  <2> QED BY <2>0, <2>1, PlainKeeps
<1>7. CASE SendDone
  <2> DEFINE ty == "done"
             stage == "done"
  <2>1. /\ ty \in PlainTypes /\ Read(Event(ty)) /\ stage \in Stages
        /\ upstream' = [upstream EXCEPT !.stage = stage] /\ quirks' = quirks
        /\ ty # "message_stop" /\ stage = "done"
    BY <1>7 DEF SendDone, PlainTypes, Stages
  <2> HIDE DEF ty, stage
  <2> QED BY <2>1, PlainKeeps
<1>8. CASE SendError
  <2> DEFINE ty == "error"
             stage == "done"
  <2>1. /\ ty \in PlainTypes /\ Read(Event(ty)) /\ stage \in Stages
        /\ upstream' = [upstream EXCEPT !.stage = stage]
        /\ "returned" \notin quirks' => "returned" \notin quirks
        /\ ty # "message_stop" /\ stage = "done"
    BY <1>8 DEF SendError, PlainTypes, Stages
  <2> HIDE DEF ty, stage
  <2> QED BY <2>1, PlainKeeps
<1> QED BY <1>1, <1>2, <1>3, <1>4, <1>5, <1>6, <1>7, <1>8 DEF Provider

-----------------------------------------------------------------------------
(***************************************************************************)
(* What the proxy itself says at the end.                                  *)
(***************************************************************************)

\* Nothing in these events is of an attempt, and none starts a call.
Own == {Recovery, Report}
Closing(s) ==
    /\ s \in Seq(Events) /\ Clean(s, Own)
    /\ \A n \in DOMAIN s : s[n].t = "start" => s[n].kind # "tool_use"

\* Nothing, one event, and one after the other.
LEMMA ClosingNone == Closing(<<>>)
BY EmptySeq, EmptyDomain DEF Closing, Clean

\* One event.
LEMMA ClosingOne ==
    ASSUME NEW e \in Events, e.t = "start" => e.kind # "tool_use",
           e.t = "delta" => From(e.pieces, Own)
    PROVE  Closing(<<e>>)
<1>1. <<e>> \in Seq(Events) /\ DOMAIN <<e>> = {1} /\ <<e>>[1] = e
  OBVIOUS
<1> QED BY <1>1 DEF Closing, Clean

\* Two sequences, one behind the other.
LEMMA JoinedFacts ==
    ASSUME NEW s \in Seq(Events), NEW t \in Seq(Events)
    PROVE  /\ s \o t \in Seq(Events)
           /\ \A n \in DOMAIN (s \o t) :
                 \/ n \in DOMAIN s /\ (s \o t)[n] = s[n]
                 \/ \E m \in DOMAIN t : (s \o t)[n] = t[m]
<1>1. /\ s \o t \in Seq(Events) /\ Len(s) \in Nat /\ Len(t) \in Nat
      /\ DOMAIN (s \o t) = 1 .. (Len(s) + Len(t)) /\ DOMAIN s = 1 .. Len(s) /\ DOMAIN t = 1 .. Len(t)
      /\ \A n \in 1 .. (Len(s) + Len(t)) :
            (s \o t)[n] = IF n <= Len(s) THEN s[n] ELSE t[n - Len(s)]
  BY ConcatProperties
<1>2. ASSUME NEW n \in DOMAIN (s \o t)
      PROVE  \/ n \in DOMAIN s /\ (s \o t)[n] = s[n]
             \/ \E m \in DOMAIN t : (s \o t)[n] = t[m]
  <2>1. CASE n <= Len(s)
    BY <1>1, <1>2, <2>1
  <2>2. CASE ~(n <= Len(s))
    <3>1. n - Len(s) \in DOMAIN t /\ (s \o t)[n] = t[n - Len(s)]
      BY <1>1, <1>2, <2>2
    <3> QED BY <3>1
  <2> QED BY <2>1, <2>2
<1> QED BY <1>1, <1>2

\* They are clean when both are.
LEMMA ClosingJoined ==
    ASSUME NEW s, NEW t, Closing(s), Closing(t)
    PROVE  Closing(s \o t)
<1> DEFINE w == s \o t
<1>1. /\ s \in Seq(Events) /\ Clean(s, Own) /\ t \in Seq(Events) /\ Clean(t, Own)
      /\ \A n \in DOMAIN s : s[n].t = "start" => s[n].kind # "tool_use"
      /\ \A n \in DOMAIN t : t[n].t = "start" => t[n].kind # "tool_use"
  BY DEF Closing
<1>2. /\ w \in Seq(Events)
      /\ \A n \in DOMAIN w : (n \in DOMAIN s /\ w[n] = s[n]) \/ \E m \in DOMAIN t : w[n] = t[m]
  BY <1>1, JoinedFacts
<1> HIDE DEF w
<1>3. Clean(w, Own)
  BY <1>1, <1>2 DEF Clean
<1>4. \A n \in DOMAIN w : w[n].t = "start" => w[n].kind # "tool_use"
  BY <1>1, <1>2
<1> QED BY <1>2, <1>3, <1>4 DEF Closing, w

\* Stops only.
LEMMA ClosingStops ==
    ASSUME NEW s \in Seq(Events), AreStops(s)
    PROVE  Closing(s)
<1>1. \A n \in DOMAIN s : s[n].t # "delta" /\ s[n].t # "start"
  BY DEF AreStops
<1> QED BY <1>1 DEF Closing, Clean

\* What is in clean events is clean.
LEMMA CarriedClean ==
    ASSUME NEW S, NEW i
    PROVE  \A s \in Seq(Events) : Clean(s, S) => From(CarriedIn(s, i), S)
<1> DEFINE P == {s \in Seq(Events) : Clean(s, S) => From(CarriedIn(s, i), S)}
<1>1. <<>> \in P
  <2>1. CarriedIn(<<>>, i) = <<>>
    BY EmptySeq, CarriedFacts
  <2> QED BY <2>1, EmptySeq, EmptyDomain DEF From
<1>2. ASSUME NEW s \in Seq(Events), NEW e \in Events, s \in P PROVE Append(s, e) \in P
  <2> DEFINE w == Append(s, e)
  <2>1. /\ w \in Seq(Events) /\ Len(s) \in Nat /\ DOMAIN w = 1 .. (Len(s) + 1) /\ DOMAIN s = 1 .. Len(s)
        /\ w[Len(s) + 1] = e /\ \A k \in 1 .. Len(s) : w[k] = s[k]
    BY AppendProperties
  <2>2. Len(s) + 1 \in DOMAIN w /\ \A k \in DOMAIN s : k \in DOMAIN w /\ w[k] = s[k]
    BY <2>1
  <2>3. /\ CarriedIn(w, i) = CarriedIn(s, i) \o Gives(e, i) /\ CarriedIn(s, i) \in Seq(PieceType)
        /\ Gives(e, i) \in Seq(PieceType)
    BY CarriedFacts, CarriedIsEach
  <2> HIDE DEF w
  <2>4. ASSUME Clean(w, S) PROVE From(CarriedIn(w, i), S)
    <3>1. Clean(s, S) /\ (e.t = "delta" => From(e.pieces, S))
      BY <2>1, <2>2, <2>4 DEF Clean
    <3>2. From(CarriedIn(s, i), S)
      BY <1>2, <3>1
    <3>3. From(Gives(e, i), S)
      BY <3>1, EmptyDomain DEF Gives, From
    <3> DEFINE x == CarriedIn(s, i)
               y == Gives(e, i)
    <3>4. /\ Len(x) \in Nat /\ Len(y) \in Nat
          /\ DOMAIN (x \o y) = 1 .. (Len(x) + Len(y)) /\ DOMAIN x = 1 .. Len(x) /\ DOMAIN y = 1 .. Len(y)
          /\ \A n \in 1 .. (Len(x) + Len(y)) :
                (x \o y)[n] = IF n <= Len(x) THEN x[n] ELSE y[n - Len(x)]
      BY <2>3, ConcatProperties
    <3>5. \A n \in 1 .. (Len(x) + Len(y)) : n <= Len(x) => n \in 1 .. Len(x)
      BY <3>4
    <3>6. \A n \in 1 .. (Len(x) + Len(y)) : ~(n <= Len(x)) => n - Len(x) \in 1 .. Len(y)
      BY <3>4
    <3>7. From(x, S) /\ From(y, S)
      BY <3>2, <3>3
    <3> HIDE DEF x, y
    <3>8. From(x \o y, S)
      BY <3>4, <3>5, <3>6, <3>7 DEF From
    <3> QED BY <2>3, <3>8 DEF x, y
  <2> QED BY <2>1, <2>4 DEF w
<1>3. \A s \in Seq(Events) : s \in P
  <2> HIDE DEF P
  <2> QED BY <1>1, <1>2, SequenceInduction
<1> QED BY <1>3

\* Events without a delta give nothing.
LEMMA TellsNothing ==
    ASSUME NEW s \in Seq(Events), \A k \in DOMAIN s : s[k].t # "delta", NEW i
    PROVE  CarriedIn(s, i) = <<>>
<1>1. Clean(s, {})
  BY DEF Clean
<1>2. From(CarriedIn(s, i), {}) /\ CarriedIn(s, i) \in Seq(PieceType)
  BY <1>1, CarriedClean, CarriedFacts
<1> DEFINE c == CarriedIn(s, i)
<1> HIDE DEF c
<1>3. From(c, {}) /\ c \in Seq(PieceType)
  BY <1>2 DEF c
<1>4. \A j : j \notin DOMAIN c
  BY <1>3 DEF From
<1>5. Len(c) = 0
  <2>1. Len(c) \in Nat /\ DOMAIN c = 1 .. Len(c)
    BY <1>3
  <2>2. Len(c) > 0 => 1 \in DOMAIN c
    BY <2>1
  <2> QED BY <1>4, <2>1, <2>2
<1> QED BY <1>3, <1>5, EmptySeq DEF c

\* The attempts are not the proxy's own.
LEMMA OwnFacts ==
    /\ Recovery \in Nat /\ Report \in Nat
    /\ \A a \in 0 .. MaxRetries : a \in Nat /\ a \notin Own
BY NativeAssumption DEF Own, Recovery, Report

\* What a block holds of an attempt that was given all of n pieces, or of the proxy's own.
LEMMA GivenNumbers ==
    ASSUME NEW a \in Nat, NEW n \in 0 .. 2
    PROVE  /\ Only(Given(a, n), OfAttempt(a)) = Given(a, n)
           /\ Numbers(Given(a, n)) = [k \in DOMAIN Given(a, n) |-> k]
<1>0. n \in Nat
  OBVIOUS
<1>1. n \in Nat /\ Given(a, n) \in Seq(PieceType) /\ DOMAIN Given(a, n) = 1 .. n
  BY <1>0, GivenFacts
<1>2. \A k \in 1 .. n : Given(a, n)[k] = [from |-> a, n |-> k] /\ k \in 1 .. 2
  BY DEF Given, Piece
<1>3. Within(Given(a, n), OfAttempt(a))
  BY <1>1, <1>2 DEF Within, OfAttempt
<1>4. Numbers(Given(a, n)) = [k \in DOMAIN Given(a, n) |-> k]
  BY <1>1, <1>2 DEF Numbers
<1> QED BY <1>1, <1>3, <1>4, OnlyAll

\* Every block was given the first pieces of the attempt, and nothing else.
Counted(E, a) == \A i \in Nat : \E n \in 0 .. 2 : CarriedIn(E, i) = Given(a, n)

\* AnswerOfOneAttempt of these events; well, when the answer ended well.
Right(F, a, own, well) ==
    /\ \A n \in DOMAIN F : F[n].t = "delta" => From(F[n].pieces, {a, Recovery, Report})
    /\ own => \A n \in DOMAIN F : F[n].t = "start" =>
           LET mine == Only(CarriedIn(F, F[n].index), OfAttempt(a))
           IN  /\ Numbers(mine) = [k \in DOMAIN mine |-> k]
               /\ well /\ F[n].kind = "tool_use" => Whole(CarriedIn(F, F[n].index))

\* It holds when the proxy has said the rest itself.
LEMMA EndCounts ==
    ASSUME NEW E \in Seq(Events), NEW T, Closing(T), NEW a \in 0 .. MaxRetries, NEW own,
           Clean(E, {a}), own => Counted(E, a)
    PROVE  E \o T \in Seq(Events) /\ Right(E \o T, a, own, FALSE)
<1> DEFINE F == E \o T
<1>1. T \in Seq(Events) /\ Clean(T, Own)
  BY DEF Closing
<1>2. /\ F \in Seq(Events)
      /\ \A n \in DOMAIN F : (n \in DOMAIN E /\ F[n] = E[n]) \/ \E m \in DOMAIN T : F[n] = T[m]
  BY <1>1, JoinedFacts
<1>3. \A i : CarriedIn(F, i) = CarriedIn(E, i) \o CarriedIn(T, i)
  BY <1>1, CarriedConcat
<1> HIDE DEF F
<1>4. \A n \in DOMAIN F : F[n].t = "delta" => From(F[n].pieces, {a, Recovery, Report})
  BY <1>1, <1>2 DEF Clean, From, Own
<1>5. ASSUME NEW n \in DOMAIN F, F[n].t = "start" PROVE F[n].index \in Nat
  <2>1. F[n] \in Events
    BY <1>2
  <2> QED BY <1>5, <2>1, EventFacts DEF StartEvents
<1>6. ASSUME own, NEW i \in Nat, NEW mine, mine = Only(CarriedIn(F, i), OfAttempt(a))
      PROVE  Numbers(mine) = [k \in DOMAIN mine |-> k]
  <2>1. PICK n \in 0 .. 2 : CarriedIn(E, i) = Given(a, n)
    BY <1>6 DEF Counted
  <2> DEFINE x == CarriedIn(E, i)
             y == CarriedIn(T, i)
  <2>2. x \in Seq(PieceType) /\ y \in Seq(PieceType) /\ From(y, Own)
    BY <1>1, CarriedFacts, CarriedClean
  <2>3. Outside(y, OfAttempt(a))
    <3>1. a \notin Own
      BY OwnFacts
    <3> QED BY <2>2, <3>1 DEF From, Outside, OfAttempt
  <2>4. CarriedIn(F, i) = x \o y
    BY <1>3
  <2> HIDE DEF x, y
  <2>5. Only(y, OfAttempt(a)) = <<>>
    BY <2>2, <2>3, OnlyAll
  <2>6. Only(x \o y, OfAttempt(a)) = Only(x, OfAttempt(a)) \o <<>> /\ Only(x, OfAttempt(a)) \in Seq(PieceType)
    <3> DEFINE S == OfAttempt(a)
    <3> HIDE DEF S
    <3>1. x \in Seq(PieceType) /\ y \in Seq(PieceType)
      BY <2>2
    <3>2. Concats(x, y, x \o y)
      BY DEF Concats
    <3>3. Only(x, S) \in Seq(PieceType) /\ Concats(Only(x, S), Only(y, S), Only(x \o y, S))
      BY <3>1, <3>2, OnlyConcat
    <3> QED BY <2>5, <3>3 DEF S, Concats
  <2>7. mine = Only(x, OfAttempt(a))
    BY <1>6, <2>4, <2>6, ConcatEmptySeq
  <2>8. mine = Given(a, n) /\ Numbers(Given(a, n)) = [k \in DOMAIN Given(a, n) |-> k]
    BY <2>1, <2>7, GivenNumbers, OwnFacts DEF x
  <2> QED BY <2>8
<1>7. Right(F, a, own, FALSE)
  BY <1>4, <1>5, <1>6 DEF Right
<1> QED BY <1>2, <1>7 DEF F

\* And well, when the calls are whole.
LEMMA EndWell ==
    ASSUME NEW F, NEW a, NEW own, Right(F, a, own, FALSE),
           own => \A n \in DOMAIN F : F[n].t = "start" /\ F[n].kind = "tool_use"
                                          => Whole(CarriedIn(F, F[n].index))
    PROVE  Right(F, a, own, TRUE)
BY DEF Right

\* Every block that was told is one of the provider's, with what it sent of it.
Sources(up, told, E, a) ==
    \A i \in Nat : i < Len(told) =>
        \E u \in DOMAIN up.blocks : /\ told[i + 1].kind = up.blocks[u].kind
                                   /\ up.blocks[u].pieces \in 0 .. 2
                                   /\ CarriedIn(E, i) = Given(a, up.blocks[u].pieces)

\* An attempt that runs has given this.
LEMMA LiveCounts ==
    ASSUME NEW up, NEW p, NEW tk, NEW E, NEW a \in Nat, NEW own, NEW enabled,
           Live(up, p, tk, E, a, own, enabled)
    PROVE  /\ E \in Seq(Events) /\ Clean(E, {a}) /\ (own => Counted(E, a))
           /\ tk \in Trackers /\ tk.blocks \in Seq(TrackedBlocks) /\ Noted(E, tk.blocks)
           /\ own => Sources(up, tk.blocks, E, a)
<1>1. /\ E \in Seq(Events) /\ Clean(E, {a}) /\ tk \in Trackers /\ tk.blocks \in Seq(TrackedBlocks)
      /\ Noted(E, tk.blocks)
      /\ Regular(up) /\ Sorted(p, up.blocks) /\ (own => Owned(p, tk.blocks, up.blocks, a))
  BY DEF Live, Witnessed, Trackers
<1>2. ASSUME own, NEW i \in Nat, i < Len(tk.blocks)
      PROVE  \E u \in DOMAIN up.blocks :
                     /\ tk.blocks[i + 1].kind = up.blocks[u].kind
                     /\ up.blocks[u].pieces \in 0 .. 2
                     /\ CarriedIn(E, i) = Given(a, up.blocks[u].pieces)
  <2> DEFINE k == i + 1
             B == up.blocks
             told == tk.blocks
  <2>1. k \in DOMAIN told /\ k - 1 = i
    BY <1>1, <1>2
  <2>2. told[k].pieces = CarriedIn(E, k - 1)
    BY <1>1, <2>1 DEF Noted
  <2>3. PICK u \in DOMAIN p.segment : p.segment[u].down = k - 1
    BY <1>1, <1>2, <2>1 DEF Owned
  <2>4. u \in DOMAIN B /\ told[p.segment[u].down + 1].pieces = Given(a, B[u].pieces)
        /\ told[p.segment[u].down + 1].kind = B[u].kind
    BY <1>1, <1>2 DEF Owned, Sorted
  <2>5. p.segment[u].down + 1 = k
    BY <2>1, <2>3
  <2>6. B[u].pieces \in 0 .. 2
    <3>1. PICK n \in 0 .. MaxBlocks : B \in [0 .. (n - 1) -> UpstreamBlocks]
      BY <1>1, UpstreamFacts DEF Regular
    <3> QED BY <2>4, <3>1 DEF UpstreamBlocks
  <2>7. CarriedIn(E, i) = Given(a, B[u].pieces) /\ told[k].kind = B[u].kind
    BY <2>1, <2>2, <2>4, <2>5
  <2> QED BY <2>4, <2>6, <2>7
<1>3. ASSUME own, NEW i \in Nat PROVE \E n \in 0 .. 2 : CarriedIn(E, i) = Given(a, n)
  <2>1. CASE i < Len(tk.blocks)
    BY <1>2, <1>3, <2>1
  <2>2. CASE ~(i < Len(tk.blocks))
    <3>1. CarriedIn(E, i) = <<>>
      <4>1. i >= Len(tk.blocks)
        BY <1>1, <2>2
      <4> QED BY <1>1, <4>1 DEF Noted
    <3>2. Given(a, 0) = <<>> /\ 0 \in 0 .. 2
      <4> DEFINE n == 0
      <4>1. n \in Nat
        OBVIOUS
      <4> HIDE DEF n
      <4>2. Given(a, 0) = <<>>
        BY <4>1, GivenFacts
      <4> QED BY <4>2
    <3> QED BY <3>1, <3>2
  <2> QED BY <2>1, <2>2
<1> QED BY <1>1, <1>2, <1>3 DEF Counted, Sources

\* A start, with the piece that follows it, a delta or a stop of the proxy.
LEMMA ClosingEvents ==
    ASSUME NEW i \in Nat, NEW kind \in Kinds \ {"tool_use"}, NEW pieces \in Seq(PieceType),
           From(pieces, Own)
    PROVE  /\ Closing(<<StartEvent(i, kind, 0, TRUE)>>)
           /\ Closing(<<DeltaEvent(i, kind, pieces)>>)
           /\ Closing(<<StopEvent(i)>>)
<1> DEFINE call == 0
           named == TRUE
           e == StartEvent(i, kind, call, named)
           d == DeltaEvent(i, kind, pieces)
           s == StopEvent(i)
<1>1. call \in Nat /\ named \in BOOLEAN /\ kind \in Kinds /\ kind # "tool_use"
  OBVIOUS
<1> HIDE DEF call, named
<1>2. e \in Events /\ e.t = "start" /\ e.kind = kind
  BY <1>1, MadeEvents
<1>3. d \in Events /\ d.t = "delta" /\ d.pieces = pieces
  BY <1>1, MadeEvents
<1>4. s \in Events /\ s.t = "stop"
  BY MadeEvents
<1> HIDE DEF e, d, s
<1>5. Closing(<<e>>) /\ Closing(<<d>>) /\ Closing(<<s>>)
  <2>1. e.t # "delta" /\ e.kind # "tool_use" /\ d.t # "start" /\ s.t # "delta" /\ s.t # "start"
    BY <1>1, <1>2, <1>3, <1>4
  <2>2. Closing(<<e>>)
    BY <1>2, <2>1, ClosingOne
  <2>3. Closing(<<d>>)
    BY <1>3, <2>1, ClosingOne
  <2>4. Closing(<<s>>)
    BY <1>4, <2>1, ClosingOne
  <2> QED BY <2>2, <2>3, <2>4
<1> QED BY <1>5 DEF e, d, s, call, named

\* An event of the message.
LEMMA ClosingPlain ==
    ASSUME NEW ty \in PlainTypes
    PROVE  Closing(<<Event(ty)>>)
<1> DEFINE e == Event(ty)
<1>1. e \in Events /\ e.t = ty /\ ty \notin {"start", "delta"}
  <2>1. 0 \in Nat
    OBVIOUS
  <2> QED BY <2>1, MadeEvents DEF PlainTypes
<1> HIDE DEF e
<1>2. Closing(<<e>>)
  BY <1>1, ClosingOne
<1> QED BY <1>2 DEF e

\* One piece of the proxy's own.
LEMMA OwnPiece ==
    ASSUME NEW from \in Own, NEW n \in Nat
    PROVE  <<Piece(from, n)>> \in Seq(PieceType) /\ From(<<Piece(from, n)>>, Own)
<1>1. Piece(from, n) \in PieceType /\ Piece(from, n).from = from
  BY OwnFacts DEF Piece, PieceType, Own
<1> QED BY <1>1 DEF From

\* The blocks that are open are closed.
LEMMA ClosingUnclosed ==
    ASSUME NEW tk \in Trackers
    PROVE  CloseUnclosed(tk) \in Seq(Events) /\ AreStops(CloseUnclosed(tk))
<1> DEFINE st == tk.stack
           L == Len(st)
<1>1. st \in Seq(Nat) /\ L \in Nat /\ DOMAIN st = 1 .. L
  BY DEF Trackers
<1>2. \A k \in 1 .. L : Reverse(st)[k] \in Nat
  <2> SUFFICES ASSUME NEW k \in 1 .. L PROVE Reverse(st)[k] \in Nat
    OBVIOUS
  <2>1. (L - k) + 1 \in 1 .. L
    BY <1>1
  <2>2. Reverse(st)[k] = st[(L - k) + 1]
    BY DEF Reverse
  <2> HIDE DEF st, L
  <2> QED BY <1>1, <2>1, <2>2
<1>3. \A k \in 1 .. L : StopEvent(Reverse(st)[k]) \in Events /\ StopEvent(Reverse(st)[k]).t = "stop"
  BY <1>2, MadeEvents
<1> HIDE DEF st, L
<1> DEFINE f == [k \in 1 .. L |-> StopEvent(Reverse(st)[k])]
<1>4. f \in Seq(Events) /\ AreStops(f)
  BY <1>1, <1>3 DEF AreStops
<1>5. CloseUnclosed(tk) = f
  BY <1>1 DEF CloseUnclosed, st
<1> QED BY <1>4, <1>5

\* The tail of an answer that ends well, and of an error.
LEMMA ClosingSuccess ==
    ASSUME NEW tk \in Trackers
    PROVE  Closing(SuccessTail(tk)) /\ \A i : CarriedIn(SuccessTail(tk), i) = <<>>
<1> DEFINE c == CloseUnclosed(tk)
           r == IF tk.reason THEN <<>> ELSE <<Event("message_delta")>>
           s == IF tk.stopped THEN <<>> ELSE <<Event("message_stop")>>
<1>1. c \in Seq(Events) /\ AreStops(c) /\ Closing(c)
  BY ClosingUnclosed, ClosingStops
<1>2. Closing(r) /\ Closing(s)
  <2> DEFINE y == "message_delta"
             z == "message_stop"
  <2>1. y \in PlainTypes /\ z \in PlainTypes
    BY DEF PlainTypes
  <2> HIDE DEF y, z
  <2>2. Closing(<<Event(y)>>) /\ Closing(<<Event(z)>>)
    BY <2>1, ClosingPlain
  <2> QED BY <2>2, ClosingNone DEF y, z
<1>3. \A k \in DOMAIN r : r[k].t # "delta"
  BY EmptyDomain DEF Event
<1>4. \A k \in DOMAIN s : s[k].t # "delta"
  BY EmptyDomain DEF Event
<1> HIDE DEF c, r, s
<1>5. Closing(c \o r) /\ Closing((c \o r) \o s)
  BY <1>1, <1>2, ClosingJoined
<1>6. SuccessTail(tk) = (c \o r) \o s
  BY DEF SuccessTail, c, r, s
<1>7. ASSUME NEW i PROVE CarriedIn((c \o r) \o s, i) = <<>>
  <2>1. /\ c \in Seq(Events) /\ r \in Seq(Events) /\ s \in Seq(Events) /\ c \o r \in Seq(Events)
    BY <1>1, <1>2, <1>5 DEF Closing
  <2>2. CarriedIn(c, i) = <<>>
    BY <1>1, TellsNothing DEF AreStops
  <2>3. CarriedIn(r, i) = <<>> /\ CarriedIn(s, i) = <<>>
    BY <1>3, <1>4, <2>1, TellsNothing
  <2>4. CarriedIn(c \o r, i) = CarriedIn(c, i) \o CarriedIn(r, i)
    BY <2>1, CarriedConcat
  <2>5. CarriedIn((c \o r) \o s, i) = CarriedIn(c \o r, i) \o CarriedIn(s, i)
    BY <2>1, CarriedConcat
  <2> QED BY <2>2, <2>3, <2>4, <2>5, EmptySeq, ConcatEmptySeq
<1> QED BY <1>5, <1>6, <1>7

\* One element more.
LEMMA OneMore ==
    ASSUME NEW B, NEW s \in Seq(B), NEW e \in B, NEW w \in Seq(B), Len(w) = Len(s) + 1,
           w[Len(s) + 1] = e, \A i \in 1 .. Len(s) : w[i] = s[i]
    PROVE  s \o <<e>> = w
<1> DEFINE t == Append(s, e)
<1>1. t \in Seq(B) /\ Len(s) \in Nat /\ Len(t) = Len(s) + 1 /\ t[Len(s) + 1] = e /\ \A i \in 1 .. Len(s) : t[i] = s[i]
  BY AppendProperties
<1>2. t = s \o <<e>>
  BY AppendIsConcat
<1> HIDE DEF t
<1>3. \A i \in 1 .. Len(t) : t[i] = w[i]
  BY <1>1
<1> QED BY <1>1, <1>2, <1>3, SeqEqual

\* Three, one behind the other.
LEMMA InARow ==
    ASSUME NEW B, NEW a \in B, NEW b \in B, NEW c \in B
    PROVE  <<a, b, c>> = (<<a>> \o <<b>>) \o <<c>>
<1> DEFINE x == <<a>>
           s == <<a, b>>
           w == <<a, b, c>>
<1>1. x \in Seq(B) /\ Len(x) = 1 /\ x[1] = a
  OBVIOUS
<1>2. s \in Seq(B) /\ Len(s) = 2 /\ s[1] = a /\ s[2] = b
  OBVIOUS
<1>3. w \in Seq(B) /\ Len(w) = 3 /\ w[1] = a /\ w[2] = b /\ w[3] = c
  OBVIOUS
<1> HIDE DEF x, s, w
<1>4. Len(s) = Len(x) + 1 /\ s[Len(x) + 1] = b /\ \A i \in 1 .. Len(x) : s[i] = x[i]
  BY <1>1, <1>2
<1>5. Len(w) = Len(s) + 1 /\ w[Len(s) + 1] = c /\ \A i \in 1 .. Len(s) : w[i] = s[i]
  BY <1>2, <1>3
<1>6. x \in Seq(B) /\ s \in Seq(B) /\ w \in Seq(B)
  BY <1>1, <1>2, <1>3
<1>7. x \o <<b>> = s
  BY <1>4, <1>6, OneMore
<1>8. s \o <<c>> = w
  BY <1>5, <1>6, OneMore
<1> QED BY <1>7, <1>8 DEF x, w

\* Two of them.
LEMMA InPair ==
    ASSUME NEW B, NEW a \in B, NEW b \in B
    PROVE  <<a, b>> = <<a>> \o <<b>>
<1> DEFINE x == <<a>>
           s == <<a, b>>
<1>1. x \in Seq(B) /\ Len(x) = 1 /\ x[1] = a
  OBVIOUS
<1>2. s \in Seq(B) /\ Len(s) = 2 /\ s[1] = a /\ s[2] = b
  OBVIOUS
<1> HIDE DEF x, s
<1>3. Len(s) = Len(x) + 1 /\ s[Len(x) + 1] = b /\ \A i \in 1 .. Len(x) : s[i] = x[i]
  BY <1>1, <1>2
<1>4. x \in Seq(B) /\ s \in Seq(B)
  BY <1>1, <1>2
<1>5. x \o <<b>> = s
  BY <1>3, <1>4, OneMore
<1> QED BY <1>5 DEF x, s

\* The text of an error is a block of its own.
LEMMA ClosingError ==
    ASSUME NEW i \in Nat
    PROVE  Closing(ErrorBlock(i))
<1> DEFINE kind == "text"
           pieces == <<Piece(Report, 1)>>
           e == <<StartEvent(i, kind, 0, TRUE)>>
           d == <<DeltaEvent(i, kind, pieces)>>
           s == <<StopEvent(i)>>
<1>1. kind \in Kinds \ {"tool_use"}
  BY DEF Kinds
<1>2. pieces \in Seq(PieceType) /\ From(pieces, Own)
  <2> DEFINE n == 1
             r == Report
  <2>1. n \in Nat /\ r \in Own
    BY DEF Own
  <2> HIDE DEF n, r
  <2>2. <<Piece(r, n)>> \in Seq(PieceType) /\ From(<<Piece(r, n)>>, Own)
    BY <2>1, OwnPiece
  <2> QED BY <2>2 DEF n, r
<1> HIDE DEF kind, pieces
<1>3. Closing(e) /\ Closing(d) /\ Closing(s)
  BY <1>1, <1>2, ClosingEvents
<1>4. ErrorBlock(i) = (e \o d) \o s
  <2>0. e \in Seq(Events) /\ d \in Seq(Events) /\ s \in Seq(Events)
    BY <1>3 DEF Closing
  <2> DEFINE e0 == StartEvent(i, kind, 0, TRUE)
             d0 == DeltaEvent(i, kind, pieces)
             s0 == StopEvent(i)
  <2>1. ErrorBlock(i) = <<e0, d0, s0>>
    BY DEF ErrorBlock, kind, pieces
  <2>3. e0 \in Events /\ d0 \in Events /\ s0 \in Events
    <3> HIDE DEF e0, d0, s0
    <3>1. <<e0>>[1] = e0 /\ <<d0>>[1] = d0 /\ <<s0>>[1] = s0
      OBVIOUS
    <3>2. 1 \in DOMAIN <<e0>> /\ 1 \in DOMAIN <<d0>> /\ 1 \in DOMAIN <<s0>>
      OBVIOUS
    <3>3. <<e0>> \in Seq(Events) /\ <<d0>> \in Seq(Events) /\ <<s0>> \in Seq(Events)
      BY <2>0 DEF e0, d0, s0
    <3> QED BY <3>1, <3>2, <3>3
  <2> HIDE DEF e0, d0, s0
  <2>2. <<e0, d0, s0>> = (<<e0>> \o <<d0>>) \o <<s0>>
    BY <2>3, InARow
  <2> QED BY <2>1, <2>2 DEF e0, d0, s0
<1> HIDE DEF e, d, s
<1>5. Closing((e \o d) \o s)
  BY <1>3, ClosingJoined
<1> QED BY <1>4, <1>5

\* Both tails of an error are of the proxy.
LEMMA ClosingErrorTail ==
    ASSUME NEW tk \in Trackers
    PROVE  Closing(ErrorTail(tk)) /\ Closing(WholeError)
<1> DEFINE c == CloseUnclosed(tk)
           b == ErrorBlock(NextContentIndex(tk))
           b0 == ErrorBlock(0)
           x == "message_start"
           y == "message_delta"
           z == "message_stop"
           end == <<Event(y), Event(z)>>
           s == <<Event(x)>>
<1>1. Closing(c)
  BY ClosingUnclosed, ClosingStops
<1>2. Closing(b) /\ Closing(b0)
  <2> DEFINE n == 0
             m == Len(tk.blocks)
  <2>1. n \in Nat /\ m \in Nat
    BY DEF Trackers
  <2> HIDE DEF n, m
  <2>2. Closing(ErrorBlock(n)) /\ Closing(ErrorBlock(m))
    BY <2>1, ClosingError
  <2> QED BY <2>2 DEF n, m, NextContentIndex
<1>3. Closing(s) /\ Closing(end)
  <2>1. x \in PlainTypes /\ y \in PlainTypes /\ z \in PlainTypes
    BY DEF PlainTypes
  <2> HIDE DEF x, y, z
  <2> DEFINE f == <<Event(y)>>
             g == <<Event(z)>>
  <2>2. Closing(f) /\ Closing(g) /\ Closing(s)
    BY <2>1, ClosingPlain
  <2>3. end = f \o g
    OBVIOUS
  <2> HIDE DEF f, g, end, s
  <2>4. Closing(f \o g)
    BY <2>2, ClosingJoined
  <2> QED BY <2>2, <2>3, <2>4
<1>4. ErrorTail(tk) = (c \o b) \o end /\ WholeError = (s \o b0) \o end
  BY DEF ErrorTail, WholeError
<1> HIDE DEF c, b, b0, end, s
<1>5. Closing((c \o b) \o end) /\ Closing((s \o b0) \o end)
  <2>1. Closing(c \o b) /\ Closing(s \o b0)
    BY <1>1, <1>2, <1>3, ClosingJoined
  <2> QED BY <1>3, <2>1, ClosingJoined
<1> QED BY <1>4, <1>5

\* What is added to the last block of a kind.
LEMMA ClosingSuffix ==
    ASSUME NEW tk \in Trackers, NEW kind \in Kinds \ {"tool_use"}
    PROVE  Closing(AppendSuffix(tk, kind))
<1> DEFINE more == <<Piece(Recovery, 1)>>
           open == Only(tk.stack, {bl.index : bl \in BlocksOf(tk, kind)})
           new == NextContentIndex(tk)
<1>1. more \in Seq(PieceType) /\ From(more, Own)
  <2> DEFINE n == 1
             r == Recovery
  <2>1. n \in Nat /\ r \in Own
    BY DEF Own
  <2> HIDE DEF n, r
  <2>2. <<Piece(r, n)>> \in Seq(PieceType) /\ From(<<Piece(r, n)>>, Own)
    BY <2>1, OwnPiece
  <2> QED BY <2>2 DEF n, r
<1>2. open \in Seq(Nat) /\ new \in Nat
  BY OnlyTyped DEF Trackers, NextContentIndex
<1> HIDE DEF more, open, new
<1>3. CASE open # <<>>
  <2> DEFINE l == Last(open)
  <2>1. l \in Nat
    <3>1. Len(open) \in Nat /\ Len(open) # 0
      BY <1>2, <1>3, EmptySeq
    <3>2. Len(open) \in 1 .. Len(open)
      BY <3>1
    <3> QED BY <1>2, <3>2 DEF Last
  <2> HIDE DEF l
  <2>2. Closing(<<DeltaEvent(l, kind, more)>>)
    BY <1>1, <2>1, ClosingEvents
  <2>3. AppendSuffix(tk, kind) = <<DeltaEvent(l, kind, more)>>
    BY <1>3 DEF AppendSuffix, l, open, more
  <2> QED BY <2>2, <2>3
<1>4. CASE open = <<>>
  <2> DEFINE e0 == StartEvent(new, kind, 0, TRUE)
             d0 == DeltaEvent(new, kind, more)
  <2>1. Closing(<<e0>>) /\ Closing(<<d0>>)
    BY <1>1, <1>2, ClosingEvents
  <2>2. AppendSuffix(tk, kind) = <<e0, d0>>
    BY <1>4 DEF AppendSuffix, open, new, more
  <2> HIDE DEF e0, d0
  <2>3. <<e0, d0>> = <<e0>> \o <<d0>>
    <3>1. <<e0>> \in Seq(Events) /\ <<d0>> \in Seq(Events)
      BY <2>1 DEF Closing
    <3>2. <<e0>>[1] = e0 /\ <<d0>>[1] = d0 /\ 1 \in DOMAIN <<e0>> /\ 1 \in DOMAIN <<d0>>
      OBVIOUS
    <3>3. e0 \in Events /\ d0 \in Events
      BY <3>1, <3>2
    <3> QED BY <3>3, InPair
  <2> DEFINE f == <<e0>>
             g == <<d0>>
  <2>4. Closing(f) /\ Closing(g) /\ AppendSuffix(tk, kind) = f \o g
    BY <2>1, <2>2, <2>3
  <2> HIDE DEF f, g
  <2> QED BY <2>4, ClosingJoined
<1> QED BY <1>3, <1>4

-----------------------------------------------------------------------------
(***************************************************************************)
(* Calls that are repaired.                                                *)
(***************************************************************************)

\* What is said to repair one block, and as a function on blocks.
Mended(bl) ==
    IF bl.kind = "tool_use" /\ ~Whole(bl.pieces)
    THEN <<DeltaEvent(bl.index, "tool_use", Rest(bl.pieces))>> ELSE <<>>
Mends == [bl \in TrackedBlocks |-> Mended(bl)]

\* The rest of the arguments.
LEMMA RestFacts ==
    ASSUME NEW pieces \in Seq(PieceType)
    PROVE  Rest(pieces) \in Seq(PieceType) /\ From(Rest(pieces), Own)
<1>1. Len(pieces) \in Nat
  OBVIOUS
<1>2. \A k \in 1 .. (2 - Len(pieces)) :
         Piece(Recovery, Len(pieces) + k) \in PieceType /\ Piece(Recovery, Len(pieces) + k).from = Recovery
  BY <1>1, OwnFacts DEF Piece, PieceType
<1> DEFINE L == IF Len(pieces) <= 2 THEN 2 - Len(pieces) ELSE 0
<1>3. L \in Nat /\ 1 .. (2 - Len(pieces)) = 1 .. L
  BY <1>1
<1> HIDE DEF L
<1> DEFINE f == [k \in 1 .. L |-> Piece(Recovery, Len(pieces) + k)]
<1>4. f \in Seq(PieceType) /\ From(f, Own)
  BY <1>2, <1>3 DEF From, Own
<1>5. Rest(pieces) = f
  BY <1>3 DEF Rest
<1> QED BY <1>4, <1>5

\* It gives that block the rest, and no other anything.
LEMMA MendedFacts ==
    ASSUME NEW bl \in TrackedBlocks
    PROVE  /\ Closing(Mended(bl))
           /\ \A i : CarriedIn(Mended(bl), i) = IF bl.kind = "tool_use" /\ ~Whole(bl.pieces) /\ bl.index = i
                                                THEN Rest(bl.pieces) ELSE <<>>
<1>1. CASE bl.kind = "tool_use" /\ ~Whole(bl.pieces)
  <2> DEFINE rest == Rest(bl.pieces)
             kind == "tool_use"
             index == bl.index
             d == DeltaEvent(index, kind, rest)
  <2>1. rest \in Seq(PieceType) /\ From(rest, Own) /\ index \in Nat /\ kind \in Kinds
    BY RestFacts DEF TrackedBlocks, Kinds
  <2> HIDE DEF rest, kind, index
  <2>2. d \in Events /\ d.t = "delta" /\ d.index = index /\ d.pieces = rest
    BY <2>1, MadeEvents
  <2> HIDE DEF d
  <2>3. Closing(<<d>>)
    BY <2>1, <2>2, ClosingOne
  <2>4. ASSUME NEW i PROVE CarriedIn(<<d>>, i) = IF index = i THEN rest ELSE <<>>
    <3>1. CarriedIn(Append(<<>>, d), i) = CarriedIn(<<>>, i) \o Gives(d, i) /\ CarriedIn(<<>>, i) = <<>>
      BY <2>2, EmptySeq, CarriedFacts
    <3>2. Append(<<>>, d) = <<d>>
      OBVIOUS
    <3>3. Gives(d, i) = IF index = i THEN rest ELSE <<>>
      BY <2>2 DEF Gives
    <3>4. Gives(d, i) \in Seq(PieceType)
      BY <2>2, CarriedIsEach
    <3>5. <<>> \o Gives(d, i) = Gives(d, i)
      BY <3>4, ConcatEmptySeq
    <3> QED BY <3>1, <3>2, <3>3, <3>5
  <2>5. Mended(bl) = <<d>>
    BY <1>1 DEF Mended, d, rest, kind, index
  <2> QED BY <1>1, <2>3, <2>4, <2>5 DEF rest, index
<1>2. CASE ~(bl.kind = "tool_use" /\ ~Whole(bl.pieces))
  <2>1. Mended(bl) = <<>>
    BY <1>2 DEF Mended
  <2>2. \A i : CarriedIn(<<>>, i) = <<>>
    BY EmptySeq, CarriedFacts
  <2> QED BY <1>2, <2>1, <2>2, ClosingNone
<1> QED BY <1>1, <1>2

\* The repairs of blocks, one after the other.
LEMMA RepairsUnfold ==
    ASSUME NEW bs \in Seq(TrackedBlocks), NEW bl \in TrackedBlocks
    PROVE  Repairs(<<>>) = <<>> /\ Repairs(Append(bs, bl)) = Repairs(bs) \o Mended(bl)
<1>1. Maps(Mends, TrackedBlocks, Events) /\ \A b \in TrackedBlocks : Mends[b] = Mended(b)
  <2>1. \A b \in TrackedBlocks : Mended(b) \in Seq(Events)
    BY MendedFacts DEF Closing
  <2> QED BY <2>1 DEF Maps, Mends
<1>2. \A u \in Seq(TrackedBlocks) : Repairs(u) = FlattenSeq(Each(u, Mends))
  <2> SUFFICES ASSUME NEW u \in Seq(TrackedBlocks) PROVE Repairs(u) = FlattenSeq(Each(u, Mends))
    OBVIOUS
  <2>1. \A k \in DOMAIN u : Mends[u[k]] = Mended(u[k])
    BY <1>1
  <2>2. [k \in DOMAIN u |-> IF u[k].kind = "tool_use" /\ ~Whole(u[k].pieces)
           THEN <<DeltaEvent(u[k].index, "tool_use", Rest(u[k].pieces))>> ELSE <<>>] = Each(u, Mends)
    BY <2>1 DEF Each, Mended
  <2> QED BY <2>2 DEF Repairs
<1>3. Append(bs, bl) \in Seq(TrackedBlocks) /\ <<>> \in Seq(TrackedBlocks)
  BY AppendProperties, EmptySeq
<1>4. FlattenSeq(Each(Append(bs, bl), Mends)) = FlattenSeq(Each(bs, Mends)) \o Mends[bl]
  BY <1>1, EachFacts
<1>5. FlattenSeq(Each(<<>>, Mends)) = <<>>
  BY EachOfEmpty, EmptySeq
<1> QED BY <1>1, <1>2, <1>3, <1>4, <1>5

\* Blocks that are numbered from 0.
Placed(bs) == \A k \in DOMAIN bs : bs[k].index = k - 1
Repaired(bs, i) ==
    CarriedIn(Repairs(bs), i) =
        IF i + 1 \in DOMAIN bs /\ bs[i + 1].kind = "tool_use" /\ ~Whole(bs[i + 1].pieces)
        THEN Rest(bs[i + 1].pieces) ELSE <<>>

\* Each call that is not whole gets the rest of its arguments, and no other block more.
LEMMA RepairsFacts ==
    \A bs \in Seq(TrackedBlocks) :
        Closing(Repairs(bs)) /\ (Placed(bs) => \A i \in Nat : Repaired(bs, i))
<1> DEFINE P == {bs \in Seq(TrackedBlocks) :
                    Closing(Repairs(bs)) /\ (Placed(bs) => \A i \in Nat : Repaired(bs, i))}
<1>1. <<>> \in P
  <2>1. Repairs(<<>>) = <<>>
    <3>1. \E bl : bl \in TrackedBlocks
      <4>1. [index |-> 0, kind |-> "text", named |-> TRUE, pieces |-> <<>>] \in TrackedBlocks
        BY EmptySeq DEF TrackedBlocks, Kinds
      <4> QED BY <4>1
    <3> QED BY <3>1, RepairsUnfold, EmptySeq
  <2>2. \A i : CarriedIn(<<>>, i) = <<>>
    BY EmptySeq, CarriedFacts
  <2>3. \A i \in Nat : Repaired(<<>>, i)
    BY <2>1, <2>2, EmptyDomain DEF Repaired
  <2> QED BY <2>1, <2>3, EmptySeq, ClosingNone
<1>2. ASSUME NEW s \in Seq(TrackedBlocks), NEW e \in TrackedBlocks, s \in P PROVE Append(s, e) \in P
  <2> DEFINE a == Append(s, e)
             L == Len(s)
  <2>1. /\ a \in Seq(TrackedBlocks) /\ L \in Nat /\ DOMAIN a = 1 .. (L + 1) /\ DOMAIN s = 1 .. L
        /\ a[L + 1] = e /\ \A k \in 1 .. L : a[k] = s[k]
    BY AppendProperties
  <2>2. L + 1 \in DOMAIN a /\ (L + 1) - 1 = L /\ \A k \in DOMAIN s : k \in DOMAIN a /\ a[k] = s[k]
    BY <2>1
  <2>3. Repairs(a) = Repairs(s) \o Mended(e)
    BY RepairsUnfold
  <2>4. Closing(Repairs(s)) /\ (Placed(s) => \A i \in Nat : Repaired(s, i))
    BY <1>2
  <2>5. Closing(Mended(e)) /\ \A i : CarriedIn(Mended(e), i) =
             IF e.kind = "tool_use" /\ ~Whole(e.pieces) /\ e.index = i THEN Rest(e.pieces) ELSE <<>>
    BY MendedFacts
  <2> HIDE DEF a, L
  <2>6. Closing(Repairs(a))
    BY <2>3, <2>4, <2>5, ClosingJoined
  <2>7. ASSUME Placed(a), NEW i \in Nat PROVE Repaired(a, i)
    <3>1. Placed(s) /\ e.index = L
      BY <2>1, <2>2, <2>7 DEF Placed
    <3>2. Repaired(s, i)
      BY <2>4, <3>1
    <3> DEFINE x == Repairs(s)
               y == Mended(e)
    <3>3. x \in Seq(Events) /\ y \in Seq(Events)
      BY <2>4, <2>5 DEF Closing
    <3>4. CarriedIn(Repairs(a), i) = CarriedIn(x, i) \o CarriedIn(y, i)
      BY <2>3, <3>3, CarriedConcat
    <3>5. CarriedIn(x, i) \in Seq(PieceType) /\ CarriedIn(y, i) \in Seq(PieceType)
      BY <3>3, CarriedFacts
    <3>6. CASE i = L
      <4>1. i + 1 \notin DOMAIN s /\ i + 1 \in DOMAIN a /\ a[i + 1] = e
        BY <2>1, <2>2, <3>6
      <4>2. CarriedIn(x, i) = <<>>
        BY <3>2, <4>1 DEF Repaired
      <4>3. CarriedIn(Repairs(a), i) = CarriedIn(y, i)
        BY <3>4, <3>5, <4>2, ConcatEmptySeq
      <4> QED BY <2>5, <3>1, <3>6, <4>1, <4>3 DEF Repaired
    <3>7. CASE i # L
      <4>1. CarriedIn(y, i) = <<>>
        BY <2>5, <3>1, <3>7
      <4>2. CarriedIn(Repairs(a), i) = CarriedIn(x, i)
        BY <3>4, <3>5, <4>1, ConcatEmptySeq
      <4>3. (i + 1 \in DOMAIN a) <=> (i + 1 \in DOMAIN s)
        BY <2>1, <3>7
      <4>4. i + 1 \in DOMAIN s => a[i + 1] = s[i + 1]
        BY <2>2
      <4> HIDE DEF x
      <4>5. CarriedIn(x, i) =
               IF i + 1 \in DOMAIN s /\ s[i + 1].kind = "tool_use" /\ ~Whole(s[i + 1].pieces)
               THEN Rest(s[i + 1].pieces) ELSE <<>>
        BY <3>2 DEF Repaired, x
      <4> QED BY <4>2, <4>3, <4>4, <4>5 DEF Repaired
    <3> QED BY <3>6, <3>7
  <2> QED BY <2>1, <2>6, <2>7 DEF a
<1>3. \A bs \in Seq(TrackedBlocks) : bs \in P
  <2> HIDE DEF P
  <2> QED BY <1>1, <1>2, SequenceInduction
<1> QED BY <1>3

-----------------------------------------------------------------------------
(***************************************************************************)
(* The ends of a stream.                                                   *)
(***************************************************************************)

\* Two pieces in order are whole arguments.
LEMMA InOrderWhole ==
    ASSUME NEW w \in Seq(PieceType), Len(w) = 2, \A k \in 1 .. 2 : w[k].n = k
    PROVE  Whole(w)
<1> DEFINE f == [k \in 1 .. 2 |-> k]
           g == <<1, 2>>
<1>1. DOMAIN w = 1 .. 2
  OBVIOUS
<1>2. Numbers(w) = f
  BY <1>1 DEF Numbers
<1>3. f \in Seq(Nat) /\ Len(f) = 2 /\ \A k \in 1 .. 2 : f[k] = k
  OBVIOUS
<1>4. g \in Seq(Nat) /\ Len(g) = 2 /\ g[1] = 1 /\ g[2] = 2
  OBVIOUS
<1> HIDE DEF f, g
<1>5. \A k \in 1 .. 2 : f[k] = g[k]
  BY <1>3, <1>4
<1>6. f = g
  BY <1>3, <1>4, <1>5, SeqEqual
<1> QED BY <1>2, <1>6 DEF Whole, g

\* What the provider gave of a call, with the rest if it is not whole.
LEMMA GivenWhole ==
    ASSUME NEW a \in Nat, NEW n \in 0 .. 2
    PROVE  /\ n = 2 => Whole(Given(a, n))
           /\ Whole(Given(a, n) \o Rest(Given(a, n)))
<1> DEFINE x == Given(a, n)
           r == Rest(x)
           w == x \o r
<1>0. n \in Nat
  OBVIOUS
<1>1. x \in Seq(PieceType) /\ DOMAIN x = 1 .. n /\ \A k \in 1 .. n : x[k].n = k
  <2>1. x \in Seq(PieceType) /\ DOMAIN x = 1 .. n
    BY <1>0, GivenFacts
  <2>2. \A k \in 1 .. n : x[k].n = k
    BY DEF Given, Piece
  <2> QED BY <2>1, <2>2
<1>2. r \in Seq(PieceType)
  BY <1>1, RestFacts
<1>3. Len(x) = n
  BY <1>0 DEF Given
<1> HIDE DEF x
<1>4. Len(r) = 2 - n /\ \A k \in 1 .. (2 - n) : r[k].n = n + k
  <2>1. r = [k \in 1 .. (2 - n) |-> [from |-> Recovery, n |-> n + k]]
    BY <1>3 DEF Rest, Piece
  <2>2. 2 - n \in Nat
    OBVIOUS
  <2> QED BY <2>1, <2>2
<1> HIDE DEF r
<1>5. /\ w \in Seq(PieceType) /\ Len(w) = 2
      /\ \A k \in 1 .. 2 : w[k] = IF k <= n THEN x[k] ELSE r[k - n]
  <2>1. Len(x) + Len(r) = 2
    BY <1>3, <1>4
  <2> QED BY <1>1, <1>2, <1>3, <2>1, ConcatProperties
<1>6. \A k \in 1 .. 2 : w[k].n = k
  <2> SUFFICES ASSUME NEW k \in 1 .. 2 PROVE w[k].n = k
    OBVIOUS
  <2>1. CASE k <= n
    BY <1>0, <1>1, <1>5, <2>1
  <2>2. CASE ~(k <= n)
    <3>1. k - n \in 1 .. (2 - n) /\ n + (k - n) = k
      BY <1>0, <2>2
    <3> QED BY <1>4, <1>5, <2>2, <3>1
  <2> QED BY <2>1, <2>2
<1> HIDE DEF w
<1>7. Whole(w)
  BY <1>5, <1>6, InOrderWhole
<1>8. n = 2 => Whole(x)
  BY <1>1, <1>3, InOrderWhole
<1> QED BY <1>7, <1>8 DEF x, r, w

\* Of which block the start of a call is, in an attempt that runs.
LEMMA StartOfCall ==
    ASSUME NEW E \in Seq(Events), NEW bs \in Seq(TrackedBlocks), Noted(E, bs),
           NEW n \in DOMAIN E, E[n].t = "start"
    PROVE  /\ E[n].index \in Nat /\ E[n].index < Len(bs) /\ E[n].index + 1 \in DOMAIN bs
           /\ E[n].kind = bs[E[n].index + 1].kind
<1>1. E[n] \in StartEvents
  <2>1. E[n] \in Events
    OBVIOUS
  <2> QED BY <2>1, EventFacts
<1>2. E[n].index \in Nat
  BY <1>1 DEF StartEvents
<1>3. E[n].index < Len(bs) /\ E[n].kind = bs[E[n].index + 1].kind
  BY DEF Noted
<1> QED BY <1>2, <1>3

\* A stream that ended with a message_stop.
LEMMA CompleteRight ==
    ASSUME NEW up, NEW p, NEW tk, NEW E, NEW a \in 0 .. MaxRetries, NEW own, NEW enabled,
           Live(up, p, tk, E, a, own, enabled), tk.stopped
    PROVE  E \in Seq(Events) /\ Right(E, a, own, TRUE)
<1>1. a \in Nat
  BY OwnFacts
<1>2. /\ E \in Seq(Events) /\ Clean(E, {a}) /\ (own => Counted(E, a))
      /\ tk.blocks \in Seq(TrackedBlocks) /\ Noted(E, tk.blocks)
      /\ own => Sources(up, tk.blocks, E, a)
  BY <1>1, LiveCounts
<1>3. Right(E, a, own, FALSE)
  <2> DEFINE none == <<>>
  <2>1. Closing(none)
    BY ClosingNone
  <2> HIDE DEF none
  <2>2. Right(E \o none, a, own, FALSE)
    BY <1>2, <2>1, EndCounts
  <2>3. E \o none = E
    BY <1>2, ConcatEmptySeq DEF none
  <2> QED BY <2>2, <2>3
<1>4. Regular(up) /\ AllClosed(up)
  BY DEF Live, AtEnd
<1>5. ASSUME own, NEW n \in DOMAIN E, E[n].t = "start", E[n].kind = "tool_use"
      PROVE  Whole(CarriedIn(E, E[n].index))
  <2> DEFINE i == E[n].index
  <2>1. i \in Nat /\ i < Len(tk.blocks) /\ E[n].kind = tk.blocks[i + 1].kind
    BY <1>2, <1>5, StartOfCall
  <2> HIDE DEF i
  <2>2. PICK u \in DOMAIN up.blocks :
                /\ tk.blocks[i + 1].kind = up.blocks[u].kind
                /\ up.blocks[u].pieces \in 0 .. 2
                /\ CarriedIn(E, i) = Given(a, up.blocks[u].pieces)
    BY <1>2, <1>5, <2>1 DEF Sources
  <2>3. up.blocks[u].pieces = 2
    BY <1>4, <1>5, <2>1, <2>2 DEF Regular, AllClosed
  <2> DEFINE m == up.blocks[u].pieces
  <2>4. m \in 0 .. 2 /\ m = 2 /\ CarriedIn(E, i) = Given(a, m)
    BY <2>2, <2>3
  <2> HIDE DEF m
  <2>5. Whole(Given(a, m))
    BY <1>1, <2>4, GivenWhole
  <2> QED BY <2>4, <2>5 DEF i
<1> QED BY <1>2, <1>3, <1>5, EndWell

\* Calls that were repaired.
LEMMA CallsRight ==
    ASSUME NEW up, NEW p, NEW tk, NEW E, NEW a \in 0 .. MaxRetries, NEW own, NEW enabled,
           Live(up, p, tk, E, a, own, enabled), NEW T, T = Repairs(tk.blocks) \o SuccessTail(tk)
    PROVE  E \o T \in Seq(Events) /\ Right(E \o T, a, own, TRUE)
<1> DEFINE F == E \o T
           bs == tk.blocks
           R == Repairs(bs)
           S == SuccessTail(tk)
<1>1. a \in Nat
  BY OwnFacts
<1>2. /\ E \in Seq(Events) /\ Clean(E, {a}) /\ (own => Counted(E, a))
      /\ tk \in Trackers /\ bs \in Seq(TrackedBlocks) /\ Noted(E, bs)
  BY <1>1, LiveCounts
<1>3. Closing(R) /\ \A i \in Nat : Repaired(bs, i)
  <2>1. Placed(bs)
    BY <1>2 DEF Noted, Placed
  <2> QED BY <1>2, <2>1, RepairsFacts
<1>4. Closing(S) /\ \A i : CarriedIn(S, i) = <<>>
  BY <1>2, ClosingSuccess
<1> HIDE DEF R, S
<1>5. T = R \o S /\ Closing(T)
  <2>1. Closing(R \o S)
    BY <1>3, <1>4, ClosingJoined
  <2> QED BY <2>1 DEF R, S
<1>6. F \in Seq(Events) /\ Right(F, a, own, FALSE)
  BY <1>2, <1>5, EndCounts
<1>7. ASSUME NEW i \in Nat PROVE CarriedIn(F, i) = CarriedIn(E, i) \o CarriedIn(R, i)
  <2>1. /\ T \in Seq(Events) /\ R \in Seq(Events) /\ S \in Seq(Events)
    BY <1>3, <1>4, <1>5 DEF Closing
  <2>2. CarriedIn(F, i) = CarriedIn(E, i) \o CarriedIn(T, i)
    BY <1>2, <2>1, CarriedConcat
  <2>3. CarriedIn(T, i) = CarriedIn(R, i) \o CarriedIn(S, i)
    BY <1>5, <2>1, CarriedConcat
  <2>4. CarriedIn(R, i) \in Seq(PieceType)
    BY <2>1, CarriedFacts
  <2>5. CarriedIn(T, i) = CarriedIn(R, i)
    BY <1>4, <2>3, <2>4, ConcatEmptySeq
  <2> QED BY <2>2, <2>5
<1>8. \A n \in DOMAIN F : (n \in DOMAIN E /\ F[n] = E[n]) \/ \E m \in DOMAIN T : F[n] = T[m]
  <2>1. T \in Seq(Events)
    BY <1>5 DEF Closing
  <2> QED BY <1>2, <2>1, JoinedFacts
<1> HIDE DEF F
<1>9. ASSUME own, NEW n \in DOMAIN F, F[n].t = "start", F[n].kind = "tool_use"
      PROVE  Whole(CarriedIn(F, F[n].index))
  <2> DEFINE i == F[n].index
  <2>1. n \in DOMAIN E /\ F[n] = E[n]
    BY <1>5, <1>8, <1>9 DEF Closing
  <2>2. i \in Nat /\ i + 1 \in DOMAIN bs /\ bs[i + 1].kind = "tool_use"
    <3> HIDE DEF bs
    <3> QED BY <1>2, <1>9, <2>1, StartOfCall
  <2> HIDE DEF i
  <2>3. PICK m \in 0 .. 2 : CarriedIn(E, i) = Given(a, m)
    BY <1>2, <1>9, <2>2 DEF Counted
  <2>4. bs[i + 1].pieces = CarriedIn(E, i)
    <3>1. (i + 1) - 1 = i
      BY <2>2
    <3> QED BY <1>2, <2>2, <3>1 DEF Noted
  <2>5. CarriedIn(R, i) = IF ~Whole(Given(a, m)) THEN Rest(Given(a, m)) ELSE <<>>
    <3>1. Repaired(bs, i)
      BY <1>3, <2>2
    <3> QED BY <2>2, <2>3, <2>4, <3>1 DEF Repaired, R
  <2>6. CASE Whole(Given(a, m))
    <3>1. CarriedIn(E, i) \in Seq(PieceType)
      BY <1>2, CarriedFacts
    <3>2. CarriedIn(F, i) = CarriedIn(E, i) \o <<>>
      BY <1>7, <2>2, <2>5, <2>6
    <3>3. CarriedIn(F, i) = Given(a, m)
      BY <2>3, <3>1, <3>2, ConcatEmptySeq
    <3> QED BY <2>6, <3>3 DEF i
  <2>7. CASE ~Whole(Given(a, m))
    <3>1. CarriedIn(F, i) = Given(a, m) \o Rest(Given(a, m))
      BY <1>7, <2>2, <2>3, <2>5, <2>7
    <3>2. Whole(Given(a, m) \o Rest(Given(a, m)))
      BY <1>1, GivenWhole
    <3> QED BY <3>1, <3>2 DEF i
  <2> QED BY <2>6, <2>7
<1>10. Right(F, a, own, TRUE)
  BY <1>6, <1>9, EndWell
<1> QED BY <1>6, <1>10 DEF F

\* An answer without calls.
LEMMA TextRight ==
    ASSUME NEW up, NEW p, NEW tk, NEW E, NEW a \in 0 .. MaxRetries, NEW own, NEW enabled,
           Live(up, p, tk, E, a, own, enabled), BlocksOf(tk, "tool_use") = {}, NEW T, Closing(T)
    PROVE  E \o T \in Seq(Events) /\ Right(E \o T, a, own, TRUE)
<1> DEFINE F == E \o T
           bs == tk.blocks
<1>1. a \in Nat
  BY OwnFacts
<1>2. /\ E \in Seq(Events) /\ Clean(E, {a}) /\ (own => Counted(E, a))
      /\ bs \in Seq(TrackedBlocks) /\ Noted(E, bs)
  BY <1>1, LiveCounts
<1>3. F \in Seq(Events) /\ Right(F, a, own, FALSE)
  BY <1>2, EndCounts
<1>4. \A n \in DOMAIN F : (n \in DOMAIN E /\ F[n] = E[n]) \/ \E m \in DOMAIN T : F[n] = T[m]
  <2>1. T \in Seq(Events)
    BY DEF Closing
  <2> QED BY <1>2, <2>1, JoinedFacts
<1>5. \A k \in DOMAIN bs : bs[k].kind # "tool_use"
  BY DEF BlocksOf, ToSet
<1> HIDE DEF F
<1>6. ASSUME NEW n \in DOMAIN F, F[n].t = "start", F[n].kind = "tool_use" PROVE FALSE
  <2>1. n \in DOMAIN E /\ F[n] = E[n]
    BY <1>4, <1>6 DEF Closing
  <2> HIDE DEF bs
  <2> QED BY <1>2, <1>5, <1>6, <2>1, StartOfCall
<1>7. Right(F, a, own, TRUE)
  BY <1>3, <1>6, EndWell
<1> QED BY <1>3, <1>7 DEF F

\* What a stream that is over must be.
LEMMA Ends ==
    ASSUME StreamInv, phase' \in Ended, UNCHANGED <<thinking, router, tracker, retries>>,
           sent' \in Seq(Events), held' \in Seq(Events), committed' \in BOOLEAN,
           committed' => held' = <<>>,
           Right(sent', retries, "returned" \notin quirks', phase' \in {"completed", "recovered"})
    PROVE  StreamInv'
<1>1. AnswerOfOneAttempt'
  <2> DEFINE F == sent'
  <2>1. \A n \in DOMAIN F : F[n].t = "delta" =>
           \A p \in ToSet(F[n].pieces) : p.from \in {retries, Recovery, Report}
    BY DEF Right, From, ToSet
  <2>2. "returned" \notin quirks' => \A n \in DOMAIN F : F[n].t = "start" =>
           LET own == Only(CarriedIn(F, F[n].index), OfAttempt(retries))
           IN  /\ Numbers(own) = [k \in DOMAIN own |-> k]
               /\ phase' \in {"completed", "recovered"} /\ F[n].kind = "tool_use"
                      => Whole(CarriedIn(F, F[n].index))
    BY DEF Right
  <2>3. \A ev \in ToSet(F) : \E n \in DOMAIN F : ev = F[n]
    BY DEF ToSet
  <2>4. retries' = retries
    OBVIOUS
  <2> HIDE DEF F
  <2>5. \A ev \in ToSet(F) : ev.t = "delta" =>
           \A p \in ToSet(ev.pieces) : p.from \in {retries, Recovery, Report}
    BY <2>1, <2>3
  <2>6. "returned" \notin quirks' => \A ev \in ToSet(F) : ev.t = "start" =>
           LET own == Only(CarriedIn(F, ev.index), OfAttempt(retries))
           IN  /\ Numbers(own) = [k \in DOMAIN own |-> k]
               /\ phase' \in {"completed", "recovered"} /\ ev.kind = "tool_use"
                      => Whole(CarriedIn(F, ev.index))
    BY <2>2, <2>3
  <2> QED BY <2>4, <2>5, <2>6 DEF AnswerOfOneAttempt, Carried, F
<1>2. StreamTypes'
  BY DEF StreamInv, StreamTypes
<1>3. phase' # "opening" /\ phase' \notin {"reading", "recovering"}
  BY DEF Ended
<1> QED BY <1>1, <1>2, <1>3 DEF StreamInv

\* What the stream is while the attempt runs.
LEMMA RunsWith ==
    ASSUME StreamInv, phase \in {"reading", "recovering"}
    PROVE  /\ Live(upstream, policy, tracker, Yielded, retries, "returned" \notin quirks, thinking)
           /\ retries \in 0 .. MaxRetries /\ retries \in Nat /\ tracker \in Trackers
           /\ sent \in Seq(Events) /\ held \in Seq(Events) /\ Yielded \in Seq(Events)
           /\ committed \in BOOLEAN /\ (committed => held = <<>>) /\ (~committed => sent = <<>>)
<1>1. phase \notin Ended
  BY DEF Ended
<1>2. retries \in Nat
  BY OwnFacts DEF StreamInv, StreamTypes
<1>3. sent \o held \in Seq(Events)
  BY ConcatProperties DEF StreamInv, StreamTypes
<1> QED BY <1>1, <1>2, <1>3 DEF StreamInv, StreamTypes, LiveInv, Yielded

\* The message is over.
LEMMA CompleteKeeps == StreamInv /\ Complete => StreamInv'
<1> SUFFICES ASSUME StreamInv, Complete PROVE StreamInv'
  OBVIOUS
<1> DEFINE E == Yielded
           own == "returned" \notin quirks
           yes == TRUE
           none == <<>>
<1>1. /\ phase = "reading" /\ tracker.stopped /\ sent' = E /\ held' = none /\ committed' = yes
      /\ phase' = "completed" /\ UNCHANGED <<thinking, router, tracker, retries>>
      /\ quirks' = quirks
  BY DEF Complete, Flushed, Yielded
<1>2. /\ Live(upstream, policy, tracker, E, retries, own, thinking) /\ retries \in 0 .. MaxRetries
  BY <1>1, RunsWith
<1> HIDE DEF E, own
<1>3. E \in Seq(Events) /\ Right(E, retries, own, TRUE)
  BY <1>1, <1>2, CompleteRight
<1>4. phase' \in Ended /\ (phase' \in {"completed", "recovered"}) = TRUE
      /\ ("returned" \notin quirks') = own
  BY <1>1 DEF Ended, own
<1>5. none \in Seq(Events) /\ yes \in BOOLEAN
  BY EmptySeq
<1>6. Right(sent', retries, "returned" \notin quirks', phase' \in {"completed", "recovered"})
  BY <1>1, <1>3, <1>4
<1> QED BY <1>1, <1>3, <1>4, <1>5, <1>6, Ends

\* The stream ends with an error.
LEMMA ErrorKeeps ==
    ASSUME StreamInv, phase \in {"reading", "recovering"}, EndWithError,
           UNCHANGED <<thinking, router>>, "returned" \notin quirks' => "returned" \notin quirks
    PROVE  StreamInv'
<1> DEFINE E == Yielded
           own == "returned" \notin quirks
           own2 == "returned" \notin quirks'
<1>1. /\ Live(upstream, policy, tracker, E, retries, own, thinking)
      /\ retries \in 0 .. MaxRetries /\ retries \in Nat /\ tracker \in Trackers
      /\ sent \in Seq(Events) /\ held \in Seq(Events) /\ E \in Seq(Events)
      /\ committed \in BOOLEAN /\ (committed => held = <<>>) /\ (~committed => sent = <<>>)
  BY RunsWith
<1>2. own2 => own
  OBVIOUS
<1>3. phase' = "failed" /\ UNCHANGED <<tracker, retries>> /\ phase' \in Ended
      /\ phase' \notin {"completed", "recovered"}
  BY DEF EndWithError, Ended
<1>4. /\ Clean(E, {retries}) /\ (own2 => Counted(E, retries))
  <2> HIDE DEF E, own
  <2>1. Clean(E, {retries}) /\ (own => Counted(E, retries))
    BY <1>1, LiveCounts
  <2> QED BY <1>2, <2>1
<1>5. Closing(ErrorTail(tracker)) /\ Closing(WholeError)
  BY <1>1, ClosingErrorTail
<1> DEFINE T == ErrorTail(tracker)
           W == WholeError
<1> HIDE DEF T, W, own2, own
<1>6. /\ E \o T \in Seq(Events) /\ Right(E \o T, retries, own2, FALSE)
      /\ E \o W \in Seq(Events) /\ Right(E \o W, retries, own2, FALSE)
  <2>1. Closing(T) /\ Closing(W)
    BY <1>5 DEF T, W
  <2> HIDE DEF E
  <2> QED BY <1>1, <1>4, <2>1, EndCounts
<1>7. /\ sent' \in Seq(Events) /\ Right(sent', retries, own2, FALSE)
      /\ held' \in Seq(Events) /\ committed' \in BOOLEAN /\ (committed' => held' = <<>>)
  <2>1. CASE committed \/ held # <<>>
    <3>1. sent' = E \o T /\ held' = <<>> /\ committed' = TRUE
      BY <2>1 DEF EndWithError, Flushed, Yielded, T
    <3> HIDE DEF E
    <3> QED BY <1>6, <3>1, EmptySeq
  <2>2. CASE ~(committed \/ held # <<>>)
    <3>1. sent' = W /\ held' = held /\ committed' = committed
      BY <2>2 DEF EndWithError, W
    <3>2. sent = <<>> /\ held = <<>>
      BY <1>1, <2>2
    <3>3. E = <<>>
      BY <1>1, <3>2, ConcatEmptySeq DEF Yielded
    <3>4. W \in Seq(Events)
      BY <1>5 DEF Closing, W
    <3>5. E \o W = W
      BY <3>3, <3>4, ConcatEmptySeq
    <3> HIDE DEF E
    <3> QED BY <1>1, <1>6, <3>1, <3>5
  <2> QED BY <2>1, <2>2
<1>8. (phase' \in {"completed", "recovered"}) = FALSE /\ ("returned" \notin quirks') = own2
  BY <1>3 DEF own2
<1>9. Right(sent', retries, "returned" \notin quirks', phase' \in {"completed", "recovered"})
  BY <1>7, <1>8
<1> QED BY <1>3, <1>7, <1>9, Ends

\* Calls are repaired.
LEMMA CallsKeep == StreamInv /\ RecoverCalls => StreamInv'
<1> SUFFICES ASSUME StreamInv, RecoverCalls PROVE StreamInv'
  OBVIOUS
<1> DEFINE E == Yielded
           own == "returned" \notin quirks
           R == Repairs(tracker.blocks)
           S == SuccessTail(tracker)
           T == R \o S
<1>1. /\ phase = "recovering" /\ sent' = (E \o R) \o S /\ held' = <<>> /\ committed' = TRUE
      /\ phase' = "recovered" /\ UNCHANGED <<thinking, router, tracker, retries>>
      /\ quirks' = quirks
  BY DEF RecoverCalls, Flushed, Yielded
<1>2. /\ Live(upstream, policy, tracker, E, retries, own, thinking) /\ retries \in 0 .. MaxRetries
      /\ E \in Seq(Events) /\ tracker \in Trackers /\ tracker.blocks \in Seq(TrackedBlocks)
  BY <1>1, RunsWith DEF Trackers
<1>3. R \in Seq(Events) /\ S \in Seq(Events)
  <2>1. Closing(R) /\ Closing(S)
    BY <1>2, RepairsFacts, ClosingSuccess
  <2> QED BY <2>1 DEF Closing
<1> HIDE DEF E, own
<1>4. E \o T \in Seq(Events) /\ Right(E \o T, retries, own, TRUE)
  <2>1. T = Repairs(tracker.blocks) \o SuccessTail(tracker)
    OBVIOUS
  <2> HIDE DEF T
  <2> QED BY <1>2, <2>1, CallsRight
<1>5. sent' = E \o T
  <2>1. ASSUME NEW x \in Seq(Events), NEW y \in Seq(Events), NEW z \in Seq(Events)
        PROVE  (x \o y) \o z = x \o (y \o z)
    BY ConcatAssociative
  <2> HIDE DEF R, S
  <2> QED BY <1>1, <1>2, <1>3, <2>1
<1>6. phase' \in Ended /\ (phase' \in {"completed", "recovered"}) = TRUE
      /\ ("returned" \notin quirks') = own
  BY <1>1 DEF Ended, own
<1>7. held' \in Seq(Events) /\ committed' \in BOOLEAN /\ (committed' => held' = <<>>)
  BY <1>1, EmptySeq
<1> HIDE DEF T
<1>8. Right(sent', retries, "returned" \notin quirks', phase' \in {"completed", "recovered"})
  BY <1>4, <1>5, <1>6
<1>9. sent' \in Seq(Events)
  BY <1>4, <1>5
<1> QED BY <1>1, <1>6, <1>7, <1>8, <1>9, Ends

\* The answer is continued.
LEMMA TextKeeps ==
    ASSUME StreamInv, NEW kinds \in SUBSET {"text", "thinking"}, RecoverText(kinds)
    PROVE  StreamInv'
<1> DEFINE E == Yielded
           own == "returned" \notin quirks
           thought == IF "thinking" \in kinds THEN AppendSuffix(tracker, "thinking") ELSE <<>>
           then == ObserveAll(tracker, thought)
           told == IF "text" \in kinds THEN AppendSuffix(then, "text") ELSE <<>>
           S == SuccessTail(ObserveAll(then, told))
           T == thought \o (told \o S)
<1>1. /\ phase = "recovering" /\ sent' = ((E \o thought) \o told) \o S /\ held' = <<>> /\ committed' = TRUE
      /\ phase' = "recovered" /\ UNCHANGED <<thinking, router, tracker, retries>>
      /\ quirks' = quirks /\ BlocksOf(tracker, "tool_use") = {}
  BY DEF RecoverText, Flushed, Yielded
<1>2. /\ Live(upstream, policy, tracker, E, retries, own, thinking) /\ retries \in 0 .. MaxRetries
      /\ E \in Seq(Events) /\ tracker \in Trackers
  BY <1>1, RunsWith
<1> HIDE DEF E, own
<1> DEFINE k1 == "thinking"
           k2 == "text"
<1>3. k1 \in Kinds \ {"tool_use"} /\ k2 \in Kinds \ {"tool_use"}
  BY DEF Kinds
<1>4. Closing(thought)
  <2> HIDE DEF k1
  <2>1. Closing(AppendSuffix(tracker, k1))
    BY <1>2, <1>3, ClosingSuffix
  <2> QED BY <2>1, ClosingNone DEF k1
<1> HIDE DEF thought
<1>5. then \in Trackers
  BY <1>2, <1>4, ObserveAllFacts DEF Closing
<1> HIDE DEF then
<1>6. Closing(told)
  <2> HIDE DEF k2
  <2>1. Closing(AppendSuffix(then, k2))
    BY <1>3, <1>5, ClosingSuffix
  <2> QED BY <2>1, ClosingNone DEF k2
<1> HIDE DEF told
<1>7. Closing(S)
  <2> DEFINE last == ObserveAll(then, told)
  <2>1. last \in Trackers
    BY <1>5, <1>6, ObserveAllFacts DEF Closing
  <2> HIDE DEF last
  <2>2. Closing(SuccessTail(last))
    BY <2>1, ClosingSuccess
  <2> QED BY <2>2 DEF last
<1> HIDE DEF S
<1>8. Closing(T) /\ Closing(told \o S)
  BY <1>4, <1>6, <1>7, ClosingJoined
<1>9. sent' = E \o T
  <2>1. ASSUME NEW x \in Seq(Events), NEW y \in Seq(Events), NEW z \in Seq(Events)
        PROVE  (x \o y) \o z = x \o (y \o z) /\ x \o y \in Seq(Events)
    BY ConcatAssociative, ConcatProperties
  <2>2. thought \in Seq(Events) /\ told \in Seq(Events) /\ S \in Seq(Events) /\ told \o S \in Seq(Events)
    BY <1>4, <1>6, <1>7, <1>8 DEF Closing
  <2>3. E \o thought \in Seq(Events)
    BY <1>2, <2>1, <2>2
  <2>4. ((E \o thought) \o told) \o S = (E \o thought) \o (told \o S)
    BY <2>1, <2>2, <2>3
  <2>5. (E \o thought) \o (told \o S) = E \o (thought \o (told \o S))
    BY <1>2, <2>1, <2>2
  <2> QED BY <1>1, <2>4, <2>5
<1> HIDE DEF T
<1>10. E \o T \in Seq(Events) /\ Right(E \o T, retries, own, TRUE)
  BY <1>1, <1>2, <1>8, TextRight
<1>11. phase' \in Ended /\ (phase' \in {"completed", "recovered"}) = TRUE
      /\ ("returned" \notin quirks') = own
  BY <1>1 DEF Ended, own
<1>12. held' \in Seq(Events) /\ committed' \in BOOLEAN /\ (committed' => held' = <<>>)
  BY <1>1, EmptySeq
<1>13. Right(sent', retries, "returned" \notin quirks', phase' \in {"completed", "recovered"})
  BY <1>9, <1>10, <1>11
<1>14. sent' \in Seq(Events)
  BY <1>9, <1>10
<1> QED BY <1>1, <1>11, <1>12, <1>13, <1>14, Ends

\* Nothing at all, and the whole message of an error.
LEMMA BareRight ==
    ASSUME NEW a \in 0 .. MaxRetries, NEW own
    PROVE  Right(<<>>, a, own, FALSE) /\ Right(WholeError, a, own, FALSE) /\ WholeError \in Seq(Events)
<1> DEFINE none == <<>>
           W == WholeError
<1>1. none \in Seq(Events) /\ Clean(none, {a}) /\ Closing(none)
  BY EmptySeq, EmptyDomain, ClosingNone DEF Clean
<1>2. Counted(none, a)
  <2>1. \A i : CarriedIn(<<>>, i) = <<>>
    BY EmptySeq, CarriedFacts
  <2> DEFINE n == 0
  <2>2. n \in Nat /\ a \in Nat /\ n \in 0 .. 2
    BY OwnFacts
  <2>3. Given(a, 0) = <<>>
    <3> HIDE DEF n
    <3> QED BY <2>2, GivenFacts
  <2> QED BY <2>1, <2>2, <2>3 DEF Counted
<1>3. Closing(W)
  <2>1. NewTracker \in Trackers
    BY EmptySeq DEF NewTracker, Trackers
  <2> QED BY <2>1, ClosingErrorTail
<1> HIDE DEF none, W
<1>4. Right(none \o none, a, own, FALSE) /\ Right(none \o W, a, own, FALSE)
  BY <1>1, <1>2, <1>3, EndCounts
<1>5. none \o none = none /\ none \o W = W /\ W \in Seq(Events)
  BY <1>1, <1>3, ConcatEmptySeq DEF none, Closing
<1> QED BY <1>4, <1>5 DEF none, W

\* What the client has, is right, while the attempt runs.
LEMMA SentRight ==
    ASSUME StreamInv, phase \notin Ended
    PROVE  /\ Right(sent, retries, "returned" \notin quirks, FALSE)
           /\ committed => held = <<>>
           /\ ~committed => sent = <<>>
<1> DEFINE E == Yielded
           own == "returned" \notin quirks
<1>1. /\ sent \in Seq(Events) /\ retries \in 0 .. MaxRetries
      /\ committed => held = <<>>
      /\ ~committed => sent = <<>>
      /\ phase \in {"opening", "reading", "recovering"}
  BY DEF StreamInv, StreamTypes
<1> HIDE DEF own
<1>2. CASE sent = <<>>
  BY <1>1, <1>2, BareRight DEF own
<1>3. CASE sent # <<>>
  <2>1. committed /\ phase \in {"reading", "recovering"}
    BY <1>1, <1>3 DEF StreamInv
  <2>2. E = sent
    BY <1>1, <2>1, ConcatEmptySeq DEF Yielded
  <2>3. /\ Live(upstream, policy, tracker, E, retries, own, thinking) /\ retries \in Nat
    BY <2>1, RunsWith DEF own
  <2> HIDE DEF E
  <2>4. E \in Seq(Events) /\ Clean(E, {retries}) /\ (own => Counted(E, retries))
    BY <2>3, LiveCounts
  <2> DEFINE none == <<>>
  <2>5. Closing(none)
    BY ClosingNone
  <2> HIDE DEF none
  <2>6. Right(E \o none, retries, own, FALSE)
    BY <1>1, <2>4, <2>5, EndCounts
  <2>7. E \o none = E
    BY <2>4, ConcatEmptySeq DEF none
  <2> QED BY <1>1, <2>2, <2>6, <2>7 DEF own
<1> QED BY <1>1, <1>2, <1>3

\* The client leaves, or no stream is opened.
LEMMA LeaveKeeps == StreamInv /\ Leave => StreamInv'
<1> SUFFICES ASSUME StreamInv, Leave PROVE StreamInv'
  OBVIOUS
<1>1. /\ phase \notin Ended /\ phase' = "gone"
      /\ UNCHANGED <<thinking, router, tracker, retries, held, committed, sent, quirks>>
  BY DEF Leave, Ended
<1>2. /\ Right(sent, retries, "returned" \notin quirks, FALSE)
      /\ committed => held = <<>>
  BY <1>1, SentRight
<1>3. sent \in Seq(Events) /\ held \in Seq(Events) /\ committed \in BOOLEAN
  BY DEF StreamInv, StreamTypes
<1>4. phase' \in Ended /\ (phase' \in {"completed", "recovered"}) = FALSE
  BY <1>1 DEF Ended
<1>5. Right(sent', retries, "returned" \notin quirks', phase' \in {"completed", "recovered"})
  BY <1>1, <1>2, <1>4
<1> QED BY <1>1, <1>2, <1>3, <1>4, <1>5, Ends

\* No stream is opened.
LEMMA OpenFailsKeeps == StreamInv /\ OpenFails => StreamInv'
<1> SUFFICES ASSUME StreamInv, OpenFails PROVE StreamInv'
  OBVIOUS
<1>1. /\ sent' = WholeError /\ phase' = "failed"
      /\ UNCHANGED <<thinking, router, tracker, retries, held, committed, quirks>>
  BY DEF OpenFails
<1>2. held \in Seq(Events) /\ committed \in BOOLEAN /\ (committed => held = <<>>) /\ retries \in 0 .. MaxRetries
  BY DEF StreamInv, StreamTypes
<1>3. phase' \in Ended /\ (phase' \in {"completed", "recovered"}) = FALSE
  BY <1>1 DEF Ended
<1> DEFINE own == "returned" \notin quirks'
<1> HIDE DEF own
<1>4. Right(sent', retries, own, FALSE) /\ sent' \in Seq(Events)
  BY <1>1, <1>2, BareRight
<1>5. Right(sent', retries, "returned" \notin quirks', phase' \in {"completed", "recovered"})
  BY <1>3, <1>4 DEF own
<1> QED BY <1>1, <1>2, <1>3, <1>4, <1>5, Ends

\* A new attempt has given nothing.
LEMMA NewFacts ==
    ASSUME NEW enabled, NEW own, NEW attempt
    PROVE  /\ NewTracker \in Trackers /\ NewPolicy \in Policies
           /\ Live([blocks |-> <<>>, stage |-> "start"], NewPolicy, NewTracker, <<>>, attempt, own, enabled)
<1> DEFINE up == [blocks |-> <<>>, stage |-> "start"]
           p == NewPolicy
           tk == NewTracker
           none == <<>>
<1>1. DOMAIN none = {} /\ Len(none) = 0 /\ none \in Seq(Nat)
  BY EmptySeq, EmptyDomain
<1>2. /\ tk.blocks = none /\ ~tk.stopped /\ p.segment = none /\ p.dropped = {} /\ p.next = 0
      /\ ~p.stopped /\ up.blocks = none /\ up.stage = "start"
  BY DEF NewTracker, NewPolicy
<1>3. tk \in Trackers
  BY EmptySeq DEF NewTracker, Trackers
<1>4. p \in Policies
  <2> DEFINE zero == 0
             lost == {}
             awaited == {}
             no == FALSE
  <2>1. none \in Segments
    <3> DEFINE D == {}
    <3>1. none \in [D -> SegmentType] /\ D \in SUBSET Nat
      BY <1>1, EmptySeq
    <3> HIDE DEF none, D
    <3> QED BY <3>1, SegmentFacts
  <2>2. /\ zero \in Nat /\ lost \in SUBSET Nat /\ awaited \in SUBSET Nat /\ no \in BOOLEAN
        /\ IsPolicy(p, zero, none, lost, awaited, no)
    BY DEF NewPolicy, IsPolicy
  <2> HIDE DEF zero, none, lost, awaited, no, p
  <2>3. p \in Policies /\ p.next = zero
    BY <2>1, <2>2, MadePolicy
  <2> QED BY <2>3
<1>5. Regular(up)
  <2> DEFINE n == 0
             stage == "start"
  <2>1. n \in 0 .. MaxBlocks /\ stage \in Stages /\ stage \notin {"delta", "stopped"}
    BY NativeAssumption DEF Stages
  <2>2. none \in [0 .. (n - 1) -> UpstreamBlocks] /\ IsUpstream(up, none, stage)
    <3>1. 0 .. (n - 1) = {}
      OBVIOUS
    <3> QED BY <1>1, <3>1, EmptySeq DEF IsUpstream
  <2> HIDE DEF n, stage, none, up
  <2>3. up \in Upstreams /\ up.blocks = none /\ up.stage = stage
    BY <2>1, <2>2, MadeUpstream
  <2> QED BY <1>1, <2>1, <2>3 DEF Regular
<1> HIDE DEF up, p, tk
<1>6. /\ Sorted(p, up.blocks) /\ Wanted(p, up.blocks, enabled) /\ Kindred(p, tk.blocks)
      /\ Owned(p, tk.blocks, up.blocks, attempt)
  BY <1>1, <1>2, <1>4 DEF Sorted, Wanted, Kindred, Owned
<1>7. Witnessed(none, tk, attempt)
  <2>1. none \in Seq(Events) /\ \A i : CarriedIn(none, i) = none
    BY EmptySeq, CarriedFacts
  <2>2. Noted(none, tk.blocks) /\ Clean(none, {attempt})
    <3> HIDE DEF none
    <3> QED BY <1>1, <1>2, <2>1 DEF Noted, Clean, none
  <2> QED BY <1>3, <2>1, <2>2 DEF Witnessed
<1>8. Len(tk.blocks) = p.next
  BY <1>1, <1>2
<1>9. Live(up, p, tk, none, attempt, own, enabled)
  BY <1>2, <1>5, <1>6, <1>7, <1>8 DEF Live
<1> QED BY <1>3, <1>4, <1>9 DEF up, p, tk

\* An attempt begins.
LEMMA OpenKeeps == StreamInv /\ Open => StreamInv'
<1> SUFFICES ASSUME StreamInv, Open PROVE StreamInv'
  OBVIOUS
<1> DEFINE up == [blocks |-> <<>>, stage |-> "start"]
           own == "returned" \notin quirks'
<1>1. /\ phase = "opening" /\ phase' = "reading" /\ upstream' = up
      /\ UNCHANGED <<thinking, router, policy, tracker, held, committed, retries, sent, quirks>>
  BY DEF Open
<1>2. policy = NewPolicy /\ tracker = NewTracker /\ sent = <<>> /\ held = <<>> /\ ~committed
  BY <1>1 DEF StreamInv
<1>3. sent' \o held' = <<>>
  BY <1>1, <1>2, EmptySeq, ConcatEmptySeq
<1> HIDE DEF own
<1>4. Live(up, NewPolicy, NewTracker, <<>>, retries, own, thinking)
  BY NewFacts
<1>5. LiveInv'
  BY <1>1, <1>2, <1>3, <1>4 DEF LiveInv, Yielded, own
<1>6. StreamTypes' /\ phase' \notin Ended
  BY <1>1 DEF StreamInv, StreamTypes, Ended
<1> QED BY <1>1, <1>2, <1>5, <1>6 DEF StreamInv

\* A failure is retried, recovered from, or the end.
LEMMA FailureKeeps ==
    ASSUME StreamInv, NEW retryable \in BOOLEAN, AdvanceFailure(retryable)
    PROVE  StreamInv'
<1>1. /\ phase = "reading" /\ UNCHANGED <<thinking, router, upstream>>
      /\ CASE retryable /\ MayRetry -> EarlyRetry
           [] retryable /\ ~MayRetry /\ tracker.blocks # <<>> -> MidstreamRecovery
           [] OTHER -> EndWithError
      /\ quirks' = IF retryable /\ MayRetry THEN {}
                   ELSE quirks \cup (IF tracker.reason THEN {"late"} ELSE {})
  BY DEF AdvanceFailure
<1>2. CASE retryable /\ MayRetry
  <2>1. /\ EarlyRetry /\ ~committed /\ retries < MaxRetries
    BY <1>1, <1>2 DEF MayRetry
  <2>2. /\ phase' = "opening" /\ retries' = retries + 1 /\ policy' = NewPolicy /\ tracker' = NewTracker
        /\ held' = <<>> /\ committed' = committed /\ sent' = sent
    BY <2>1 DEF EarlyRetry
  <2>3. sent = <<>>
    BY <1>1, <2>1, RunsWith
  <2>4. retries' \in 0 .. MaxRetries
    BY <2>1, <2>2, NativeAssumption DEF StreamInv, StreamTypes
  <2>5. tracker' \in Trackers
    BY <2>2, NewFacts
  <2>6. StreamTypes' /\ phase' \notin Ended /\ phase' \notin {"reading", "recovering"}
    BY <1>1, <2>2, <2>4, <2>5, EmptySeq DEF StreamInv, StreamTypes, Ended
  <2> QED BY <2>1, <2>2, <2>3, <2>6 DEF StreamInv
<1>3. CASE ~(retryable /\ MayRetry)
  <2>1. "returned" \notin quirks' <=> "returned" \notin quirks
    BY <1>1, <1>3
  <2>2. CASE EndWithError
    BY <1>1, <2>1, <2>2, ErrorKeeps
  <2>3. CASE MidstreamRecovery
    <3>1. phase' = "recovering" /\ UNCHANGED <<policy, tracker, held, committed, retries, sent>>
      BY <2>3 DEF MidstreamRecovery
    <3>2. /\ Live(upstream, policy, tracker, Yielded, retries, "returned" \notin quirks, thinking)
      BY <1>1, RunsWith
    <3>3. ("returned" \notin quirks') = ("returned" \notin quirks)
      BY <2>1
    <3>4. LiveInv'
      BY <1>1, <3>1, <3>2, <3>3 DEF LiveInv, Yielded
    <3>5. StreamTypes' /\ phase' \notin Ended /\ phase' # "opening"
      BY <1>1, <3>1 DEF StreamInv, StreamTypes, Ended
    <3>6. (committed => held = <<>>) /\ (~committed => sent = <<>>)
      BY <1>1, RunsWith
    <3> QED BY <3>1, <3>4, <3>5, <3>6 DEF StreamInv
  <2> QED BY <1>1, <1>3, <2>2, <2>3
<1> QED BY <1>2, <1>3

\* Every step of a stream that lets no thought through without a start.
LEMMA StreamKeeps == StreamInv /\ Next /\ "loose" \notin quirks' => StreamInv'
<1> SUFFICES ASSUME StreamInv, Next, "loose" \notin quirks' PROVE StreamInv'
  OBVIOUS
<1>1. CASE Open
  BY <1>1, OpenKeeps
<1>2. CASE OpenFails
  BY <1>2, OpenFailsKeeps
<1>3. CASE Provider
  BY <1>3, ProviderKeeps
<1>4. CASE Complete
  BY <1>4, CompleteKeeps
<1>5. CASE Truncated
  <2> DEFINE yes == TRUE
  <2>1. yes \in BOOLEAN /\ AdvanceFailure(yes)
    BY <1>5 DEF Truncated
  <2> HIDE DEF yes
  <2> QED BY <2>1, FailureKeeps
<1>6. CASE Break
  BY <1>6, FailureKeeps DEF Break
<1>7. CASE RecoverCalls
  BY <1>7, CallsKeep
<1>8. CASE \E kinds \in SUBSET {"text", "thinking"} : RecoverText(kinds)
  BY <1>8, TextKeeps
<1>9. CASE RecoveryFails
  <2>1. /\ phase \in {"reading", "recovering"} /\ EndWithError /\ UNCHANGED <<thinking, router>>
        /\ quirks' = quirks
    BY <1>9 DEF RecoveryFails
  <2> QED BY <2>1, ErrorKeeps
<1>10. CASE Leave
  BY <1>10, LeaveKeeps
<1> QED BY <1>1, <1>2, <1>3, <1>4, <1>5, <1>6, <1>7, <1>8, <1>9, <1>10 DEF Next

Unopened == Frame /\ phase = "opening"

\* An attempt that has not been opened fits.
LEMMA FrameFits == Unopened => StreamInv
<1> SUFFICES ASSUME Frame, phase = "opening" PROVE StreamInv
  BY DEF Unopened
<1>1. tracker \in Trackers
  BY NewFacts DEF Frame
<1>2. sent \in Seq(Events) /\ held \in Seq(Events)
  BY EmptySeq DEF Frame
<1>3. StreamTypes
  BY <1>1, <1>2 DEF Frame, StreamTypes
<1>4. phase \notin {"reading", "recovering"} \cup Ended
  BY DEF Ended
<1> QED BY <1>3, <1>4 DEF Frame, StreamInv

\* The same of the state after a step.
LEMMA FrameFitsNext == Unopened' => StreamInv'
BY FrameFits, PTL

\* An event that is read leaves the frame of the attempt.
LEMMA ReadFrames ==
    ASSUME Frame, NEW ev, Read(ev)
    PROVE  Frame'
<1>1. /\ phase = "reading" /\ UNCHANGED <<phase, thinking, router, retries>>
      /\ Push(Transform(policy, ev).events)
  BY DEF Read
<1>2. /\ committed' \in BOOLEAN /\ (committed' => held' = <<>>)
      /\ (~committed' => ~committed /\ sent' = sent)
  BY <1>1 DEF Push, Frame
<1>3. phase' \notin Ended /\ phase' # "opening"
  BY <1>1 DEF Ended
<1> QED BY <1>1, <1>2, <1>3 DEF Frame, Ended

\* The error that ends it, and the attempt after it.
LEMMA EndFrames ==
    ASSUME Frame, phase # "opening", UNCHANGED <<thinking, router>>,
           \/ EndWithError
           \/ EarlyRetry /\ ~committed /\ retries < MaxRetries /\ phase \notin Ended
           \/ MidstreamRecovery /\ phase \notin Ended
    PROVE  Frame'
<1>1. CASE EndWithError
  BY <1>1 DEF Frame, EndWithError, Flushed, Ended
<1>2. CASE EarlyRetry /\ ~committed /\ retries < MaxRetries /\ phase \notin Ended
  <2>1. retries' \in 0 .. MaxRetries
    BY <1>2, NativeAssumption DEF Frame, EarlyRetry
  <2> QED BY <1>2, <2>1 DEF Frame, EarlyRetry
<1>3. CASE MidstreamRecovery /\ phase \notin Ended
  BY <1>3 DEF Frame, MidstreamRecovery, Ended
<1> QED BY <1>1, <1>2, <1>3

\* A failure.
LEMMA FailureFrames ==
    ASSUME Frame, NEW retryable \in BOOLEAN, AdvanceFailure(retryable)
    PROVE  Frame'
<1>1. /\ phase = "reading" /\ phase \notin Ended /\ UNCHANGED <<thinking, router>>
      /\ \/ EarlyRetry /\ MayRetry
         \/ MidstreamRecovery
         \/ EndWithError
  BY DEF AdvanceFailure, Ended
<1> QED BY <1>1, EndFrames DEF MayRetry

\* Every step of a stream.
LEMMA FrameKeeps == Frame /\ Next => Frame'
<1> SUFFICES ASSUME Frame, Next PROVE Frame'
  OBVIOUS
<1>1. CASE Open \/ OpenFails \/ Leave
  BY <1>1 DEF Open, OpenFails, Leave, Frame, Ended
<1>2. CASE Provider
  BY <1>2, ReadFrames DEF Provider, SendMessageStart, SendStart, SendHeadless, SendDelta, SendStop,
                          SendMessageDelta, SendMessageStop, SendDone, SendError
<1>3. CASE Complete \/ RecoverCalls \/ \E kinds \in SUBSET {"text", "thinking"} : RecoverText(kinds)
  <2>1. /\ phase' \in {"completed", "recovered"} /\ Flushed /\ UNCHANGED <<thinking, router, retries>>
    BY <1>3 DEF Complete, RecoverCalls, RecoverText
  <2> QED BY <2>1 DEF Frame, Flushed, Ended
<1>4. CASE Truncated
  <2> DEFINE yes == TRUE
  <2>1. yes \in BOOLEAN /\ AdvanceFailure(yes)
    BY <1>4 DEF Truncated
  <2> HIDE DEF yes
  <2> QED BY <2>1, FailureFrames
<1>5. CASE Break
  BY <1>5, FailureFrames DEF Break
<1>6. CASE RecoveryFails
  BY <1>6, EndFrames DEF RecoveryFails
<1> QED BY <1>1, <1>2, <1>3, <1>4, <1>5, <1>6 DEF Next

\* A thought that was let through is forgotten with its attempt only.
LEMMA LooseStays ==
    ASSUME Next, "loose" \in quirks, "loose" \notin quirks'
    PROVE  phase' = "opening"
<1>1. CASE Truncated \/ Break
  BY <1>1 DEF Truncated, Break, AdvanceFailure, EarlyRetry
<1>2. CASE ~(Truncated \/ Break)
  <2>1. quirks \subseteq quirks'
    BY <1>2 DEF Next, Open, OpenFails, Provider, SendMessageStart, SendStart, SendHeadless, SendDelta,
                SendStop, SendMessageDelta, SendMessageStop, SendDone, SendError, Complete,
                RecoverCalls, RecoverText, RecoveryFails, Leave
  <2> QED BY <2>1
<1> QED BY <1>1, <1>2

\* So every step keeps both.
LEMMA AnswerKeeps == AnswerInv /\ Next => AnswerInv'
<1> SUFFICES ASSUME AnswerInv, Next PROVE AnswerInv'
  OBVIOUS
<1>1. Frame'
  BY FrameKeeps DEF AnswerInv
<1>2. ASSUME "loose" \notin quirks' PROVE StreamInv'
  <2>1. CASE "loose" \notin quirks
    BY <1>2, <2>1, StreamKeeps DEF AnswerInv
  <2>2. CASE "loose" \in quirks
    <3>1. phase' = "opening"
      BY <1>2, <2>2, LooseStays
    <3> QED BY <1>1, <3>1, FrameFitsNext DEF Unopened
  <2> QED BY <2>1, <2>2
<1> QED BY <1>1, <1>2 DEF AnswerInv

\* The stream as part of the exchange.
AttemptInv == AnswerInv /\ asked \in BOOLEAN /\ (~asked => phase = "opening")

\* Steps that leave the stream alone.
LEMMA AnswerStays == AnswerInv /\ UNCHANGED vars => AnswerInv'
<1> SUFFICES ASSUME AnswerInv, UNCHANGED vars PROVE AnswerInv'
  OBVIOUS
<1>1. /\ phase' = phase /\ thinking' = thinking /\ router' = router /\ upstream' = upstream
      /\ policy' = policy /\ tracker' = tracker /\ held' = held /\ committed' = committed
      /\ retries' = retries /\ sent' = sent /\ quirks' = quirks
  BY DEF vars
<1>2. StreamTypes' <=> StreamTypes
  BY <1>1 DEF StreamTypes
<1>3. LiveInv' <=> LiveInv
  BY <1>1 DEF LiveInv, Yielded
<1>4. AnswerOfOneAttempt' <=> AnswerOfOneAttempt
  BY <1>1 DEF AnswerOfOneAttempt, Carried
<1>5. StreamInv' <=> StreamInv
  BY <1>1, <1>2, <1>3, <1>4 DEF StreamInv
<1>6. Frame' <=> Frame
  BY <1>1 DEF Frame
<1> QED BY <1>1, <1>5, <1>6 DEF AnswerInv

\* What the client was given is one attempt of the provider, wherever it breaks off,
\* however often it is tried again and however it is recovered: whatever the provider
\* sends but a thought without a start, which reaches the client under the provider's
\* own index (native_sse_block_policy.py, a finding).
THEOREM AnswerOfOneAttemptHolds == ExchangeSpec => []("loose" \notin quirks => AnswerOfOneAttempt)
<1>1. ExchangeInit => AttemptInv
  <2> SUFFICES ASSUME ExchangeInit PROVE AttemptInv
    OBVIOUS
  <2>1. /\ phase = "opening" /\ thinking \in BOOLEAN /\ router \in BOOLEAN
        /\ policy = NewPolicy /\ tracker = NewTracker
        /\ held = <<>> /\ committed = FALSE /\ retries = 0 /\ sent = <<>> /\ asked = FALSE
    BY DEF ExchangeInit, Init
  <2>2. 0 \in 0 .. MaxRetries
    BY NativeAssumption
  <2>3. Frame
    BY <2>1, <2>2 DEF Frame
  <2> QED BY <2>1, <2>3, FrameFits DEF AttemptInv, AnswerInv, Unopened
<1>2. AttemptInv /\ [ExchangeNext]_exchange => AttemptInv'
  <2> SUFFICES ASSUME AttemptInv, [ExchangeNext]_exchange PROVE AttemptInv'
    OBVIOUS
  <2>1. CASE Prepare
    <3>1. UNCHANGED vars /\ asked' = asked
      BY <2>1 DEF Prepare
    <3>2. AnswerInv'
      BY <3>1, AnswerStays DEF AttemptInv
    <3> QED BY <3>1, <3>2 DEF AttemptInv, vars
  <2>2. CASE Ask
    <3>1. /\ asked' = TRUE /\ thinking' \in BOOLEAN /\ router' \in BOOLEAN /\ phase = "opening"
          /\ UNCHANGED <<phase, upstream, policy, tracker, held, committed, retries, sent, quirks>>
      BY <2>2 DEF Ask, AttemptInv
    <3>2. Frame' /\ phase' = "opening"
      BY <3>1 DEF AttemptInv, AnswerInv, Frame
    <3> QED BY <3>1, <3>2, FrameFitsNext DEF AttemptInv, AnswerInv, Unopened
  <2>3. CASE Answer
    <3>1. asked /\ Next /\ asked' = asked
      BY <2>3 DEF Answer
    <3> QED BY <3>1, AnswerKeeps DEF AttemptInv
  <2>4. CASE UNCHANGED exchange
    <3>1. UNCHANGED vars /\ asked' = asked
      BY <2>4 DEF exchange
    <3>2. AnswerInv'
      BY <3>1, AnswerStays DEF AttemptInv
    <3> QED BY <3>1, <3>2 DEF AttemptInv, vars
  <2> QED BY <2>1, <2>2, <2>3, <2>4 DEF ExchangeNext
<1>3. AttemptInv => ("loose" \notin quirks => AnswerOfOneAttempt)
  <2> SUFFICES ASSUME StreamInv PROVE AnswerOfOneAttempt
    BY DEF AttemptInv, AnswerInv
  <2>1. CASE phase \in Ended
    BY <2>1 DEF StreamInv
  <2>2. CASE phase \notin Ended
    <3>1. Right(sent, retries, "returned" \notin quirks, FALSE) /\ phase \notin {"completed", "recovered"}
      BY <2>2, SentRight DEF Ended
    <3>2. \A n \in DOMAIN sent : sent[n].t = "delta" =>
             \A p \in ToSet(sent[n].pieces) : p.from \in {retries, Recovery, Report}
      BY <3>1 DEF Right, From, ToSet
    <3>3. "returned" \notin quirks => \A n \in DOMAIN sent : sent[n].t = "start" =>
             LET own == Only(CarriedIn(sent, sent[n].index), OfAttempt(retries))
             IN  Numbers(own) = [k \in DOMAIN own |-> k]
      BY <3>1 DEF Right
    <3>4. \A ev \in ToSet(sent) : \E n \in DOMAIN sent : ev = sent[n]
      BY DEF ToSet
    <3>5. \A ev \in ToSet(sent) : ev.t = "delta" =>
             \A p \in ToSet(ev.pieces) : p.from \in {retries, Recovery, Report}
      BY <3>2, <3>4
    <3>6. "returned" \notin quirks => \A ev \in ToSet(sent) : ev.t = "start" =>
             LET own == Only(CarriedIn(sent, ev.index), OfAttempt(retries))
             IN  Numbers(own) = [k \in DOMAIN own |-> k]
      BY <3>3, <3>4
    <3> QED BY <3>1, <3>5, <3>6 DEF AnswerOfOneAttempt, Carried
  <2> QED BY <2>1, <2>2
<1> QED BY <1>1, <1>2, <1>3, PTL DEF ExchangeSpec
=============================================================================
