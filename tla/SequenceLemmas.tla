--------------------------- MODULE SequenceLemmas ---------------------------
(***************************************************************************)
(* Lemmas on sequences that the proofs of several modules need: induction, *)
(* functions that are defined by recursion over numbers, and what          *)
(* FlattenSeq makes of a sequence of sequences.                            *)
(*                                                                         *)
(* Induction is done over sets: a set of sequences that has the empty one, *)
(* and with any sequence every one that is longer by an element, has them  *)
(* all.                                                                    *)
(***************************************************************************)
EXTENDS Integers, SequencesExt, SequenceTheorems, WellFoundedInduction, TLAPS

\* A set that has 0, and with any number the next one, has all of them.
LEMMA NumberInduction ==
    ASSUME NEW S, 0 \in S, \A n \in Nat : n \in S => n + 1 \in S
    PROVE  \A n \in Nat : n \in S
<1> SUFFICES ASSUME Nat \ S # {} PROVE FALSE
  OBVIOUS
<1> DEFINE R == OpToRel(<, Nat)
           T == Nat \ S
<1>1. IsWellFoundedOn(R, Nat)
  BY NatLessThanWellFounded
<1>2. \A x, y \in Nat : x < y => <<x, y>> \in R
  BY DEF OpToRel
<1>3. T \subseteq Nat /\ T # {}
  OBVIOUS
<1> HIDE DEF R
<1>4. PICK n \in T : \A m \in T : ~(<<m, n>> \in R)
  <2> HIDE DEF T
  <2> QED BY <1>1, <1>3, WFMin, Zenon
<1>5. n \in Nat /\ n # 0 /\ n \notin S
  OBVIOUS
<1>6. n - 1 \in Nat /\ n - 1 < n /\ (n - 1) + 1 = n
  BY <1>5
<1>7. n - 1 \notin S
  BY <1>5, <1>6
<1> QED BY <1>2, <1>4, <1>5, <1>6, <1>7

\* A sequence is empty, or one element longer than another.
LEMMA LastOfSequence ==
    ASSUME NEW B, NEW s \in Seq(B), s # <<>>
    PROVE  \E t \in Seq(B), e \in B : s = Append(t, e) /\ Len(s) = Len(t) + 1
<1> DEFINE n == Len(s) - 1
           t == [i \in 1 .. n |-> s[i]]
<1>1. Len(s) \in Nat /\ Len(s) # 0
  BY EmptySeq
<1>2. n \in Nat /\ n + 1 = Len(s)
  BY <1>1
<1>3. t \in Seq(B) /\ Len(t) = n /\ s[n + 1] \in B
  BY <1>2
<1>4. \A i \in 1 .. n : t[i] = s[i]
  OBVIOUS
<1> HIDE DEF n, t
<1>5. /\ Append(t, s[n + 1]) \in Seq(B) /\ Len(Append(t, s[n + 1])) = n + 1
      /\ \A i \in 1 .. n : Append(t, s[n + 1])[i] = t[i]
      /\ Append(t, s[n + 1])[n + 1] = s[n + 1]
  BY <1>3, AppendProperties
<1>6. \A i \in 1 .. (n + 1) : i \in 1 .. n \/ i = n + 1
  BY <1>2
<1>7. Append(t, s[n + 1]) = s
  BY <1>2, <1>4, <1>5, <1>6, SeqEqual
<1> QED BY <1>2, <1>3, <1>7

\* A set that has the empty sequence, and with any sequence those that are longer by
\* one element, has all of them.
LEMMA SequenceInduction ==
    ASSUME NEW B, NEW P, <<>> \in P,
           \A s \in Seq(B), e \in B : s \in P => Append(s, e) \in P
    PROVE  \A s \in Seq(B) : s \in P
<1> DEFINE S == {n \in Nat : \A s \in Seq(B) : Len(s) = n => s \in P}
<1>1. 0 \in S
  BY EmptySeq
<1>2. ASSUME NEW n \in Nat, n \in S PROVE n + 1 \in S
  <2>1. ASSUME NEW s \in Seq(B), Len(s) = n + 1 PROVE s \in P
    <3>1. s # <<>>
      BY <2>1, EmptySeq
    <3>2. PICK t \in Seq(B), e \in B : s = Append(t, e) /\ Len(s) = Len(t) + 1
      BY <3>1, LastOfSequence
    <3>3. Len(t) = n
      BY <2>1, <3>2
    <3> QED BY <1>2, <3>2, <3>3
  <2> QED BY <2>1
<1>3. \A n \in Nat : n \in S
  <2> HIDE DEF S
  <2> QED BY <1>1, <1>2, NumberInduction
<1> QED BY <1>3

\* h begins with b and goes on, up to L, as the steps say.
Recursive(h, V, L, b, step) ==
    h \in [0 .. L -> V] /\ h[0] = b /\ \A n \in 1 .. L : h[n] = step[n][h[n - 1]]

\* A function that is defined by recursion over the numbers up to a bound exists.
LEMMA RecursionExists ==
    ASSUME NEW V, NEW L \in Nat, NEW b \in V, NEW step \in [1 .. L -> [V -> V]]
    PROVE  \E h : Recursive(h, V, L, b, step)
<1> DEFINE Upto(m, h) == h[0] = b /\ \A n \in 1 .. m : h[n] = step[n][h[n - 1]]
           S == {m \in Nat : m <= L => \E h \in [0 .. m -> V] : Upto(m, h)}
<1>1. 0 \in S
  <2> DEFINE h == [n \in 0 .. 0 |-> b]
  <2>1. h \in [0 .. 0 -> V] /\ Upto(0, h)
    OBVIOUS
  <2> QED BY <2>1
<1>2. ASSUME NEW m \in Nat, m \in S PROVE m + 1 \in S
  <2> SUFFICES ASSUME m + 1 <= L PROVE \E h \in [0 .. (m + 1) -> V] : Upto(m + 1, h)
    OBVIOUS
  <2>1. PICK g \in [0 .. m -> V] : Upto(m, g)
    BY <1>2
  <2> DEFINE h == [n \in 0 .. (m + 1) |-> IF n = m + 1 THEN step[m + 1][g[m]] ELSE g[n]]
  <2>2. m + 1 \in 1 .. L /\ g[m] \in V /\ step[m + 1][g[m]] \in V
    OBVIOUS
  <2>3. h \in [0 .. (m + 1) -> V]
    BY <2>2
  <2>4. \A n \in 0 .. m : h[n] = g[n]
    OBVIOUS
  <2>5. h[m + 1] = step[m + 1][g[m]]
    OBVIOUS
  <2> HIDE DEF h
  <2>6. \A n \in 1 .. (m + 1) : n = m + 1 \/ (n \in 1 .. m /\ n \in 0 .. m /\ n - 1 \in 0 .. m)
    OBVIOUS
  <2>7. (m + 1) - 1 = m /\ m \in 0 .. m /\ 0 \in 0 .. m
    OBVIOUS
  <2>8. Upto(m + 1, h)
    BY <2>1, <2>4, <2>5, <2>6, <2>7
  <2> QED BY <2>3, <2>8
<1>3. L \in S
  <2> HIDE DEF S
  <2> QED BY <1>1, <1>2, NumberInduction
<1> QED BY <1>3 DEF Recursive

-----------------------------------------------------------------------------
(***************************************************************************)
(* FlattenSeq.                                                             *)
(***************************************************************************)

\* f appends the sequences of ss, one after the other.
Flattens(f, ss) ==
    /\ f[0] = <<>>
    /\ \A n \in 1 .. Len(ss) : f[n] = f[n - 1] \o ss[n]

\* The function by which FlattenSeq is defined.
FlattenDef(f, ss) ==
    f = [i \in 1 .. Len(ss) |-> IF i = 1 THEN ss[i] ELSE f[i - 1] \o ss[i]]

\* Two functions that append the same sequences agree.
LEMMA FlattensOnce ==
    ASSUME NEW ss, NEW tt, NEW m \in Nat, m <= Len(ss), m <= Len(tt),
           Len(ss) \in Nat, Len(tt) \in Nat,
           \A n \in 1 .. m : ss[n] = tt[n],
           NEW f, Flattens(f, ss), NEW g, Flattens(g, tt)
    PROVE  f[m] = g[m]
<1> DEFINE S == {n \in Nat : n <= m => f[n] = g[n]}
<1>1. 0 \in S
  BY DEF Flattens
<1>2. ASSUME NEW n \in Nat, n \in S PROVE n + 1 \in S
  <2> SUFFICES ASSUME n + 1 <= m PROVE f[n + 1] = g[n + 1]
    OBVIOUS
  <2>1. /\ n + 1 \in 1 .. Len(ss) /\ n + 1 \in 1 .. Len(tt) /\ n + 1 \in 1 .. m
        /\ (n + 1) - 1 = n /\ n <= m
    OBVIOUS
  <2>2. f[n] = g[n] /\ ss[n + 1] = tt[n + 1]
    BY <1>2, <2>1
  <2>3. f[n + 1] = f[n] \o ss[n + 1]
    BY <2>1 DEF Flattens
  <2>4. g[n + 1] = g[n] \o tt[n + 1]
    BY <2>1 DEF Flattens
  <2> QED BY <2>2, <2>3, <2>4
<1>3. \A n \in Nat : n \in S
  <2> HIDE DEF S
  <2> QED BY <1>1, <1>2, NumberInduction
<1> QED BY <1>3

\* There is such a function, and FlattenSeq is its last value.
LEMMA FlattenCollects ==
    ASSUME NEW B, NEW ss \in Seq(Seq(B))
    PROVE  \E f \in [0 .. Len(ss) -> Seq(B)] : Flattens(f, ss) /\ FlattenSeq(ss) = f[Len(ss)]
<1> DEFINE L == Len(ss)
           V == Seq(B)
           b == <<>>
           step == [n \in 1 .. L |-> [t \in V |-> t \o ss[n]]]
<1>1. L \in Nat /\ b \in V /\ \A n \in 1 .. L : ss[n] \in V
  BY EmptySeq
<1>2. \A n \in 1 .. L : \A t \in V : t \o ss[n] \in V
  BY <1>1, ConcatProperties
<1>3. step \in [1 .. L -> [V -> V]]
  <2> HIDE DEF V
  <2> QED BY <1>2
<1>4. \E h : Recursive(h, V, L, b, step)
  <2> HIDE DEF V, L, b, step
  <2> QED BY <1>1, <1>3, RecursionExists
<1>5. PICK h : Recursive(h, V, L, b, step)
  BY <1>4
<1>6. \A n \in 1 .. L : n - 1 \in 0 .. L /\ n \in 0 .. L /\ n # 0
  BY <1>1
<1>7. h \in [0 .. L -> V] /\ h[0] = <<>> /\ \A n \in 1 .. L : h[n] = h[n - 1] \o ss[n]
  <2> HIDE DEF V
  <2> QED BY <1>5, <1>6 DEF Recursive
<1>8. Flattens(h, ss)
  BY <1>7 DEF Flattens
<1> HIDE DEF step, V
<1>9. CASE L = 0
  <2>1. ss = <<>> /\ FlattenSeq(ss) = ss
    BY <1>9, EmptySeq DEF FlattenSeq
  <2>2. FlattenSeq(ss) = h[L]
    BY <1>7, <1>9, <2>1
  <2> QED BY <1>7, <1>8, <2>2 DEF V
<1>10. CASE L # 0
  <2> DEFINE g == [i \in 1 .. L |-> h[i]]
             f == CHOOSE x : FlattenDef(x, ss)
  <2>1. h[1] = ss[1] /\ 1 \in 1 .. L
    <3>1. 1 \in 1 .. L /\ 1 - 1 = 0
      BY <1>1, <1>10
    <3>2. h[1] = <<>> \o ss[1]
      BY <1>7, <3>1
    <3>3. ss[1] \in Seq(B)
      BY <3>1
    <3>4. <<>> \o ss[1] = ss[1]
      BY <3>3, ConcatEmptySeq
    <3> QED BY <3>1, <3>2, <3>4
  <2>2. \A i \in 1 .. L : i = 1 \/ i - 1 \in 1 .. L
    BY <1>1
  <2>3. FlattenDef(g, ss)
    BY <1>7, <2>1, <2>2 DEF FlattenDef
  <2>4. FlattenDef(f, ss)
    BY <2>3
  <2>5. FlattenSeq(ss) = f[L]
    BY <1>10 DEF FlattenSeq, FlattenDef
  <2> HIDE DEF f, g
  <2>6. \A i \in 1 .. L : f[i] = IF i = 1 THEN ss[i] ELSE f[i - 1] \o ss[i]
    BY <2>4 DEF FlattenDef
  <2> DEFINE S == {n \in Nat : n + 1 <= L => f[n + 1] = h[n + 1]}
  <2>7. 0 \in S
    <3>1. f[1] = ss[1]
      BY <2>1, <2>6
    <3> QED BY <2>1, <3>1
  <2>8. ASSUME NEW n \in Nat, n \in S PROVE n + 1 \in S
    <3> SUFFICES ASSUME (n + 1) + 1 <= L PROVE f[(n + 1) + 1] = h[(n + 1) + 1]
      OBVIOUS
    <3>1. (n + 1) + 1 \in 1 .. L /\ ((n + 1) + 1) - 1 = n + 1 /\ n + 1 <= L /\ (n + 1) + 1 # 1
      BY <1>1
    <3>2. f[n + 1] = h[n + 1]
      BY <2>8, <3>1
    <3>3. f[(n + 1) + 1] = f[n + 1] \o ss[(n + 1) + 1]
      BY <2>6, <3>1
    <3>4. h[(n + 1) + 1] = h[n + 1] \o ss[(n + 1) + 1]
      BY <1>7, <3>1
    <3> QED BY <3>2, <3>3, <3>4
  <2>9. \A n \in Nat : n \in S
    <3> HIDE DEF S
    <3> QED BY <2>7, <2>8, NumberInduction
  <2>10. f[L] = h[L]
    <3> DEFINE k == L - 1
    <3>1. k \in Nat /\ k + 1 = L /\ k + 1 <= L
      BY <1>1, <1>10
    <3> HIDE DEF k
    <3>2. f[k + 1] = h[k + 1]
      BY <2>9, <3>1
    <3> QED BY <3>1, <3>2
  <2> QED BY <1>7, <1>8, <2>5, <2>10 DEF V
<1> QED BY <1>9, <1>10

\* What a sequence of sequences becomes grows with it at the end.
LEMMA FlattenUnfolds ==
    ASSUME NEW B, NEW ss \in Seq(Seq(B)), NEW e \in Seq(B)
    PROVE  /\ FlattenSeq(<<>>) = <<>>
           /\ FlattenSeq(ss) \in Seq(B)
           /\ FlattenSeq(Append(ss, e)) = FlattenSeq(ss) \o e
<1>1. FlattenSeq(<<>>) = <<>>
  BY EmptySeq DEF FlattenSeq
<1> DEFINE tt == Append(ss, e)
<1>2. /\ tt \in Seq(Seq(B)) /\ Len(tt) = Len(ss) + 1 /\ (\A i \in 1 .. Len(ss) : tt[i] = ss[i])
      /\ tt[Len(ss) + 1] = e /\ Len(ss) \in Nat
  BY AppendProperties
<1> HIDE DEF tt
<1>3. PICK f \in [0 .. Len(ss) -> Seq(B)] : Flattens(f, ss) /\ FlattenSeq(ss) = f[Len(ss)]
  BY FlattenCollects
<1>4. PICK g : Flattens(g, tt) /\ FlattenSeq(tt) = g[Len(tt)]
  BY <1>2, FlattenCollects
<1>5. f[Len(ss)] = g[Len(ss)]
  <2>1. Len(ss) <= Len(ss) /\ Len(ss) <= Len(tt) /\ Len(tt) \in Nat
        /\ \A i \in 1 .. Len(ss) : ss[i] = tt[i]
    BY <1>2
  <2> DEFINE m == Len(ss)
  <2>2. /\ m \in Nat /\ m <= Len(ss) /\ m <= Len(tt) /\ Len(ss) \in Nat /\ Len(tt) \in Nat
        /\ \A i \in 1 .. m : ss[i] = tt[i]
    BY <1>2, <2>1
  <2>3. Flattens(f, ss) /\ Flattens(g, tt)
    BY <1>3, <1>4
  <2> HIDE DEF m
  <2>4. f[m] = g[m]
    BY <2>2, <2>3, FlattensOnce
  <2> QED BY <2>4 DEF m
<1>6. g[Len(ss) + 1] = g[Len(ss)] \o e
  <2>1. Len(ss) + 1 \in 1 .. Len(tt) /\ (Len(ss) + 1) - 1 = Len(ss)
    BY <1>2
  <2> QED BY <1>2, <1>4, <2>1 DEF Flattens
<1>7. FlattenSeq(ss) \in Seq(B)
  <2>1. Len(ss) \in 0 .. Len(ss)
    BY <1>2
  <2> QED BY <1>3, <2>1
<1> QED BY <1>1, <1>2, <1>3, <1>4, <1>5, <1>6, <1>7 DEF tt

\* Appending to the second part appends to the whole.
LEMMA AppendApart ==
    ASSUME NEW B, NEW u \in Seq(B), NEW v \in Seq(B), NEW e \in B
    PROVE  u \o Append(v, e) = Append(u \o v, e)
<1> DEFINE d == <<e>>
           w == u \o v
<1>1. d \in Seq(B) /\ w \in Seq(B)
  BY ConcatProperties
<1>2. Append(v, e) = v \o d
  BY AppendIsConcat
<1> HIDE DEF d
<1>3. w \o d = u \o (v \o d)
  BY <1>1, ConcatAssociative
<1> HIDE DEF w
<1>4. Append(w, e) = w \o d
  BY <1>1, AppendIsConcat DEF d
<1> QED BY <1>2, <1>3, <1>4 DEF w

\* One of the sequences grows by an element, and all behind it are empty.
GrowsAt(ss, tt, spot, e) ==
    /\ Len(ss) \in Nat /\ Len(tt) = Len(ss) /\ spot \in 1 .. Len(ss)
    /\ tt[spot] = Append(ss[spot], e)
    /\ \A n \in 1 .. Len(ss) : n # spot => tt[n] = ss[n]
    /\ \A n \in 1 .. Len(ss) : n > spot => ss[n] = <<>>

\* The same with the functions that append.
LEMMA FlattensGrow ==
    ASSUME NEW B, NEW ss, NEW tt, NEW spot, NEW e \in B, GrowsAt(ss, tt, spot, e),
           NEW f, NEW g, Flattens(f, ss), Flattens(g, tt),
           \A n \in 0 .. Len(ss) : f[n] \in Seq(B) /\ g[n] \in Seq(B),
           \A n \in 1 .. Len(ss) : ss[n] \in Seq(B)
    PROVE  g[Len(ss)] = Append(f[Len(ss)], e)
<1> DEFINE L == Len(ss)
<1>0. L \in Nat /\ L = Len(ss) /\ L = Len(tt) /\ spot \in 1 .. L
      /\ (\A n \in 1 .. L : n # spot => tt[n] = ss[n])
      /\ (\A n \in 1 .. L : n > spot => ss[n] = <<>>)
      /\ \A n \in 0 .. L : f[n] \in Seq(B) /\ g[n] \in Seq(B)
  BY DEF GrowsAt
<1> HIDE DEF L
<1>1. spot \in Nat /\ spot >= 1 /\ spot <= L
  BY <1>0
<1> DEFINE m == spot - 1
<1>2. m \in Nat /\ m <= L /\ m + 1 = spot /\ m \in 0 .. L
  BY <1>0, <1>1
<1>3. f[m] = g[m]
  <2>1. \A n \in 1 .. m : n \in 1 .. L /\ n # spot
    BY <1>0, <1>1, <1>2
  <2>2. \A n \in 1 .. m : ss[n] = tt[n]
    BY <1>0, <2>1
  <2>3. m <= Len(ss) /\ m <= Len(tt) /\ Len(ss) \in Nat /\ Len(tt) \in Nat
    BY <1>0, <1>2
  <2> HIDE DEF m
  <2> QED BY <1>2, <2>2, <2>3, FlattensOnce
<1>4. f[spot] = f[m] \o ss[spot] /\ g[spot] = g[m] \o tt[spot]
  BY <1>0, <1>1 DEF Flattens
<1>5. g[spot] = Append(f[spot], e)
  <2> DEFINE u == f[m]
             v == ss[spot]
  <2>1. u \in Seq(B) /\ v \in Seq(B)
    BY <1>0, <1>2
  <2>2. g[spot] = u \o Append(v, e) /\ f[spot] = u \o v
    BY <1>3, <1>4 DEF GrowsAt
  <2> HIDE DEF u, v
  <2>3. u \o Append(v, e) = Append(u \o v, e)
    BY <2>1, AppendApart
  <2> QED BY <2>2, <2>3
<1> DEFINE S == {n \in Nat : spot + n <= L => g[spot + n] = Append(f[spot + n], e)}
<1>6. 0 \in S
  BY <1>1, <1>5
<1>7. ASSUME NEW n \in Nat, n \in S PROVE n + 1 \in S
  <2> DEFINE k == spot + n
             l == spot + (n + 1)
  <2> SUFFICES ASSUME l <= L PROVE g[l] = Append(f[l], e)
    OBVIOUS
  <2>1. k \in Nat /\ l \in Nat /\ l = k + 1 /\ spot <= k /\ k <= L
    BY <1>0, <1>1
  <2>2. g[k] = Append(f[k], e)
    BY <1>7, <2>1
  <2> HIDE DEF k, l
  <2>3. k \in 0 .. L /\ l \in 1 .. L /\ l - 1 = k /\ l > spot /\ l # spot
    BY <1>0, <1>1, <2>1
  <2>4. ss[l] = <<>> /\ tt[l] = <<>>
    BY <1>0, <2>3
  <2>5. f[l] = f[k] \o <<>> /\ g[l] = g[k] \o <<>>
    BY <1>0, <2>3, <2>4 DEF Flattens
  <2>6. f[k] \in Seq(B) /\ g[k] \in Seq(B)
    BY <1>0, <2>3
  <2>7. f[l] = f[k] /\ g[l] = g[k]
    BY <2>5, <2>6, ConcatEmptySeq
  <2> QED BY <2>2, <2>7
<1>8. \A n \in Nat : n \in S
  <2> HIDE DEF S
  <2> QED BY <1>6, <1>7, NumberInduction
<1> DEFINE n == L - spot
<1>9. n \in Nat /\ spot + n = L /\ spot + n <= L
  BY <1>0, <1>1
<1> HIDE DEF n
<1>10. g[spot + n] = Append(f[spot + n], e)
  BY <1>8, <1>9
<1> QED BY <1>9, <1>10 DEF L

\* The functions and the sequences hold sequences over B.
Over(f, g, ss, B) ==
    /\ \A n \in 0 .. Len(ss) : f[n] \in Seq(B) /\ g[n] \in Seq(B)
    /\ \A n \in 1 .. Len(ss) : ss[n] \in Seq(B)

\* f and g give what ss and tt become.
Collected(f, g, ss, tt) ==
    /\ Flattens(f, ss) /\ Flattens(g, tt)
    /\ FlattenSeq(ss) = f[Len(ss)] /\ FlattenSeq(tt) = g[Len(ss)]

\* Then what they become grows by it at its end.
LEMMA CollectedGrow ==
    ASSUME NEW B, NEW ss, NEW tt, NEW spot, NEW e \in B, GrowsAt(ss, tt, spot, e),
           NEW f, NEW g, Collected(f, g, ss, tt), Over(f, g, ss, B)
    PROVE  FlattenSeq(tt) = Append(FlattenSeq(ss), e)
<1>1. g[Len(ss)] = Append(f[Len(ss)], e)
  BY FlattensGrow DEF Collected, Over
<1> QED BY <1>1 DEF Collected

\* There are such functions.
LEMMA CollectedExist ==
    ASSUME NEW B, NEW ss \in Seq(Seq(B)), NEW tt \in Seq(Seq(B)), Len(tt) = Len(ss)
    PROVE  \E f, g : Collected(f, g, ss, tt) /\ Over(f, g, ss, B)
<1>1. PICK f \in [0 .. Len(ss) -> Seq(B)] : Flattens(f, ss) /\ FlattenSeq(ss) = f[Len(ss)]
  BY FlattenCollects
<1>2. PICK g \in [0 .. Len(tt) -> Seq(B)] : Flattens(g, tt) /\ FlattenSeq(tt) = g[Len(tt)]
  BY FlattenCollects
<1>3. Over(f, g, ss, B)
  <2>1. \A n \in 0 .. Len(ss) : f[n] \in Seq(B)
    BY <1>1
  <2>2. \A n \in 0 .. Len(ss) : g[n] \in Seq(B)
    BY <1>2
  <2>3. \A n \in 1 .. Len(ss) : ss[n] \in Seq(B)
    OBVIOUS
  <2> QED BY <2>1, <2>2, <2>3 DEF Over
<1>4. Collected(f, g, ss, tt)
  BY <1>1, <1>2 DEF Collected
<1> QED BY <1>3, <1>4

\* What sequences become grows with the last of them that is not empty.
LEMMA FlattenGrows ==
    ASSUME NEW B, NEW ss \in Seq(Seq(B)), NEW tt \in Seq(Seq(B)), NEW spot, NEW e \in B,
           GrowsAt(ss, tt, spot, e)
    PROVE  FlattenSeq(tt) = Append(FlattenSeq(ss), e)
<1>1. Len(tt) = Len(ss)
  BY DEF GrowsAt
<1>2. \E f, g : Collected(f, g, ss, tt) /\ Over(f, g, ss, B)
  BY <1>1, CollectedExist
<1> QED BY <1>2, CollectedGrow

-----------------------------------------------------------------------------
(***************************************************************************)
(* RemoveAt, Front and prefixes.                                           *)
(***************************************************************************)

\* What is left when the element at k is removed: those behind it move up.
LEMMA RemovedFacts ==
    ASSUME NEW B, NEW s \in Seq(B), NEW k \in 1 .. Len(s)
    PROVE  /\ RemoveAt(s, k) \in Seq(B) /\ Len(RemoveAt(s, k)) = Len(s) - 1
           /\ \A i \in 1 .. (Len(s) - 1) : RemoveAt(s, k)[i] = IF i < k THEN s[i] ELSE s[i + 1]
<1> DEFINE L == Len(s)
           u == SubSeq(s, 1, k - 1)
           v == SubSeq(s, k + 1, L)
<1>1. L \in Nat /\ k \in Nat /\ 1 <= k /\ k <= L /\ \A i \in 1 .. L : s[i] \in B
  OBVIOUS
<1>2. /\ u \in Seq(B) /\ Len(u) = k - 1 /\ \A i \in 1 .. (k - 1) : u[i] = s[i]
  <2>1. \A i \in 1 .. (k - 1) : s[i] \in B
    BY <1>1
  <2>2. /\ u \in Seq(B) /\ Len(u) = (IF 1 <= k - 1 THEN (k - 1) - 1 + 1 ELSE 0)
        /\ \A i \in 1 .. ((k - 1) - 1 + 1) : u[i] = s[1 + i - 1]
    BY <1>1, <2>1, SubSeqProperties
  <2> HIDE DEF u
  <2>3. \A i \in 1 .. (k - 1) : i \in 1 .. ((k - 1) - 1 + 1) /\ 1 + i - 1 = i
    BY <1>1
  <2> QED BY <1>1, <2>2, <2>3
<1>3. /\ v \in Seq(B) /\ Len(v) = L - k /\ \A i \in 1 .. (L - k) : v[i] = s[i + k]
  <2>1. \A i \in (k + 1) .. L : s[i] \in B
    BY <1>1
  <2>2. /\ v \in Seq(B) /\ Len(v) = (IF k + 1 <= L THEN L - (k + 1) + 1 ELSE 0)
        /\ \A i \in 1 .. (L - (k + 1) + 1) : v[i] = s[(k + 1) + i - 1]
    BY <1>1, <2>1, SubSeqProperties
  <2> HIDE DEF v
  <2>3. \A i \in 1 .. (L - k) : i \in 1 .. (L - (k + 1) + 1) /\ (k + 1) + i - 1 = i + k
    BY <1>1
  <2> QED BY <1>1, <2>2, <2>3
<1> DEFINE w == u \o v
<1>4. RemoveAt(s, k) = w
  BY DEF RemoveAt
<1> HIDE DEF u, v
<1>5. /\ w \in Seq(B) /\ Len(w) = Len(u) + Len(v)
      /\ \A i \in 1 .. (Len(u) + Len(v)) : w[i] = IF i <= Len(u) THEN u[i] ELSE v[i - Len(u)]
  BY <1>2, <1>3, ConcatProperties
<1> HIDE DEF w, L
<1>6. w \in Seq(B) /\ Len(w) = L - 1
  BY <1>1, <1>2, <1>3, <1>5
<1>7. ASSUME NEW i \in 1 .. (L - 1) PROVE w[i] = IF i < k THEN s[i] ELSE s[i + 1]
  <2>1. w[i] = IF i <= k - 1 THEN u[i] ELSE v[i - (k - 1)]
    BY <1>1, <1>2, <1>3, <1>5
  <2>2. CASE i < k
    <3>1. i <= k - 1 /\ i \in 1 .. (k - 1)
      BY <1>1, <2>2
    <3> QED BY <1>2, <2>1, <2>2, <3>1
  <2>3. CASE ~(i < k)
    <3> DEFINE j == i - (k - 1)
    <3>1. ~(i <= k - 1) /\ j \in 1 .. (L - k) /\ j + k = i + 1
      BY <1>1, <2>3
    <3> HIDE DEF j
    <3>2. w[i] = v[j]
      BY <2>1, <3>1 DEF j
    <3> QED BY <1>3, <2>3, <3>1, <3>2
  <2> QED BY <2>2, <2>3
<1> QED BY <1>4, <1>6, <1>7 DEF L

\* The first elements of a sequence.
LEMMA FirstFacts ==
    ASSUME NEW B, NEW s \in Seq(B), NEW m \in Nat, m <= Len(s)
    PROVE  /\ SubSeq(s, 1, m) \in Seq(B) /\ Len(SubSeq(s, 1, m)) = m
           /\ \A i \in 1 .. m : SubSeq(s, 1, m)[i] = s[i]
<1> DEFINE u == SubSeq(s, 1, m)
<1>1. \A i \in 1 .. m : s[i] \in B
  OBVIOUS
<1>2. /\ u \in Seq(B) /\ Len(u) = (IF 1 <= m THEN m - 1 + 1 ELSE 0)
      /\ \A i \in 1 .. (m - 1 + 1) : u[i] = s[1 + i - 1]
  BY <1>1, SubSeqProperties
<1> HIDE DEF u
<1>3. \A i \in 1 .. m : i \in 1 .. (m - 1 + 1) /\ 1 + i - 1 = i
  OBVIOUS
<1>4. u \in Seq(B) /\ Len(u) = m /\ \A i \in 1 .. m : u[i] = s[i]
  BY <1>2, <1>3
<1> QED BY <1>4 DEF u

\* When a sequence of two is a prefix of another one.
LEMMA TwoPrefix ==
    ASSUME NEW B, NEW a, NEW b, a \in Seq(B), b \in Seq(B), Len(a) = 2, Len(b) >= 2
    PROVE  IsPrefix(a, b) <=> a[1] = b[1] /\ a[2] = b[2]
<1> DEFINE a2 == SubSeq(a, 1, 2)
           b2 == SubSeq(b, 1, 2)
<1>1. a2 \in Seq(B) /\ Len(a2) = 2 /\ \A i \in 1 .. 2 : a2[i] = a[i]
  <2>1. a \in Seq(B) /\ 2 <= Len(a)
    OBVIOUS
  <2> QED BY <2>1, FirstFacts
<1>2. b2 \in Seq(B) /\ Len(b2) = 2 /\ \A i \in 1 .. 2 : b2[i] = b[i]
  <2>1. b \in Seq(B) /\ 2 <= Len(b)
    OBVIOUS
  <2> QED BY <2>1, FirstFacts
<1>3. IsPrefix(a, b) <=> a2 = b2
  BY DEF IsPrefix
<1> HIDE DEF a2, b2
<1>4. \A i \in 1 .. 2 : i = 1 \/ i = 2
  OBVIOUS
<1>5. a2[1] = a[1] /\ a2[2] = a[2] /\ b2[1] = b[1] /\ b2[2] = b[2]
  BY <1>1, <1>2
<1>6. a2 = b2 <=> a[1] = b[1] /\ a[2] = b[2]
  <2>1. ASSUME a[1] = b[1], a[2] = b[2] PROVE a2 = b2
    BY <1>1, <1>2, <1>4, <1>5, <2>1, SeqEqual
  <2> QED BY <1>5, <2>1
<1> QED BY <1>3, <1>6

\* When a pair is a prefix of a pair, and of a triple; a triple is never one of a pair.
LEMMA PairOfPair ==
    ASSUME NEW x, NEW y, NEW u, NEW v
    PROVE  IsPrefix(<<x, y>>, <<u, v>>) <=> x = u /\ y = v
<1> DEFINE a == <<x, y>>
           b == <<u, v>>
           B == {x, y, u, v}
<1>1. /\ a \in Seq(B) /\ Len(a) = 2 /\ a[1] = x /\ a[2] = y
      /\ b \in Seq(B) /\ Len(b) = 2 /\ b[1] = u /\ b[2] = v
  OBVIOUS
<1> HIDE DEF a, b, B
<1>2. IsPrefix(a, b) <=> a[1] = b[1] /\ a[2] = b[2]
  <2>1. Len(b) >= 2
    BY <1>1
  <2> QED BY <1>1, <2>1, TwoPrefix
<1> QED BY <1>1, <1>2 DEF a, b

\* A pair begins a triple that has the same first two elements.
LEMMA PairOfTriple ==
    ASSUME NEW x, NEW y, NEW u, NEW v, NEW w
    PROVE  IsPrefix(<<x, y>>, <<u, v, w>>) <=> x = u /\ y = v
<1> DEFINE a == <<x, y>>
           b == <<u, v, w>>
           B == {x, y, u, v, w}
<1>1. /\ a \in Seq(B) /\ Len(a) = 2 /\ a[1] = x /\ a[2] = y
      /\ b \in Seq(B) /\ Len(b) = 3 /\ b[1] = u /\ b[2] = v
  OBVIOUS
<1> HIDE DEF a, b, B
<1>2. IsPrefix(a, b) <=> a[1] = b[1] /\ a[2] = b[2]
  <2>1. Len(b) >= 2
    BY <1>1
  <2> QED BY <1>1, <2>1, TwoPrefix
<1> QED BY <1>1, <1>2 DEF a, b

\* A triple does not begin a pair.
LEMMA TripleOfPair ==
    ASSUME NEW x, NEW y, NEW u, NEW v, NEW w
    PROVE  ~IsPrefix(<<u, v, w>>, <<x, y>>)
BY DEF IsPrefix

\* The empty sequence has no index.
LEMMA EmptyDomain == DOMAIN <<>> = {}
OBVIOUS

\* F applied to every element of s.
Each(s, F) == [k \in DOMAIN s |-> F[s[k]]]

Maps(F, B, C) == F \in [B -> Seq(C)]

\* What becomes of a sequence, when it grows.
LEMMA EachFacts ==
    ASSUME NEW B, NEW C, NEW F, Maps(F, B, C), NEW s \in Seq(B), NEW e \in B
    PROVE  /\ Each(s, F) \in Seq(Seq(C)) /\ FlattenSeq(Each(s, F)) \in Seq(C)
           /\ FlattenSeq(Each(Append(s, e), F)) = FlattenSeq(Each(s, F)) \o F[e]
<1>0. F \in [B -> Seq(C)]
  BY DEF Maps
<1> DEFINE V == Seq(C)
           ss == Each(s, F)
           tt == Each(Append(s, e), F)
<1>1. /\ Len(s) \in Nat /\ Len(Append(s, e)) = Len(s) + 1 /\ Append(s, e) \in Seq(B)
      /\ (\A k \in 1 .. Len(s) : Append(s, e)[k] = s[k]) /\ Append(s, e)[Len(s) + 1] = e
      /\ DOMAIN s = 1 .. Len(s) /\ DOMAIN Append(s, e) = 1 .. (Len(s) + 1)
  BY AppendProperties
<1>2. \A k \in 1 .. Len(s) : s[k] \in B
  OBVIOUS
<1>3. F[e] \in V /\ \A k \in 1 .. Len(s) : F[s[k]] \in V
  BY <1>0, <1>2
<1>4. ss \in Seq(V) /\ Len(ss) = Len(s) /\ \A k \in 1 .. Len(s) : ss[k] = F[s[k]]
  <2> HIDE DEF V
  <2>1. ss = [k \in 1 .. Len(s) |-> F[s[k]]]
    BY <1>1 DEF Each
  <2> QED BY <1>1, <1>3, <2>1
<1>5. /\ tt \in Seq(V) /\ Len(tt) = Len(s) + 1 /\ tt[Len(s) + 1] = F[e]
      /\ \A k \in 1 .. Len(s) : tt[k] = F[s[k]]
  <2> HIDE DEF V
  <2> DEFINE a == Append(s, e)
             L == Len(s) + 1
  <2>1. tt = [k \in 1 .. L |-> F[a[k]]]
    BY <1>1 DEF Each
  <2>2. L \in Nat /\ \A k \in 1 .. L : k = L \/ k \in 1 .. Len(s)
    BY <1>1
  <2>3. \A k \in 1 .. L : F[a[k]] \in V
    BY <1>1, <1>3, <2>2
  <2>4. \A k \in 1 .. Len(s) : k \in 1 .. L /\ a[k] = s[k]
    BY <1>1
  <2>5. L \in 1 .. L /\ a[L] = e
    BY <1>1
  <2> HIDE DEF a, L
  <2>6. tt \in Seq(V) /\ Len(tt) = L /\ tt[L] = F[e] /\ \A k \in 1 .. Len(s) : tt[k] = F[s[k]]
    BY <2>1, <2>2, <2>3, <2>4, <2>5
  <2> QED BY <2>6 DEF L
<1> HIDE DEF ss, tt
<1>6. tt = Append(ss, F[e])
  <2> HIDE DEF V
  <2> DEFINE u == Append(ss, F[e])
  <2>1. /\ u \in Seq(V) /\ Len(u) = Len(s) + 1 /\ u[Len(s) + 1] = F[e]
        /\ \A k \in 1 .. Len(s) : u[k] = ss[k]
    BY <1>3, <1>4, AppendProperties
  <2> HIDE DEF u
  <2>2. \A k \in 1 .. (Len(s) + 1) : k = Len(s) + 1 \/ k \in 1 .. Len(s)
    BY <1>1
  <2>3. \A k \in 1 .. (Len(s) + 1) : u[k] = tt[k]
    BY <1>4, <1>5, <2>1, <2>2
  <2>4. u = tt
    BY <1>5, <2>1, <2>3, SeqEqual
  <2> QED BY <2>4 DEF u
<1>7. FlattenSeq(ss) \in Seq(C) /\ FlattenSeq(Append(ss, F[e])) = FlattenSeq(ss) \o F[e]
  BY <1>3, <1>4, FlattenUnfolds
<1>8. ss \in Seq(Seq(C))
  BY <1>4
<1> QED BY <1>6, <1>7, <1>8 DEF ss, tt

\* And of the empty one.
LEMMA EachOfEmpty ==
    ASSUME NEW F
    PROVE  FlattenSeq(Each(<<>>, F)) = <<>>
<1>1. Each(<<>>, F) = <<>>
  BY EmptyDomain, EmptySeq DEF Each
<1> QED BY <1>1, EmptySeq, FlattenUnfolds

\* And of any.
LEMMA EachOfAny ==
    ASSUME NEW B, NEW C, NEW F, Maps(F, B, C), NEW s \in Seq(B)
    PROVE  FlattenSeq(Each(s, F)) \in Seq(C)
<1>1. CASE s = <<>>
  BY <1>1, EachOfEmpty, EmptySeq
<1>2. CASE s # <<>>
  <2>1. \E e : e \in B
    BY <1>2, LastOfSequence
  <2> QED BY <2>1, EachFacts
<1> QED BY <1>1, <1>2

\* Of two sequences, one behind the other.
LEMMA EachOfBoth ==
    ASSUME NEW B, NEW C, NEW F, Maps(F, B, C), NEW s \in Seq(B), NEW t \in Seq(B)
    PROVE  /\ FlattenSeq(Each(s, F)) \in Seq(C) /\ FlattenSeq(Each(t, F)) \in Seq(C)
           /\ FlattenSeq(Each(s \o t, F)) = FlattenSeq(Each(s, F)) \o FlattenSeq(Each(t, F))
<1> DEFINE G(u) == FlattenSeq(Each(u, F))
           P == {u \in Seq(B) : G(u) \in Seq(C) /\ G(s \o u) = G(s) \o G(u)}
<1>0. F \in [B -> Seq(C)]
  BY DEF Maps
<1>1. \A u \in Seq(B), e \in B : G(u) \in Seq(C) /\ G(Append(u, e)) = G(u) \o F[e]
  BY EachFacts
<1>2. G(<<>>) = <<>> /\ <<>> \in Seq(B) /\ <<>> \in Seq(C)
  BY EachOfEmpty, EmptySeq
<1>3. G(s) \in Seq(C)
  <2>1. CASE s = <<>>
    BY <1>2, <2>1
  <2>2. CASE s # <<>>
    <3>1. PICK u \in Seq(B), e \in B : s = Append(u, e)
      BY <2>2, LastOfSequence
    <3> QED BY <1>1, <3>1
  <2> QED BY <2>1, <2>2
<1>4. <<>> \in P
  <2>1. s \o <<>> = s /\ G(s) \o <<>> = G(s)
    BY <1>3, ConcatEmptySeq
  <2> QED BY <1>2, <2>1
<1>5. ASSUME NEW u \in Seq(B), NEW e \in B, u \in P PROVE Append(u, e) \in P
  <2>1. s \o Append(u, e) = Append(s \o u, e) /\ s \o u \in Seq(B) /\ Append(u, e) \in Seq(B)
    BY AppendApart, ConcatProperties, AppendProperties
  <2>2. G(Append(s \o u, e)) = G(s \o u) \o F[e] /\ G(Append(u, e)) = G(u) \o F[e]
    BY <1>1, <2>1
  <2>3. G(u) \in Seq(C) /\ F[e] \in Seq(C) /\ G(s \o u) = G(s) \o G(u)
    BY <1>0, <1>5
  <2> HIDE DEF G
  <2> DEFINE x == G(s)
             y == G(u)
             z == F[e]
  <2>4. (x \o y) \o z = x \o (y \o z) /\ y \o z \in Seq(C)
    <3>1. x \in Seq(C) /\ y \in Seq(C) /\ z \in Seq(C)
      BY <1>3, <2>3
    <3> HIDE DEF x, y, z
    <3>2. (x \o y) \o z = x \o (y \o z)
      BY <3>1, ConcatAssociative
    <3>3. y \o z \in Seq(C)
      BY <3>1, ConcatProperties
    <3> QED BY <3>2, <3>3
  <2> QED BY <2>1, <2>2, <2>3, <2>4
<1> HIDE DEF G
<1>6. \A u \in Seq(B) : u \in P
  <2> HIDE DEF P
  <2> QED BY <1>4, <1>5, SequenceInduction
<1> QED BY <1>3, <1>6 DEF G

\* With names for the results.
Concats(x, y, z) == z = x \o y

\* What the elements of two sequences become, one behind the other.
LEMMA EachConcat ==
    ASSUME NEW B, NEW C, NEW F, Maps(F, B, C), NEW s \in Seq(B), NEW t \in Seq(B),
           NEW u, Concats(s, t, u)
    PROVE  /\ FlattenSeq(Each(s, F)) \in Seq(C) /\ FlattenSeq(Each(t, F)) \in Seq(C)
           /\ Concats(FlattenSeq(Each(s, F)), FlattenSeq(Each(t, F)), FlattenSeq(Each(u, F)))
<1>1. u = s \o t
  BY DEF Concats
<1> QED BY <1>1, EachOfBoth DEF Concats
=============================================================================
