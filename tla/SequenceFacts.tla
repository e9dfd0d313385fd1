--------------------------- MODULE SequenceFacts ---------------------------
(***************************************************************************)
(* Facts about minima, recursive functions and sequences that the proofs   *)
(* about the modules of this project share.                                *)
(***************************************************************************)
EXTENDS Integers, SequencesExt, SequenceTheorems, WellFoundedInduction, TLAPS

----------------------------------------------------------------------------
(* Minima.                                                                 *)

\* A non-empty set of naturals has a least element.
LEMMA MinNat ==
    ASSUME NEW T \in SUBSET Nat, T # {}
    PROVE  \E x \in T : \A y \in T : x =< y
  <1> DEFINE R == {p \in Nat \X Nat : p[1] < p[2]}
  <1>1. R = OpToRel(<, Nat)
    BY DEF OpToRel
  <1>2. IsWellFoundedOn(R, Nat)
    BY <1>1, NatLessThanWellFounded
  <1>3. \E x \in T : \A y \in T : ~ (<<y, x>> \in R)
    <2> HIDE DEF R
    <2> QED BY <1>2, WFMin
  <1>4. ASSUME NEW x \in T, NEW y \in T, ~ (<<y, x>> \in R)
        PROVE  x =< y
    <2>1. <<y, x>> \in Nat \X Nat /\ <<y, x>>[1] = y /\ <<y, x>>[2] = x
      OBVIOUS
    <2>2. ~ (y < x)
      BY <2>1, <1>4
    <2>3. QED
      BY <2>2
  <1>5. QED
    BY <1>3, <1>4

\* What is computed step by step from a first value ...
IsRecursion(g, D, first, step, n) ==
    /\ g \in [0..n -> D] /\ g[0] = first
    /\ \A i \in 1..n : g[i] = step[<<g[i - 1], i>>]

\* ... exists.
LEMMA Recursion ==
    ASSUME NEW D, NEW first \in D, NEW step \in [D \X Nat -> D], NEW n \in Nat
    PROVE  \E g : IsRecursion(g, D, first, step, n)
  <1> DEFINE Is(g, m) == /\ g \in [0..m -> D] /\ g[0] = first
                         /\ \A i \in 1..m : g[i] = step[<<g[i - 1], i>>]
             T == {m \in Nat : ~ \E g : Is(g, m)}
  <1>1. CASE T = {}
    BY <1>1 DEF IsRecursion
  <1>2. CASE T # {}
    <2>1. PICK m \in T : \A k \in T : m =< k
      <3>1. T \in SUBSET Nat
        OBVIOUS
      <3> HIDE DEF T
      <3> QED BY <1>2, <3>1, MinNat
    <2>2. m \in Nat /\ ~ \E g : Is(g, m)
      OBVIOUS
    <2>3. CASE m = 0
      <3>1. Is([i \in 0..0 |-> first], 0)
        OBVIOUS
      <3>2. QED
        BY <3>1, <2>2, <2>3
    <2>4. CASE m # 0
      <3>1. m - 1 \in Nat /\ m - 1 \notin T
        <4>1. m - 1 \in Nat /\ ~(m =< m - 1)
          BY <2>2, <2>4
        <4> HIDE DEF T
        <4>2. QED
          BY <2>1, <4>1
      <3>2. PICK g : Is(g, m - 1)
        BY <3>1
      <3> DEFINE h == [i \in 0..m |-> IF i = m THEN step[<<g[m - 1], m>>] ELSE g[i]]
      <3>3. g[m - 1] \in D
        BY <3>1, <3>2
      <3>4. step[<<g[m - 1], m>>] \in D
        BY <2>2, <3>3
      <3>5. h \in [0..m -> D]
        <4>1. ASSUME NEW i \in 0..m, i # m PROVE g[i] \in D
          <5>1. i \in 0..m - 1
            BY <2>2, <4>1
          <5>2. QED
            BY <5>1, <3>2
        <4>2. QED
          BY <3>4, <4>1
      <3>6. h[0] = first /\ \A i \in 0..m - 1 : h[i] = g[i]
        BY <2>2, <2>4, <3>2
      <3>7. ASSUME NEW i \in 1..m PROVE h[i] = step[<<h[i - 1], i>>]
        <4>1. i - 1 \in 0..m - 1 /\ h[i - 1] = g[i - 1]
          BY <2>2, <3>6
        <4>2. CASE i = m
          <5>1. i \in 0..m
            OBVIOUS
          <5>2. h[i] = step[<<g[i - 1], i>>]
            BY <5>1, <4>2
          <5> HIDE DEF h
          <5>3. QED
            BY <5>2, <4>1
        <4>3. CASE i # m
          <5>1. i \in 1..m - 1 /\ i \in 0..m - 1
            BY <2>2, <4>3
          <5>2. h[i] = g[i] /\ g[i] = step[<<g[i - 1], i>>]
            <6> HIDE DEF h
            <6> QED BY <5>1, <3>2, <3>6
          <5>3. QED
            BY <5>2, <4>1
        <4>4. QED
          BY <4>2, <4>3
      <3>8. Is(h, m)
        <4> HIDE DEF h
        <4> QED BY <3>5, <3>6, <3>7
      <3>9. QED
        <4> HIDE DEF h, Is
        <4> QED BY <3>8, <2>2
    <2>5. QED
      BY <2>3, <2>4
  <1>3. QED
    BY <1>1, <1>2

\* A non-empty set of integers that is bounded below has a least element.
LEMMA MinInt ==
    ASSUME NEW T \in SUBSET Int, T # {}, NEW m \in Int, \A x \in T : m =< x
    PROVE  \E x \in T : \A y \in T : x =< y
  <1> DEFINE U == {x - m : x \in T}
  <1>1. U \in SUBSET Nat /\ U # {}
    <2>1. ASSUME NEW x \in T PROVE x - m \in Nat
      OBVIOUS
    <2>2. QED
      BY <2>1
  <1>2. PICK u \in U : \A w \in U : u =< w
    <2> HIDE DEF U
    <2> QED BY <1>1, MinNat
  <1>3. PICK x \in T : u = x - m
    OBVIOUS
  <1>4. \A y \in T : y - m \in U
    OBVIOUS
  <1>5. \A y \in T : x =< y
    BY <1>2, <1>3, <1>4
  <1>6. QED
    BY <1>5

\* Among finitely many indices with costs bounded below, one is the first of
\* minimal cost: what the loop of connect_node keeps.
LEMMA FirstMinimum ==
    ASSUME NEW S \in SUBSET Nat, S # {}, NEW m \in Int,
           NEW f \in [S -> Int], \A i \in S : m =< f[i]
    PROVE  \E i \in S : \A j \in S : f[i] < f[j] \/ (f[i] = f[j] /\ i =< j)
  <1> DEFINE T == {f[i] : i \in S}
  <1>1. T \in SUBSET Int /\ T # {} /\ \A x \in T : m =< x
    OBVIOUS
  <1>2. PICK x \in T : \A y \in T : x =< y
    <2> HIDE DEF T
    <2> QED BY <1>1, MinInt
  <1> DEFINE I == {i \in S : f[i] = x}
  <1>3. I \in SUBSET Nat /\ I # {}
    OBVIOUS
  <1>4. PICK i \in I : \A j \in I : i =< j
    <2> HIDE DEF I
    <2> QED BY <1>3, MinNat
  <1>5. ASSUME NEW j \in S PROVE f[i] < f[j] \/ (f[i] = f[j] /\ i =< j)
    <2>1. f[j] \in T /\ f[i] = x /\ f[j] \in Int /\ x \in Int
      OBVIOUS
    <2>2. x =< f[j]
      BY <2>1, <1>2
    <2>3. CASE f[j] = x
      BY <2>3, <2>1, <1>4
    <2>4. CASE f[j] # x
      BY <2>4, <2>1, <2>2
    <2>5. QED
      BY <2>3, <2>4
  <1>6. QED
    BY <1>5

----------------------------------------------------------------------------
(* Sequences.                                                              *)

\* What flattens a sequence of sequences, up to its m-th element.
IsFlattening(g, ss, m) ==
    g = [i \in 1..m |-> IF i = 1 THEN ss[i] ELSE g[i - 1] \o ss[i]]

\* Such a function exists for every length: the recursion of FlattenSeq ends.
LEMMA FlattenExists ==
    ASSUME NEW ss, NEW n \in Nat
    PROVE  \E g : IsFlattening(g, ss, n)
  <1> DEFINE T == {m \in Nat : ~ \E g : IsFlattening(g, ss, m)}
  <1>1. SUFFICES ASSUME T # {} PROVE FALSE
    OBVIOUS
  <1>2. PICK m \in T : \A k \in T : m =< k
    <2> HIDE DEF T
    <2>1. T \in SUBSET Nat
      BY DEF T
    <2> QED BY <1>1, <2>1, MinNat
  <1>3. m \in Nat
    OBVIOUS
  <1>4. CASE m = 0
    <2>1. IsFlattening([i \in {} |-> 0], ss, 0)
      BY DEF IsFlattening
    <2>2. QED
      BY <1>4, <2>1
  <1>5. CASE m > 0
    <2>1. PICK g : IsFlattening(g, ss, m - 1)
      BY <1>2, <1>3, <1>5
    <2> DEFINE h == [i \in 1..m |-> IF i = 1 THEN ss[i] ELSE g[i - 1] \o ss[i]]
    <2>2. m \in Nat
      BY <1>3
    <2> HIDE DEF T
    <2>3. \A i \in 1..m - 1 : g[i] = IF i = 1 THEN ss[i] ELSE g[i - 1] \o ss[i]
      BY <2>1 DEF IsFlattening
    <2>4. ASSUME NEW i \in 1..m - 1 PROVE h[i] = g[i]
      <3>1. i \in 1..m
        BY <2>2
      <3>2. QED
        BY <3>1, <2>3
    <2>5. ASSUME NEW i \in 1..m, i # 1 PROVE h[i - 1] = g[i - 1]
      <3>1. i - 1 \in 1..m - 1
        BY <2>5, <2>2
      <3>2. QED
        BY <3>1, <2>4
    <2>6. h = [i \in 1..m |-> IF i = 1 THEN ss[i] ELSE h[i - 1] \o ss[i]]
      BY <2>5
    <2>7. IsFlattening(h, ss, m)
      <3> HIDE DEF h
      <3> QED BY <2>6 DEF IsFlattening
    <2>8. m \in T
      OBVIOUS
    <2>9. QED
      BY <2>7, <2>8 DEF T
  <1>6. QED
    BY <1>3, <1>4, <1>5

\* The flattening of sequences over X is one over X.
LEMMA FlattenRange ==
    ASSUME NEW X, NEW ss \in Seq(Seq(X))
    PROVE  FlattenSeq(ss) \in Seq(X)
  <1> DEFINE n == Len(ss)
             g == CHOOSE f : IsFlattening(f, ss, n)
  <1>1. n \in Nat
    OBVIOUS
  <1>2. CASE n = 0
    <2>1. ss = <<>>
      BY <1>2
    <2>2. QED
      BY <1>2, <2>1 DEF FlattenSeq
  <1>3. CASE n > 0
    <2>1. IsFlattening(g, ss, n)
      BY <1>1, FlattenExists
    <2>2. FlattenSeq(ss) = g[n]
      BY <1>3 DEF FlattenSeq, IsFlattening
    <2> HIDE DEF g
    <2> DEFINE T == {i \in 1..n : g[i] \notin Seq(X)}
    <2>3. CASE T # {}
      <3>1. PICK m \in T : \A k \in T : m =< k
        <4>1. T \in SUBSET Nat
          OBVIOUS
        <4> HIDE DEF T
        <4> QED BY <2>3, <4>1, MinNat
      <3>2. m \in 1..n /\ g[m] \notin Seq(X)
        OBVIOUS
      <3>3. g[m] = IF m = 1 THEN ss[m] ELSE g[m - 1] \o ss[m]
        BY <2>1, <3>2 DEF IsFlattening
      <3>4. ss[m] \in Seq(X)
        BY <3>2
      <3>5. m # 1 => g[m - 1] \in Seq(X)
        <4>1. m # 1 => m - 1 \in 1..n /\ ~(m =< m - 1)
          BY <3>2, <1>1
        <4>2. QED
          BY <3>1, <4>1
      <3>6. QED
        BY <3>2, <3>3, <3>4, <3>5
    <2>4. CASE T = {}
      <3>1. n \in 1..n
        BY <1>1, <1>3
      <3>2. QED
        BY <2>2, <2>4, <3>1
    <2>5. QED
      BY <2>3, <2>4
  <1>4. QED
    BY <1>1, <1>2, <1>3

\* So is a function on 1..n, and what such a function is a sequence over.
LEMMA FunctionIsSeq ==
    ASSUME NEW X, NEW n \in Nat, NEW f \in [1..n -> X]
    PROVE  f \in Seq(X)
  OBVIOUS

LEMMA TailSeq ==
    ASSUME NEW X, NEW s \in Seq(X), s # <<>>
    PROVE  Tail(s) \in Seq(X)
  OBVIOUS

\* What Append, the push of a vector, gives.
LEMMA AppendFacts ==
    ASSUME NEW X, NEW s \in Seq(X), NEW x \in X
    PROVE  /\ Len(Append(s, x)) = Len(s) + 1
           /\ Append(s, x)[Len(s) + 1] = x
           /\ \A i \in 1..Len(s) : Append(s, x)[i] = s[i]
  OBVIOUS

\* Sequences of anything.
Elems(s) == {s[k] : k \in DOMAIN s}

IsSeq(s) == s \in Seq(Elems(s))

LEMMA SeqIsSeq ==
    ASSUME NEW X, NEW s \in Seq(X)
    PROVE  IsSeq(s) /\ Elems(s) \subseteq X
  <1>1. Len(s) \in Nat /\ DOMAIN s = 1..Len(s) /\ s = [k \in 1..Len(s) |-> s[k]]
    OBVIOUS
  <1>2. \A k \in 1..Len(s) : s[k] \in Elems(s) /\ s[k] \in X
    BY <1>1 DEF Elems
  <1>3. Elems(s) \subseteq X
    BY <1>1, <1>2 DEF Elems
  <1>4. s \in [1..Len(s) -> Elems(s)]
    BY <1>1, <1>2
  <1>5. QED
    BY <1>1, <1>3, <1>4 DEF IsSeq

LEMMA MapIsSeq ==
    ASSUME NEW n \in Nat, NEW f, f = [k \in 1..n |-> f[k]]
    PROVE  IsSeq(f) /\ Len(f) = n /\ DOMAIN f = 1..n
  <1>1. DOMAIN f = 1..n
    OBVIOUS
  <1>2. \A k \in 1..n : f[k] \in Elems(f)
    BY <1>1 DEF Elems
  <1>3. f \in [1..n -> Elems(f)]
    BY <1>2
  <1>4. f \in Seq(Elems(f)) /\ Len(f) = n
    BY <1>1, <1>3
  <1>5. QED
    BY <1>1, <1>4 DEF IsSeq

LEMMA ConcatIsSeq ==
    ASSUME NEW s, IsSeq(s), NEW t, IsSeq(t)
    PROVE  IsSeq(s \o t) /\ Elems(s \o t) \subseteq Elems(s) \cup Elems(t)
  <1> DEFINE X == Elems(s) \cup Elems(t)
  <1>1. s \in Seq(X) /\ t \in Seq(X)
    <2>1. Len(s) \in Nat /\ s \in [1..Len(s) -> Elems(s)]
      BY DEF IsSeq
    <2>2. Len(t) \in Nat /\ t \in [1..Len(t) -> Elems(t)]
      BY DEF IsSeq
    <2>3. s \in [1..Len(s) -> X] /\ t \in [1..Len(t) -> X]
      BY <2>1, <2>2
    <2> HIDE DEF X
    <2>4. QED
      BY <2>1, <2>2, <2>3
  <1> HIDE DEF X
  <1>2. s \o t \in Seq(X)
    BY <1>1
  <1>3. QED
    BY <1>2, SeqIsSeq DEF X

\* The elements of a flattening are those of its parts.
LEMMA FlattenElems ==
    ASSUME NEW n \in Nat, NEW ss, ss = [i \in 1..n |-> ss[i]],
           \A i \in 1..n : IsSeq(ss[i])
    PROVE  /\ IsSeq(FlattenSeq(ss))
           /\ \A x \in Elems(FlattenSeq(ss)) : \E i \in 1..n : x \in Elems(ss[i])
  <1> DEFINE X == UNION {Elems(ss[i]) : i \in 1..n}
  <1>1. ASSUME NEW i \in 1..n PROVE ss[i] \in Seq(X)
    <2>1. Len(ss[i]) \in Nat /\ ss[i] \in [1..Len(ss[i]) -> Elems(ss[i])]
      BY DEF IsSeq
    <2>2. Elems(ss[i]) \subseteq X
      OBVIOUS
    <2>3. ss[i] \in [1..Len(ss[i]) -> X]
      BY <2>1, <2>2
    <2> HIDE DEF X
    <2>4. QED
      BY <2>1, <2>3
  <1> HIDE DEF X
  <1>2. ss \in [1..n -> Seq(X)]
    BY <1>1
  <1>3. ss \in Seq(Seq(X))
    BY <1>2
  <1>4. FlattenSeq(ss) \in Seq(X)
    BY <1>3, FlattenRange
  <1>5. IsSeq(FlattenSeq(ss)) /\ Elems(FlattenSeq(ss)) \subseteq X
    BY <1>4, SeqIsSeq
  <1>6. \A x \in X : \E i \in 1..n : x \in Elems(ss[i])
    BY DEF X
  <1>7. QED
    BY <1>5, <1>6

\* What FlattenSeq computes, part by part.
LEMMA FlattenStages ==
    ASSUME NEW n \in Nat, n > 0, NEW ss, ss = [i \in 1..n |-> ss[i]]
    PROVE  \E g : IsFlattening(g, ss, n) /\ FlattenSeq(ss) = g[n]
  <1> DEFINE g == CHOOSE f : IsFlattening(f, ss, n)
  <1>1. IsFlattening(g, ss, n)
    BY FlattenExists
  <1>2. Len(ss) = n
    BY MapIsSeq
  <1>3. FlattenSeq(ss) = g[n]
    BY <1>2 DEF FlattenSeq, IsFlattening
  <1>4. QED
    BY <1>1, <1>3

LEMMA ConcatAt ==
    ASSUME NEW s, IsSeq(s), NEW t, IsSeq(t)
    PROVE  /\ Len(s \o t) = Len(s) + Len(t) /\ DOMAIN (s \o t) = 1..Len(s) + Len(t)
           /\ \A k \in 1..Len(s) : (s \o t)[k] = s[k]
           /\ \A k \in 1..Len(t) : (s \o t)[Len(s) + k] = t[k]
  <1> DEFINE X == Elems(s) \cup Elems(t)
  <1>1. s \in Seq(X) /\ t \in Seq(X)
    <2>1. Len(s) \in Nat /\ s \in [1..Len(s) -> Elems(s)]
      BY DEF IsSeq
    <2>2. Len(t) \in Nat /\ t \in [1..Len(t) -> Elems(t)]
      BY DEF IsSeq
    <2>3. s \in [1..Len(s) -> X] /\ t \in [1..Len(t) -> X]
      BY <2>1, <2>2
    <2> HIDE DEF X
    <2>4. QED
      BY <2>1, <2>2, <2>3
  <1> HIDE DEF X
  <1>2. QED
    BY <1>1

\* The images of the elements of a sequence.
Mapped(F, s) == [k \in DOMAIN s |-> F[s[k]]]

LEMMA MappedSeq ==
    ASSUME NEW F, NEW s, IsSeq(s)
    PROVE  /\ IsSeq(Mapped(F, s)) /\ Len(Mapped(F, s)) = Len(s)
           /\ DOMAIN Mapped(F, s) = 1..Len(s)
           /\ \A k \in 1..Len(s) : Mapped(F, s)[k] = F[s[k]]
  <1> DEFINE t == Mapped(F, s)
  <1>1. Len(s) \in Nat /\ DOMAIN s = 1..Len(s)
    BY DEF IsSeq
  <1>2. t = [k \in 1..Len(s) |-> t[k]] /\ \A k \in 1..Len(s) : t[k] = F[s[k]]
    BY <1>1 DEF Mapped
  <1> HIDE DEF t
  <1>3. IsSeq(t) /\ Len(t) = Len(s) /\ DOMAIN t = 1..Len(s)
    BY <1>1, <1>2, MapIsSeq
  <1>4. QED
    BY <1>2, <1>3 DEF t

LEMMA ConcatMapped ==
    ASSUME NEW F, NEW s, IsSeq(s), NEW t, IsSeq(t)
    PROVE  Mapped(F, s \o t) = Mapped(F, s) \o Mapped(F, t)
  <1> DEFINE n == Len(s)
             l == Len(t)
             a == Mapped(F, s)
             b == Mapped(F, t)
             r == s \o t
             w == a \o b
  <1>1. n \in Nat /\ l \in Nat
    BY DEF IsSeq
  <1>2. IsSeq(a) /\ Len(a) = n /\ IsSeq(b) /\ Len(b) = l
        /\ (\A k \in 1..n : a[k] = F[s[k]]) /\ \A k \in 1..l : b[k] = F[t[k]]
    BY MappedSeq
  <1> HIDE DEF a, b
  <1>3. /\ DOMAIN r = 1..n + l /\ (\A k \in 1..n : r[k] = s[k])
        /\ \A k \in 1..l : r[n + k] = t[k]
    BY ConcatAt
  <1>4. /\ Len(w) = n + l /\ (\A k \in 1..n : w[k] = a[k])
        /\ \A k \in 1..l : w[n + k] = b[k]
    <2>1. /\ Len(w) = Len(a) + Len(b)
          /\ (\A k \in 1..Len(a) : w[k] = a[k])
          /\ \A k \in 1..Len(b) : w[Len(a) + k] = b[k]
      <3>1. IsSeq(a) /\ IsSeq(b)
        BY <1>2
      <3>2. QED
        BY <3>1, ConcatAt
    <2> HIDE DEF w
    <2>2. QED
      BY <1>2, <2>1
  <1>5. w = [k \in 1..n + l |-> w[k]]
    <2>1. IsSeq(w) /\ Len(w) = n + l
      BY <1>2, <1>4, ConcatIsSeq
    <2> HIDE DEF w
    <2>2. QED
      BY <2>1 DEF IsSeq
  <1> HIDE DEF r, w
  <1>6. ASSUME NEW k \in 1..n + l PROVE F[r[k]] = w[k]
    <2>1. CASE k \in 1..n
      BY <1>2, <1>3, <1>4, <2>1
    <2>2. CASE k \notin 1..n
      <3>1. k - n \in 1..l /\ n + (k - n) = k
        BY <1>1, <2>2
      <3>2. r[n + (k - n)] = t[k - n] /\ w[n + (k - n)] = b[k - n]
        BY <1>3, <1>4, <3>1
      <3>3. QED
        BY <1>2, <3>1, <3>2
    <2>3. QED
      BY <2>1, <2>2
  <1>7. Mapped(F, r) = w
    BY <1>3, <1>5, <1>6 DEF Mapped
  <1>8. QED
    BY <1>7 DEF r, w, a, b

\* The images of a flattening are the flattening of the images.
AreImages(F, ss, us, n) == \A i \in 1..n : IsSeq(ss[i]) /\ us[i] = Mapped(F, ss[i])

LEMMA FlattenMapped ==
    ASSUME NEW F, NEW n \in Nat, n > 0, NEW ss, ss = [i \in 1..n |-> ss[i]],
           NEW us, us = [i \in 1..n |-> us[i]], AreImages(F, ss, us, n)
    PROVE  FlattenSeq(us) = Mapped(F, FlattenSeq(ss))
  <1>1. PICK g : IsFlattening(g, ss, n) /\ FlattenSeq(ss) = g[n]
    BY FlattenStages
  <1>2. PICK h : IsFlattening(h, us, n) /\ FlattenSeq(us) = h[n]
    BY FlattenStages
  <1> DEFINE T == {i \in 1..n : ~(IsSeq(g[i]) /\ h[i] = Mapped(F, g[i]))}
  <1>3. CASE T # {}
    <2>1. PICK m \in T : \A k \in T : m =< k
      <3>1. T \in SUBSET Nat
        OBVIOUS
      <3> HIDE DEF T
      <3> QED BY <1>3, <3>1, MinNat
    <2>2. m \in 1..n /\ ~(IsSeq(g[m]) /\ h[m] = Mapped(F, g[m]))
      OBVIOUS
    <2>3. /\ g[m] = IF m = 1 THEN ss[m] ELSE g[m - 1] \o ss[m]
          /\ h[m] = IF m = 1 THEN us[m] ELSE h[m - 1] \o us[m]
      BY <1>1, <1>2, <2>2 DEF IsFlattening
    <2>4. CASE m = 1
      BY <2>2, <2>3, <2>4 DEF AreImages
    <2>5. CASE m # 1
      <3>1. m - 1 \in 1..n /\ ~(m =< m - 1)
        BY <2>2, <2>5
      <3>2. m - 1 \notin T
        <4> HIDE DEF T
        <4> QED BY <2>1, <3>1
      <3>3. IsSeq(g[m - 1]) /\ h[m - 1] = Mapped(F, g[m - 1])
        BY <3>1, <3>2
      <3>4. IsSeq(ss[m]) /\ us[m] = Mapped(F, ss[m])
        BY <2>2 DEF AreImages
      <3>5. IsSeq(g[m - 1] \o ss[m])
        BY <3>3, <3>4, ConcatIsSeq
      <3>6. Mapped(F, g[m - 1] \o ss[m]) = Mapped(F, g[m - 1]) \o Mapped(F, ss[m])
        <4> DEFINE a == g[m - 1]
                   b == ss[m]
        <4>1. IsSeq(a) /\ IsSeq(b)
          BY <3>3, <3>4
        <4> HIDE DEF a, b
        <4>2. Mapped(F, a \o b) = Mapped(F, a) \o Mapped(F, b)
          BY <4>1, ConcatMapped
        <4>3. QED
          BY <4>2 DEF a, b
      <3>7. QED
        BY <2>2, <2>3, <2>5, <3>3, <3>4, <3>5, <3>6
    <2>6. QED
      BY <2>4, <2>5
  <1>4. CASE T = {}
    <2>1. n \in 1..n
      OBVIOUS
    <2>2. QED
      BY <1>1, <1>2, <1>4, <2>1
  <1>5. QED
    BY <1>3, <1>4

\* The flattening of one-element sequences puts their elements in a row.
LEMMA FlattenSingles ==
    ASSUME NEW n \in Nat, NEW s, s = [i \in 1..n |-> s[i]]
    PROVE  FlattenSeq([i \in 1..n |-> <<s[i]>>]) = s
  <1> DEFINE ss == [i \in 1..n |-> <<s[i]>>]
             Part(i) == [j \in 1..i |-> s[j]]
  <1>1. CASE n = 0
    <2>1. ss = <<>> /\ s = <<>> /\ Len(<<>>) = 0
      BY <1>1
    <2>2. QED
      BY <2>1 DEF FlattenSeq
  <1>2. CASE n > 0
    <2>1. PICK g : IsFlattening(g, ss, n) /\ FlattenSeq(ss) = g[n]
      BY <1>2, FlattenStages
    <2> DEFINE T == {i \in 1..n : g[i] # Part(i)}
    <2>2. CASE T # {}
      <3>1. PICK m \in T : \A k \in T : m =< k
        <4>1. T \in SUBSET Nat
          OBVIOUS
        <4> HIDE DEF T
        <4> QED BY <2>2, <4>1, MinNat
      <3>2. m \in 1..n /\ g[m] # Part(m)
        OBVIOUS
      <3>3. g[m] = IF m = 1 THEN <<s[m]>> ELSE g[m - 1] \o <<s[m]>>
        BY <2>1, <3>2 DEF IsFlattening
      <3>4. CASE m = 1
        <4>1. g[m] = <<s[1]>>
          BY <3>3, <3>4
        <4>2. <<s[1]>> = [j \in 1..1 |-> s[j]]
          OBVIOUS
        <4>3. QED
          BY <4>1, <4>2, <3>2, <3>4
      <3>5. CASE m # 1
        <4>1. m - 1 \in 1..n /\ m - 1 \notin T
          <5>1. m - 1 \in 1..n /\ ~(m =< m - 1)
            BY <3>2, <3>5
          <5> HIDE DEF T
          <5>2. QED
            BY <3>1, <5>1
        <4>2. g[m - 1] = Part(m - 1)
          BY <4>1
        <4>3. Part(m - 1) \o <<s[m]>> = Part(m)
          <5> DEFINE q == Part(m - 1)
                     X == {s[j] : j \in 1..n}
          <5>1. q \in [1..m - 1 -> X] /\ s[m] \in X /\ m - 1 \in Nat
            BY <3>2, <3>5
          <5>2. \A j \in 1..m - 1 : q[j] = s[j]
            OBVIOUS
          <5> HIDE DEF q, X
          <5>3. q \in Seq(X) /\ Len(q) = m - 1 /\ <<s[m]>> \in Seq(X)
            BY <5>1
          <5> DEFINE r == q \o <<s[m]>>
          <5>4. /\ r \in Seq(X) /\ Len(r) = m
                /\ \A j \in 1..m : r[j] = s[j]
            <6>1. IsSeq(q) /\ IsSeq(<<s[m]>>) /\ Len(<<s[m]>>) = 1 /\ <<s[m]>>[1] = s[m]
              BY <5>3, SeqIsSeq
            <6>2. /\ Len(r) = Len(q) + 1 /\ \A j \in 1..Len(q) : r[j] = q[j]
                  /\ r[Len(q) + 1] = s[m]
              <7>1. 1 \in 1..Len(<<s[m]>>)
                BY <6>1
              <7> QED BY <6>1, <7>1, ConcatAt
            <6>3. r \in Seq(X)
              BY <5>3
            <6> HIDE DEF r
            <6>4. ASSUME NEW j \in 1..m PROVE r[j] = s[j]
              <7>1. CASE j = m
                BY <7>1, <5>1, <5>3, <6>2
              <7>2. CASE j # m
                <8>1. j \in 1..m - 1
                  BY <3>2, <7>2
                <8>2. QED
                  BY <8>1, <5>2, <5>3, <6>2
              <7>3. QED
                BY <7>1, <7>2
            <6>5. Len(r) = m
              BY <3>2, <5>3, <6>2
            <6>6. QED
              BY <6>3, <6>4, <6>5
          <5> HIDE DEF r
          <5>5. r = [j \in 1..m |-> s[j]]
            <6>1. r = [j \in 1..m |-> r[j]]
              BY <5>4
            <6>2. QED
              BY <5>4, <6>1
          <5>6. QED
            BY <5>5 DEF q, r
        <4>4. QED
          BY <3>2, <3>3, <3>5, <4>2, <4>3
      <3>6. QED
        BY <3>4, <3>5
    <2>3. CASE T = {}
      <3>1. n \in 1..n
        BY <1>2
      <3>2. g[n] = Part(n)
        BY <2>3, <3>1
      <3>3. QED
        BY <2>1, <3>2
    <2>4. QED
      BY <2>2, <2>3
  <1>3. QED
    BY <1>1, <1>2

Sums(e, v, k) == \A i \in 1..k : e[i] = e[i - 1] + v[i]

\* A running sum is determined by where it starts and what is added.
LEMMA SumIs ==
    ASSUME NEW k \in Nat, NEW v, NEW e, Sums(e, v, k), NEW g, Sums(g, v, k),
           e[0] = g[0]
    PROVE  e[k] = g[k]
  <1> DEFINE T == {i \in 0..k : e[i] # g[i]}
  <1>1. CASE T # {}
    <2>1. PICK m \in T : \A j \in T : m =< j
      <3>1. T \in SUBSET Nat
        OBVIOUS
      <3> HIDE DEF T
      <3> QED BY <1>1, <3>1, MinNat
    <2>2. m \in 0..k /\ e[m] # g[m]
      OBVIOUS
    <2>3. m # 0
      BY <2>2
    <2>4. m \in 1..k /\ m - 1 \in 0..k /\ ~(m =< m - 1)
      BY <2>2, <2>3
    <2>5. e[m - 1] = g[m - 1]
      BY <2>1, <2>4
    <2>6. QED
      BY <2>2, <2>4, <2>5 DEF Sums
  <1>2. CASE T = {}
    <2>1. k \in 0..k
      OBVIOUS
    <2>2. QED
      BY <1>2, <2>1
  <1>3. QED
    BY <1>1, <1>2

\* A running sum of naturals.
LEMMA RunningSum ==
    ASSUME NEW n \in Nat, NEW first \in Nat, NEW v \in [1..n -> Nat]
    PROVE  \E g \in [0..n -> Nat] :
               g[0] = first /\ \A i \in 1..n : g[i] = g[i - 1] + v[i]
  <1> DEFINE step == [p \in Nat \X Nat |-> IF p[2] \in 1..n THEN p[1] + v[p[2]] ELSE 0]
  <1>1. step \in [Nat \X Nat -> Nat]
    OBVIOUS
  <1>2. \A a \in Nat : \A i \in 1..n : step[<<a, i>>] = a + v[i]
    OBVIOUS
  <1> HIDE DEF step
  <1>3. PICK g : IsRecursion(g, Nat, first, step, n)
    BY <1>1, Recursion
  <1>4. g \in [0..n -> Nat] /\ g[0] = first
        /\ \A i \in 1..n : g[i] = step[<<g[i - 1], i>>]
    BY <1>3 DEF IsRecursion
  <1>5. ASSUME NEW i \in 1..n PROVE g[i] = g[i - 1] + v[i]
    <2>1. i - 1 \in 0..n
      OBVIOUS
    <2>2. QED
      BY <2>1, <1>2, <1>4
  <1>6. QED
    BY <1>4, <1>5
=============================================================================
