------------------------- MODULE BatchLookupProofs -------------------------
(***************************************************************************)
(* Proofs about BatchLookup, for all lexicons, texts, start positions and  *)
(* numbers of lanes.  What is still to be reported to a bucket is known at *)
(* every moment (ReportsOK): the lexicons before this one, and before them *)
(* what the walk of the lane that has the bucket has yet to find.  So the  *)
(* interleaved walks implement PrefixLookup.                               *)
(***************************************************************************)
EXTENDS BatchLookup, FiniteSetTheorems, SequenceFacts

(* Concatenation.                                                          *)

Associate(a, b, c) == (a \o b) \o c = a \o (b \o c)

LEMMA Assoc ==
  ASSUME NEW a, IsSeq(a), NEW b, IsSeq(b), NEW c, IsSeq(c)
  PROVE  Associate(a, b, c)
<1> DEFINE X == Elems(a) \cup Elems(b) \cup Elems(c)
<1>1. a \in Seq(X) /\ b \in Seq(X) /\ c \in Seq(X)
  <2>1. /\ Len(a) \in Nat /\ a \in [1..Len(a) -> Elems(a)]
        /\ Len(b) \in Nat /\ b \in [1..Len(b) -> Elems(b)]
        /\ Len(c) \in Nat /\ c \in [1..Len(c) -> Elems(c)]
    BY DEF IsSeq
  <2>2. /\ a \in [1..Len(a) -> X]
        /\ b \in [1..Len(b) -> X]
        /\ c \in [1..Len(c) -> X]
    BY <2>1
  <2> HIDE DEF X
  <2> QED BY <2>1, <2>2
<1> HIDE DEF X
<1> QED BY <1>1, ConcatAssociative DEF Associate

LEMMA EmptyConcat ==
  ASSUME NEW a, IsSeq(a)
  PROVE  a \o <<>> = a /\ <<>> \o a = a
<1>1. a \in Seq(Elems(a))
  BY DEF IsSeq
<1> QED BY <1>1, ConcatEmptySeq

LEMMA EmptyIsSeq == IsSeq(<<>>)
BY DEF IsSeq

\* The flattening of nothing, and of one part more in front.
LEMMA FlattenNothing ==
  ASSUME NEW ss, ss = [i \in 1..0 |-> ss[i]]
  PROVE  FlattenSeq(ss) = <<>>
<1>1. ss = <<>> /\ Len(<<>>) = 0
  OBVIOUS
<1> QED BY <1>1 DEF FlattenSeq

IsConsOf(us, x, ss, n) ==
  /\ us = [i \in 1..n + 1 |-> us[i]]
  /\ us[1] = x
  /\ \A i \in 1..n : us[i + 1] = ss[i]

LEMMA FlattenCons ==
  ASSUME NEW n \in Nat, NEW ss, ss = [i \in 1..n |-> ss[i]],
         \A i \in 1..n : IsSeq(ss[i]),
         NEW x, IsSeq(x), NEW us, IsConsOf(us, x, ss, n)
  PROVE  /\ FlattenSeq(us) = x \o FlattenSeq(ss)
         /\ IsSeq(FlattenSeq(ss))
<1>1. PICK h : IsFlattening(h, us, n + 1) /\ FlattenSeq(us) = h[n + 1]
  <2>1. n + 1 \in Nat /\ n + 1 > 0 /\ us = [i \in 1..n + 1 |-> us[i]]
    BY DEF IsConsOf
  <2> QED BY <2>1, FlattenStages
<1>2. /\ us[1] = x
      /\ \A i \in 1..n : us[i + 1] = ss[i]
      /\ \A i \in 1..n + 1 : h[i] = IF i = 1 THEN us[i] ELSE h[i - 1] \o us[i]
  BY <1>1 DEF IsConsOf, IsFlattening
<1>3. h[1] = x
  <2>1. 1 \in 1..n + 1
    OBVIOUS
  <2> QED BY <1>2, <2>1
<1>4. CASE n = 0
  <2>1. FlattenSeq(ss) = <<>>
    BY <1>4, FlattenNothing
  <2>2. FlattenSeq(us) = x
    BY <1>1, <1>3, <1>4
  <2>3. x \o <<>> = x
    BY EmptyConcat
  <2> QED BY <2>1, <2>2, <2>3, EmptyIsSeq
<1>5. CASE n > 0
  <2>1. PICK g : IsFlattening(g, ss, n) /\ FlattenSeq(ss) = g[n]
    BY <1>5, FlattenStages
  <2>2. \A i \in 1..n : g[i] = IF i = 1 THEN ss[i] ELSE g[i - 1] \o ss[i]
    BY <2>1 DEF IsFlattening
  <2> DEFINE T == {i \in 1..n : ~(IsSeq(g[i]) /\ h[i + 1] = x \o g[i])}
  <2>3. CASE T # {}
    <3>1. PICK m \in T : \A k \in T : m =< k
      <4>1. T \in SUBSET Nat
        OBVIOUS
      <4> HIDE DEF T
      <4> QED BY <2>3, <4>1, MinNat
    <3>2. m \in 1..n /\ ~(IsSeq(g[m]) /\ h[m + 1] = x \o g[m])
      OBVIOUS
    <3>3. /\ g[m] = IF m = 1 THEN ss[m] ELSE g[m - 1] \o ss[m]
          /\ h[m + 1] = h[m] \o ss[m]
          /\ IsSeq(ss[m])
      <4>1. m + 1 \in 1..n + 1 /\ m + 1 # 1 /\ (m + 1) - 1 = m
        BY <3>2
      <4>2. h[m + 1] = h[(m + 1) - 1] \o us[m + 1]
        BY <1>2, <4>1
      <4> QED BY <1>2, <2>2, <3>2, <4>1, <4>2
    <3>4. CASE m = 1
      BY <1>3, <3>2, <3>3, <3>4
    <3>5. CASE m # 1
      <4>1. m - 1 \in 1..n /\ ~(m =< m - 1) /\ (m - 1) + 1 = m
        BY <3>2, <3>5
      <4>2. m - 1 \notin T
        <5> HIDE DEF T
        <5> QED BY <3>1, <4>1
      <4>3. IsSeq(g[m - 1]) /\ h[m] = x \o g[m - 1]
        <5>1. IsSeq(g[m - 1]) /\ h[(m - 1) + 1] = x \o g[m - 1]
          BY <4>1, <4>2
        <5> QED BY <4>1, <5>1
      <4> DEFINE a == g[m - 1]
                 b == ss[m]
      <4>4. IsSeq(a) /\ IsSeq(b) /\ h[m] = x \o a /\ g[m] = a \o b
            /\ h[m + 1] = h[m] \o b
        BY <3>3, <3>5, <4>3
      <4> HIDE DEF a, b
      <4>5. IsSeq(a \o b)
        BY <4>4, ConcatIsSeq
      <4>6. (x \o a) \o b = x \o (a \o b)
        <5>1. Associate(x, a, b)
          BY <4>4, Assoc
        <5> QED BY <5>1 DEF Associate
      <4> QED BY <3>2, <4>4, <4>5, <4>6
    <3> QED BY <3>4, <3>5
  <2>4. CASE T = {}
    <3>1. n \in 1..n
      BY <1>5
    <3>2. IsSeq(g[n]) /\ h[n + 1] = x \o g[n]
      BY <2>4, <3>1
    <3> QED BY <1>1, <2>1, <3>2
  <2> QED BY <2>3, <2>4
<1> QED BY <1>4, <1>5

LEMMA FlattenIsSeq ==
  ASSUME NEW n \in Nat, NEW ss, ss = [i \in 1..n |-> ss[i]],
         \A i \in 1..n : IsSeq(ss[i])
  PROVE  IsSeq(FlattenSeq(ss))
BY FlattenElems

---------------------------------------------------------------------------
(* The walk of the trie.                                                   *)

(* A step is a match, with the value of the form that led here, or it goes *)
(* on without one, or there is no form that begins so.                     *)
LEMMA StepOfWalk ==
  ASSUME NEW values, NEW node, NEW k
  PROVE  LET o == Walk(values, node, k)
         IN  \/ o.kind = "dead"
             \/ o.kind = "continue" /\ o.node = Append(node, k)
             \/ /\ o.kind = "match" /\ o.node = Append(node, k)
                /\ o.node \in DOMAIN values /\ o.value = values[o.node]
BY DEF Walk

Nodes(s) == Seq(Range(s))

LEMMA NodeBelow ==
  ASSUME NEW s, IsSeq(s), NEW i \in 0..Len(s), i # Len(s), NEW node \in Nodes(s)
  PROVE  Append(node, s[i + 1]) \in Nodes(s)
<1>1. i + 1 \in DOMAIN s
  BY DEF IsSeq
<1>2. s[i + 1] \in Range(s)
  BY <1>1 DEF Range
<1> QED BY <1>2 DEF Nodes

Places(s) == [node : Nodes(s), pos : 0..Len(s)]

(* What the walk finds from a node and a position on.                      *)
FindsNext(g, values, s, at) ==
  IF at.pos = Len(s) THEN <<>>
  ELSE LET o == Walk(values, at.node, s[at.pos + 1])
           rest == g[[node |-> o.node, pos |-> at.pos + 1]]
       IN  CASE o.kind = "dead" -> <<>>
             [] o.kind = "continue" -> rest
             [] o.kind = "match" ->
                  <<[value |-> o.value, end |-> at.pos + 1]>> \o rest

IsWalk(g, values, s) == g = [at \in Places(s) |-> FindsNext(g, values, s, at)]

TrieWalk(values, s) == CHOOSE g : IsWalk(g, values, s)

LEMMA PrefixMatchesWalk ==
  ASSUME NEW values, NEW s, NEW offset
  PROVE  PrefixMatches(values, s, offset) =
           TrieWalk(values, s)[[node |-> Root, pos |-> offset]]
BY DEF PrefixMatches, TrieWalk, IsWalk, FindsNext, Places, Nodes

LEMMA PlaceBelow ==
  ASSUME NEW s, IsSeq(s), NEW at \in Places(s), at.pos # Len(s)
  PROVE  /\ at.pos \in Nat /\ at.pos + 1 \in 0..Len(s) /\ at.pos + 1 \in Nat
         /\ at.node \in Nodes(s) /\ Append(at.node, s[at.pos + 1]) \in Nodes(s)
         /\ [node |-> Append(at.node, s[at.pos + 1]), pos |-> at.pos + 1] \in Places(s)
<1>1. Len(s) \in Nat /\ at.pos \in 0..Len(s) /\ at.node \in Nodes(s)
  BY DEF IsSeq, Places
<1>2. Append(at.node, s[at.pos + 1]) \in Nodes(s)
  BY <1>1, NodeBelow
<1>3. at.pos \in Nat /\ at.pos + 1 \in 0..Len(s) /\ at.pos + 1 \in Nat
  BY <1>1
<1> QED BY <1>1, <1>2, <1>3 DEF Places

(* What FindsNext takes of g is one value.                                 *)
Below(s, at) == [node |-> Append(at.node, s[at.pos + 1]), pos |-> at.pos + 1]

FindsThen(values, s, at, rest) ==
  IF at.pos = Len(s) THEN <<>>
  ELSE LET o == Walk(values, at.node, s[at.pos + 1])
       IN  CASE o.kind = "dead" -> <<>>
             [] o.kind = "continue" -> rest
             [] o.kind = "match" ->
                  <<[value |-> o.value, end |-> at.pos + 1]>> \o rest

LEMMA FindsNextThen ==
  ASSUME NEW values, NEW s, NEW at, NEW g
  PROVE  FindsNext(g, values, s, at) = FindsThen(values, s, at, g[Below(s, at)])
<1> DEFINE o == Walk(values, at.node, s[at.pos + 1])
<1>1. \/ o.kind = "dead"
      \/ o.kind = "continue" /\ o.node = Append(at.node, s[at.pos + 1])
      \/ o.kind = "match" /\ o.node = Append(at.node, s[at.pos + 1])
  BY StepOfWalk
<1>2. CASE at.pos = Len(s)
  BY <1>2 DEF FindsNext, FindsThen
<1>3. CASE at.pos # Len(s) /\ o.kind = "dead"
  BY <1>3 DEF FindsNext, FindsThen
<1>4. CASE at.pos # Len(s) /\ o.kind = "continue" /\ o.node = Append(at.node, s[at.pos + 1])
  BY <1>4 DEF FindsNext, FindsThen, Below
<1>5. CASE at.pos # Len(s) /\ o.kind = "match" /\ o.node = Append(at.node, s[at.pos + 1])
  BY <1>5 DEF FindsNext, FindsThen, Below
<1> QED BY <1>1, <1>2, <1>3, <1>4, <1>5

(* What a match of the trie can be.                                        *)
TrieMatch(values) == [value : {values[f] : f \in DOMAIN values}, end : Nat]

LEMMA FoundIsSeq ==
  ASSUME NEW values, NEW s, IsSeq(s), NEW at \in Places(s), NEW rest,
         at.pos # Len(s) => rest \in Seq(TrieMatch(values))
  PROVE  FindsThen(values, s, at, rest) \in Seq(TrieMatch(values))
<1> DEFINE o == Walk(values, at.node, s[at.pos + 1])
<1>1. CASE at.pos = Len(s)
  BY <1>1 DEF FindsThen
<1>2. CASE at.pos # Len(s)
  <2>1. \/ o.kind = "dead"
        \/ o.kind = "continue"
        \/ o.kind = "match" /\ o.node \in DOMAIN values /\ o.value = values[o.node]
    BY StepOfWalk
  <2>2. at.pos + 1 \in Nat
    BY <1>2, PlaceBelow
  <2>3. CASE o.kind = "dead"
    BY <1>2, <2>3 DEF FindsThen
  <2>4. CASE o.kind = "continue"
    BY <1>2, <2>4 DEF FindsThen
  <2>5. CASE o.kind = "match" /\ o.node \in DOMAIN values /\ o.value = values[o.node]
    <3> DEFINE m == [value |-> o.value, end |-> at.pos + 1]
    <3>1. m \in TrieMatch(values)
      BY <2>2, <2>5 DEF TrieMatch
    <3>2. FindsThen(values, s, at, rest) = <<m>> \o rest
      BY <1>2, <2>5 DEF FindsThen
    <3> HIDE DEF m
    <3> QED BY <1>2, <3>1, <3>2
  <2> HIDE DEF o
  <2> QED BY <2>1, <2>3, <2>4, <2>5
<1> QED BY <1>1, <1>2

LEMMA WalkExists ==
  ASSUME NEW values, NEW s, IsSeq(s)
  PROVE  \E g : IsWalk(g, values, s)
<1> DEFINE n == Len(s)
           N == Nodes(s)
           D == [N -> Seq(TrieMatch(values))]
           place(m, i) == [node |-> m, pos |-> i]
           next(f, m, i) == FindsThen(values, s, place(m, i), f[Append(m, s[i + 1])])
           line(f, i) == [m \in N |-> next(f, m, i)]
           first == [m \in N |-> <<>>]
           step == [q \in D \X Nat |->
                      IF q[2] \in 1..n THEN line(q[1], n - q[2]) ELSE first]
<1>1. n \in Nat
  BY DEF IsSeq
<1>2. first \in D
  OBVIOUS
<1>3. ASSUME NEW f \in D, NEW k \in 1..n, NEW m \in N
      PROVE  next(f, m, n - k) \in Seq(TrieMatch(values))
  <2> DEFINE i == n - k
             at == place(m, i)
  <2>1. i \in 0..n /\ i # n
    BY <1>1
  <2>2. at \in Places(s) /\ at.pos = i
    BY <2>1 DEF Places
  <2>3. Append(m, s[i + 1]) \in N
    BY <2>1, NodeBelow
  <2>4. f[Append(m, s[i + 1])] \in Seq(TrieMatch(values))
    <3> HIDE DEF N, i
    <3> QED BY <2>3
  <2> HIDE DEF i, at
  <2>5. FindsThen(values, s, at, f[Append(m, s[i + 1])]) \in Seq(TrieMatch(values))
    BY <2>2, <2>4, FoundIsSeq
  <2> QED BY <2>5 DEF at, i
<1> HIDE DEF next, N
<1>4. \A f \in D : \A k \in 1..n : line(f, n - k) \in D
  BY <1>3
<1> HIDE DEF line
<1>5. step \in [D \X Nat -> D]
  <2> HIDE DEF D, first
  <2> QED BY <1>2, <1>4
<1>6. \A f \in D : \A k \in 1..n : step[<<f, k>>] = line(f, n - k)
  <2> HIDE DEF D
  <2> QED BY <1>1
<1> HIDE DEF step, first
<1>7. PICK h : IsRecursion(h, D, first, step, n)
  <2> HIDE DEF D
  <2> QED BY <1>1, <1>2, <1>5, Recursion
<1>8. /\ h[0] = first
      /\ \A k \in 1..n : h[k] = line(h[k - 1], n - k)
  <2>1. /\ h \in [0..n -> D] /\ h[0] = first
        /\ \A k \in 1..n : h[k] = step[<<h[k - 1], k>>]
    BY <1>7 DEF IsRecursion
  <2> HIDE DEF D
  <2>2. \A k \in 1..n : h[k - 1] \in D
    BY <1>1, <2>1
  <2> QED BY <1>6, <2>1, <2>2
<1> DEFINE g == [at \in Places(s) |-> h[n - at.pos][at.node]]
<1>9. ASSUME NEW at \in Places(s)
      PROVE  h[n - at.pos][at.node] = FindsNext(g, values, s, at)
  <2>1. at.node \in N /\ at.pos \in 0..n /\ at = [node |-> at.node, pos |-> at.pos]
    BY DEF Places, N
  <2>2. CASE at.pos = n
    <3>1. h[0][at.node] = <<>>
      BY <1>8, <2>1 DEF first
    <3>2. n - at.pos = 0
      BY <1>1, <2>2
    <3> QED BY <2>2, <3>1, <3>2 DEF FindsNext
  <2>3. CASE at.pos # n
    <3> DEFINE k == n - at.pos
               down == Append(at.node, s[at.pos + 1])
    <3>1. k \in 1..n /\ n - k = at.pos /\ n - (at.pos + 1) = k - 1
      BY <1>1, <2>1, <2>3
    <3>2. h[k][at.node] = next(h[k - 1], at.node, at.pos)
      <4>1. h[k] = line(h[k - 1], at.pos)
        BY <1>8, <3>1
      <4> HIDE DEF k
      <4> QED BY <2>1, <4>1 DEF line
    <3>3. Below(s, at) \in Places(s) /\ Below(s, at).pos = at.pos + 1
          /\ Below(s, at).node = down
      BY <2>3, PlaceBelow DEF Below
    <3>4. g[Below(s, at)] = h[n - (at.pos + 1)][down]
      BY <3>3
    <3> HIDE DEF g, k, down
    <3>5. next(h[k - 1], at.node, at.pos) = FindsThen(values, s, at, h[k - 1][down])
      BY <2>1 DEF next, down
    <3>6. g[Below(s, at)] = h[k - 1][down]
      BY <3>1, <3>4
    <3>7. FindsNext(g, values, s, at) = FindsThen(values, s, at, g[Below(s, at)])
      BY FindsNextThen
    <3>8. h[k][at.node] = FindsNext(g, values, s, at)
      BY <3>2, <3>5, <3>6, <3>7
    <3> QED BY <3>8 DEF k
  <2> QED BY <2>2, <2>3
<1>10. g = [at \in Places(s) |-> FindsNext(g, values, s, at)]
  <2> DEFINE F(at) == FindsNext(g, values, s, at)
             G(at) == h[n - at.pos][at.node]
  <2>1. \A at \in Places(s) : G(at) = F(at)
    BY <1>9
  <2>2. g = [at \in Places(s) |-> G(at)]
    OBVIOUS
  <2> HIDE DEF F, G, g
  <2>3. g = [at \in Places(s) |-> F(at)]
    BY <2>1, <2>2
  <2> QED BY <2>3 DEF F
<1> HIDE DEF g
<1> QED BY <1>10 DEF IsWalk

(* So the walk from any place is the step from there and the walk from     *)
(* where it leads, and it finds a sequence of matches.                     *)
LEMMA WalkUnfolds ==
  ASSUME NEW values, NEW s, IsSeq(s), NEW at \in Places(s)
  PROVE  /\ TrieWalk(values, s)[at] =
              FindsThen(values, s, at, TrieWalk(values, s)[Below(s, at)])
         /\ at.pos # Len(s) => Below(s, at) \in Places(s)
<1> DEFINE g == TrieWalk(values, s)
<1>1. IsWalk(g, values, s)
  BY WalkExists DEF TrieWalk
<1> HIDE DEF g
<1>2. g[at] = FindsNext(g, values, s, at)
  BY <1>1 DEF IsWalk
<1>3. at.pos # Len(s) => Below(s, at) \in Places(s)
  BY PlaceBelow DEF Below
<1>4. g[at] = FindsThen(values, s, at, g[Below(s, at)])
  BY <1>2, FindsNextThen
<1> QED BY <1>3, <1>4 DEF g

LEMMA WalkFindsMatches ==
  ASSUME NEW values, NEW s, IsSeq(s), NEW at \in Places(s)
  PROVE  TrieWalk(values, s)[at] \in Seq(TrieMatch(values))
<1> DEFINE n == Len(s)
           g == TrieWalk(values, s)
           Bad(p) == ~(g[p] \in Seq(TrieMatch(values)))
           T == {k \in 0..n : \E p \in Places(s) : p.pos = n - k /\ Bad(p)}
<1>1. n \in Nat /\ \A p \in Places(s) : p.pos \in 0..n
  BY DEF IsSeq, Places
<1>2. CASE T # {}
  <2>1. PICK m \in T : \A k \in T : m =< k
    <3>1. T \in SUBSET Nat
      BY <1>1
    <3> HIDE DEF T
    <3> QED BY <1>2, <3>1, MinNat
  <2>2. m \in 0..n /\ \E p \in Places(s) : p.pos = n - m /\ Bad(p)
    OBVIOUS
  <2>3. PICK p \in Places(s) : p.pos = n - m /\ Bad(p)
    BY <2>2
  <2> HIDE DEF T
  <2>4. ASSUME p.pos # Len(s) PROVE g[Below(s, p)] \in Seq(TrieMatch(values))
    <3>1. Below(s, p) \in Places(s) /\ Below(s, p).pos = p.pos + 1
      BY <2>4, PlaceBelow DEF Below
    <3>2. m - 1 \in 0..n /\ ~(m =< m - 1) /\ p.pos + 1 = n - (m - 1)
      BY <1>1, <2>2, <2>3, <2>4
    <3>3. m - 1 \notin T
      BY <2>1, <3>2
    <3>4. ~Bad(Below(s, p))
      <4> HIDE DEF Bad
      <4> QED BY <3>1, <3>2, <3>3 DEF T
    <3> QED BY <3>4
  <2>5. g[p] = FindsThen(values, s, p, g[Below(s, p)])
    BY WalkUnfolds
  <2> HIDE DEF g
  <2>6. g[p] \in Seq(TrieMatch(values))
    BY <2>4, <2>5, FoundIsSeq
  <2> QED BY <2>3, <2>6
<1>3. CASE T = {}
  <2> HIDE DEF Bad
  <2>1. n - at.pos \in 0..n /\ at.pos = n - (n - at.pos)
    BY <1>1
  <2>2. ~Bad(at)
    BY <1>3, <2>1
  <2> QED BY <2>2 DEF Bad
<1> QED BY <1>2, <1>3

---------------------------------------------------------------------------
(* The words of a walk.                                                    *)

(* What a leaf of the trie points at is the beginning of a list of ids.    *)
ListsReadable(ix) ==
  \A f \in DOMAIN ix.values : Entries(ix.bytes, ix.values[f]) \in Seq(Nat)

WordsOf(l, ix, ms) ==
  FlattenSeq([i \in 1..Len(ms) |-> Expand(l, ix, ms[i].value, ms[i].end)])

WordsFrom(l, ix, s, at) == WordsOf(l, ix, TrieWalk(ix.values, s)[at])

LEMMA ExpandIsSeq ==
  ASSUME NEW l, NEW ix, ListsReadable(ix), NEW m \in TrieMatch(ix.values), NEW end
  PROVE  IsSeq(Expand(l, ix, m.value, end))
<1> DEFINE ids == Entries(ix.bytes, m.value)
           e == [i \in 1..Len(ids) |-> [dict |-> l, id |-> ids[i], end |-> end]]
<1>1. ids \in Seq(Nat)
  <2>1. PICK f \in DOMAIN ix.values : m.value = ix.values[f]
    BY DEF TrieMatch
  <2> QED BY <2>1 DEF ListsReadable
<1>2. Expand(l, ix, m.value, end) = e
  BY DEF Expand
<1> HIDE DEF ids
<1>3. Len(ids) \in Nat /\ e = [i \in 1..Len(ids) |-> e[i]]
  BY <1>1
<1> HIDE DEF e
<1> QED BY <1>2, <1>3, MapIsSeq

LEMMA WordsOfIsSeq ==
  ASSUME NEW l, NEW ix, ListsReadable(ix), NEW ms \in Seq(TrieMatch(ix.values))
  PROVE  IsSeq(WordsOf(l, ix, ms))
<1> DEFINE part(i) == Expand(l, ix, ms[i].value, ms[i].end)
           ss == [i \in 1..Len(ms) |-> part(i)]
<1>1. \A i \in 1..Len(ms) : IsSeq(part(i))
  <2> TAKE i \in 1..Len(ms)
  <2>1. ms[i] \in TrieMatch(ix.values)
    OBVIOUS
  <2> QED BY <2>1, ExpandIsSeq
<1>2. Len(ms) \in Nat
  OBVIOUS
<1> HIDE DEF part
<1>3. ss = [i \in 1..Len(ms) |-> ss[i]] /\ \A i \in 1..Len(ms) : IsSeq(ss[i])
  BY <1>1
<1> HIDE DEF ss
<1>4. IsSeq(FlattenSeq(ss))
  BY <1>2, <1>3, FlattenIsSeq
<1> QED BY <1>4 DEF ss, part, WordsOf

LEMMA WordsOfNext ==
  ASSUME NEW l, NEW ix, ListsReadable(ix), NEW ms \in Seq(TrieMatch(ix.values)),
         NEW m \in TrieMatch(ix.values)
  PROVE  WordsOf(l, ix, <<m>> \o ms) = Expand(l, ix, m.value, m.end) \o WordsOf(l, ix, ms)
<1> DEFINE n == Len(ms)
           all == <<m>> \o ms
           words(q) == Expand(l, ix, q.value, q.end)
           ss == [i \in 1..n |-> words(ms[i])]
           us == [i \in 1..Len(all) |-> words(all[i])]
<1>1. n \in Nat /\ \A i \in 1..n : ms[i] \in TrieMatch(ix.values)
  OBVIOUS
<1>2. Len(all) = n + 1 /\ all[1] = m /\ \A i \in 1..n : all[i + 1] = ms[i]
  OBVIOUS
<1> HIDE DEF all
<1>3. \A q \in TrieMatch(ix.values) : IsSeq(words(q))
  <2> TAKE q \in TrieMatch(ix.values)
  <2> QED BY ExpandIsSeq
<1> HIDE DEF words, n
<1>4. ss = [i \in 1..n |-> ss[i]] /\ \A i \in 1..n : IsSeq(ss[i])
  BY <1>1, <1>3
<1>5. IsConsOf(us, words(m), ss, n)
  <2>1. us = [i \in 1..n + 1 |-> us[i]] /\ us[1] = words(m)
    <3>1. 1 \in 1..n + 1
      BY <1>1
    <3> QED BY <1>2, <3>1
  <2>2. ASSUME NEW i \in 1..n PROVE us[i + 1] = ss[i]
    <3>1. i + 1 \in 1..n + 1
      BY <1>1
    <3> QED BY <1>2, <3>1
  <2> HIDE DEF us, ss
  <2> QED BY <2>1, <2>2 DEF IsConsOf
<1> HIDE DEF us, ss
<1>6. FlattenSeq(us) = words(m) \o FlattenSeq(ss)
  BY <1>1, <1>3, <1>4, <1>5, FlattenCons
<1>7. FlattenSeq(us) = WordsOf(l, ix, <<m>> \o ms)
  BY DEF us, all, words, WordsOf
<1>8. FlattenSeq(ss) = WordsOf(l, ix, ms)
  BY DEF ss, n, words, WordsOf
<1> QED BY <1>6, <1>7, <1>8 DEF words

LEMMA WordsOfNone ==
  ASSUME NEW l, NEW ix
  PROVE  WordsOf(l, ix, <<>>) = <<>>
<1> DEFINE ss == [i \in 1..Len(<<>>) |-> Expand(l, ix, <<>>[i].value, <<>>[i].end)]
<1>1. ss = [i \in 1..0 |-> ss[i]]
  OBVIOUS
<1>2. WordsOf(l, ix, <<>>) = FlattenSeq(ss)
  BY DEF WordsOf
<1> HIDE DEF ss
<1> QED BY <1>1, <1>2, FlattenNothing

(* The words from a place on, by the outcome of the step there.            *)
WordsByStep(l, ix, s, at) ==
  LET o == Walk(ix.values, at.node, s[at.pos + 1])
      rest == WordsFrom(l, ix, s, Below(s, at))
  IN  /\ at.pos = Len(s) \/ o.kind = "dead" => WordsFrom(l, ix, s, at) = <<>>
      /\ at.pos # Len(s) /\ o.kind = "continue" => WordsFrom(l, ix, s, at) = rest
      /\ at.pos # Len(s) /\ o.kind = "match" =>
           WordsFrom(l, ix, s, at) = Expand(l, ix, o.value, at.pos + 1) \o rest

LEMMA WordsUnfold ==
  ASSUME NEW l, NEW ix, ListsReadable(ix), NEW s, IsSeq(s), NEW at \in Places(s)
  PROVE  WordsByStep(l, ix, s, at)
<1> DEFINE o == Walk(ix.values, at.node, s[at.pos + 1])
           g == TrieWalk(ix.values, s)
<1>1. g[at] = FindsThen(ix.values, s, at, g[Below(s, at)])
  BY WalkUnfolds
<1> HIDE DEF g
<1>2. CASE at.pos = Len(s) \/ o.kind = "dead"
  <2>1. g[at] = <<>>
    BY <1>1, <1>2 DEF FindsThen
  <2>2. WordsFrom(l, ix, s, at) = <<>>
    BY <2>1, WordsOfNone DEF WordsFrom, g
  <2> QED BY <1>2, <2>2 DEF WordsByStep
<1>3. CASE at.pos # Len(s) /\ o.kind = "continue"
  <2>1. g[at] = g[Below(s, at)]
    BY <1>1, <1>3 DEF FindsThen
  <2>2. WordsFrom(l, ix, s, at) = WordsFrom(l, ix, s, Below(s, at))
    BY <2>1 DEF WordsFrom, g
  <2> QED BY <1>3, <2>2 DEF WordsByStep
<1>4. CASE at.pos # Len(s) /\ o.kind = "match"
  <2> DEFINE m == [value |-> o.value, end |-> at.pos + 1]
             rest == g[Below(s, at)]
  <2>1. g[at] = <<m>> \o rest
    BY <1>1, <1>4 DEF FindsThen
  <2>2. at.pos + 1 \in Nat /\ Below(s, at) \in Places(s)
    BY <1>4, PlaceBelow DEF Below
  <2>3. rest \in Seq(TrieMatch(ix.values))
    BY <2>2, WalkFindsMatches DEF g
  <2>4. o.node \in DOMAIN ix.values /\ o.value = ix.values[o.node]
    <3>1. o.kind = "match" => o.node \in DOMAIN ix.values /\ o.value = ix.values[o.node]
      BY StepOfWalk
    <3> QED BY <1>4, <3>1
  <2>5. m \in TrieMatch(ix.values) /\ m.value = o.value /\ m.end = at.pos + 1
    BY <2>2, <2>4 DEF TrieMatch
  <2> HIDE DEF m, rest
  <2>6. WordsOf(l, ix, <<m>> \o rest) = Expand(l, ix, m.value, m.end) \o WordsOf(l, ix, rest)
    BY <2>3, <2>5, WordsOfNext
  <2>7. WordsFrom(l, ix, s, at) = Expand(l, ix, m.value, m.end) \o WordsFrom(l, ix, s, Below(s, at))
    BY <2>1, <2>6 DEF WordsFrom, g, rest
  <2>8. WordsFrom(l, ix, s, at) = Expand(l, ix, o.value, at.pos + 1) \o WordsFrom(l, ix, s, Below(s, at))
    BY <2>5, <2>7
  <2> QED BY <1>4, <2>8 DEF WordsByStep
<1>5. o.kind \in {"dead", "continue", "match"}
  BY StepOfWalk
<1> QED BY <1>2, <1>3, <1>4, <1>5

LEMMA WordsAreSeq ==
  ASSUME NEW l, NEW ix, ListsReadable(ix), NEW s, IsSeq(s), NEW at \in Places(s)
  PROVE  IsSeq(WordsFrom(l, ix, s, at))
<1>1. TrieWalk(ix.values, s)[at] \in Seq(TrieMatch(ix.values))
  BY WalkFindsMatches
<1> QED BY <1>1, WordsOfIsSeq DEF WordsFrom

AtRoot(offset) == [node |-> Root, pos |-> offset]

LEMMA RootIsPlace ==
  ASSUME NEW s, NEW offset \in 0..Len(s)
  PROVE  AtRoot(offset) \in Places(s)
BY DEF AtRoot, Root, Places, Nodes

LEMMA LookupIsWalk ==
  ASSUME NEW l, NEW ix, NEW s, NEW offset
  PROVE  LookupIn(l, ix, s, offset) = WordsFrom(l, ix, s, AtRoot(offset))
<1>1. PrefixMatches(ix.values, s, offset) = TrieWalk(ix.values, s)[AtRoot(offset)]
  BY PrefixMatchesWalk DEF AtRoot
<1> QED BY <1>1 DEF LookupIn, WordsFrom, WordsOf

---------------------------------------------------------------------------
(* The words of the first n lexicons, the last of them first.              *)
LookupUpTo(ixs, s, n, offset) ==
  FlattenSeq([i \in 1..n |-> LookupIn(n + 1 - i, ixs[n + 1 - i], s, offset)])

LEMMA LookupNone ==
  ASSUME NEW ixs, NEW s, NEW offset
  PROVE  LookupUpTo(ixs, s, 0, offset) = <<>>
<1> DEFINE ss == [i \in 1..0 |-> LookupIn(0 + 1 - i, ixs[0 + 1 - i], s, offset)]
<1>1. ss = [i \in 1..0 |-> ss[i]]
  OBVIOUS
<1>2. LookupUpTo(ixs, s, 0, offset) = FlattenSeq(ss)
  BY DEF LookupUpTo
<1> HIDE DEF ss
<1> QED BY <1>1, <1>2, FlattenNothing

LEMMA LookupUnfolds ==
  ASSUME NEW n \in Nat, n > 0, NEW ixs, \A l \in 1..n : ListsReadable(ixs[l]),
         NEW s, IsSeq(s), NEW offset \in 0..Len(s)
  PROVE  /\ LookupUpTo(ixs, s, n, offset) =
              WordsFrom(n, ixs[n], s, AtRoot(offset)) \o LookupUpTo(ixs, s, n - 1, offset)
         /\ IsSeq(LookupUpTo(ixs, s, n - 1, offset))
<1> DEFINE part(l) == LookupIn(l, ixs[l], s, offset)
           ss == [i \in 1..n - 1 |-> part((n - 1) + 1 - i)]
           us == [i \in 1..n |-> part(n + 1 - i)]
<1>1. part(n) = WordsFrom(n, ixs[n], s, AtRoot(offset))
  BY LookupIsWalk
<1>2. ASSUME NEW l \in 1..n PROVE IsSeq(part(l))
  <2>1. IsSeq(WordsFrom(l, ixs[l], s, AtRoot(offset)))
    BY RootIsPlace, WordsAreSeq
  <2> QED BY <2>1, LookupIsWalk
<1>3. LookupUpTo(ixs, s, n, offset) = FlattenSeq(us)
      /\ LookupUpTo(ixs, s, n - 1, offset) = FlattenSeq(ss)
  BY DEF LookupUpTo
<1> HIDE DEF part
<1>4. n - 1 \in Nat /\ (n - 1) + 1 = n
  OBVIOUS
<1>5. ss = [i \in 1..n - 1 |-> ss[i]] /\ \A i \in 1..n - 1 : IsSeq(ss[i])
  <2>1. \A i \in 1..n - 1 : (n - 1) + 1 - i \in 1..n
    OBVIOUS
  <2> QED BY <1>2, <2>1
<1>6. IsConsOf(us, part(n), ss, n - 1)
  <2>1. us = [i \in 1..(n - 1) + 1 |-> us[i]] /\ us[1] = part(n)
    <3>1. 1 \in 1..n /\ n + 1 - 1 = n
      OBVIOUS
    <3> QED BY <1>4, <3>1
  <2>2. ASSUME NEW i \in 1..n - 1 PROVE us[i + 1] = ss[i]
    <3>1. i + 1 \in 1..n /\ n + 1 - (i + 1) = (n - 1) + 1 - i
      OBVIOUS
    <3> QED BY <3>1
  <2> HIDE DEF us, ss
  <2> QED BY <2>1, <2>2 DEF IsConsOf
<1> HIDE DEF us, ss
<1>7. FlattenSeq(us) = part(n) \o FlattenSeq(ss) /\ IsSeq(FlattenSeq(ss))
  <2>1. n \in 1..n
    OBVIOUS
  <2>2. IsSeq(part(n))
    BY <1>2, <2>1
  <2> QED BY <1>4, <1>5, <1>6, <2>2, FlattenCons
<1> QED BY <1>1, <1>3, <1>7

---------------------------------------------------------------------------
(* The inductive invariant.                                                *)

(* What the lookup is given.                                               *)
InputsOK ==
  /\ Len(rows) \in Nat
  /\ \A l \in 1..Len(rows) : ListsReadable(index[l])
  /\ IsSeq(text)
  /\ Len(starts) \in Nat /\ Buckets = 1..Len(starts)
  /\ \A b \in Buckets : starts[b] \in 0..Len(text)
  /\ Lanes \in Nat \ {0}

Lane == [node : Nodes(text), pos : 0..Len(text), bucket : 0..Len(starts), active : BOOLEAN]

Active == {i \in 1..Lanes : lane[i].active}

TypeOK ==
  /\ InputsOK
  /\ lexicon \in 0..Len(rows)
  /\ lane \in [1..Lanes -> Lane]
  /\ nextStart \in 0..Len(starts)
  /\ turn \in 0..Lanes
  /\ found = [b \in Buckets |-> found[b]] /\ \A b \in Buckets : IsSeq(found[b])

(* While a lexicon is searched, the active lanes have buckets of their     *)
(* own, of the starts that were handed out; while there are more starts,   *)
(* no lane is idle.                                                        *)
LanesOK ==
  turn > 0 =>
    /\ lexicon > 0
    /\ \A i \in Active : lane[i].bucket \in 1..nextStart
    /\ \A i, j \in Active : lane[i].bucket = lane[j].bucket => i = j
    /\ nextStart < Len(starts) => Active = 1..Lanes
    /\ live = Cardinality(Active)

\* The place in the trie and in the text of a lane.
Place(a) == [node |-> a.node, pos |-> a.pos]

Result(b) == LookupUpTo(index, text, Len(rows), starts[b])
Before(b) == LookupUpTo(index, text, lexicon - 1, starts[b])
Pending(i) == WordsFrom(lexicon, index[lexicon], text, Place(lane[i]))
HasLane(b) == \E i \in Active : lane[i].bucket = b

(* What is reported to a bucket and what is to come are the result of the  *)
(* lookup of its position.  To come are, for a start not handed out, the   *)
(* words of this lexicon and of the ones before; else those of the ones    *)
(* before, and first what its lane has yet to find, while it has one.      *)
ReportsOK ==
  /\ \A b \in Buckets : turn = 0 \/ b > nextStart =>
       Result(b) = found[b] \o LookupUpTo(index, text, lexicon, starts[b])
  /\ turn > 0 =>
       /\ \A i \in Active : LET b == lane[i].bucket
                            IN  Result(b) = found[b] \o (Pending(i) \o Before(b))
       /\ \A b \in 1..nextStart : ~HasLane(b) => Result(b) = found[b] \o Before(b)

IInv == TypeOK /\ LanesOK /\ ReportsOK

LEMMA PendingIsSeq ==
  ASSUME TypeOK, lexicon > 0, NEW i \in 1..Lanes
  PROVE  IsSeq(Pending(i)) /\ Place(lane[i]) \in Places(text)
<1>1. lane[i] \in Lane
  BY DEF TypeOK
<1>2. Place(lane[i]) \in Places(text)
  BY <1>1 DEF Lane, Place, Places
<1>3. ListsReadable(index[lexicon]) /\ IsSeq(text)
  BY DEF TypeOK, InputsOK
<1> QED BY <1>2, <1>3, WordsAreSeq DEF Pending

LEMMA ThisLexiconFirst ==
  ASSUME TypeOK, lexicon > 0, NEW b \in Buckets
  PROVE  /\ LookupUpTo(index, text, lexicon, starts[b]) =
              WordsFrom(lexicon, index[lexicon], text, AtRoot(starts[b])) \o Before(b)
         /\ IsSeq(Before(b)) /\ IsSeq(found[b])
<1>1. /\ lexicon \in Nat /\ \A l \in 1..lexicon : ListsReadable(index[l])
      /\ IsSeq(text) /\ starts[b] \in 0..Len(text)
  BY DEF TypeOK, InputsOK
<1>2. /\ LookupUpTo(index, text, lexicon, starts[b]) =
           WordsFrom(lexicon, index[lexicon], text, AtRoot(starts[b]))
             \o LookupUpTo(index, text, lexicon - 1, starts[b])
      /\ IsSeq(LookupUpTo(index, text, lexicon - 1, starts[b]))
  BY <1>1, LookupUnfolds
<1> QED BY <1>2 DEF Before, TypeOK

(* The inputs stay, and so does what is defined by them alone.             *)
LEMMA InputsStay ==
  ASSUME TypeOK, UNCHANGED inputs
  PROVE  /\ InputsOK' /\ Buckets' = Buckets
         /\ \A b \in Buckets : Result(b)' = Result(b)
BY DEF TypeOK, InputsOK, inputs, Buckets, Result, ListsReadable

LEMMA NextTurnStays ==
  ASSUME TypeOK, turn > 0, NextTurn, Lanes' = Lanes
  PROVE  turn' \in 0..Lanes' /\ turn' > 0
BY DEF TypeOK, InputsOK, NextTurn

LEMMA ActiveFinite ==
  ASSUME TypeOK
  PROVE  IsFiniteSet(Active) /\ Cardinality(Active) \in Nat
<1>1. Active \in SUBSET (1..Lanes) /\ Lanes \in Int /\ 1 \in Int
  BY DEF TypeOK, InputsOK, Active
<1>2. IsFiniteSet(1..Lanes)
  BY <1>1, FS_Interval
<1>3. IsFiniteSet(Active)
  BY <1>1, <1>2, FS_Subset
<1> QED BY <1>3, FS_CardinalityType

---------------------------------------------------------------------------
(* FillLanes.                                                              *)
LEMMA FillKeeps ==
  ASSUME IInv, FillLanes
  PROVE  IInv'
<1> DEFINE n == IF Len(starts) < Lanes THEN Len(starts) ELSE Lanes
<1>1. TypeOK /\ UNCHANGED <<inputs, lexicon, found>> /\ lexicon > 0 /\ turn = 0 /\ turn' = 1
      /\ lane' = [i \in 1..Lanes |-> IF i <= n THEN Fresh(i) ELSE IdleLane]
      /\ nextStart' = n /\ live' = n
  BY DEF IInv, FillLanes
<1>2. /\ n \in Nat /\ n <= Len(starts) /\ n <= Lanes /\ Len(starts) \in Nat /\ Lanes \in Nat \ {0}
      /\ n < Len(starts) => n = Lanes
  BY <1>1 DEF TypeOK, InputsOK
<1>3. InputsOK' /\ Buckets' = Buckets /\ \A b \in Buckets : Result(b)' = Result(b)
  BY <1>1, InputsStay
<1>4. /\ rows' = rows /\ text' = text /\ starts' = starts /\ Lanes' = Lanes /\ index' = index
      /\ lexicon' = lexicon /\ found' = found
  BY <1>1 DEF inputs
<1>5. Buckets = 1..Len(starts) /\ \A b \in Buckets : starts[b] \in 0..Len(text)
  BY <1>1 DEF TypeOK, InputsOK
<1> HIDE DEF n
<1>6. lane' \in [1..Lanes -> Lane]
  <2>1. ASSUME NEW i \in 1..Lanes, i <= n PROVE Fresh(i) \in Lane
    <3>1. i \in Buckets
      BY <1>2, <1>5, <2>1
    <3>2. Root \in Nodes(text)
      BY DEF Root, Nodes
    <3> QED BY <1>5, <3>1, <3>2 DEF Fresh, Lane
  <2>2. IdleLane \in Lane
    <3>1. 0 \in 0..Len(text) /\ 0 \in 0..Len(starts) /\ Root \in Nodes(text)
      <4>1. Len(text) \in Nat
        BY <1>1 DEF TypeOK, InputsOK, IsSeq
      <4> QED BY <1>2, <4>1 DEF Root, Nodes
    <3> QED BY <3>1 DEF IdleLane, Lane
  <2> QED BY <1>1, <2>1, <2>2
<1>7. TypeOK'
  <2>1. lane' \in [1..Lanes' -> Lane']
    BY <1>4, <1>6 DEF Lane, Nodes
  <2>2. found' = [b \in Buckets' |-> found'[b]] /\ \A b \in Buckets' : IsSeq(found'[b])
    BY <1>1, <1>3, <1>4 DEF TypeOK
  <2>3. /\ lexicon' \in 0..Len(rows') /\ nextStart' \in 0..Len(starts') /\ turn' \in 0..Lanes'
    BY <1>1, <1>2, <1>4 DEF TypeOK
  <2> QED BY <1>3, <2>1, <2>2, <2>3 DEF TypeOK
<1>8. \A i \in 1..Lanes : lane'[i].active <=> i <= n
  BY <1>1 DEF Fresh, IdleLane
<1>9. Active' = 1..n
  BY <1>2, <1>4, <1>8 DEF Active
<1>10. \A i \in 1..n : lane'[i] = Fresh(i) /\ lane'[i].bucket = i /\ i \in Buckets
  BY <1>1, <1>2, <1>5 DEF Fresh
<1>11. LanesOK'
  <2>1. Cardinality(1..n) = n
    BY <1>2, FS_Interval
  <2>2. n < Len(starts) => 1..n = 1..Lanes
    BY <1>2
  <2>3. \A i \in 1..n : lane'[i].bucket = i /\ lane'[i].bucket \in 1..nextStart'
    BY <1>1, <1>10
  <2>4. \A i, j \in Active' : lane'[i].bucket = lane'[j].bucket => i = j
    BY <1>9, <2>3
  <2>5. live' = Cardinality(Active')
    BY <1>1, <1>9, <2>1
  <2>6. nextStart' < Len(starts') => Active' = 1..Lanes'
    BY <1>1, <1>4, <1>9, <2>2
  <2>7. \A i \in Active' : lane'[i].bucket \in 1..nextStart'
    BY <1>9, <2>3
  <2> QED BY <1>1, <1>4, <2>4, <2>5, <2>6, <2>7 DEF LanesOK
<1>12. \A b \in Buckets : Result(b) = found[b] \o LookupUpTo(index, text, lexicon, starts[b])
  BY <1>1 DEF IInv, ReportsOK
<1>13. \A b \in Buckets : Before(b)' = LookupUpTo(index, text, lexicon - 1, starts[b])
  BY <1>4 DEF Before
<1>14. \A i \in 1..n : Pending(i)' = WordsFrom(lexicon, index[lexicon], text, AtRoot(starts[i]))
  <2> TAKE i \in 1..n
  <2>1. lane'[i].node = Root /\ lane'[i].pos = starts[i]
    <3>1. lane'[i] = Fresh(i)
      BY <1>10
    <3>2. Fresh(i).node = Root /\ Fresh(i).pos = starts[i]
      BY DEF Fresh
    <3> QED BY <3>1, <3>2
  <2>2. Place(lane'[i]) = AtRoot(starts[i])
    BY <2>1 DEF Place, AtRoot
  <2>3. Pending(i)' = WordsFrom(lexicon, index[lexicon], text, Place(lane'[i]))
    BY <1>4 DEF Pending, Place
  <2> QED BY <2>2, <2>3
<1>15. ReportsOK'
  <2>1. ASSUME NEW b \in Buckets', turn' = 0 \/ b > nextStart'
        PROVE  Result(b)' = found'[b] \o LookupUpTo(index', text', lexicon', starts'[b])
    BY <1>3, <1>4, <1>12
  <2>2. ASSUME NEW i \in Active'
        PROVE  Result(lane[i].bucket)' =
                 found'[lane'[i].bucket] \o (Pending(i)' \o Before(lane[i].bucket)')
    <3>1. i \in 1..n /\ lane'[i].bucket = i /\ i \in Buckets
      BY <1>9, <1>10
    <3>2. Result(i)' = found'[i] \o (Pending(i)' \o Before(i)')
      <4>1. Result(i)' = found[i] \o LookupUpTo(index, text, lexicon, starts[i])
        BY <1>3, <1>12, <3>1
      <4>2. LookupUpTo(index, text, lexicon, starts[i]) = Pending(i)' \o Before(i)'
        BY <1>1, <1>13, <1>14, <3>1, ThisLexiconFirst DEF Before
      <4> QED BY <1>4, <4>1, <4>2
    <3>3. Result(lane[i].bucket)' = Result(i)' /\ Before(lane[i].bucket)' = Before(i)'
      BY <3>1 DEF Result, Before
    <3> QED BY <3>1, <3>2, <3>3
  <2>3. ASSUME NEW b \in 1..nextStart' PROVE HasLane(b)'
    BY <1>1, <1>9, <1>10 DEF HasLane
  <2> QED BY <2>1, <2>2, <2>3 DEF ReportsOK
<1> QED BY <1>7, <1>11, <1>15 DEF IInv

---------------------------------------------------------------------------
(* The lanes.                                                              *)

\* What a visit of a lane leaves alone.
Visit == UNCHANGED <<inputs, lexicon>> /\ Visiting /\ NextTurn

LEMMA VisitFacts ==
  ASSUME IInv, Visit
  PROVE  /\ TypeOK /\ lexicon > 0 /\ turn > 0 /\ turn \in 1..Lanes
         /\ turn' \in 0..Lanes' /\ turn' > 0
         /\ InputsOK' /\ Buckets' = Buckets
         /\ \A b \in Buckets : Result(b)' = Result(b) /\ Before(b)' = Before(b)
         /\ rows' = rows /\ text' = text /\ starts' = starts /\ Lanes' = Lanes
         /\ index' = index /\ lexicon' = lexicon
<1>1. TypeOK /\ lexicon > 0 /\ turn > 0 /\ UNCHANGED inputs
  BY DEF IInv, Visit, Visiting
<1>2. InputsOK' /\ Buckets' = Buckets /\ \A b \in Buckets : Result(b)' = Result(b)
  BY <1>1, InputsStay
<1>3. rows' = rows /\ text' = text /\ starts' = starts /\ Lanes' = Lanes
      /\ index' = index /\ lexicon' = lexicon
  BY DEF Visit, inputs
<1>4. turn' \in 0..Lanes' /\ turn' > 0
  BY <1>1, <1>3, NextTurnStays DEF Visit
<1>5. turn \in 1..Lanes
  BY <1>1 DEF TypeOK, InputsOK
<1>6. \A b \in Buckets : Before(b)' = Before(b)
  BY <1>3 DEF Before
<1> QED BY <1>1, <1>2, <1>3, <1>4, <1>5, <1>6

\* A lane that stays as it is.
LEMMA LaneStays ==
  ASSUME IInv, Visit, NEW i \in 1..Lanes, lane'[i] = lane[i]
  PROVE  Pending(i)' = Pending(i)
<1>1. text' = text /\ index' = index /\ lexicon' = lexicon
  BY VisitFacts
<1> QED BY <1>1 DEF Pending, Place

LEMMA SkipKeeps ==
  ASSUME IInv, SkipInactive
  PROVE  IInv'
<1>1. Visit /\ lane' = lane /\ nextStart' = nextStart /\ live' = live /\ found' = found
  BY DEF SkipInactive, Visit
<1>2. /\ TypeOK /\ lexicon > 0 /\ turn > 0
      /\ turn' \in 0..Lanes' /\ turn' > 0 /\ InputsOK' /\ Buckets' = Buckets
      /\ \A b \in Buckets : Result(b)' = Result(b) /\ Before(b)' = Before(b)
      /\ rows' = rows /\ text' = text /\ starts' = starts /\ Lanes' = Lanes
      /\ index' = index /\ lexicon' = lexicon
  BY <1>1, VisitFacts
<1>3. TypeOK'
  BY <1>1, <1>2 DEF TypeOK, Lane, Nodes
<1>4. Active' = Active
  BY <1>1, <1>2 DEF Active
<1>5. LanesOK'
  BY <1>1, <1>2, <1>4 DEF IInv, LanesOK
<1>6. \A b \in Buckets : turn = 0 \/ b > nextStart =>
         Result(b) = found[b] \o LookupUpTo(index, text, lexicon, starts[b])
  BY DEF IInv, ReportsOK
<1>7. /\ \A i \in Active : LET b == lane[i].bucket
                           IN  Result(b) = found[b] \o (Pending(i) \o Before(b))
      /\ \A b \in 1..nextStart : ~HasLane(b) => Result(b) = found[b] \o Before(b)
  BY <1>2 DEF IInv, ReportsOK
<1>8. ReportsOK'
  <2>1. ASSUME NEW b \in Buckets', turn' = 0 \/ b > nextStart'
        PROVE  Result(b)' = found'[b] \o LookupUpTo(index', text', lexicon', starts'[b])
    <3>1. b \in Buckets /\ b > nextStart
      BY <1>1, <1>2, <2>1
    <3> QED BY <1>1, <1>2, <1>6, <3>1
  <2>2. ASSUME NEW i \in Active'
        PROVE  Result(lane[i].bucket)' =
                 found'[lane'[i].bucket] \o (Pending(i)' \o Before(lane[i].bucket)')
    <3>1. Result(lane[i].bucket)' = Result(lane[i].bucket)
          /\ Before(lane[i].bucket)' = Before(lane[i].bucket)
      BY <1>1, <1>2 DEF Result, Before
    <3>2. Pending(i)' = Pending(i)
      BY <1>1, <1>4, LaneStays DEF Active
    <3> QED BY <1>1, <1>4, <1>7, <3>1, <3>2
  <2>3. ASSUME NEW b \in 1..nextStart', ~HasLane(b)'
        PROVE  Result(b)' = found'[b] \o Before(b)'
    <3>1. b \in Buckets /\ b \in 1..nextStart /\ ~HasLane(b)
      BY <1>1, <1>2, <1>4, <2>3 DEF TypeOK, InputsOK, HasLane
    <3> QED BY <1>1, <1>2, <1>7, <3>1
  <2> QED BY <2>1, <2>2, <2>3 DEF ReportsOK
<1> QED BY <1>3, <1>5, <1>8 DEF IInv

\* One lane makes a step and reports the words e.
Advance(e) ==
  /\ Visit /\ UNCHANGED <<nextStart, live>>
  /\ Me.active /\ Me.pos # Len(text)
  /\ IsSeq(e) /\ Pending(turn) = e \o WordsFrom(lexicon, index[lexicon], text, Below(text, Place(Me)))
  /\ lane' = [lane EXCEPT ![turn].node = Append(Me.node, text[Me.pos + 1]), ![turn].pos = @ + 1]
  /\ found' = [found EXCEPT ![Me.bucket] = @ \o e]

Regrouped(f, e, p, r) == f \o ((e \o p) \o r) = (f \o e) \o (p \o r)

LEMMA Regroup ==
  ASSUME NEW f, IsSeq(f), NEW e, IsSeq(e), NEW p, IsSeq(p), NEW r, IsSeq(r)
  PROVE  Regrouped(f, e, p, r)
<1>1. IsSeq(p \o r)
  BY ConcatIsSeq
<1>2. Associate(e, p, r)
  BY Assoc
<1> DEFINE q == p \o r
<1> HIDE DEF q
<1>3. Associate(f, e, q)
  BY <1>1, Assoc DEF q
<1>4. (e \o p) \o r = e \o q
  BY <1>2 DEF Associate, q
<1>5. (f \o e) \o q = f \o (e \o q)
  BY <1>3 DEF Associate
<1>6. f \o ((e \o p) \o r) = (f \o e) \o q
  BY <1>4, <1>5
<1> QED BY <1>6 DEF q, Regrouped

LEMMA AdvanceKeeps ==
  ASSUME IInv, NEW e, Advance(e)
  PROVE  IInv'
<1> DEFINE c == Me.bucket
<1>1. /\ Visit /\ nextStart' = nextStart /\ live' = live
      /\ Me.active /\ Me.pos # Len(text) /\ IsSeq(e)
  BY DEF Advance
<1>2. /\ TypeOK /\ lexicon > 0 /\ turn > 0 /\ turn \in 1..Lanes
      /\ turn' \in 0..Lanes' /\ turn' > 0 /\ InputsOK' /\ Buckets' = Buckets
      /\ \A b \in Buckets : Result(b)' = Result(b) /\ Before(b)' = Before(b)
      /\ rows' = rows /\ text' = text /\ starts' = starts /\ Lanes' = Lanes
      /\ index' = index /\ lexicon' = lexicon
  BY <1>1, VisitFacts
<1>3. Me = lane[turn] /\ Me \in Lane /\ lane \in [1..Lanes -> Lane]
  BY <1>2 DEF TypeOK, Me
<1>4. /\ nextStart \in Nat /\ nextStart <= Len(starts) /\ Buckets = 1..Len(starts)
      /\ Len(starts) \in Nat /\ IsSeq(text)
  BY <1>2 DEF TypeOK, InputsOK
<1>5. turn \in Active /\ c \in 1..nextStart /\ c \in Buckets
  <2>1. turn \in Active
    BY <1>1, <1>2, <1>3 DEF Active
  <2>2. c \in 1..nextStart
    BY <1>2, <1>3, <2>1 DEF IInv, LanesOK
  <2> QED BY <1>4, <2>1, <2>2
<1>6. /\ Place(Me) \in Places(text) /\ Below(text, Place(Me)) \in Places(text)
      /\ Append(Me.node, text[Me.pos + 1]) \in Nodes(text) /\ Me.pos + 1 \in 0..Len(text)
  <2>1. Place(Me) \in Places(text)
    BY <1>2, <1>3, PendingIsSeq
  <2>2. Place(Me).pos = Me.pos /\ Place(Me).node = Me.node
    BY DEF Place
  <2> QED BY <1>1, <1>4, <2>1, <2>2, PlaceBelow DEF Below
<1> DEFINE new == [Me EXCEPT !.node = Append(Me.node, text[Me.pos + 1]), !.pos = Me.pos + 1]
<1>7. lane' = [lane EXCEPT ![turn] = new]
  BY <1>2, <1>3 DEF Advance
<1>8. /\ new \in Lane /\ new.active = Me.active /\ new.bucket = c
      /\ new.node = Append(Me.node, text[Me.pos + 1]) /\ new.pos = Me.pos + 1
  BY <1>3, <1>6 DEF Lane
<1> HIDE DEF new
<1>9. /\ lane' \in [1..Lanes -> Lane] /\ lane'[turn] = new
      /\ \A i \in 1..Lanes : i # turn => lane'[i] = lane[i]
  BY <1>2, <1>3, <1>7, <1>8
<1>10. \A i \in 1..Lanes : lane'[i].active = lane[i].active /\ lane'[i].bucket = lane[i].bucket
  <2> TAKE i \in 1..Lanes
  <2>1. CASE i = turn
    BY <1>3, <1>8, <1>9, <2>1
  <2>2. CASE i # turn
    BY <1>9, <2>2
  <2> QED BY <2>1, <2>2
<1>11. Active' = Active
  BY <1>2, <1>10 DEF Active
<1>12. /\ found = [b \in Buckets |-> found[b]] /\ \A b \in Buckets : IsSeq(found[b])
  BY <1>2 DEF TypeOK
<1> HIDE DEF c
<1>13. /\ found' = [b \in Buckets |-> found'[b]]
       /\ found'[c] = found[c] \o e
       /\ \A b \in Buckets : b # c => found'[b] = found[b]
  <2>1. found' = [found EXCEPT ![c] = @ \o e]
    BY DEF Advance, c
  <2> QED BY <1>5, <1>12, <2>1
<1>14. IsSeq(found'[c])
  BY <1>1, <1>5, <1>12, <1>13, ConcatIsSeq
<1>15. TypeOK'
  <2>1. lane' \in [1..Lanes' -> Lane']
    BY <1>2, <1>9 DEF Lane, Nodes
  <2>2. found' = [b \in Buckets' |-> found'[b]]
    <3> HIDE DEF Buckets
    <3> QED BY <1>2, <1>13
  <2>3. \A b \in Buckets' : IsSeq(found'[b])
    BY <1>2, <1>12, <1>13, <1>14
  <2>4. /\ lexicon' \in 0..Len(rows') /\ nextStart' \in 0..Len(starts')
    BY <1>1, <1>2 DEF TypeOK
  <2> QED BY <1>2, <2>1, <2>2, <2>3, <2>4 DEF TypeOK
<1>16. LanesOK'
  <2>1. /\ \A i \in Active : lane[i].bucket \in 1..nextStart
        /\ \A i, j \in Active : lane[i].bucket = lane[j].bucket => i = j
        /\ nextStart < Len(starts) => Active = 1..Lanes
        /\ live = Cardinality(Active)
    BY <1>2 DEF IInv, LanesOK
  <2>2. \A i \in Active : i \in 1..Lanes
    BY DEF Active
  <2>3. \A i \in Active : lane'[i].bucket = lane[i].bucket
    BY <1>10, <2>2
  <2> QED BY <1>1, <1>2, <1>11, <2>1, <2>3 DEF LanesOK
<1>17. \A b \in Buckets : b > nextStart =>
         Result(b) = found[b] \o LookupUpTo(index, text, lexicon, starts[b])
  BY DEF IInv, ReportsOK
<1>18. /\ \A i \in Active : Result(lane[i].bucket) =
                              found[lane[i].bucket] \o (Pending(i) \o Before(lane[i].bucket))
       /\ \A b \in 1..nextStart : ~HasLane(b) => Result(b) = found[b] \o Before(b)
  BY <1>2 DEF IInv, ReportsOK
<1> PICK t \in 1..Lanes : t = turn
  BY <1>2
<1>19. Result(c) = found'[c] \o (Pending(t)' \o Before(c))
  <2> DEFINE p == WordsFrom(lexicon, index[lexicon], text, Below(text, Place(Me)))
  <2>1. Pending(t)' = p
    <3>1. Place(new) = Below(text, Place(Me))
      BY <1>8 DEF Place, Below
    <3>2. Pending(t)' = WordsFrom(lexicon, index[lexicon], text, Place(lane'[t]))
      BY <1>2 DEF Pending, Place
    <3> QED BY <1>9, <3>1, <3>2
  <2>2. IsSeq(p)
    <3>1. ListsReadable(index[lexicon])
      BY <1>2 DEF TypeOK, InputsOK
    <3> QED BY <1>4, <1>6, <3>1, WordsAreSeq
  <2>3. Result(c) = found[c] \o ((e \o p) \o Before(c))
    <3>1. Pending(turn) = e \o p
      BY DEF Advance
    <3>2. lane[turn].bucket = c
      BY <1>3 DEF c
    <3> HIDE DEF p
    <3> QED BY <1>5, <1>18, <3>1, <3>2
  <2> DEFINE r == Before(c)
             f == found[c]
  <2>4. IsSeq(r) /\ IsSeq(f)
    BY <1>2, <1>5, ThisLexiconFirst
  <2> HIDE DEF p, r, f
  <2>5. f \o ((e \o p) \o r) = (f \o e) \o (p \o r)
    <3>1. IsSeq(f) /\ IsSeq(e) /\ IsSeq(p) /\ IsSeq(r)
      BY <1>1, <2>2, <2>4
    <3>2. Regrouped(f, e, p, r)
      BY <3>1, Regroup
    <3> QED BY <3>2 DEF Regrouped
  <2> QED BY <1>13, <2>1, <2>3, <2>5 DEF f, r
<1>20. ReportsOK'
  <2>1. ASSUME NEW b \in Buckets', turn' = 0 \/ b > nextStart'
        PROVE  Result(b)' = found'[b] \o LookupUpTo(index', text', lexicon', starts'[b])
    <3>1. b \in Buckets /\ b > nextStart /\ b # c
      BY <1>1, <1>2, <1>4, <1>5, <2>1
    <3> QED BY <1>2, <1>13, <1>17, <3>1
  <2>2. ASSUME NEW i \in Active'
        PROVE  Result(lane[i].bucket)' =
                 found'[lane'[i].bucket] \o (Pending(i)' \o Before(lane[i].bucket)')
    <3> DEFINE b == lane[i].bucket
    <3>1. i \in Active /\ i \in 1..Lanes /\ lane'[i].bucket = b
      BY <1>10, <1>11 DEF Active
    <3>2. b \in Buckets
      BY <1>2, <1>4, <3>1 DEF IInv, LanesOK
    <3>3. Result(lane[i].bucket)' = Result(b) /\ Before(lane[i].bucket)' = Before(b)
      BY <1>2, <3>1 DEF Result, Before
    <3>4. CASE i = turn
      <4>1. b = c /\ i = t
        BY <1>3, <3>4 DEF c
      <4>2. Pending(i)' = Pending(t)'
        BY <4>1
      <4> HIDE DEF b
      <4> QED BY <1>2, <1>19, <3>1, <3>2, <3>3, <4>1, <4>2
    <3>5. CASE i # turn
      <4>1. b # c
        BY <1>2, <1>3, <1>5, <3>1, <3>5 DEF IInv, LanesOK, c
      <4>2. Pending(i)' = Pending(i)
        BY <1>1, <1>9, <3>1, <3>5, LaneStays
      <4>3. Result(b) = found[b] \o (Pending(i) \o Before(b))
        BY <1>18, <3>1
      <4> HIDE DEF b
      <4> QED BY <1>13, <3>1, <3>2, <3>3, <4>1, <4>2, <4>3
    <3> QED BY <3>4, <3>5
  <2>3. ASSUME NEW b \in 1..nextStart', ~HasLane(b)'
        PROVE  Result(b)' = found'[b] \o Before(b)'
    <3>1. b \in Buckets /\ b \in 1..nextStart
      BY <1>1, <1>4
    <3>2. ~HasLane(b)
      <4>1. ~\E i \in Active : lane'[i].bucket = b
        BY <1>11, <2>3 DEF HasLane
      <4>2. \A i \in Active : lane'[i].bucket = lane[i].bucket
        BY <1>10 DEF Active
      <4> QED BY <4>1, <4>2 DEF HasLane
    <3>3. b # c
      BY <1>3, <1>5, <3>2 DEF HasLane, c
    <3> QED BY <1>2, <1>13, <1>18, <3>1, <3>2, <3>3
  <2> QED BY <1>2, <2>1, <2>2, <2>3 DEF ReportsOK
<1> QED BY <1>15, <1>16, <1>20 DEF IInv

LEMMA ContinueKeeps ==
  ASSUME IInv, Continue
  PROVE  IInv'
<1>1. Visit /\ Me.active /\ Outcome.kind = "continue" /\ UNCHANGED <<nextStart, live, found>>
  BY DEF Continue, Visit
<1>2. TypeOK /\ lexicon > 0 /\ turn \in 1..Lanes
  BY <1>1, VisitFacts
<1>3. Me.pos # Len(text) /\ Outcome = Walk(index[lexicon].values, Me.node, text[Me.pos + 1])
  BY <1>1 DEF Outcome
<1>4. Outcome.node = Append(Me.node, text[Me.pos + 1])
  <2>1. \/ Outcome.kind = "dead"
        \/ Outcome.kind = "continue" /\ Outcome.node = Append(Me.node, text[Me.pos + 1])
        \/ Outcome.kind = "match" /\ Outcome.node = Append(Me.node, text[Me.pos + 1])
    BY <1>3, StepOfWalk
  <2> QED BY <1>1, <2>1
<1> DEFINE p == WordsFrom(lexicon, index[lexicon], text, Below(text, Place(Me)))
<1>5. Pending(turn) = p
  <2>1. ListsReadable(index[lexicon]) /\ IsSeq(text) /\ Place(Me) \in Places(text)
    BY <1>2, PendingIsSeq DEF TypeOK, InputsOK, Me
  <2>2. WordsByStep(lexicon, index[lexicon], text, Place(Me))
    BY <2>1, WordsUnfold
  <2>3. Place(Me).pos = Me.pos /\ Place(Me).node = Me.node
    BY DEF Place
  <2>4. Pending(turn) = WordsFrom(lexicon, index[lexicon], text, Place(Me))
    BY DEF Pending, Me
  <2> QED BY <1>1, <1>3, <2>2, <2>3, <2>4 DEF WordsByStep
<1>6. IsSeq(Pending(turn))
  BY <1>2, PendingIsSeq
<1> HIDE DEF p
<1>7. Pending(turn) = <<>> \o p
  BY <1>5, <1>6, EmptyConcat
<1>8. found' = [found EXCEPT ![Me.bucket] = @ \o <<>>]
  <2>1. Me.bucket \in Buckets => found[Me.bucket] \o <<>> = found[Me.bucket]
    BY <1>2, EmptyConcat DEF TypeOK
  <2>2. found = [b \in Buckets |-> found[b]]
    BY <1>2 DEF TypeOK
  <2> HIDE DEF Buckets
  <2> QED BY <1>1, <2>1, <2>2
<1>9. lane' = [lane EXCEPT ![turn].node = Append(Me.node, text[Me.pos + 1]), ![turn].pos = @ + 1]
  BY <1>4 DEF Continue
<1>10. Advance(<<>>)
  BY <1>1, <1>3, <1>7, <1>8, <1>9, EmptyIsSeq DEF Advance, p
<1> QED BY <1>10, AdvanceKeeps

\* The words e are reported to b, as its result has them next.
Reports(b, e, r) ==
  /\ IsSeq(found[b]) /\ IsSeq(e) /\ IsSeq(r)
  /\ Result(b) = (found[b] \o e) \o r
  /\ found' = [found EXCEPT ![b] = @ \o e]

LEMMA MatchKeeps ==
  ASSUME IInv, Match
  PROVE  /\ IInv'
         /\ \E b \in Buckets : \E e, r : Reports(b, e, r)
<1>1. Visit /\ Me.active /\ Outcome.kind = "match" /\ UNCHANGED <<nextStart, live>>
  BY DEF Match, Visit
<1>2. TypeOK /\ lexicon > 0 /\ turn > 0 /\ turn \in 1..Lanes
  BY <1>1, VisitFacts
<1>3. Me.pos # Len(text) /\ Outcome = Walk(index[lexicon].values, Me.node, text[Me.pos + 1])
  BY <1>1 DEF Outcome
<1>4. /\ Outcome.node = Append(Me.node, text[Me.pos + 1])
      /\ Outcome.node \in DOMAIN index[lexicon].values
      /\ Outcome.value = index[lexicon].values[Outcome.node]
  <2>1. \/ Outcome.kind = "dead"
        \/ Outcome.kind = "continue" /\ Outcome.node = Append(Me.node, text[Me.pos + 1])
        \/ /\ Outcome.kind = "match" /\ Outcome.node = Append(Me.node, text[Me.pos + 1])
           /\ Outcome.node \in DOMAIN index[lexicon].values
           /\ Outcome.value = index[lexicon].values[Outcome.node]
    BY <1>3, StepOfWalk
  <2> QED BY <1>1, <2>1
<1> DEFINE p == WordsFrom(lexicon, index[lexicon], text, Below(text, Place(Me)))
           e == Expand(lexicon, index[lexicon], Outcome.value, Me.pos + 1)
<1>5. ListsReadable(index[lexicon]) /\ IsSeq(text) /\ Place(Me) \in Places(text)
  BY <1>2, PendingIsSeq DEF TypeOK, InputsOK, Me
<1>6. Place(Me).pos = Me.pos /\ Place(Me).node = Me.node
  BY DEF Place
<1>7. Pending(turn) = e \o p
  <2>1. WordsByStep(lexicon, index[lexicon], text, Place(Me))
    BY <1>5, WordsUnfold
  <2>2. Pending(turn) = WordsFrom(lexicon, index[lexicon], text, Place(Me))
    BY DEF Pending, Me
  <2> QED BY <1>1, <1>3, <1>6, <2>1, <2>2 DEF WordsByStep
<1>8. IsSeq(e)
  <2> DEFINE m == [value |-> Outcome.value, end |-> Me.pos + 1]
  <2>1. Me.pos + 1 \in Nat
    BY <1>3, <1>5, <1>6, PlaceBelow
  <2>2. m \in TrieMatch(index[lexicon].values) /\ m.value = Outcome.value
    BY <1>4, <2>1 DEF TrieMatch
  <2> HIDE DEF m
  <2>3. IsSeq(Expand(lexicon, index[lexicon], m.value, Me.pos + 1))
    BY <1>5, <2>2, ExpandIsSeq
  <2> QED BY <2>2, <2>3
<1>9. lane' = [lane EXCEPT ![turn].node = Append(Me.node, text[Me.pos + 1]), ![turn].pos = @ + 1]
  BY <1>4 DEF Match
<1>10. found' = [found EXCEPT ![Me.bucket] = @ \o e]
  BY DEF Match
<1> HIDE DEF p, e
<1>11. Advance(e)
  BY <1>1, <1>3, <1>7, <1>8, <1>9, <1>10 DEF Advance, p
<1>12. IInv'
  BY <1>11, AdvanceKeeps
<1>13. Me.bucket \in Buckets
  <2>1. Me = lane[turn] /\ turn \in Active
    BY <1>1, <1>2 DEF Me, Active
  <2>2. Me.bucket \in 1..nextStart
    BY <1>2, <2>1 DEF IInv, LanesOK
  <2>3. nextStart \in 0..Len(starts) /\ Len(starts) \in Nat /\ Buckets = 1..Len(starts)
    BY <1>2 DEF TypeOK, InputsOK
  <2> HIDE DEF Buckets
  <2> QED BY <2>2, <2>3
<1> DEFINE c == Me.bucket
           f == found[c]
           r == Before(c)
<1>14. IsSeq(p) /\ IsSeq(f) /\ IsSeq(r)
  <2>1. Below(text, Place(Me)) \in Places(text)
    BY <1>3, <1>5, <1>6, PlaceBelow DEF Below
  <2>2. IsSeq(p)
    BY <1>5, <2>1, WordsAreSeq DEF p
  <2> QED BY <1>2, <1>13, <2>2, ThisLexiconFirst
<1>15. Result(c) = f \o ((e \o p) \o r)
  <2>1. Me = lane[turn] /\ turn \in Active
    BY <1>1, <1>2 DEF Me, Active
  <2> QED BY <1>2, <1>7, <2>1 DEF IInv, ReportsOK
<1>16. IsSeq(p \o r)
  BY <1>14, ConcatIsSeq
<1>17. found' = [found EXCEPT ![c] = @ \o e] /\ c \in Buckets
  BY <1>10, <1>13
<1> HIDE DEF f, r, c
<1>18. Regrouped(f, e, p, r)
  BY <1>8, <1>14, Regroup
<1>19. Result(c) = (f \o e) \o (p \o r)
  BY <1>15, <1>18 DEF Regrouped
<1>20. Reports(c, e, p \o r)
  BY <1>8, <1>14, <1>16, <1>17, <1>19 DEF Reports, f
<1> QED BY <1>12, <1>17, <1>20

(* A walk that has died has reported what it had to report.                *)
LEMMA DeadIsDone ==
  ASSUME IInv, Visit, Me.active, Outcome.kind = "dead"
  PROVE  /\ turn \in Active /\ Me.bucket \in 1..nextStart /\ Me.bucket \in Buckets
         /\ Result(Me.bucket) = found[Me.bucket] \o Before(Me.bucket)
<1>1. TypeOK /\ lexicon > 0 /\ turn > 0 /\ turn \in 1..Lanes
  BY VisitFacts
<1>2. Me = lane[turn] /\ turn \in Active
  BY <1>1 DEF Me, Active
<1>3. Me.bucket \in 1..nextStart
  BY <1>1, <1>2 DEF IInv, LanesOK
<1>4. Me.bucket \in Buckets
  <2>1. nextStart \in 0..Len(starts) /\ Len(starts) \in Nat /\ Buckets = 1..Len(starts)
    BY <1>1 DEF TypeOK, InputsOK
  <2> HIDE DEF Buckets
  <2> QED BY <1>3, <2>1
<1>5. ListsReadable(index[lexicon]) /\ IsSeq(text) /\ Place(Me) \in Places(text)
  BY <1>1, PendingIsSeq DEF TypeOK, InputsOK, Me
<1>6. Place(Me).pos = Me.pos /\ Place(Me).node = Me.node
  BY DEF Place
<1>7. Me.pos = Len(text) \/ Outcome = Walk(index[lexicon].values, Me.node, text[Me.pos + 1])
  <2>1. Len(text) \in Nat /\ Me.pos \in 0..Len(text)
    BY <1>5, <1>6 DEF IsSeq, Places
  <2> QED BY <2>1 DEF Outcome
<1>8. Pending(turn) = <<>>
  <2>1. WordsByStep(lexicon, index[lexicon], text, Place(Me))
    BY <1>5, WordsUnfold
  <2>2. Pending(turn) = WordsFrom(lexicon, index[lexicon], text, Place(Me))
    BY DEF Pending, Me
  <2> QED BY <1>6, <1>7, <2>1, <2>2 DEF WordsByStep
<1>9. Result(Me.bucket) = found[Me.bucket] \o (<<>> \o Before(Me.bucket))
  BY <1>1, <1>2, <1>8 DEF IInv, ReportsOK
<1>10. IsSeq(Before(Me.bucket))
  BY <1>1, <1>4, ThisLexiconFirst
<1>11. <<>> \o Before(Me.bucket) = Before(Me.bucket)
  BY <1>10, EmptyConcat
<1> QED BY <1>2, <1>3, <1>4, <1>9, <1>11

LEMMA RefillKeeps ==
  ASSUME IInv, Refill
  PROVE  IInv'
<1> DEFINE c == Me.bucket
<1>1. Visit /\ Me.active /\ Outcome.kind = "dead" /\ found' = found
  BY DEF Refill, Visit
<1>2. /\ TypeOK /\ lexicon > 0 /\ turn > 0 /\ turn \in 1..Lanes
      /\ turn' \in 0..Lanes' /\ turn' > 0 /\ InputsOK' /\ Buckets' = Buckets
      /\ \A b \in Buckets : Result(b)' = Result(b) /\ Before(b)' = Before(b)
      /\ rows' = rows /\ text' = text /\ starts' = starts /\ Lanes' = Lanes
      /\ index' = index /\ lexicon' = lexicon
  BY <1>1, VisitFacts
<1>3. Me = lane[turn] /\ lane \in [1..Lanes -> Lane] /\ lane[turn] \in Lane
  BY <1>2 DEF TypeOK, Me
<1>4. /\ nextStart \in Nat /\ nextStart <= Len(starts) /\ Buckets = 1..Len(starts)
      /\ Len(starts) \in Nat /\ \A b \in Buckets : starts[b] \in 0..Len(text)
  BY <1>2 DEF TypeOK, InputsOK
<1>5. /\ turn \in Active /\ c \in 1..nextStart /\ c \in Buckets
      /\ Result(c) = found[c] \o Before(c)
  BY <1>1, DeadIsDone
<1>6. lane[turn].bucket = c
  BY <1>3
<1> HIDE DEF c
<1> PICK t \in 1..Lanes : t = turn
  BY <1>2
<1>7. /\ \A b \in Buckets : b > nextStart =>
           Result(b) = found[b] \o LookupUpTo(index, text, lexicon, starts[b])
      /\ \A i \in Active : Result(lane[i].bucket) =
                             found[lane[i].bucket] \o (Pending(i) \o Before(lane[i].bucket))
      /\ \A b \in 1..nextStart : ~HasLane(b) => Result(b) = found[b] \o Before(b)
  BY <1>2 DEF IInv, ReportsOK
<1>8. /\ \A i \in Active : i \in 1..Lanes /\ lane[i].bucket \in 1..nextStart
      /\ \A i, j \in Active : lane[i].bucket = lane[j].bucket => i = j
      /\ nextStart < Len(starts) => Active = 1..Lanes
      /\ live = Cardinality(Active)
  BY <1>2 DEF IInv, LanesOK, Active
<1> DEFINE q == nextStart + 1
<1>9. /\ nextStart < Len(starts) /\ nextStart' = q /\ live' = live
      /\ lane' = [lane EXCEPT ![turn] = Fresh(q)]
      /\ q \in Buckets /\ q \in Nat /\ q > nextStart
  BY <1>4 DEF Refill
<1>10. /\ lane'[t] = Fresh(q) /\ Fresh(q) \in Lane
       /\ lane'[t].active /\ lane'[t].bucket = q
       /\ \A i \in 1..Lanes : i # t => lane'[i] = lane[i]
       /\ lane' \in [1..Lanes -> Lane]
  <2>1. Fresh(q) \in Lane
    <3>1. Root \in Nodes(text)
      BY DEF Root, Nodes
    <3>2. starts[q] \in 0..Len(text) /\ q \in 0..Len(starts)
      BY <1>4, <1>9
    <3> HIDE DEF q
    <3> QED BY <3>1, <3>2 DEF Fresh, Lane
  <2>2. Fresh(q).active = TRUE /\ Fresh(q).bucket = q
    BY DEF Fresh
  <2> HIDE DEF q
  <2> QED BY <1>3, <1>9, <2>1, <2>2
<1> HIDE DEF q
<1>11. Active' = Active /\ Active = 1..Lanes
  <2>1. Active = 1..Lanes
    BY <1>8, <1>9
  <2>2. \A i \in 1..Lanes : lane[i].active
    BY <2>1 DEF Active
  <2>3. \A i \in 1..Lanes : lane'[i].active
    BY <1>10, <2>2
  <2>4. Active' = 1..Lanes
    BY <1>2, <2>3 DEF Active
  <2> QED BY <2>1, <2>4
<1>12. TypeOK'
  <2>1. lane' \in [1..Lanes' -> Lane']
    BY <1>2, <1>10 DEF Lane, Nodes
  <2>2. nextStart' \in 0..Len(starts')
    BY <1>2, <1>4, <1>9
  <2> QED BY <1>1, <1>2, <2>1, <2>2 DEF TypeOK
<1>13. LanesOK'
  <2>1. \A i \in Active' : lane'[i].bucket \in 1..nextStart'
    <3> TAKE i \in Active'
    <3>1. CASE i = t
      BY <1>4, <1>9, <1>10, <3>1
    <3>2. CASE i # t
      BY <1>4, <1>8, <1>9, <1>10, <1>11, <3>2
    <3> QED BY <3>1, <3>2
  <2>2. \A i, j \in Active' : lane'[i].bucket = lane'[j].bucket => i = j
    <3> SUFFICES ASSUME NEW i \in Active', NEW j \in Active', lane'[i].bucket = lane'[j].bucket
                 PROVE  i = j
      OBVIOUS
    <3>1. \A k \in Active' : k # t => lane'[k] = lane[k] /\ lane[k].bucket # q
      BY <1>4, <1>8, <1>9, <1>10, <1>11
    <3> QED BY <1>8, <1>10, <1>11, <3>1
  <2>3. live' = Cardinality(Active')
    BY <1>8, <1>9, <1>11
  <2> QED BY <1>2, <1>11, <2>1, <2>2, <2>3 DEF LanesOK
<1>14. Pending(t)' = WordsFrom(lexicon, index[lexicon], text, AtRoot(starts[q]))
  <2>1. Fresh(q).node = Root /\ Fresh(q).pos = starts[q]
    BY DEF Fresh
  <2>2. Place(lane'[t]) = AtRoot(starts[q])
    BY <1>10, <2>1 DEF Place, AtRoot
  <2>3. Pending(t)' = WordsFrom(lexicon, index[lexicon], text, Place(lane'[t]))
    BY <1>2 DEF Pending, Place
  <2> QED BY <2>2, <2>3
<1>15. ReportsOK'
  <2>1. ASSUME NEW b \in Buckets', turn' = 0 \/ b > nextStart'
        PROVE  Result(b)' = found'[b] \o LookupUpTo(index', text', lexicon', starts'[b])
    <3>1. b \in Buckets /\ b > nextStart
      BY <1>2, <1>4, <1>9, <2>1
    <3> QED BY <1>1, <1>2, <1>7, <3>1
  <2>2. Result(lane[t].bucket)' =
          found'[lane'[t].bucket] \o (Pending(t)' \o Before(lane[t].bucket)')
    <3>1. Result(lane[t].bucket)' = Result(q) /\ Before(lane[t].bucket)' = Before(q)
      BY <1>2, <1>10 DEF Result, Before
    <3>2. Result(q) = found[q] \o LookupUpTo(index, text, lexicon, starts[q])
      BY <1>7, <1>9
    <3>3. LookupUpTo(index, text, lexicon, starts[q]) = Pending(t)' \o Before(q)
      BY <1>2, <1>9, <1>14, ThisLexiconFirst
    <3> QED BY <1>1, <1>10, <3>1, <3>2, <3>3
  <2>3. ASSUME NEW i \in Active', i # t
        PROVE  Result(lane[i].bucket)' =
                 found'[lane'[i].bucket] \o (Pending(i)' \o Before(lane[i].bucket)')
    <3> DEFINE b == lane[i].bucket
    <3>1. i \in Active /\ i \in 1..Lanes /\ lane'[i] = lane[i]
      BY <1>8, <1>10, <1>11, <2>3
    <3>2. b \in Buckets
      BY <1>4, <1>8, <3>1
    <3>3. Result(lane[i].bucket)' = Result(b) /\ Before(lane[i].bucket)' = Before(b)
      BY <1>2, <3>1 DEF Result, Before
    <3>4. Pending(i)' = Pending(i)
      BY <1>1, <3>1, LaneStays
    <3> HIDE DEF b
    <3> QED BY <1>1, <1>7, <3>1, <3>3, <3>4 DEF b
  <2>4. ASSUME NEW b \in 1..nextStart', ~HasLane(b)'
        PROVE  Result(b)' = found'[b] \o Before(b)'
    <3>1. b \in 1..nextStart /\ b \in Buckets
      <4>1. b # q
        BY <1>10, <1>11, <2>4 DEF HasLane
      <4>2. b \in 1..nextStart
        BY <1>4, <1>9, <4>1 DEF q
      <4> QED BY <1>4, <4>2
    <3>2. CASE b = c
      BY <1>1, <1>2, <1>5, <3>1, <3>2
    <3>3. CASE b # c
      <4>1. ~HasLane(b)
        <5> SUFFICES ASSUME NEW i \in Active, lane[i].bucket = b PROVE FALSE
          BY DEF HasLane
        <5>1. i # t /\ i \in 1..Lanes
          BY <1>6, <1>8, <3>3
        <5>2. lane'[i] = lane[i] /\ i \in Active'
          BY <1>10, <1>11, <5>1
        <5> QED BY <2>4, <5>2 DEF HasLane
      <4> QED BY <1>1, <1>2, <1>7, <3>1, <4>1
    <3> QED BY <3>2, <3>3
  <2>5. \A i \in Active' : Result(lane[i].bucket)' =
                 found'[lane'[i].bucket] \o (Pending(i)' \o Before(lane[i].bucket)')
    BY <2>2, <2>3
  <2> QED BY <1>2, <2>1, <2>4, <2>5 DEF ReportsOK
<1> QED BY <1>12, <1>13, <1>15 DEF IInv

LEMMA RetireKeeps ==
  ASSUME IInv, Retire
  PROVE  IInv'
<1> DEFINE c == Me.bucket
<1>1. Visit /\ Me.active /\ Outcome.kind = "dead" /\ found' = found
  BY DEF Retire, Visit
<1>2. /\ TypeOK /\ lexicon > 0 /\ turn > 0 /\ turn \in 1..Lanes
      /\ turn' \in 0..Lanes' /\ turn' > 0 /\ InputsOK' /\ Buckets' = Buckets
      /\ \A b \in Buckets : Result(b)' = Result(b) /\ Before(b)' = Before(b)
      /\ rows' = rows /\ text' = text /\ starts' = starts /\ Lanes' = Lanes
      /\ index' = index /\ lexicon' = lexicon
  BY <1>1, VisitFacts
<1>3. Me = lane[turn] /\ lane \in [1..Lanes -> Lane] /\ lane[turn] \in Lane
  BY <1>2 DEF TypeOK, Me
<1>4. /\ nextStart \in Nat /\ nextStart <= Len(starts) /\ Buckets = 1..Len(starts)
      /\ Len(starts) \in Nat /\ \A b \in Buckets : starts[b] \in 0..Len(text)
  BY <1>2 DEF TypeOK, InputsOK
<1>5. /\ turn \in Active /\ c \in 1..nextStart /\ c \in Buckets
      /\ Result(c) = found[c] \o Before(c)
  BY <1>1, DeadIsDone
<1>6. lane[turn].bucket = c
  BY <1>3
<1> HIDE DEF c
<1> PICK t \in 1..Lanes : t = turn
  BY <1>2
<1>7. /\ \A b \in Buckets : b > nextStart =>
           Result(b) = found[b] \o LookupUpTo(index, text, lexicon, starts[b])
      /\ \A i \in Active : Result(lane[i].bucket) =
                             found[lane[i].bucket] \o (Pending(i) \o Before(lane[i].bucket))
      /\ \A b \in 1..nextStart : ~HasLane(b) => Result(b) = found[b] \o Before(b)
  BY <1>2 DEF IInv, ReportsOK
<1>8. /\ \A i \in Active : i \in 1..Lanes /\ lane[i].bucket \in 1..nextStart
      /\ \A i, j \in Active : lane[i].bucket = lane[j].bucket => i = j
      /\ nextStart < Len(starts) => Active = 1..Lanes
      /\ live = Cardinality(Active)
  BY <1>2 DEF IInv, LanesOK, Active
<1>9. /\ nextStart = Len(starts) /\ nextStart' = nextStart /\ live' = live - 1
      /\ lane' = [lane EXCEPT ![turn].active = FALSE]
  BY DEF Retire
<1>10. /\ ~lane'[t].active
       /\ \A i \in 1..Lanes : i # t => lane'[i] = lane[i]
       /\ lane' \in [1..Lanes -> Lane]
  <2> DEFINE new == [lane[t] EXCEPT !.active = FALSE]
  <2>1. new \in Lane /\ new.active = FALSE
    BY <1>3 DEF Lane
  <2>2. lane' = [lane EXCEPT ![t] = new]
    BY <1>9
  <2> HIDE DEF new
  <2> QED BY <1>3, <2>1, <2>2
<1>11. Active' = Active \ {t}
  BY <1>2, <1>8, <1>10 DEF Active
<1>12. TypeOK'
  <2>1. lane' \in [1..Lanes' -> Lane']
    BY <1>2, <1>10 DEF Lane, Nodes
  <2> QED BY <1>1, <1>2, <1>9, <2>1 DEF TypeOK
<1>13. LanesOK'
  <2>1. \A i \in Active' : i \in Active /\ lane'[i] = lane[i]
    BY <1>8, <1>10, <1>11
  <2>2. \A i \in Active' : lane'[i].bucket \in 1..nextStart'
    BY <1>8, <1>9, <2>1
  <2>3. \A i, j \in Active' : lane'[i].bucket = lane'[j].bucket => i = j
    BY <1>8, <2>1
  <2>4. live' = Cardinality(Active')
    <3>1. IsFiniteSet(Active)
      BY <1>2, ActiveFinite
    <3>2. Cardinality(Active \ {t}) = Cardinality(Active) - 1
      BY <1>5, <3>1, FS_RemoveElement
    <3> QED BY <1>8, <1>9, <1>11, <3>2
  <2>5. ~(nextStart' < Len(starts'))
    BY <1>2, <1>4, <1>9
  <2> QED BY <1>2, <2>2, <2>3, <2>4, <2>5 DEF LanesOK
<1>14. ReportsOK'
  <2>1. ASSUME NEW b \in Buckets', turn' = 0 \/ b > nextStart'
        PROVE  Result(b)' = found'[b] \o LookupUpTo(index', text', lexicon', starts'[b])
    <3>1. b \in Buckets /\ b > nextStart
      BY <1>2, <1>4, <1>9, <2>1
    <3> QED BY <1>1, <1>2, <1>7, <3>1
  <2>2. ASSUME NEW i \in Active', i # t
        PROVE  Result(lane[i].bucket)' =
                 found'[lane'[i].bucket] \o (Pending(i)' \o Before(lane[i].bucket)')
    <3> DEFINE b == lane[i].bucket
    <3>1. i \in Active /\ i \in 1..Lanes /\ lane'[i] = lane[i]
      BY <1>8, <1>10, <1>11, <2>2
    <3>2. b \in Buckets
      BY <1>4, <1>8, <3>1
    <3>3. Result(lane[i].bucket)' = Result(b) /\ Before(lane[i].bucket)' = Before(b)
      BY <1>2, <3>1 DEF Result, Before
    <3>4. Pending(i)' = Pending(i)
      BY <1>1, <3>1, LaneStays
    <3> HIDE DEF b
    <3> QED BY <1>1, <1>7, <3>1, <3>3, <3>4 DEF b
  <2>3. ASSUME NEW b \in 1..nextStart', ~HasLane(b)'
        PROVE  Result(b)' = found'[b] \o Before(b)'
    <3>1. b \in 1..nextStart /\ b \in Buckets
      BY <1>4, <1>9
    <3>2. CASE b = c
      BY <1>1, <1>2, <1>5, <3>1, <3>2
    <3>3. CASE b # c
      <4>1. ~HasLane(b)
        <5> SUFFICES ASSUME NEW i \in Active, lane[i].bucket = b PROVE FALSE
          BY DEF HasLane
        <5>1. i # t /\ i \in 1..Lanes
          BY <1>6, <1>8, <3>3
        <5>2. lane'[i] = lane[i] /\ i \in Active'
          BY <1>10, <1>11, <5>1
        <5> QED BY <2>3, <5>2 DEF HasLane
      <4> QED BY <1>1, <1>2, <1>7, <3>1, <4>1
    <3> QED BY <3>2, <3>3
  <2>4. \A i \in Active' : i # t
    BY <1>11
  <2>5. \A i \in Active' : Result(lane[i].bucket)' =
                 found'[lane'[i].bucket] \o (Pending(i)' \o Before(lane[i].bucket)')
    BY <2>2, <2>4
  <2> QED BY <1>2, <2>1, <2>3, <2>5 DEF ReportsOK
<1> QED BY <1>12, <1>13, <1>14 DEF IInv

LEMMA NextLexiconKeeps ==
  ASSUME IInv, NextLexicon
  PROVE  IInv'
<1>1. /\ TypeOK /\ UNCHANGED <<inputs, lane, nextStart, live, found>>
      /\ lexicon > 0 /\ turn = 1 /\ live = 0 /\ lexicon' = lexicon - 1 /\ turn' = 0
  BY DEF IInv, NextLexicon
<1>2. InputsOK' /\ Buckets' = Buckets /\ \A b \in Buckets : Result(b)' = Result(b)
  BY <1>1, InputsStay
<1>3. /\ rows' = rows /\ text' = text /\ starts' = starts /\ Lanes' = Lanes /\ index' = index
      /\ lane' = lane /\ nextStart' = nextStart /\ found' = found
  BY <1>1 DEF inputs
<1>4. TypeOK'
  <2>1. lexicon' \in 0..Len(rows') /\ turn' \in 0..Lanes'
    BY <1>1, <1>3 DEF TypeOK, InputsOK
  <2> QED BY <1>1, <1>2, <1>3, <2>1 DEF TypeOK, Lane, Nodes
<1>5. LanesOK'
  BY <1>1 DEF LanesOK
<1>6. Active = {}
  <2>1. IsFiniteSet(Active) /\ Cardinality(Active) = 0
    BY <1>1, ActiveFinite DEF IInv, LanesOK
  <2> QED BY <2>1, FS_EmptySet
<1>7. Buckets = 1..nextStart
  <2>1. nextStart < Len(starts) => Active = 1..Lanes
    BY <1>1 DEF IInv, LanesOK
  <2>2. /\ nextStart \in 0..Len(starts) /\ Len(starts) \in Nat /\ Lanes \in Nat \ {0}
        /\ Buckets = 1..Len(starts)
    BY <1>1 DEF TypeOK, InputsOK
  <2>3. 1 \in 1..Lanes
    BY <2>2
  <2> QED BY <1>6, <2>1, <2>2, <2>3
<1>8. \A b \in Buckets : Result(b) = found[b] \o LookupUpTo(index, text, lexicon - 1, starts[b])
  <2> TAKE b \in Buckets
  <2>1. b \in 1..nextStart /\ ~HasLane(b)
    BY <1>6, <1>7 DEF HasLane
  <2>2. turn > 0 /\ ReportsOK
    BY <1>1 DEF IInv
  <2>3. Result(b) = found[b] \o Before(b)
    BY <2>1, <2>2 DEF ReportsOK
  <2> QED BY <2>3 DEF Before
<1>9. ReportsOK'
  <2>1. ASSUME NEW b \in Buckets'
        PROVE  Result(b)' = found'[b] \o LookupUpTo(index', text', lexicon', starts'[b])
    BY <1>1, <1>2, <1>3, <1>8
  <2>2. ~(turn' > 0)
    BY <1>1
  <2> QED BY <2>1, <2>2 DEF ReportsOK
<1> QED BY <1>4, <1>5, <1>9 DEF IInv

---------------------------------------------------------------------------
(* The theorems.                                                           *)

LEMMA StutterKeeps ==
  ASSUME IInv, UNCHANGED vars
  PROVE  IInv'
<1>1. /\ rows' = rows /\ text' = text /\ starts' = starts /\ Lanes' = Lanes /\ index' = index
      /\ lexicon' = lexicon /\ lane' = lane /\ nextStart' = nextStart /\ live' = live
      /\ turn' = turn /\ found' = found
  BY DEF vars, inputs
<1>2. TypeOK /\ UNCHANGED inputs
  BY DEF IInv, vars
<1>3. InputsOK' /\ Buckets' = Buckets
  BY <1>2, InputsStay
<1>4. TypeOK'
  BY <1>1, <1>2, <1>3 DEF TypeOK, Lane, Nodes
<1>5. Active' = Active
  BY <1>1 DEF Active
<1>6. LanesOK'
  BY <1>1, <1>5 DEF IInv, LanesOK
<1>7. ReportsOK'
  <2>1. ReportsOK
    BY DEF IInv
  <2> QED BY <1>1, <1>3, <1>5, <2>1 DEF ReportsOK, Result, Before, Pending, Place, HasLane
<1> QED BY <1>4, <1>6, <1>7 DEF IInv

LEMMA StepKeeps ==
  ASSUME IInv, [Next]_vars
  PROVE  IInv'
<1>1. CASE FillLanes
  BY <1>1, FillKeeps
<1>2. CASE SkipInactive
  BY <1>2, SkipKeeps
<1>3. CASE Continue
  BY <1>3, ContinueKeeps
<1>4. CASE Match
  BY <1>4, MatchKeeps
<1>5. CASE Refill
  BY <1>5, RefillKeeps
<1>6. CASE Retire
  BY <1>6, RetireKeeps
<1>7. CASE NextLexicon
  BY <1>7, NextLexiconKeeps
<1>8. CASE UNCHANGED vars
  BY <1>8, StutterKeeps
<1> QED BY <1>1, <1>2, <1>3, <1>4, <1>5, <1>6, <1>7, <1>8 DEF Next, Done

(* What can be looked up: sequences of lexicons the index of which can be  *)
(* read, texts, start positions, and numbers of lanes.                     *)
CanBeLookedUp(lexicons, texts, positions, widths) ==
  /\ \A ls \in lexicons :
       /\ Len(ls) \in Nat /\ DOMAIN ls = 1..Len(ls)
       /\ \A l \in DOMAIN ls : ListsReadable(BuildIndex(ls[l]))
  /\ \A t \in texts : IsSeq(t)
  /\ \A p \in positions : p \in Seq(Nat)
  /\ widths \in SUBSET (Nat \ {0})

LEMMA InitHolds ==
  ASSUME NEW lexicons, NEW texts, NEW positions, NEW widths,
         CanBeLookedUp(lexicons, texts, positions, widths),
         InitFor(lexicons, texts, positions, widths)
  PROVE  IInv
<1>1. /\ rows \in lexicons /\ text \in texts /\ starts \in positions /\ Lanes \in widths
      /\ \A b \in Buckets : starts[b] <= Len(text)
      /\ index = [l \in DOMAIN rows |-> BuildIndex(rows[l])]
      /\ lexicon = Len(rows)
      /\ lane = [i \in 1..Lanes |-> IdleLane]
      /\ nextStart = 0 /\ live = 0 /\ turn = 0
      /\ found = [b \in Buckets |-> <<>>]
  BY DEF InitFor
<1>2. /\ Len(rows) \in Nat /\ DOMAIN rows = 1..Len(rows)
      /\ \A l \in DOMAIN rows : ListsReadable(BuildIndex(rows[l]))
      /\ IsSeq(text) /\ starts \in Seq(Nat) /\ Lanes \in Nat \ {0}
  BY <1>1 DEF CanBeLookedUp
<1>3. InputsOK
  <2>1. \A l \in 1..Len(rows) : ListsReadable(index[l])
    BY <1>1, <1>2
  <2>2. Len(starts) \in Nat /\ Buckets = 1..Len(starts) /\ \A b \in Buckets : starts[b] \in Nat
    BY <1>2 DEF Buckets
  <2>3. Len(text) \in Nat
    BY <1>2 DEF IsSeq
  <2>4. \A b \in Buckets : starts[b] \in 0..Len(text)
    BY <1>1, <2>2, <2>3
  <2> QED BY <1>2, <2>1, <2>2, <2>4 DEF InputsOK
<1>4. TypeOK
  <2>1. IdleLane \in Lane
    <3>1. 0 \in 0..Len(text) /\ 0 \in 0..Len(starts) /\ Root \in Nodes(text)
      BY <1>2 DEF Root, Nodes, IsSeq
    <3> QED BY <3>1 DEF IdleLane, Lane
  <2>2. lane \in [1..Lanes -> Lane]
    BY <1>1, <2>1
  <2>3. \A b \in Buckets : found[b] = <<>> /\ IsSeq(found[b])
    BY <1>1, EmptyIsSeq
  <2>4. /\ lexicon \in 0..Len(rows) /\ nextStart \in 0..Len(starts) /\ turn \in 0..Lanes
    BY <1>1, <1>2
  <2>5. found = [b \in Buckets |-> found[b]]
    BY <1>1
  <2> QED BY <1>3, <2>2, <2>3, <2>4, <2>5 DEF TypeOK
<1>5. LanesOK
  BY <1>1 DEF LanesOK
<1>6. ReportsOK
  <2>1. ASSUME NEW b \in Buckets
        PROVE  Result(b) = found[b] \o LookupUpTo(index, text, lexicon, starts[b])
    <3>1. IsSeq(LookupUpTo(index, text, Len(rows), starts[b]))
      <4>1. CASE Len(rows) = 0
        BY <4>1, LookupNone, EmptyIsSeq
      <4>2. CASE Len(rows) > 0
        <5>1. lexicon > 0
          BY <1>1, <4>2
        <5>2. /\ LookupUpTo(index, text, lexicon, starts[b]) =
                   WordsFrom(lexicon, index[lexicon], text, AtRoot(starts[b])) \o Before(b)
              /\ IsSeq(Before(b))
          BY <1>4, <5>1, ThisLexiconFirst
        <5>3. IsSeq(WordsFrom(lexicon, index[lexicon], text, AtRoot(starts[b])))
          <6>1. ListsReadable(index[lexicon]) /\ IsSeq(text) /\ starts[b] \in 0..Len(text)
            BY <1>1, <1>2, <1>3, <5>1 DEF InputsOK
          <6> QED BY <6>1, RootIsPlace, WordsAreSeq
        <5> QED BY <1>1, <5>2, <5>3, ConcatIsSeq
      <4> QED BY <1>2, <4>1, <4>2
    <3>2. found[b] = <<>>
      BY <1>1
    <3> QED BY <1>1, <3>1, <3>2, EmptyConcat DEF Result
  <2>2. ~(turn > 0)
    BY <1>1
  <2> QED BY <2>1, <2>2 DEF ReportsOK
<1> QED BY <1>4, <1>5, <1>6 DEF IInv

\* The results of the lookups, one by one.
LEMMA ResultIsScalar ==
  ASSUME NEW b
  PROVE  Result(b) = LookupAll(starts[b])
BY DEF Result, LookupUpTo, LookupAll

(* When all lexicons are searched, what was reported to each bucket is     *)
(* what the lookup of its position gives.                                  *)
AllReported == lexicon = 0 => found = ScalarResult

LEMMA AllReportedFollows ==
  ASSUME IInv
  PROVE  AllReported
<1> SUFFICES ASSUME lexicon = 0 PROVE found = ScalarResult
  BY DEF AllReported
<1>1. turn = 0
  BY DEF IInv, TypeOK, LanesOK, InputsOK
<1>2. ASSUME NEW b \in Buckets PROVE found[b] = LookupAll(starts[b])
  <2>1. Result(b) = found[b] \o LookupUpTo(index, text, 0, starts[b])
    BY <1>1 DEF IInv, ReportsOK
  <2>2. IsSeq(found[b])
    BY DEF IInv, TypeOK
  <2>3. Result(b) = found[b]
    <3>1. LookupUpTo(index, text, 0, starts[b]) = <<>>
      BY LookupNone
    <3>2. found[b] \o <<>> = found[b]
      BY <2>2, EmptyConcat
    <3> QED BY <2>1, <3>1, <3>2
  <2> QED BY <2>3, ResultIsScalar
<1>3. found = [b \in Buckets |-> found[b]]
  BY DEF IInv, TypeOK
<1> QED BY <1>2, <1>3 DEF ScalarResult

---------------------------------------------------------------------------
(* The promise of PrefixLookup.                                            *)
Promise == INSTANCE PrefixLookup WITH scalar <- ScalarResult

LEMMA FirstPart ==
  ASSUME NEW a, IsSeq(a), NEW r, IsSeq(r)
  PROVE  /\ SubSeq(a \o r, 1, Len(a)) = a
         /\ Len(a) \in 0..Len(a \o r)
<1> DEFINE s == a \o r
<1>1. Len(a) \in Nat /\ Len(r) \in Nat /\ a = [k \in 1..Len(a) |-> a[k]]
  BY DEF IsSeq
<1>2. Len(s) = Len(a) + Len(r) /\ \A k \in 1..Len(a) : s[k] = a[k]
  BY ConcatAt
<1> HIDE DEF s
<1>3. SubSeq(s, 1, Len(a)) = [k \in 1..Len(a) |-> s[k]]
  BY <1>1
<1>4. SubSeq(s, 1, Len(a)) = a
  BY <1>1, <1>2, <1>3
<1> QED BY <1>1, <1>2, <1>4 DEF s

LEMMA ReportIsPromised ==
  ASSUME IInv, UNCHANGED inputs, NEW b \in Buckets, NEW e, NEW r, Reports(b, e, r)
  PROVE  [Promise!Next]_(Promise!vars)
<1>1. ScalarResult' = ScalarResult /\ DOMAIN ScalarResult = Buckets
  BY DEF ScalarResult, LookupAll, Buckets, inputs
<1>2. ScalarResult[b] = Result(b)
  BY ResultIsScalar DEF ScalarResult
<1>3. found = [x \in Buckets |-> found[x]]
  BY DEF IInv, TypeOK
<1> DEFINE f == found[b]
           a == f \o e
           n == Len(a)
<1>4. IsSeq(f) /\ IsSeq(e) /\ IsSeq(r) /\ Result(b) = a \o r
      /\ found' = [found EXCEPT ![b] = a]
  BY DEF Reports
<1>5. IsSeq(a) /\ Len(a) = Len(f) + Len(e) /\ Len(f) \in Nat /\ Len(e) \in Nat
  BY <1>4, ConcatIsSeq, ConcatAt DEF IsSeq
<1>6. CASE e = <<>>
  <2>1. a = f
    BY <1>4, <1>6, EmptyConcat
  <2>2. found' = found
    <3> HIDE DEF Buckets
    <3> QED BY <1>3, <1>4, <2>1
  <2> QED BY <1>1, <2>2 DEF Promise!vars
<1>7. CASE e # <<>>
  <2>1. Len(e) > 0
    <3>1. Len(e) = 0 => e = <<>>
      BY <1>4 DEF IsSeq
    <3> QED BY <1>5, <1>7, <3>1
  <2>2. SubSeq(Result(b), 1, n) = a /\ n \in 0..Len(Result(b))
    <3> HIDE DEF a
    <3> QED BY <1>4, <1>5, FirstPart
  <2>3. n \in (Len(f) + 1)..Len(Result(b))
    <3> HIDE DEF a, f
    <3> QED BY <1>5, <2>1, <2>2
  <2>4. found' = [found EXCEPT ![b] = SubSeq(ScalarResult[b], 1, n)]
    BY <1>2, <1>4, <2>2
  <2> HIDE DEF n, a
  <2>5. Promise!Report(b)
    BY <1>1, <1>2, <2>3, <2>4 DEF Promise!Report
  <2> QED BY <1>1, <2>5 DEF Promise!Next, Promise!Buckets
<1> QED BY <1>6, <1>7

LEMMA StepIsPromised ==
  ASSUME IInv, [Next]_vars
  PROVE  [Promise!Next]_(Promise!vars)
<1>1. CASE Match
  <2>1. UNCHANGED inputs
    BY <1>1 DEF Match, inputs
  <2> QED BY <1>1, <2>1, MatchKeeps, ReportIsPromised
<1>2. CASE ~Match
  <2>1. UNCHANGED <<inputs, found>>
    BY <1>2 DEF Next, FillLanes, SkipInactive, Continue, Refill, Retire, NextLexicon, Done, vars
  <2>2. ScalarResult' = ScalarResult
    BY <2>1 DEF ScalarResult, LookupAll, Buckets, inputs
  <2> QED BY <2>1, <2>2 DEF Promise!vars
<1> QED BY <1>1, <1>2

(* The interleaved walks do what the lookups of the positions do, one by   *)
(* one (trie.rs, common_prefix_batch): whatever the lexicons, the text,    *)
(* the start positions and the number of lanes, every bucket is at every   *)
(* moment a beginning of the result of its position, it only grows, and    *)
(* when the lexicons are searched it is that result.                       *)
THEOREM BatchImplementsScalar ==
  ASSUME NEW CONSTANT lexicons, NEW CONSTANT texts, NEW CONSTANT positions,
         NEW CONSTANT widths, CanBeLookedUp(lexicons, texts, positions, widths)
  PROVE  InitFor(lexicons, texts, positions, widths) /\ [][Next]_vars =>
           Promise!Init /\ [][Promise!Next]_(Promise!vars) /\ []AllReported
<1> DEFINE Start == InitFor(lexicons, texts, positions, widths)
<1>1. Start => IInv
  BY InitHolds
<1>2. Start => Promise!Init
  <2>1. Start => found = [b \in Buckets |-> <<>>]
    BY DEF InitFor
  <2>2. DOMAIN ScalarResult = Buckets
    BY DEF ScalarResult
  <2> QED BY <2>1, <2>2 DEF Promise!Init, Promise!Buckets
<1>3. IInv /\ [Next]_vars => IInv'
  BY StepKeeps
<1>4. IInv /\ [Next]_vars => [Promise!Next]_(Promise!vars)
  BY StepIsPromised
<1>5. IInv => AllReported
  BY AllReportedFollows
<1> HIDE DEF Start
<1>6. Start /\ [][Next]_vars => Promise!Init /\ [][Promise!Next]_(Promise!vars) /\ []AllReported
  BY <1>1, <1>2, <1>3, <1>4, <1>5, PTL
<1> QED BY <1>6 DEF Start
=============================================================================
