------------------------- MODULE PathRewriteProofs -------------------------
(***************************************************************************)
(* Proofs about PathRewrite, for every text, every setting and every order *)
(* of the plugins: the path stays a path, and the runs of katakana end up  *)
(* joined as they should be, whatever was joined before and wherever the   *)
(* plugin found them.                                                      *)
(***************************************************************************)
EXTENDS PathRewrite, FiniteSetTheorems, SequenceFacts

\* The nodes of p follow each other through the text.
Tiles(p) ==
    /\ IsSeq(p) /\ p # <<>>
    /\ p[1].begin = 1
    /\ \A k \in 1..Len(p) :
        p[k].end = IF k = Len(p) THEN Len(text) + 1 ELSE p[k + 1].begin

Punctuation == {<<",">>, <<".">>}

\* A numeral that is read begins at a node of the path that was passed, which
\* is no comma or point, so there is one left when it stops at one of these.
ReadingOK ==
    begin_idx > 0 =>
        /\ Running("numeric")
        /\ begin_idx <= i /\ i <= Len(path)
        /\ path[begin_idx].norm \notin Punctuation

IInv ==
    /\ text \in Seq(Words) \ {<<>>}
    /\ i \in Nat /\ begin_idx \in Nat
    /\ Tiles(path)
    /\ ReadingOK

----------------------------------------------------------------------------
(* concat_nodes                                                            *)

\* The elements of a concatenation.
LEMMA ConcatAll ==
    ASSUME NEW X, NEW s \in Seq(X), NEW t \in Seq(X)
    PROVE  /\ s \o t \in Seq(X) /\ Len(s \o t) = Len(s) + Len(t)
           /\ \A k \in 1..Len(s) : (s \o t)[k] = s[k]
           /\ \A k \in 1..Len(t) : (s \o t)[Len(s) + k] = t[k]
  BY ConcatProperties

\* q is p with one node for b..e.
Replaced(q, p, b, e, node) ==
    /\ Len(q) = Len(p) - (e - b)
    /\ \A k \in 1..b - 1 : q[k] = p[k]
    /\ q[b] = node
    /\ \A k \in 1..Len(p) - e : q[b + k] = p[e + k]

\* ReplaceRange makes one node of b..e.
LEMMA ReplaceRangeElems ==
    ASSUME NEW X, NEW p \in Seq(X), NEW node \in X,
           NEW b \in 1..Len(p), NEW e \in b..Len(p)
    PROVE  /\ ReplaceRange(p, b, e, node) \in Seq(X)
           /\ Replaced(ReplaceRange(p, b, e, node), p, b, e, node)
  <1> DEFINE n == Len(p)
             L == SubSeq(p, 1, b - 1)
             M == L \o <<node>>
             R == SubSeq(p, e + 1, n)
  <1>1. n \in Nat /\ b \in Nat /\ e \in Nat /\ 1 =< b /\ b =< e /\ e =< n
    OBVIOUS
  <1>2. L \in Seq(X) /\ Len(L) = b - 1 /\ \A k \in 1..b - 1 : L[k] = p[k]
    <2>1. \A k \in 1..(b - 1) : p[k] \in X
      OBVIOUS
    <2>2. QED
      BY <2>1, <1>1, SubSeqProperties
  <1>3. R \in Seq(X) /\ Len(R) = n - e /\ \A k \in 1..n - e : R[k] = p[e + k]
    <2>1. \A k \in (e + 1)..n : p[k] \in X
      OBVIOUS
    <2>2. QED
      BY <2>1, <1>1, SubSeqProperties
  <1> HIDE DEF L, R, n
  <1>4. /\ M \in Seq(X) /\ Len(M) = b
        /\ \A k \in 1..b - 1 : M[k] = p[k]
        /\ M[b] = node
    <2>1. M = Append(L, node)
      BY <1>2
    <2>2. QED
      BY <2>1, <1>1, <1>2
  <1>a. M \in Seq(X) /\ R \in Seq(X)
    BY <1>3, <1>4
  <1> HIDE DEF M
  <1>5. /\ M \o R \in Seq(X) /\ Len(M \o R) = Len(M) + Len(R)
        /\ \A k \in 1..Len(M) : (M \o R)[k] = M[k]
        /\ \A k \in 1..Len(R) : (M \o R)[Len(M) + k] = R[k]
    BY <1>a, ConcatAll
  <1>6. ReplaceRange(p, b, e, node) = M \o R
    BY DEF ReplaceRange, M, L, R, n
  <1>7. Len(M \o R) = n - (e - b)
    BY <1>1, <1>3, <1>4, <1>5
  <1>8. \A k \in 1..b - 1 : (M \o R)[k] = p[k]
    BY <1>1, <1>4, <1>5
  <1>9. (M \o R)[b] = node
    BY <1>1, <1>4, <1>5
  <1>10. \A k \in 1..n - e : (M \o R)[b + k] = p[e + k]
    BY <1>3, <1>4, <1>5
  <1>11. QED
    BY <1>5, <1>6, <1>7, <1>8, <1>9, <1>10 DEF n, Replaced

\* A node from the beginning of b to the end of e keeps the path together.
LEMMA ReplaceTiles ==
    ASSUME NEW p, Tiles(p), NEW b \in 1..Len(p), NEW e \in b..Len(p),
           NEW node, node.begin = p[b].begin, node.end = p[e].end
    PROVE  Tiles(ReplaceRange(p, b, e, node))
  <1> DEFINE X == Elems(p) \cup {node}
             q == ReplaceRange(p, b, e, node)
             n == Len(p)
             m == n - (e - b)
  <1>1. p \in Seq(X) /\ n \in Nat
    <2>1. n \in Nat /\ p \in [1..n -> Elems(p)]
      BY DEF Tiles, IsSeq
    <2>2. p \in [1..n -> X]
      BY <2>1
    <2> HIDE DEF X, n
    <2>3. QED
      BY <2>1, <2>2, FunctionIsSeq
  <1>2. /\ q \in Seq(X) /\ Len(q) = m
        /\ \A k \in 1..b - 1 : q[k] = p[k]
        /\ q[b] = node
        /\ \A k \in 1..n - e : q[b + k] = p[e + k]
    <2>1. node \in X
      OBVIOUS
    <2> HIDE DEF X
    <2>2. q \in Seq(X) /\ Replaced(q, p, b, e, node)
      BY <1>1, <2>1, ReplaceRangeElems
    <2> HIDE DEF q
    <2>3. QED
      BY <2>2 DEF Replaced
  <1>3. /\ b \in Nat /\ e \in Nat /\ 1 =< b /\ b =< e /\ e =< n
    BY <1>1
  <1>4. /\ p[1].begin = 1
        /\ \A k \in 1..n : p[k].end = IF k = n THEN Len(text) + 1 ELSE p[k + 1].begin
    BY DEF Tiles
  <1>5. IsSeq(q) /\ q # <<>>
    BY <1>1, <1>2, <1>3, SeqIsSeq
  <1> HIDE DEF q, n, m, X
  <1>6. q[1].begin = 1
    <2>1. CASE b = 1
      BY <2>1, <1>2, <1>4
    <2>2. CASE b # 1
      BY <2>2, <1>2, <1>3, <1>4
    <2>3. QED
      BY <2>1, <2>2
  <1>7. ASSUME NEW k \in 1..m
        PROVE  q[k].end = IF k = m THEN Len(text) + 1 ELSE q[k + 1].begin
    <2>1. CASE k < b
      <3>1. k \in 1..b - 1 /\ k \in 1..n /\ k # n /\ k # m
        BY <2>1, <1>1, <1>3 DEF m
      <3>2. q[k] = p[k] /\ p[k].end = p[k + 1].begin
        BY <3>1, <1>2, <1>4
      <3>3. q[k + 1].begin = p[k + 1].begin
        <4>1. CASE k + 1 = b
          BY <4>1, <1>2
        <4>2. CASE k + 1 # b
          BY <4>2, <3>1, <2>1, <1>2, <1>3
        <4>3. QED
          BY <4>1, <4>2
      <3>4. QED
        BY <3>1, <3>2, <3>3
    <2>2. CASE k = b
      <3>1. q[k].end = p[e].end /\ e \in 1..n /\ (k = m <=> e = n)
        BY <2>2, <1>1, <1>2, <1>3 DEF m
      <3>2. e # n => q[b + 1] = p[e + 1]
        BY <1>1, <1>2, <1>3
      <3>3. QED
        BY <2>2, <3>1, <3>2, <1>4
    <2>3. CASE k > b
      <3> DEFINE l == k - b
      <3>1. /\ l \in 1..n - e /\ b + l = k /\ e + l \in 1..n
            /\ (k = m <=> e + l = n)
        BY <2>3, <1>1, <1>3 DEF m
      <3>2. k # m => l + 1 \in 1..n - e /\ b + (l + 1) = k + 1 /\ e + (l + 1) = (e + l) + 1
        BY <3>1, <1>1, <1>3 DEF m
      <3> HIDE DEF l
      <3>3. q[k] = p[e + l]
        BY <3>1, <1>2
      <3>4. k # m => q[k + 1] = p[(e + l) + 1]
        BY <3>2, <1>2
      <3>5. QED
        BY <3>1, <3>3, <3>4, <1>4
    <2>4. QED
      BY <2>1, <2>2, <2>3, <1>3
  <1>8. QED
    BY <1>2, <1>5, <1>6, <1>7 DEF Tiles, q

\* So is what concat of JoinNumericPlugin leaves: it may have refused to join.
LEMMA ConcatTiles ==
    ASSUME Tiles(path), NEW b \in 1..Len(path), NEW e \in b..Len(path), NEW read
    PROVE  Tiles(Concat(path, b, e, read))
  <1>1. ASSUME NEW norm PROVE Tiles(ConcatNodes(path, b, e, norm))
    <2> DEFINE node == [begin |-> path[b].begin, end |-> path[e].end, norm |-> norm,
                        is_numeral_pos |-> path[b].is_numeral_pos, oov |-> TRUE]
    <2>1. node.begin = path[b].begin /\ node.end = path[e].end
      OBVIOUS
    <2>2. ConcatNodes(path, b, e, norm) = ReplaceRange(path, b, e, node)
      BY DEF ConcatNodes
    <2> HIDE DEF node
    <2>3. QED
      BY <2>1, <2>2, ReplaceTiles
  <1>2. \/ Concat(path, b, e, read) = path
        \/ \E norm : Concat(path, b, e, read) = ConcatNodes(path, b, e, norm)
    BY DEF Concat
  <1>3. QED
    BY <1>1, <1>2

LEMMA ConcatOovTiles ==
    ASSUME Tiles(path), NEW b \in 1..Len(path), NEW e \in b..Len(path)
    PROVE  Tiles(ConcatOovNodes(path, b, e))
  <1> DEFINE node == [begin |-> path[b].begin, end |-> path[e].end,
                      norm |-> NormsOf(path, b, e),
                      is_numeral_pos |-> FALSE, oov |-> reused # "word"]
  <1>1. node.begin = path[b].begin /\ node.end = path[e].end
    OBVIOUS
  <1>2. ConcatOovNodes(path, b, e) = ReplaceRange(path, b, e, node)
    BY DEF ConcatOovNodes
  <1> HIDE DEF node
  <1>3. QED
    BY <1>1, <1>2, ReplaceTiles

----------------------------------------------------------------------------
(* The nodes that are joined.                                              *)

\* append: no numeral begins with a comma or a point.
LEMMA PunctuationRefused ==
    ASSUME NEW norm \in Punctuation
    PROVE  ~ AppendAll(NewParser, norm).ok
  <1> DEFINE c == norm[1]
             read == AppendChar(NewParser, c)
             Step(g) == [k \in 0..1 |->
                            IF k = 0 THEN Accept(NewParser)
                            ELSE IF g[k - 1].ok
                            THEN AppendChar(g[k - 1].parser, norm[k])
                            ELSE g[k - 1]]
             g == [k \in 0..1 |-> IF k = 0 THEN Accept(NewParser) ELSE read]
             append == CHOOSE h : h = Step(h)
  <1>1. norm = <<c>> /\ c \in {",", "."} /\ Len(norm) = 1
    <2>1. CASE norm = <<",">>
      BY <2>1
    <2>2. CASE norm = <<".">>
      BY <2>2
    <2>3. QED
      BY <2>1, <2>2 DEF Punctuation
  <1>2. Accept(NewParser).ok /\ Accept(NewParser).parser = NewParser
    BY DEF Accept
  <1>3. ~ read.ok
    <2>1. NewParser.is_first_digit
      BY DEF NewParser
    <2>a. c \notin Digits \cup SmallUnits \cup LargeUnits
      BY <1>1 DEF Digits, ArabicDigits, DigitOf, KanjiDigitOf, SmallUnits, LargeUnits,
                  UnitOf
    <2>2. CASE c = ","
      <3>1. read = Refuse(NewParser, "comma")
        BY <2>1, <2>2, <2>a DEF AppendChar, AppendComma, CheckComma
      <3>2. QED
        BY <3>1 DEF Refuse
    <2>3. CASE c = "."
      <3>1. [NewParser EXCEPT !.has_hanging_point = TRUE].is_first_digit
        BY DEF NewParser
      <3>2. read = Refuse([NewParser EXCEPT !.has_hanging_point = TRUE], "point")
        BY <2>3, <3>1, <2>a DEF AppendChar, AppendPoint
      <3>3. QED
        BY <3>2 DEF Refuse
    <2>4. QED
      BY <1>1, <2>2, <2>3
  <1> HIDE DEF read
  <1>4. g = Step(g)
    <2>1. g[0] = Accept(NewParser)
      OBVIOUS
    <2>2. \A k \in 0..1 : k = 0 \/ (k = 1 /\ k - 1 = 0)
      OBVIOUS
    <2>3. \A k \in 0..1 : g[k] = Step(g)[k]
      BY <2>1, <2>2, <1>2 DEF read
    <2>4. QED
      BY <2>3
  <1>5. append = Step(append)
    BY <1>4
  <1> HIDE DEF append
  <1>6. append[0] = Accept(NewParser)
    BY <1>5
  <1>7. append[1] = read
    BY <1>2, <1>5, <1>6 DEF read
  <1>8. AppendAll(NewParser, norm) = append[Len(norm)]
    BY <1>1 DEF AppendAll, append
  <1>9. QED
    BY <1>1, <1>3, <1>7, <1>8

\* The nodes JoinKatakanaOovPlugin joins are nodes of the path.
LEMMA RangeInPath ==
    ASSUME NEW p, Tiles(p), NEW k \in 1..Len(p),
           Cardinality(RangeToJoin(p, k)) > 1
    PROVE  LET range == RangeToJoin(p, k)
               b == FirstOf(range, 0)
           IN  /\ b \in 1..Len(p)
               /\ b + Cardinality(range) - 1 \in b..Len(p)
  <1> DEFINE range == RangeToJoin(p, k)
             b == FirstOf(range, 0)
             n == Len(p)
  <1>1. n \in Nat /\ DOMAIN p = 1..n
    BY DEF Tiles, IsSeq
  <1>2. range \subseteq 1..n
    BY <1>1 DEF RangeToJoin, RunOf
  <1>3. range # {}
    BY FS_EmptySet
  <1> HIDE DEF range
  <1>4. b \in range /\ \A j \in range : b <= j
    <2>1. range \in SUBSET Nat
      BY <1>1, <1>2
    <2>2. \E x \in range : \A j \in range : x =< j
      BY <2>1, <1>3, MinNat
    <2>3. QED
      BY <2>2, <1>3 DEF FirstOf
  <1> HIDE DEF b
  <1>5. b \in Nat /\ 1 =< b /\ b =< n /\ range \subseteq b..n
    BY <1>1, <1>2, <1>4
  <1>6. IsFiniteSet(b..n) /\ Cardinality(b..n) = n - b + 1
    BY <1>1, <1>5, FS_Interval
  <1>7. Cardinality(range) \in Nat /\ Cardinality(range) =< n - b + 1
    BY <1>5, <1>6, FS_Subset, FS_CardinalityType
  <1>8. Cardinality(range) > 1
    BY DEF range
  <1>9. QED
    BY <1>1, <1>5, <1>7, <1>8 DEF b, range, n

----------------------------------------------------------------------------
(* The inductive invariant.                                                *)

LEMMA InitInv == Init => IInv
  <1>1. SUFFICES ASSUME Init PROVE IInv
    OBVIOUS
  <1> DEFINE n == Len(text)
  <1>2. text \in Seq(Words) \ {<<>>} /\ n \in Nat /\ 1 =< n /\ DOMAIN text = 1..n
    BY <1>1, CasesAssumption DEF Init
  <1>3. /\ path = [k \in 1..n |-> path[k]]
        /\ \A k \in 1..n : path[k].begin = k /\ path[k].end = k + 1
    BY <1>1, <1>2 DEF Init, BestPath
  <1> HIDE DEF n
  <1>4. IsSeq(path) /\ Len(path) = n
    BY <1>2, <1>3, MapIsSeq
  <1>5. Tiles(path)
    <2>1. path # <<>>
      BY <1>2, <1>4
    <2>2. ASSUME NEW k \in 1..n
          PROVE  path[k].end = IF k = n THEN Len(text) + 1 ELSE path[k + 1].begin
      <3>1. k # n => k + 1 \in 1..n
        BY <1>2
      <3>2. QED
        BY <3>1, <1>3 DEF n
    <2>3. QED
      BY <2>1, <2>2, <1>2, <1>3, <1>4 DEF Tiles
  <1>6. QED
    BY <1>1, <1>2, <1>5 DEF Init, IInv, ReadingOK

\* JoinNumericPlugin, in the middle of its loop.
LEMMA NumericLoopInv ==
    ASSUME IInv, ReadNode \/ RefuseNode \/ PassNode
    PROVE  IInv'
  <1>1. Len(path) \in Nat
    BY DEF IInv, Tiles, IsSeq
  <1>2. CASE ReadNode
    <2>1. /\ i < Len(path) /\ ReadNext.ok /\ Running("numeric") /\ i' = i + 1
          /\ begin_idx' = Begin
          /\ UNCHANGED <<text, plugin, path>>
      BY <1>2 DEF ReadNode, config
    <2>2. i \in Nat /\ begin_idx \in Nat
      BY DEF IInv
    <2>3. /\ Begin \in Nat /\ Begin > 0 /\ Begin <= i + 1
          /\ path[Begin].norm \notin Punctuation
      <3>1. CASE begin_idx = 0
        <4>1. Begin = i + 1
          BY <3>1 DEF Begin
        <4>2. AppendAll(NewParser, path[i + 1].norm).ok
          BY <2>1, <3>1 DEF ReadNext, Next1
        <4>3. path[i + 1].norm \notin Punctuation
          BY <4>2, PunctuationRefused
        <4>4. QED
          BY <4>1, <4>3, <2>2
      <3>2. CASE begin_idx # 0
        <4>1. Begin = begin_idx /\ begin_idx > 0
          BY <3>2, <2>2 DEF Begin
        <4>2. QED
          BY <4>1, <2>2 DEF IInv, ReadingOK
      <3>3. QED
        BY <3>1, <3>2
    <2>4. ReadingOK'
      BY <2>1, <2>2, <2>3, <1>1 DEF ReadingOK, Running
    <2>5. Tiles(path)'
      BY <2>1 DEF IInv, Tiles
    <2>6. QED
      BY <2>1, <2>2, <2>3, <2>4, <2>5 DEF IInv
  <1>3. CASE RefuseNode
    <2>1. /\ begin_idx' = 0 /\ UNCHANGED <<text, path>>
          /\ i' = i + 1 \/ i' = Begin - 1
      BY <1>3 DEF RefuseNode, config
    <2>2. i' \in Nat
      <3>1. i \in Nat /\ begin_idx \in Nat
        BY DEF IInv
      <3>2. QED
        BY <3>1, <2>1 DEF Begin
    <2>3. Tiles(path)'
      BY <2>1 DEF IInv, Tiles
    <2>4. QED
      BY <2>1, <2>2, <2>3 DEF IInv, ReadingOK
  <1>4. CASE PassNode
    <2>1. begin_idx = 0 /\ begin_idx' = 0 /\ i' = i + 1 /\ UNCHANGED <<text, path>>
      BY <1>4 DEF PassNode, config
    <2>2. Tiles(path)'
      BY <2>1 DEF IInv, Tiles
    <2>3. QED
      BY <2>1, <2>2 DEF IInv, ReadingOK
  <1>5. QED
    BY <1>2, <1>3, <1>4

\* JoinNumericPlugin joins the nodes from begin_idx on: up to last, or up to
\* the node before, which is there when last is a comma or point.
LEMMA NumericJoins ==
    ASSUME IInv, begin_idx > 0, NEW last, begin_idx <= last, last \in 1..Len(path),
           NEW read, NEW error
    PROVE  /\ Tiles(Concat(path, begin_idx, last, read))
           /\ StoppedAt(path, last, error) =>
                 Tiles(Concat(path, begin_idx, last - 1, read))
  <1>1. /\ Len(path) \in Nat /\ begin_idx \in Nat /\ Tiles(path)
    BY DEF IInv, Tiles, IsSeq
  <1>2. begin_idx \in 1..Len(path) /\ last \in begin_idx..Len(path)
    BY <1>1
  <1>3. Tiles(Concat(path, begin_idx, last, read))
    BY <1>1, <1>2, ConcatTiles
  <1>4. ASSUME StoppedAt(path, last, error)
        PROVE  Tiles(Concat(path, begin_idx, last - 1, read))
    <2>1. path[last].norm \in Punctuation
      BY <1>4 DEF StoppedAt, Punctuation
    <2>2. path[begin_idx].norm \notin Punctuation
      BY DEF IInv, ReadingOK
    <2>3. last - 1 \in begin_idx..Len(path)
      BY <2>1, <2>2, <1>1, <1>2
    <2>4. QED
      BY <2>3, <1>1, <1>2, ConcatTiles
  <1>5. QED
    BY <1>3, <1>4

\* The end of a numeral, and the end of the loop.
LEMMA NumericEndInv ==
    ASSUME IInv, EndNumeral \/ LastPart
    PROVE  IInv'
  <1>0. Len(path) \in Nat /\ i \in Nat /\ begin_idx \in Nat /\ Tiles(path)
    BY DEF IInv, Tiles, IsSeq
  <1>1. CASE EndNumeral
    <2> DEFINE done == Done(parser)
               error == done.parser.error_state
    <2>1. /\ begin_idx > 0 /\ begin_idx' = 0 /\ text' = text /\ i' \in Nat
          /\ \/ path' = Concat(path, begin_idx, i, done.parser)
             \/ /\ StoppedAt(path, i, error)
                /\ path' = Concat(path, begin_idx, i - 1, done.parser)
             \/ path' = path
      <3>1. /\ begin_idx > 0 /\ begin_idx' = 0 /\ text' = text
            /\ \/ /\ i' = begin_idx + 1
                  /\ path' = Concat(path, begin_idx, i, done.parser)
               \/ /\ StoppedAt(path, i, error) /\ i' = begin_idx + 2
                  /\ path' = Concat(path, begin_idx, i - 1, done.parser)
               \/ path' = path /\ i' = i + 1
        BY <1>1 DEF EndNumeral, config
      <3> HIDE DEF done, error
      <3>2. QED
        BY <3>1, <1>0
    <2> HIDE DEF done, error
    <2>2. begin_idx <= i /\ i \in 1..Len(path)
      BY <2>1, <1>0 DEF IInv, ReadingOK
    <2>3. Tiles(path')
      BY <2>1, <2>2, <1>0, NumericJoins
    <2>4. Tiles(path)'
      BY <2>1, <2>3 DEF Tiles
    <2>5. QED
      BY <2>1, <2>4, <1>0 DEF IInv, ReadingOK
  <1>2. CASE LastPart
    <2> DEFINE done == Done(parser)
               last == Len(path)
    <2>1. /\ i' = 0 /\ begin_idx' = 0 /\ text' = text
          /\ i >= last
          /\ path' = IF begin_idx = 0 THEN path
                     ELSE IF done.ok THEN Concat(path, begin_idx, last, done.parser)
                     ELSE IF StoppedAt(path, last, done.parser.error_state)
                     THEN Concat(path, begin_idx, last - 1, done.parser)
                     ELSE path
      BY <1>2 DEF LastPart, NextPlugin, config
    <2> HIDE DEF done
    <2>2. begin_idx # 0 => /\ begin_idx > 0 /\ begin_idx <= last /\ last \in 1..Len(path)
      BY <1>0 DEF IInv, ReadingOK
    <2>3. Tiles(path')
      <3>1. CASE begin_idx = 0
        BY <3>1, <2>1, <1>0
      <3>2. CASE begin_idx # 0
        <4> HIDE DEF last
        <4>1. QED
          BY <3>2, <2>1, <2>2, <1>0, NumericJoins
      <3>3. QED
        BY <3>1, <3>2
    <2>4. Tiles(path)'
      BY <2>1, <2>3 DEF Tiles
    <2>5. QED
      BY <2>1, <2>4, <1>0 DEF IInv, ReadingOK
  <1>3. QED
    BY <1>1, <1>2

\* JoinKatakanaOovPlugin.
LEMMA KatakanaInv ==
    ASSUME IInv, PassKatakana \/ JoinKatakana \/ EndKatakana
    PROVE  IInv'
  <1>0. Len(path) \in Nat /\ i \in Nat /\ begin_idx \in Nat /\ Tiles(path)
    BY DEF IInv, Tiles, IsSeq
  <1>1. begin_idx = 0 /\ begin_idx' = 0
    <2>1. Running("katakana") /\ (begin_idx' = begin_idx \/ begin_idx' = 0)
      BY DEF PassKatakana, JoinKatakana, EndKatakana, NextPlugin, numeric
    <2>2. QED
      BY <2>1, <1>0 DEF IInv, ReadingOK, Running
  <1>2. CASE PassKatakana
    <2>1. i' = i + 1 /\ UNCHANGED <<text, path>>
      BY <1>2 DEF PassKatakana, config
    <2>2. Tiles(path)'
      BY <2>1 DEF IInv, Tiles
    <2>3. QED
      BY <2>1, <2>2, <1>0, <1>1 DEF IInv, ReadingOK
  <1>3. CASE EndKatakana
    <2>1. i' = 0 /\ UNCHANGED <<text, path>>
      BY <1>3 DEF EndKatakana, NextPlugin, config
    <2>2. Tiles(path)'
      BY <2>1 DEF IInv, Tiles
    <2>3. QED
      BY <2>1, <2>2, <1>0, <1>1 DEF IInv, ReadingOK
  <1>4. CASE JoinKatakana
    <2> DEFINE range == RangeToJoin(path, i + 1)
               b == FirstOf(range, 0)
               e == b + Cardinality(range) - 1
    <2>1. /\ i < Len(path) /\ Cardinality(range) > 1
          /\ path' = ConcatOovNodes(path, b, e) /\ i' = b + 1 /\ text' = text
      BY <1>4 DEF JoinKatakana, config
    <2>2. i + 1 \in 1..Len(path)
      BY <2>1, <1>0
    <2>3. b \in 1..Len(path) /\ e \in b..Len(path)
      BY <2>1, <2>2, <1>0, RangeInPath
    <2> HIDE DEF range, b, e
    <2>4. Tiles(path') /\ i' \in Nat
      BY <2>1, <2>3, <1>0, ConcatOovTiles
    <2>5. Tiles(path)'
      BY <2>1, <2>4 DEF Tiles
    <2>6. QED
      BY <2>1, <2>4, <2>5, <1>1 DEF IInv, ReadingOK
  <1>5. QED
    BY <1>2, <1>3, <1>4

LEMMA StepInv == IInv /\ [Next]_vars => IInv'
  <1>1. SUFFICES ASSUME IInv, [Next]_vars PROVE IInv'
    OBVIOUS
  <1>2. CASE ReadNode \/ RefuseNode \/ PassNode
    BY <1>1, <1>2, NumericLoopInv
  <1>3. CASE EndNumeral \/ LastPart
    BY <1>1, <1>3, NumericEndInv
  <1>4. CASE PassKatakana \/ JoinKatakana \/ EndKatakana
    BY <1>1, <1>4, KatakanaInv
  <1>5. CASE UNCHANGED vars
    BY <1>1, <1>5 DEF IInv, Tiles, ReadingOK, Running, vars, numeric
  <1>6. QED
    BY <1>1, <1>2, <1>3, <1>4, <1>5 DEF Next

\* Whatever the plugins join, and with whatever indices their loops go on after
\* it, the nodes of the path follow each other through the whole text: no range
\* that is replaced is empty or reaches over the end of the path.
THEOREM PathTilesCorrect == Spec => []PathTiles
  <1>1. IInv => PathTiles
    BY DEF IInv, Tiles, PathTiles, IsSeq
  <1>2. QED
    BY <1>1, InitInv, StepInv, PTL DEF Spec

----------------------------------------------------------------------------
(* Runs of katakana.                                                       *)

\* The words of the text that are katakana.
IsKatakanaWord(k) == "KATAKANA" \in text[k].cats

\* What is to be joined around the k-th word, if anything is.
WordsToJoin(k) == RangeToJoin(BestPath, k)
MayJoin(k) ==
    Cardinality(WordsToJoin(k)) > 1 /\ \E m \in RunOf(BestPath, k) : StartsJoin(BestPath[m])

Plain(node) == node = BestPath[node.begin]
JoinedRun(node) == PartsOf(node) = WordsToJoin(node.begin) /\ MayJoin(node.begin)

\* A node has no katakana, or it is a word, or all that is to be joined.
NodeKept(node) ==
    /\ node.begin \in 1..Len(text) /\ node.end \in node.begin + 1..Len(text) + 1
    /\ \/ \A m \in PartsOf(node) : ~ IsKatakanaWord(m)
       \/ /\ IsKatakanaWord(node.begin) /\ node.norm \notin Punctuation
          /\ Plain(node) \/ JoinedRun(node)

NodesKept(p) == \A k \in 1..Len(p) : NodeKept(p[k])
Settled(p, k) == \E n \in 1..Len(p) : PartsOf(p[n]) = WordsToJoin(k)

\* The first count nodes of p call for no join that was not made.
SettledTo(p, count) ==
    \A n \in 1..Len(p) :
        /\ n <= count /\ IsKatakanaWord(p[n].begin) /\ Plain(p[n]) /\ StartsJoin(p[n])
        /\ MayJoin(p[n].begin)
        => Settled(p, p[n].begin)

HasRun == \E q \in 1..plugin - 1 : Plugins[q] = "katakana"

RunsInv ==
    /\ plugin \in Nat \ {0}
    /\ NodesKept(path)
    /\ begin_idx > 0 => \A n \in begin_idx..i : ~ IsKatakanaWord(path[n].begin)
    /\ Running("katakana") => SettledTo(path, i)
    /\ HasRun => \A k \in 1..Len(text) : IsKatakanaWord(k) /\ MayJoin(k) => Settled(path, k)

\* No word of katakana is a numeral too, nor normalised to a comma or a point:
\* the ranges of resources/char.def are apart.  JoinNumericPlugin would join
\* such a word before JoinKatakanaOovPlugin sees it.
KatakanaApart ==
    \A w \in Words : "KATAKANA" \in w.cats =>
        /\ w.cats \cap {"NUMERIC", "KANJINUMERIC"} = {}
        /\ w.norm \in Seq(STRING) \ {<<>>} /\ w.norm \notin Punctuation

\* A path over a text, whose nodes have words.
IsPath(p) ==
    /\ text \in Seq(Words) \ {<<>>} /\ Tiles(p)
    /\ \A k \in 1..Len(p) :
        p[k].begin \in 1..Len(text) /\ p[k].end \in p[k].begin + 1..Len(text) + 1

LEMMA Lengths ==
    ASSUME NEW p, IsPath(p)
    PROVE  /\ Len(p) \in Nat \ {0} /\ DOMAIN p = 1..Len(p) /\ IsSeq(p)
           /\ Len(text) \in Nat \ {0} /\ DOMAIN text = 1..Len(text)
           /\ \A k \in 1..Len(text) : text[k] \in Words
  <1>1. IsSeq(p) /\ p # <<>> /\ text \in Seq(Words) /\ text # <<>>
    BY DEF IsPath, Tiles
  <1>2. Len(p) \in Nat /\ DOMAIN p = 1..Len(p) /\ p \in Seq(Elems(p))
    BY <1>1 DEF IsSeq
  <1>3. Len(p) # 0
    BY <1>1, <1>2
  <1>4. /\ Len(text) \in Nat \ {0} /\ DOMAIN text = 1..Len(text)
        /\ \A k \in 1..Len(text) : text[k] \in Words
    BY <1>1
  <1> QED BY <1>1, <1>2, <1>3, <1>4

LEMMA NodeSpan ==
    ASSUME NEW p, IsPath(p), NEW k \in 1..Len(p)
    PROVE  p[k].begin \in Nat /\ p[k].end \in Nat /\ p[k].begin < p[k].end
  <1>1. p[k].begin \in 1..Len(text) /\ p[k].end \in p[k].begin + 1..Len(text) + 1
    BY DEF IsPath
  <1>2. Len(text) \in Nat
    BY Lengths
  <1> QED BY <1>1, <1>2

\* The nodes are one behind the other.
LEMMA NodesInOrder ==
    ASSUME NEW p, IsPath(p), NEW a \in 1..Len(p), NEW b \in 1..Len(p), a < b
    PROVE  p[a].end <= p[b].begin
  <1> DEFINE n == Len(p)
             T == {c \in Nat : c \in a + 1..n /\ p[a].end > p[c].begin}
  <1>1. n \in Nat /\ a \in Nat /\ b \in a + 1..n
    BY Lengths
  <1>2. \A k \in 1..n : /\ p[k].begin \in Nat /\ p[k].end \in Nat /\ p[k].begin < p[k].end
                        /\ k < n => p[k].end = p[k + 1].begin
    <2>1. ASSUME NEW k \in 1..n
          PROVE  /\ p[k].begin \in Nat /\ p[k].end \in Nat /\ p[k].begin < p[k].end
                 /\ k < n => p[k].end = p[k + 1].begin
      <3>1. p[k].begin \in Nat /\ p[k].end \in Nat /\ p[k].begin < p[k].end
        BY NodeSpan
      <3>2. p[k].end = IF k = n THEN Len(text) + 1 ELSE p[k + 1].begin
        BY DEF IsPath, Tiles
      <3> QED BY <3>1, <3>2, <1>1, Lengths
    <2> QED BY <2>1
  <1>3. CASE T = {}
    <2> HIDE DEF n
    <2>1. ~ (p[a].end > p[b].begin)
      BY <1>1, <1>3
    <2> QED BY <1>1, <1>2, <2>1 DEF n
  <1>4. CASE T # {}
    <2>1. PICK c \in T : \A d \in T : c =< d
      <3> HIDE DEF T
      <3>1. T \in SUBSET Nat
        BY DEF T
      <3> QED BY <3>1, <1>4, MinNat
    <2>2. c \in a + 1..n /\ p[a].end > p[c].begin /\ c \in Nat
      BY <2>1
    <2>3. CASE c = a + 1
      <3>1. a \in 1..n /\ a < n
        BY <1>1
      <3>2. p[a].end = p[a + 1].begin /\ p[a].end \in Nat
        BY <3>1, <1>2
      <3>3. p[c].begin = p[a].end
        BY <2>3, <3>2
      <3>4. ~ (p[a].end > p[a].end)
        BY <3>2
      <3>5. p[a].end > p[a].end
        BY <2>2, <3>3
      <3> QED BY <3>4, <3>5
    <2>4. CASE c # a + 1
      <3>1. c - 1 \in a + 1..n /\ c - 1 \in Nat /\ c - 1 \in 1..n /\ c - 1 < n /\ c \in 1..n
            /\ (c - 1) + 1 = c
        BY <2>2, <2>4, <1>1
      <3>2. c - 1 \notin T
        BY <2>1, <2>2
      <3>3. ~ (p[a].end > p[c - 1].begin)
        BY <3>1, <3>2
      <3>4. p[c - 1].begin < p[c - 1].end /\ p[c - 1].end = p[c].begin
        BY <3>1, <1>2
      <3>5. /\ a \in 1..n /\ p[a].end \in Nat /\ p[c - 1].begin \in Nat
            /\ p[c - 1].end \in Nat /\ p[c].begin \in Nat
        BY <3>1, <1>1, <1>2
      <3>6. p[a].end > p[c].begin
        BY <2>2
      <3> QED BY <3>3, <3>4, <3>5, <3>6
    <2> QED BY <2>3, <2>4
  <1> QED BY <1>3, <1>4

\* Every word is in a node, and in no other.
LEMMA NodeOfWord ==
    ASSUME NEW p, IsPath(p), NEW m \in 1..Len(text)
    PROVE  \E n \in 1..Len(p) : m \in PartsOf(p[n])
  <1> DEFINE T == {n \in Nat : n \in 1..Len(p) /\ m < p[n].end}
  <1>1. Len(p) \in Nat \ {0} /\ Len(text) \in Nat /\ m \in Nat /\ 1 <= m /\ m <= Len(text)
    BY Lengths
  <1>2. /\ p[1].begin = 1 /\ p[Len(p)].end = Len(text) + 1
        /\ \A k \in 1..Len(p) : k < Len(p) => p[k].end = p[k + 1].begin
    <2>1. Len(p) \in 1..Len(p)
      BY <1>1
    <2> QED BY <1>1, <2>1 DEF IsPath, Tiles
  <1>3. \A k \in 1..Len(p) : p[k].begin \in Nat /\ p[k].end \in Nat
    BY <1>1 DEF IsPath
  <1>4. Len(p) \in T
    BY <1>1, <1>2
  <1>5. PICK n \in T : \A k \in T : n =< k
    <2> HIDE DEF T
    <2>1. T \in SUBSET Nat
      BY DEF T
    <2> QED BY <2>1, <1>4, MinNat
  <1>6. n \in 1..Len(p) /\ m < p[n].end
    BY <1>5
  <1>7. p[n].begin <= m
    <2>1. CASE n = 1
      BY <2>1, <1>1, <1>2
    <2>2. CASE n # 1
      <3>1. n - 1 \in 1..Len(p) /\ n - 1 \in Nat /\ (n - 1) + 1 = n /\ n - 1 < Len(p)
        BY <2>2, <1>1, <1>6
      <3>2. n - 1 \notin T
        BY <1>5, <1>6
      <3>3. ~ (m < p[n - 1].end) /\ p[n - 1].end = p[n].begin
        BY <3>1, <3>2, <1>2
      <3> QED BY <3>1, <3>3, <1>1, <1>3, <1>6
    <2> QED BY <2>1, <2>2
  <1> QED BY <1>1, <1>3, <1>6, <1>7 DEF PartsOf

LEMMA OneNode ==
    ASSUME NEW p, IsPath(p), NEW a \in 1..Len(p), NEW b \in 1..Len(p), NEW m,
           m \in PartsOf(p[a]), m \in PartsOf(p[b])
    PROVE  a = b
  <1>1. /\ p[a].begin \in Nat /\ p[a].end \in Nat /\ p[b].begin \in Nat /\ p[b].end \in Nat
        /\ Len(p) \in Nat
    BY Lengths DEF IsPath
  <1>2. m \in Int /\ p[a].begin <= m /\ m < p[a].end /\ p[b].begin <= m /\ m < p[b].end
    BY <1>1 DEF PartsOf
  <1>3. ~ (a < b) /\ ~ (b < a)
    BY <1>1, <1>2, NodesInOrder
  <1> QED BY <1>1, <1>3

\* Words lie as their nodes do.
LEMMA WordsInOrder ==
    ASSUME NEW p, IsPath(p), NEW a \in 1..Len(p), NEW b \in 1..Len(p), NEW l, NEW m,
           l \in PartsOf(p[a]), m \in PartsOf(p[b]), l <= m
    PROVE  a <= b
  <1>1. /\ p[a].begin \in Nat /\ p[a].end \in Nat /\ p[b].begin \in Nat /\ p[b].end \in Nat
        /\ Len(p) \in Nat
    BY Lengths DEF IsPath
  <1>2. l \in Int /\ m \in Int /\ p[a].begin <= l /\ m < p[b].end
    BY <1>1 DEF PartsOf
  <1>3. ~ (b < a)
    BY <1>1, <1>2, NodesInOrder
  <1> QED BY <1>1, <1>3

\* What the runs of the text are.
LEMMA BestPathFacts ==
    ASSUME text \in Seq(Words) \ {<<>>}, NEW k \in 1..Len(text)
    PROVE  /\ DOMAIN BestPath = 1..Len(text)
           /\ BestPath[k].begin = k /\ BestPath[k].end = k + 1 /\ PartsOf(BestPath[k]) = {k}
           /\ BestPath[k].norm = text[k].norm
           /\ IsKatakana(BestPath[k]) <=> IsKatakanaWord(k)
           /\ CanOovBow(BestPath[k]) <=> "NOOOVBOW" \notin text[k].cats
  <1>1. DOMAIN text = 1..Len(text) /\ k \in Nat
    OBVIOUS
  <1>2. /\ DOMAIN BestPath = 1..Len(text)
        /\ BestPath[k] = [begin |-> k, end |-> k + 1, norm |-> text[k].norm,
                          is_numeral_pos |-> text[k].is_numeral_pos, oov |-> text[k].oov]
    BY <1>1 DEF BestPath
  <1>3. BestPath[k].begin = k /\ BestPath[k].end = k + 1 /\ BestPath[k].norm = text[k].norm
    BY <1>2
  <1>4. PartsOf(BestPath[k]) = {k}
    BY <1>1, <1>3 DEF PartsOf
  <1>5. CatOfRange(BestPath[k]) = text[k].cats
    BY <1>3, <1>4 DEF CatOfRange
  <1> QED BY <1>2, <1>3, <1>4, <1>5 DEF IsKatakana, IsKatakanaWord, CanOovBow, CatAtChar

\* A word is in a run of the text if there is katakana from one to the other.
LEMMA RunOfText ==
    ASSUME text \in Seq(Words) \ {<<>>}, NEW k \in 1..Len(text)
    PROVE  RunOf(BestPath, k) =
             {m \in 1..Len(text) :
                 \A w \in 1..Len(text) :
                     (k <= w /\ w <= m) \/ (m <= w /\ w <= k) => IsKatakanaWord(w)}
  <1>1. DOMAIN BestPath = 1..Len(text)
    BY BestPathFacts
  <1>2. \A w \in 1..Len(text) : IsKatakana(BestPath[w]) <=> IsKatakanaWord(w)
    BY BestPathFacts
  <1> QED BY <1>1, <1>2 DEF RunOf

LEMMA SameRun ==
    ASSUME text \in Seq(Words) \ {<<>>}, NEW k \in 1..Len(text), NEW m \in RunOf(BestPath, k)
    PROVE  /\ m \in 1..Len(text) /\ IsKatakanaWord(m) /\ IsKatakanaWord(k)
           /\ RunOf(BestPath, m) = RunOf(BestPath, k)
           /\ WordsToJoin(m) = WordsToJoin(k)
           /\ MayJoin(m) <=> MayJoin(k)
  <1>1. m \in 1..Len(text) /\ k \in Nat /\ m \in Nat /\ Len(text) \in Nat
    BY RunOfText
  <1>2. \A w \in 1..Len(text) :
          (k <= w /\ w <= m) \/ (m <= w /\ w <= k) => IsKatakanaWord(w)
    BY RunOfText
  <1>3. ASSUME NEW x \in 1..Len(text),
               \A w \in 1..Len(text) :
                   (m <= w /\ w <= x) \/ (x <= w /\ w <= m) => IsKatakanaWord(w),
               NEW w \in 1..Len(text), (k <= w /\ w <= x) \/ (x <= w /\ w <= k)
        PROVE  IsKatakanaWord(w)
    <2>1. \/ (k <= w /\ w <= m) \/ (m <= w /\ w <= k)
          \/ (m <= w /\ w <= x) \/ (x <= w /\ w <= m)
      BY <1>1, <1>3
    <2> QED BY <2>1, <1>2, <1>3
  <1>4. ASSUME NEW x \in 1..Len(text),
               \A w \in 1..Len(text) :
                   (k <= w /\ w <= x) \/ (x <= w /\ w <= k) => IsKatakanaWord(w),
               NEW w \in 1..Len(text), (m <= w /\ w <= x) \/ (x <= w /\ w <= m)
        PROVE  IsKatakanaWord(w)
    <2>1. \/ (k <= w /\ w <= m) \/ (m <= w /\ w <= k)
          \/ (k <= w /\ w <= x) \/ (x <= w /\ w <= k)
      BY <1>1, <1>4
    <2> QED BY <2>1, <1>2, <1>4
  <1>5. RunOf(BestPath, m) = RunOf(BestPath, k)
    <2>1. \A x \in 1..Len(text) : x \in RunOf(BestPath, m) <=> x \in RunOf(BestPath, k)
      BY <1>1, <1>3, <1>4, RunOfText
    <2>2. RunOf(BestPath, m) \subseteq 1..Len(text) /\ RunOf(BestPath, k) \subseteq 1..Len(text)
      BY <1>1, RunOfText
    <2> QED BY <2>1, <2>2
  <1>6. IsKatakanaWord(m) /\ IsKatakanaWord(k)
    BY <1>1, <1>2
  <1>7. WordsToJoin(m) = WordsToJoin(k)
    BY <1>5 DEF WordsToJoin, RangeToJoin
  <1> QED BY <1>1, <1>5, <1>6, <1>7 DEF MayJoin

LEMMA InOwnRun ==
    ASSUME text \in Seq(Words) \ {<<>>}, NEW k \in 1..Len(text), IsKatakanaWord(k)
    PROVE  k \in RunOf(BestPath, k)
  <1>1. \A w \in 1..Len(text) : (k <= w /\ w <= k) \/ (k <= w /\ w <= k) => w = k
    OBVIOUS
  <1> QED BY <1>1, RunOfText

\* What is to be joined begins where an OOV may, and goes to the end of the run.
LEMMA ToJoin ==
    ASSUME text \in Seq(Words) \ {<<>>}, NEW k \in 1..Len(text)
    PROVE  /\ WordsToJoin(k) \subseteq RunOf(BestPath, k)
           /\ RunOf(BestPath, k) \subseteq 1..Len(text)
           /\ \A m \in RunOf(BestPath, k) :
                m \in WordsToJoin(k) <=>
                  \E n \in RunOf(BestPath, k) : n <= m /\ "NOOOVBOW" \notin text[n].cats
  <1>1. RunOf(BestPath, k) \subseteq 1..Len(text)
    BY RunOfText
  <1>2. \A n \in 1..Len(text) : CanOovBow(BestPath[n]) <=> "NOOOVBOW" \notin text[n].cats
    BY BestPathFacts
  <1> QED BY <1>1, <1>2 DEF WordsToJoin, RangeToJoin

----------------------------------------------------------------------------
(* Runs of the path.                                                       *)

KeptPath(p) == IsPath(p) /\ NodesKept(p)

\* All words of a node are katakana, or none is.
LEMMA PartsAlike ==
    ASSUME NEW p, KeptPath(p), NEW a \in 1..Len(p)
    PROVE  /\ p[a].begin \in 1..Len(text) /\ p[a].begin \in PartsOf(p[a])
           /\ PartsOf(p[a]) \subseteq 1..Len(text)
           /\ \A m \in PartsOf(p[a]) : IsKatakanaWord(m) <=> IsKatakanaWord(p[a].begin)
           /\ IsKatakana(p[a]) <=> IsKatakanaWord(p[a].begin)
           /\ IsKatakanaWord(p[a].begin) => Plain(p[a]) \/ JoinedRun(p[a])
  <1> DEFINE node == p[a]
             k == node.begin
  <1>1. k \in 1..Len(text) /\ node.end \in k + 1..Len(text) + 1 /\ NodeKept(node)
    BY DEF KeptPath, IsPath, NodesKept
  <1>2. Len(text) \in Nat /\ text \in Seq(Words) \ {<<>>}
    BY Lengths DEF KeptPath, IsPath
  <1>3. k \in PartsOf(node) /\ PartsOf(node) \subseteq 1..Len(text)
    BY <1>1, <1>2 DEF PartsOf
  <1>4. IsKatakanaWord(k) => Plain(node) \/ JoinedRun(node)
    BY <1>1, <1>3 DEF NodeKept
  <1>5. ASSUME NEW m \in PartsOf(node) PROVE IsKatakanaWord(m) <=> IsKatakanaWord(k)
    <2>1. CASE ~ IsKatakanaWord(k)
      BY <2>1, <1>1, <1>3 DEF NodeKept
    <2>2. CASE Plain(node)
      <3>1. PartsOf(node) = {k}
        BY <2>2, <1>1, <1>2, BestPathFacts DEF Plain
      <3> QED BY <3>1
    <2>3. CASE IsKatakanaWord(k) /\ JoinedRun(node)
      <3>1. m \in WordsToJoin(k)
        BY <2>3 DEF JoinedRun
      <3>2. m \in RunOf(BestPath, k)
        BY <3>1, <1>1, <1>2, ToJoin
      <3> QED BY <3>2, <1>1, <1>2, SameRun
    <2> QED BY <2>1, <2>2, <2>3, <1>4
  <1>6. IsKatakana(node) <=> IsKatakanaWord(k)
    BY <1>3, <1>5 DEF IsKatakana, CatOfRange, IsKatakanaWord
  <1> QED BY <1>1, <1>3, <1>4, <1>5, <1>6

\* Nodes are in one run if their first words are.
LEMMA RunsMatch ==
    ASSUME NEW p, KeptPath(p), NEW a \in 1..Len(p), NEW b \in 1..Len(p)
    PROVE  b \in RunOf(p, a) <=> p[b].begin \in RunOf(BestPath, p[a].begin)
  <1> DEFINE k == p[a].begin
             m == p[b].begin
  <1>1. k \in 1..Len(text) /\ k \in PartsOf(p[a]) /\ m \in 1..Len(text) /\ m \in PartsOf(p[b])
    BY PartsAlike
  <1>2. Len(p) \in Nat /\ DOMAIN p = 1..Len(p) /\ Len(text) \in Nat /\ IsPath(p)
        /\ text \in Seq(Words) \ {<<>>}
    BY Lengths DEF KeptPath, IsPath
  <1>3. ASSUME \A c \in 1..Len(p) : (a <= c /\ c <= b) \/ (b <= c /\ c <= a) => IsKatakana(p[c]),
               NEW w \in 1..Len(text), (k <= w /\ w <= m) \/ (m <= w /\ w <= k)
        PROVE  IsKatakanaWord(w)
    <2>1. PICK c \in 1..Len(p) : w \in PartsOf(p[c])
      BY <1>2, NodeOfWord
    <2>2. k <= w => a <= c
      BY <2>1, <1>1, <1>2, WordsInOrder
    <2>3. w <= m => c <= b
      BY <2>1, <1>1, <1>2, WordsInOrder
    <2>4. m <= w => b <= c
      BY <2>1, <1>1, <1>2, WordsInOrder
    <2>5. w <= k => c <= a
      BY <2>1, <1>1, <1>2, WordsInOrder
    <2>6. IsKatakana(p[c])
      BY <2>2, <2>3, <2>4, <2>5, <1>3
    <2> QED BY <2>1, <2>6, PartsAlike
  <1>4. ASSUME \A w \in 1..Len(text) :
                   (k <= w /\ w <= m) \/ (m <= w /\ w <= k) => IsKatakanaWord(w),
               NEW c \in 1..Len(p), (a <= c /\ c <= b) \/ (b <= c /\ c <= a)
        PROVE  IsKatakana(p[c])
    <2>1. \A x, y \in 1..Len(p) : x <= y => p[x].begin <= p[y].begin
      <3>1. ASSUME NEW x \in 1..Len(p), NEW y \in 1..Len(p), x <= y
            PROVE  p[x].begin <= p[y].begin
        <4>1. p[x].begin \in 1..Len(text) /\ p[x].end \in p[x].begin + 1..Len(text) + 1
              /\ p[y].begin \in 1..Len(text)
          BY <1>2 DEF IsPath
        <4>2. CASE x = y
          BY <4>1, <4>2
        <4>3. CASE x # y
          <5>1. x < y
            BY <3>1, <4>3, <1>2
          <5>2. p[x].end <= p[y].begin
            BY <5>1, <1>2, NodesInOrder
          <5> QED BY <4>1, <5>2, <1>2
        <4> QED BY <4>2, <4>3
      <3> QED BY <3>1
    <2>2. (k <= p[c].begin /\ p[c].begin <= m) \/ (m <= p[c].begin /\ p[c].begin <= k)
      BY <2>1, <1>4
    <2>3. p[c].begin \in 1..Len(text)
      BY PartsAlike
    <2>4. IsKatakanaWord(p[c].begin)
      BY <2>2, <2>3, <1>4
    <2> QED BY <2>4, PartsAlike
  <1>5. b \in RunOf(p, a) <=>
          \A c \in 1..Len(p) : (a <= c /\ c <= b) \/ (b <= c /\ c <= a) => IsKatakana(p[c])
    BY <1>2 DEF RunOf
  <1>6. m \in RunOf(BestPath, k) <=>
          \A w \in 1..Len(text) : (k <= w /\ w <= m) \/ (m <= w /\ w <= k) => IsKatakanaWord(w)
    BY <1>1, <1>2, RunOfText
  <1> HIDE DEF k, m
  <1>7. b \in RunOf(p, a) => m \in RunOf(BestPath, k)
    BY <1>3, <1>5, <1>6
  <1>8. m \in RunOf(BestPath, k) => b \in RunOf(p, a)
    BY <1>4, <1>5, <1>6
  <1> QED BY <1>7, <1>8 DEF k, m

\* A node that was joined is all there is to be joined in its run.
LEMMA JoinedIsAll ==
    ASSUME NEW p, KeptPath(p), NEW a \in 1..Len(p), NEW c \in RunOf(p, a), JoinedRun(p[c])
    PROVE  Settled(p, p[a].begin) /\ RangeToJoin(p, a) \subseteq {c}
  <1> DEFINE k == p[a].begin
  <1>1. /\ Len(p) \in Nat /\ DOMAIN p = 1..Len(p) /\ IsPath(p) /\ text \in Seq(Words) \ {<<>>}
    BY Lengths DEF KeptPath, IsPath
  <1>2. c \in 1..Len(p) /\ RunOf(p, a) \subseteq 1..Len(p)
    BY <1>1 DEF RunOf
  <1>3. \A x \in 1..Len(p) : /\ p[x].begin \in 1..Len(text) /\ p[x].begin \in PartsOf(p[x])
                             /\ x \in RunOf(p, a) <=> p[x].begin \in RunOf(BestPath, k)
    BY PartsAlike, RunsMatch
  <1>4. WordsToJoin(p[c].begin) = WordsToJoin(k)
    <2>1. k \in 1..Len(text) /\ p[c].begin \in RunOf(BestPath, k)
      BY <1>2, <1>3
    <2> HIDE DEF k
    <2> QED BY <1>1, <2>1, SameRun
  <1>5. PartsOf(p[c]) = WordsToJoin(k)
    BY <1>4 DEF JoinedRun
  <1>6. ASSUME NEW x \in RangeToJoin(p, a) PROVE x = c
    <2>1. x \in RunOf(p, a) /\ \E n \in RunOf(p, a) : n <= x /\ CanOovBow(p[n])
      BY DEF RangeToJoin
    <2>2. PICK n \in RunOf(p, a) : n <= x /\ CanOovBow(p[n])
      BY <2>1
    <2>3. "NOOOVBOW" \notin text[p[n].begin].cats
      BY <2>2 DEF CanOovBow, CatAtChar
    <2>4. p[n].begin <= p[x].begin
      <3>1. x \in 1..Len(p) /\ n \in 1..Len(p)
        BY <1>2, <2>1
      <3>2. p[n].begin \in Nat /\ p[n].end \in Nat /\ p[n].begin < p[n].end /\ p[x].begin \in Nat
        BY <1>1, <3>1, NodeSpan
      <3>3. n = x \/ n < x
        BY <1>1, <2>2, <3>1
      <3>4. n < x => p[n].end <= p[x].begin
        BY <1>1, <3>1, NodesInOrder
      <3> QED BY <3>2, <3>3, <3>4
    <2>5. p[n].begin \in RunOf(BestPath, k) /\ p[x].begin \in RunOf(BestPath, k)
      BY <1>2, <1>3, <2>1
    <2>6. p[x].begin \in WordsToJoin(k)
      BY <1>1, <1>3, <2>3, <2>4, <2>5, ToJoin
    <2>7. p[x].begin \in PartsOf(p[x]) /\ p[x].begin \in PartsOf(p[c]) /\ x \in 1..Len(p)
      BY <1>2, <1>3, <1>5, <2>1, <2>6
    <2> QED BY <1>1, <1>2, <2>7, OneNode
  <1> QED BY <1>2, <1>5, <1>6 DEF Settled

\* A set of neighbours is the interval from its least element on.
LEMMA NeighboursAre ==
    ASSUME NEW n \in Nat, NEW S \in SUBSET (1..n), NEW b \in S, \A x \in S : b <= x,
           \A x \in S : \A y \in 1..n : b <= y /\ y <= x => y \in S
    PROVE  S = b..(b + Cardinality(S) - 1)
  <1> DEFINE T == {d \in Nat : n - d \in S}
  <1>1. b \in Nat /\ n - b \in T
    OBVIOUS
  <1>2. PICK d \in T : \A c \in T : d =< c
    <2> HIDE DEF T
    <2>1. T \in SUBSET Nat
      BY DEF T
    <2> QED BY <2>1, <1>1, MinNat
  <1> DEFINE e == n - d
  <1>3. e \in S /\ e \in 1..n
    BY <1>2
  <1>4. ASSUME NEW x \in S PROVE x <= e
    <2>1. n - x \in T
      OBVIOUS
    <2>2. d <= n - x /\ d \in Nat /\ x \in Nat
      BY <1>2, <2>1
    <2> QED BY <2>2
  <1> HIDE DEF e, T
  <1>5. S = b..e
    <2>1. S \subseteq b..e
      BY <1>3, <1>4
    <2>2. b..e \subseteq S
      BY <1>1, <1>3
    <2> QED BY <2>1, <2>2
  <1>6. Cardinality(S) = e - b + 1
    BY <1>3, <1>4, <1>5, <1>1, FS_Interval
  <1> QED BY <1>1, <1>3, <1>5, <1>6

\* Where nothing was joined yet, the nodes to be joined are the words to be
\* joined.
LEMMA RangeOfPlain ==
    ASSUME NEW p, KeptPath(p), NEW a \in 1..Len(p), \A c \in RunOf(p, a) : Plain(p[c])
    PROVE  LET range == RangeToJoin(p, a)
               words == WordsToJoin(p[a].begin)
           IN  /\ \A c \in 1..Len(p) : c \in range <=> p[c].begin \in words
               /\ \A w \in words : \E c \in range : p[c].begin = w
               /\ \A c \in range : PartsOf(p[c]) = {p[c].begin}
               /\ Cardinality(range) = Cardinality(words)
  <1> DEFINE k == p[a].begin
             range == RangeToJoin(p, a)
             words == WordsToJoin(k)
  <1>1. /\ Len(p) \in Nat /\ DOMAIN p = 1..Len(p) /\ IsPath(p) /\ text \in Seq(Words) \ {<<>>}
    BY Lengths DEF KeptPath, IsPath
  <1>2. RunOf(p, a) \subseteq 1..Len(p) /\ range \subseteq RunOf(p, a)
    BY <1>1 DEF RunOf, RangeToJoin
  <1>3. k \in 1..Len(text)
    BY PartsAlike
  <1>4. \A x \in 1..Len(p) : /\ p[x].begin \in 1..Len(text) /\ p[x].begin \in PartsOf(p[x])
                             /\ x \in RunOf(p, a) <=> p[x].begin \in RunOf(BestPath, k)
    BY PartsAlike, RunsMatch
  <1>5. \A x \in RunOf(p, a) : PartsOf(p[x]) = {p[x].begin}
    BY <1>1, <1>2, <1>4, BestPathFacts DEF Plain
  <1>6. \A w \in RunOf(BestPath, k) : \E c \in RunOf(p, a) : p[c].begin = w
    <2>1. SUFFICES ASSUME NEW w \in RunOf(BestPath, k) PROVE \E c \in RunOf(p, a) : p[c].begin = w
      OBVIOUS
    <2>2. w \in 1..Len(text) /\ IsKatakanaWord(w) /\ RunOf(BestPath, w) = RunOf(BestPath, k)
      BY <1>1, <1>3, SameRun
    <2>3. PICK c \in 1..Len(p) : w \in PartsOf(p[c])
      BY <1>1, <2>2, NodeOfWord
    <2>4. p[c].begin \in RunOf(BestPath, w)
      <3>1. IsKatakanaWord(p[c].begin)
        BY <2>2, <2>3, PartsAlike
      <3>2. CASE Plain(p[c])
        <4>1. PartsOf(p[c]) = {p[c].begin}
          BY <1>1, <1>4, <3>2, BestPathFacts DEF Plain
        <4> QED BY <1>1, <2>2, <2>3, <4>1, InOwnRun
      <3>3. CASE JoinedRun(p[c])
        <4>1. w \in RunOf(BestPath, p[c].begin)
          BY <1>1, <1>4, <2>3, <3>3, ToJoin DEF JoinedRun
        <4>2. RunOf(BestPath, w) = RunOf(BestPath, p[c].begin)
          BY <1>1, <1>4, <4>1, SameRun
        <4> QED BY <1>1, <1>4, <3>1, <4>2, InOwnRun
      <3> QED BY <3>1, <3>2, <3>3, PartsAlike
    <2>5. c \in RunOf(p, a)
      BY <1>4, <2>2, <2>4
    <2> QED BY <1>5, <2>3, <2>5
  <1>7. \A x, y \in 1..Len(p) : x <= y <=> p[x].begin <= p[y].begin
    <2>1. ASSUME NEW x \in 1..Len(p), NEW y \in 1..Len(p) PROVE x <= y <=> p[x].begin <= p[y].begin
      <3>1. /\ p[x].begin \in Nat /\ p[x].end \in Nat /\ p[x].begin < p[x].end
            /\ p[y].begin \in Nat /\ p[y].end \in Nat /\ p[y].begin < p[y].end
        BY <1>1, NodeSpan
      <3>2. x < y => p[x].end <= p[y].begin
        BY <1>1, NodesInOrder
      <3>3. y < x => p[y].end <= p[x].begin
        BY <1>1, NodesInOrder
      <3>4. x = y \/ x < y \/ y < x
        BY <1>1
      <3> QED BY <1>1, <3>1, <3>2, <3>3, <3>4
    <2> QED BY <2>1
  <1>8. \A c \in 1..Len(p) : c \in range <=> p[c].begin \in words
    <2>1. SUFFICES ASSUME NEW c \in 1..Len(p) PROVE c \in range <=> p[c].begin \in words
      OBVIOUS
    <2>2. \A n \in 1..Len(p) : CanOovBow(p[n]) <=> "NOOOVBOW" \notin text[p[n].begin].cats
      BY DEF CanOovBow, CatAtChar
    <2>3. ASSUME c \in range PROVE p[c].begin \in words
      <3>1. PICK n \in RunOf(p, a) : n <= c /\ CanOovBow(p[n])
        BY <2>3 DEF RangeToJoin
      <3>2. c \in RunOf(p, a) /\ n \in 1..Len(p)
        BY <1>2, <2>3
      <3>3. p[n].begin <= p[c].begin /\ p[n].begin \in RunOf(BestPath, k)
            /\ p[c].begin \in RunOf(BestPath, k)
        BY <1>4, <1>7, <3>1, <3>2
      <3> QED BY <1>1, <1>3, <2>2, <3>1, <3>2, <3>3, ToJoin
    <2>4. ASSUME p[c].begin \in words PROVE c \in range
      <3>1. p[c].begin \in RunOf(BestPath, k)
        BY <1>1, <1>3, <2>4, ToJoin
      <3>2. PICK w \in RunOf(BestPath, k) : w <= p[c].begin /\ "NOOOVBOW" \notin text[w].cats
        BY <1>1, <1>3, <2>4, <3>1, ToJoin
      <3>3. PICK n \in RunOf(p, a) : p[n].begin = w
        BY <1>6
      <3>4. c \in RunOf(p, a) /\ n <= c /\ CanOovBow(p[n])
        BY <1>2, <1>4, <1>7, <2>2, <3>1, <3>2, <3>3
      <3> QED BY <3>3, <3>4 DEF RangeToJoin
    <2> QED BY <2>3, <2>4
  <1>9. \A w \in words : \E c \in range : p[c].begin = w
    <2>1. words \subseteq RunOf(BestPath, k)
      BY <1>1, <1>3, ToJoin
    <2> HIDE DEF range, words, k
    <2> QED BY <1>2, <1>6, <1>8, <2>1
  <1>10. Cardinality(range) = Cardinality(words)
    <2> DEFINE f == [c \in range |-> p[c].begin]
    <2>1. range \subseteq 1..Len(p)
      BY <1>2
    <2> HIDE DEF range, words, k
    <2>2. f \in [range -> words]
      BY <1>8, <2>1
    <2>3. \A w \in words : \E c \in range : f[c] = w
      BY <1>9
    <2>4. \A x, y \in range : f[x] = f[y] => x = y
      <3>1. ASSUME NEW x \in range, NEW y \in range, f[x] = f[y] PROVE x = y
        <4>1. x \in 1..Len(p) /\ y \in 1..Len(p) /\ p[x].begin = p[y].begin
          BY <2>1, <3>1
        <4>2. p[x].begin \in PartsOf(p[x]) /\ p[x].begin \in PartsOf(p[y])
          BY <1>4, <4>1
        <4> QED BY <1>1, <4>1, <4>2, OneNode
      <3> QED BY <3>1
    <2> HIDE DEF f
    <2>5. f \in Bijection(range, words)
      BY <2>2, <2>3, <2>4 DEF Bijection, Injection, Surjection, IsInjective
    <2>6. ExistsBijection(range, words)
      BY <2>5 DEF ExistsBijection
    <2>7. IsFiniteSet(1..Len(p))
      BY <1>1, FS_Interval
    <2>8. IsFiniteSet(range)
      BY <2>1, <2>7, FS_Subset
    <2> QED BY <2>6, <2>8, FS_Bijection
  <1> QED BY <1>2, <1>5, <1>8, <1>9, <1>10

----------------------------------------------------------------------------
(* Nodes that are replaced.                                                *)

\* q is a path too, with one node for b..e of p.
Rewritten(q, p, b, e, node) ==
    KeptPath(q) /\ Replaced(q, p, b, e, node) /\ b \in 1..Len(q)

\* The nodes that concat_nodes and concat_oov_nodes leave.
LEMMA ReplacedNodes ==
    ASSUME NEW p, KeptPath(p), NEW b \in 1..Len(p), NEW e \in b..Len(p),
           NEW node, node.begin = p[b].begin, node.end = p[e].end, NodeKept(node)
    PROVE  Rewritten(ReplaceRange(p, b, e, node), p, b, e, node)
  <1> DEFINE X == Elems(p) \cup {node}
             q == ReplaceRange(p, b, e, node)
  <1>1. /\ Len(p) \in Nat /\ IsSeq(p) /\ IsPath(p) /\ text \in Seq(Words) \ {<<>>} /\ Tiles(p)
    BY Lengths DEF KeptPath, IsPath
  <1>2. /\ b \in Nat /\ e \in Nat /\ 1 <= b /\ b <= e /\ e <= Len(p)
    BY <1>1
  <1>3. q \in Seq(X) /\ Replaced(q, p, b, e, node)
    <2>1. p \in Seq(X)
      <3>1. p \in [1..Len(p) -> Elems(p)]
        BY <1>1 DEF IsSeq
      <3>2. p \in [1..Len(p) -> X]
        BY <3>1
      <3> HIDE DEF X
      <3> QED BY <1>1, <3>2, FunctionIsSeq
    <2>2. node \in X
      OBVIOUS
    <2> HIDE DEF X
    <2> QED BY <2>1, <2>2, ReplaceRangeElems
  <1> HIDE DEF X
  <1>4. /\ Len(q) = Len(p) - (e - b) /\ q[b] = node
        /\ \A n \in 1..b - 1 : q[n] = p[n]
        /\ \A n \in 1..Len(p) - e : q[b + n] = p[e + n]
    BY <1>3 DEF Replaced
  <1>5. Tiles(q)
    BY <1>1, ReplaceTiles
  <1> HIDE DEF q
  <1>6. ASSUME NEW n \in 1..Len(q) PROVE NodeKept(q[n])
    <2>1. CASE n < b
      <3>1. n \in 1..b - 1 /\ n \in 1..Len(p)
        BY <2>1, <1>1, <1>2, <1>4
      <3> QED BY <3>1, <1>4 DEF KeptPath, NodesKept
    <2>2. CASE n = b
      BY <2>2, <1>4
    <2>3. CASE n > b
      <3>0. n \in 1..Len(p) - (e - b)
        BY <1>4
      <3>1. n - b \in 1..Len(p) - e /\ b + (n - b) = n /\ e + (n - b) \in 1..Len(p)
        BY <3>0, <2>3, <1>1, <1>2
      <3>2. q[n] = p[e + (n - b)]
        BY <3>1, <1>4
      <3> QED BY <3>1, <3>2 DEF KeptPath, NodesKept
    <2>4. n \in Nat
      BY <1>1, <1>2, <1>4
    <2> QED BY <2>1, <2>2, <2>3, <2>4, <1>2
  <1>7. KeptPath(q)
    BY <1>1, <1>5, <1>6 DEF KeptPath, NodesKept, IsPath, NodeKept
  <1>8. b \in 1..Len(q)
    BY <1>1, <1>2, <1>4
  <1> QED BY <1>3, <1>7, <1>8 DEF q, Rewritten

\* A run that was joined before elsewhere stays so.
LEMMA StaysSettled ==
    ASSUME NEW p, KeptPath(p), NEW b \in 1..Len(p), NEW e \in b..Len(p), NEW q,
           NEW node, Rewritten(q, p, b, e, node),
           NEW k, Settled(p, k), \A n \in b..e : PartsOf(p[n]) # WordsToJoin(k)
    PROVE  Settled(q, k)
  <1>1. Len(p) \in Nat /\ b \in Nat /\ e \in Nat /\ 1 <= b /\ b <= e /\ e <= Len(p)
    BY Lengths DEF KeptPath
  <1>a. /\ Len(q) = Len(p) - (e - b)
        /\ \A n \in 1..b - 1 : q[n] = p[n]
        /\ \A n \in 1..Len(p) - e : q[b + n] = p[e + n]
    BY DEF Rewritten, Replaced
  <1>2. PICK n \in 1..Len(p) : PartsOf(p[n]) = WordsToJoin(k)
    BY DEF Settled
  <1>3. n < b \/ n > e
    BY <1>1, <1>2
  <1>4. CASE n < b
    <2>1. n \in 1..b - 1 /\ n \in 1..Len(q)
      BY <1>1, <1>a, <1>4
    <2> QED BY <1>a, <1>2, <2>1 DEF Settled
  <1>5. CASE n > e
    <2>1. n - e \in 1..Len(p) - e /\ e + (n - e) = n /\ b + (n - e) \in 1..Len(q)
      BY <1>1, <1>a, <1>5
    <2>2. q[b + (n - e)] = p[n]
      BY <1>a, <2>1
    <2> QED BY <1>2, <2>1, <2>2 DEF Settled
  <1> QED BY <1>3, <1>4, <1>5

\* Nodes of a row have the words from the first's beginning to the last's end.
LEMMA PartsOfRow ==
    ASSUME NEW p, IsPath(p), NEW b \in 1..Len(p), NEW e \in b..Len(p),
           NEW w \in p[b].begin..(p[e].end - 1)
    PROVE  w \in 1..Len(text) /\ \E n \in b..e : w \in PartsOf(p[n])
  <1>1. Len(p) \in Nat /\ b \in Nat /\ e \in 1..Len(p) /\ e \in Nat /\ Len(text) \in Nat
    BY Lengths
  <1>2. /\ p[b].begin \in 1..Len(text) /\ p[b].end \in p[b].begin + 1..Len(text) + 1
        /\ p[e].begin \in 1..Len(text) /\ p[e].end \in p[e].begin + 1..Len(text) + 1
    BY <1>1 DEF IsPath
  <1>3. w \in 1..Len(text) /\ w \in Nat
    BY <1>1, <1>2
  <1>4. PICK n \in 1..Len(p) : w \in PartsOf(p[n])
    BY <1>3, NodeOfWord
  <1>5. b <= n
    <2>1. p[b].begin \in PartsOf(p[b]) /\ p[b].begin <= w
      BY <1>1, <1>2 DEF PartsOf
    <2> QED BY <1>4, <2>1, WordsInOrder
  <1>6. n <= e
    <2>1. p[e].begin \in Nat /\ p[e].end \in Nat /\ p[e].begin < p[e].end
      BY <1>1, NodeSpan
    <2>2. p[e].end - 1 \in PartsOf(p[e])
      BY <2>1 DEF PartsOf
    <2>3. w <= p[e].end - 1
      OBVIOUS
    <2> QED BY <1>1, <1>4, <2>2, <2>3, WordsInOrder
  <1> QED BY <1>1, <1>3, <1>4, <1>5, <1>6

----------------------------------------------------------------------------
(* The joins of the two plugins.                                           *)

\* A node that is read as part of a numeral has no katakana.
LEMMA NumeralsApart ==
    ASSUME KatakanaApart, NEW p, KeptPath(p), NEW n \in 1..Len(p), IsNumeric(p[n])
    PROVE  ~ IsKatakanaWord(p[n].begin)
  <1> DEFINE k == p[n].begin
  <1>1. k \in 1..Len(text) /\ text[k] \in Words
    BY PartsAlike, Lengths DEF KeptPath
  <1>2. SUFFICES ASSUME IsKatakanaWord(k) PROVE FALSE
    OBVIOUS
  <1>3. text[k].cats \cap {"NUMERIC", "KANJINUMERIC"} = {}
    BY <1>1, <1>2 DEF KatakanaApart, IsKatakanaWord
  <1>4. CatOfRange(p[n]) \subseteq text[k].cats
    BY DEF CatOfRange
  <1>5. p[n].norm \in Punctuation
    BY <1>3, <1>4 DEF IsNumeric, Punctuation
  <1>6. NodeKept(p[n]) /\ k \in PartsOf(p[n])
    BY PartsAlike DEF KeptPath, NodesKept
  <1> QED BY <1>2, <1>5, <1>6 DEF NodeKept

\* What was joined in p is so in q.
KeepsSettled(p, q) ==
    \A k \in 1..Len(text) :
        IsKatakanaWord(k) /\ MayJoin(k) /\ Settled(p, k) => Settled(q, k)

\* Joining nodes without katakana leaves every run as it was.
LEMMA NumericJoinKeeps ==
    ASSUME NEW p, KeptPath(p), NEW b \in 1..Len(p), NEW e \in b..Len(p),
           \A n \in b..e : ~ IsKatakanaWord(p[n].begin),
           NEW node, node.begin = p[b].begin, node.end = p[e].end
    PROVE  LET q == ReplaceRange(p, b, e, node)
           IN  KeptPath(q) /\ KeepsSettled(p, q)
  <1> DEFINE q == ReplaceRange(p, b, e, node)
  <1>1. /\ Len(p) \in Nat /\ IsPath(p) /\ text \in Seq(Words) \ {<<>>} /\ e \in 1..Len(p)
        /\ b \in Nat /\ Len(text) \in Nat
    BY Lengths DEF KeptPath, IsPath
  <1>2. NodeKept(node)
    <2>1. /\ p[b].begin \in 1..Len(text) /\ p[b].end \in p[b].begin + 1..Len(text) + 1
          /\ p[e].begin \in 1..Len(text) /\ p[e].end \in p[e].begin + 1..Len(text) + 1
      BY <1>1 DEF IsPath
    <2>2. p[b].begin < p[e].end
      <3>1. CASE b = e
        BY <2>1, <3>1, <1>1
      <3>2. CASE b # e
        <4>1. b < e
          BY <1>1, <3>2
        <4>2. p[b].end <= p[e].begin
          BY <1>1, <4>1, NodesInOrder
        <4> QED BY <2>1, <4>2, <1>1
      <3> QED BY <3>1, <3>2
    <2>3. node.begin \in 1..Len(text) /\ node.end \in node.begin + 1..Len(text) + 1
      BY <2>1, <2>2, <1>1
    <2>4. ASSUME NEW w \in PartsOf(node) PROVE ~ IsKatakanaWord(w)
      <3>1. w \in p[b].begin..(p[e].end - 1)
        BY DEF PartsOf
      <3>2. PICK n \in b..e : w \in PartsOf(p[n])
        BY <1>1, <3>1, PartsOfRow
      <3>3. n \in 1..Len(p)
        BY <1>1
      <3> QED BY <3>2, <3>3, PartsAlike
    <2> QED BY <2>3, <2>4 DEF NodeKept
  <1>3. Rewritten(q, p, b, e, node)
    BY <1>2, ReplacedNodes
  <1>a. KeptPath(q)
    BY <1>3 DEF Rewritten
  <1> HIDE DEF q
  <1>4. ASSUME NEW k \in 1..Len(text), IsKatakanaWord(k), MayJoin(k), Settled(p, k)
        PROVE  Settled(q, k)
    <2>1. ASSUME NEW n \in b..e PROVE PartsOf(p[n]) # WordsToJoin(k)
      <3>1. n \in 1..Len(p)
        BY <1>1
      <3>2. p[n].begin \in PartsOf(p[n]) /\ ~ IsKatakanaWord(p[n].begin)
        BY <3>1, PartsAlike
      <3>3. \A w \in WordsToJoin(k) : IsKatakanaWord(w)
        BY <1>1, ToJoin, SameRun
      <3> QED BY <3>2, <3>3
    <2> QED BY <1>3, <1>4, <2>1, StaysSettled
  <1> QED BY <1>a, <1>4 DEF q, KeepsSettled

\* The concatenation of sequences that are not empty is as long as there are
\* of them.
LEMMA FlattenLength ==
    ASSUME NEW n \in Nat, n > 0, NEW ss, ss = [k \in 1..n |-> ss[k]],
           \A k \in 1..n : ss[k] \in Seq(STRING) \ {<<>>}
    PROVE  FlattenSeq(ss) \in Seq(STRING) /\ Len(FlattenSeq(ss)) >= n
  <1>1. PICK g : IsFlattening(g, ss, n) /\ FlattenSeq(ss) = g[n]
    BY FlattenStages
  <1>2. \A k \in 1..n : g[k] = IF k = 1 THEN ss[k] ELSE g[k - 1] \o ss[k]
    BY <1>1 DEF IsFlattening
  <1>3. \A k \in 1..n : ss[k] \in Seq(STRING) /\ Len(ss[k]) \in Nat /\ Len(ss[k]) >= 1
    OBVIOUS
  <1> DEFINE Long(k) == g[k] \in Seq(STRING) /\ Len(g[k]) >= k
             T == {k \in Nat : k \in 1..n /\ ~ Long(k)}
  <1>4. CASE T = {}
    BY <1>1, <1>4
  <1>5. CASE T # {}
    <2>1. PICK k \in T : \A l \in T : k =< l
      <3> HIDE DEF T
      <3>1. T \in SUBSET Nat
        BY DEF T
      <3> QED BY <3>1, <1>5, MinNat
    <2>2. k \in 1..n /\ ~ Long(k) /\ k \in Nat
      BY <2>1
    <2>3. k # 1
      BY <1>2, <1>3, <2>2
    <2>4. k - 1 \in 1..n /\ k - 1 \in Nat /\ k - 1 \notin T
      BY <2>1, <2>2, <2>3
    <2>5. g[k - 1] \in Seq(STRING) /\ Len(g[k - 1]) >= k - 1
      BY <2>4
    <2>6. ss[k] \in Seq(STRING) /\ Len(ss[k]) >= 1
      BY <1>3, <2>2
    <2>7. /\ g[k - 1] \o ss[k] \in Seq(STRING)
          /\ Len(g[k - 1] \o ss[k]) = Len(g[k - 1]) + Len(ss[k])
      BY <2>5, <2>6
    <2>8. Len(g[k - 1]) \in Nat /\ Len(ss[k]) \in Nat
      BY <2>5, <2>6
    <2>9. g[k] = g[k - 1] \o ss[k]
      BY <1>2, <2>2, <2>3
    <2>10. g[k] \in Seq(STRING) /\ Len(g[k]) >= k
      BY <2>2, <2>5, <2>6, <2>7, <2>8, <2>9
    <2> QED BY <2>2, <2>10
  <1> QED BY <1>4, <1>5

\* JoinKatakanaOovPlugin makes one node of what is to be joined.
LEMMA KatakanaJoin ==
    ASSUME KatakanaApart, NEW p, KeptPath(p), NEW a \in 1..Len(p), StartsJoin(p[a]),
           Cardinality(RangeToJoin(p, a)) > 1
    PROVE  LET range == RangeToJoin(p, a)
               b == FirstOf(range, 0)
               e == b + Cardinality(range) - 1
               q == ConcatOovNodes(p, b, e)
           IN  /\ \A c \in RunOf(p, a) : Plain(p[c])
               /\ b \in 1..Len(p) /\ e \in b..Len(p) /\ range = b..e
               /\ PartsOf(q[b]) = WordsToJoin(p[a].begin)
               /\ \E node : Rewritten(q, p, b, e, node)
  <1> DEFINE k == p[a].begin
             range == RangeToJoin(p, a)
             b == FirstOf(range, 0)
             e == b + Cardinality(range) - 1
             node == [begin |-> p[b].begin, end |-> p[e].end, norm |-> NormsOf(p, b, e),
                      is_numeral_pos |-> FALSE, oov |-> reused # "word"]
             q == ConcatOovNodes(p, b, e)
  <1>1. /\ Len(p) \in Nat /\ DOMAIN p = 1..Len(p) /\ IsPath(p) /\ text \in Seq(Words) \ {<<>>}
        /\ Len(text) \in Nat /\ Tiles(p)
        /\ \A w \in 1..Len(text) : text[w] \in Words
    BY Lengths DEF KeptPath, IsPath
  <1>2. RunOf(p, a) \subseteq 1..Len(p) /\ range \subseteq RunOf(p, a)
    BY <1>1 DEF RunOf, RangeToJoin
  <1>3. \A x \in 1..Len(p) : /\ p[x].begin \in 1..Len(text) /\ p[x].begin \in PartsOf(p[x])
                             /\ x \in RunOf(p, a) <=> p[x].begin \in RunOf(BestPath, k)
    BY PartsAlike, RunsMatch
  <1>4. \A c \in RunOf(p, a) : Plain(p[c])
    <2>1. SUFFICES ASSUME NEW c \in RunOf(p, a), ~ Plain(p[c]) PROVE FALSE
      OBVIOUS
    <2>2. c \in 1..Len(p) /\ IsKatakana(p[c])
      BY <1>1, <1>2 DEF RunOf
    <2>3. JoinedRun(p[c])
      BY <2>1, <2>2, PartsAlike
    <2>4. range \subseteq {c}
      BY <2>3, JoinedIsAll
    <2>5. IsFiniteSet({c}) /\ Cardinality({c}) = 1
      BY FS_Singleton
    <2>6. Cardinality(range) <= 1
      BY <2>4, <2>5, FS_Subset
    <2>7. Cardinality(range) \in Nat
      BY <2>4, <2>5, FS_Subset, FS_CardinalityType
    <2> QED BY <2>6, <2>7
  <1>5. b \in 1..Len(p) /\ e \in b..Len(p)
    BY <1>1, RangeInPath
  <1>6. range = b..e
    <2>1. b \in range /\ \A x \in range : b <= x
      <3>1. range \in SUBSET Nat
        BY <1>1, <1>2
      <3>2. range # {}
        BY FS_EmptySet
      <3> HIDE DEF range
      <3>3. \E x \in range : \A y \in range : x =< y
        BY <3>1, <3>2, MinNat
      <3> QED BY <3>2, <3>3 DEF FirstOf
    <2>2. ASSUME NEW x \in range, NEW y \in 1..Len(p), b <= y, y <= x PROVE y \in range
      <3>1. b \in RunOf(p, a) /\ x \in RunOf(p, a)
        BY <1>2, <2>1
      <3>2. y \in RunOf(p, a)
        <4>1. a \in Nat /\ b \in Nat /\ x \in Nat /\ y \in Nat
          BY <1>1, <1>2, <1>5
        <4>2. \A n \in 1..Len(p) : (a <= n /\ n <= y) \/ (y <= n /\ n <= a) =>
                \/ (a <= n /\ n <= x) \/ (x <= n /\ n <= a)
                \/ (a <= n /\ n <= b) \/ (b <= n /\ n <= a)
          BY <4>1, <2>2
        <4> HIDE DEF b
        <4> QED BY <1>1, <3>1, <4>2 DEF RunOf
      <3>3. PICK n \in RunOf(p, a) : n <= b /\ CanOovBow(p[n])
        BY <2>1 DEF RangeToJoin
      <3>4. n \in Nat /\ b \in Nat /\ y \in Nat
        BY <1>1, <1>2, <1>5
      <3>5. n <= y
        BY <2>2, <3>3, <3>4
      <3> QED BY <3>2, <3>3, <3>5 DEF RangeToJoin
    <2>3. range \in SUBSET (1..Len(p))
      BY <1>2
    <2> HIDE DEF range, b
    <2>4. range = b..(b + Cardinality(range) - 1)
      BY <1>1, <2>1, <2>2, <2>3, NeighboursAre
    <2> QED BY <2>4 DEF e
  <1>7. /\ \A c \in 1..Len(p) : c \in range <=> p[c].begin \in WordsToJoin(k)
        /\ \A w \in WordsToJoin(k) : \E c \in range : p[c].begin = w
        /\ \A c \in range : PartsOf(p[c]) = {p[c].begin}
        /\ Cardinality(range) = Cardinality(WordsToJoin(k))
    BY <1>4, RangeOfPlain
  <1>8. a \in RunOf(p, a) /\ IsKatakana(p[a])
    <2>1. IsKatakana(p[a])
      BY DEF StartsJoin
    <2>2. \A n \in 1..Len(p) : (a <= n /\ n <= a) => n = a
      BY <1>1
    <2> QED BY <1>1, <2>1, <2>2 DEF RunOf
  <1>9. MayJoin(k)
    <2>1. Cardinality(WordsToJoin(k)) > 1
      BY <1>7
    <2>2. k \in RunOf(BestPath, k) /\ StartsJoin(BestPath[k])
      BY <1>3, <1>4, <1>8 DEF Plain
    <2> QED BY <2>1, <2>2 DEF MayJoin
  <1> HIDE DEF range, b, e
  <1>10. PartsOf(node) = WordsToJoin(k)
    <2>1. PartsOf(node) = p[b].begin..(p[e].end - 1)
      BY DEF PartsOf
    <2>2. ASSUME NEW w \in p[b].begin..(p[e].end - 1) PROVE w \in WordsToJoin(k)
      <3>1. PICK n \in b..e : w \in PartsOf(p[n])
        BY <1>1, <1>5, PartsOfRow
      <3>2. n \in range /\ n \in 1..Len(p)
        BY <1>1, <1>5, <1>6
      <3> QED BY <1>7, <3>1, <3>2
    <2>3. ASSUME NEW w \in WordsToJoin(k) PROVE w \in p[b].begin..(p[e].end - 1)
      <3>1. PICK c \in range : p[c].begin = w
        BY <1>7
      <3>2. /\ c \in 1..Len(p) /\ e \in 1..Len(p) /\ b <= c /\ c <= e
            /\ b \in Nat /\ c \in Nat /\ e \in Nat
        BY <1>1, <1>5, <1>6
      <3>a. \A x \in 1..Len(p) :
              p[x].begin \in Nat /\ p[x].end \in Nat /\ p[x].begin < p[x].end
        BY <1>1, NodeSpan
      <3>3. /\ p[b].begin \in Nat /\ p[b].end \in Nat /\ p[b].begin < p[b].end
            /\ p[c].begin \in Nat /\ p[c].end \in Nat /\ p[c].begin < p[c].end
            /\ p[e].begin \in Nat /\ p[e].end \in Nat /\ p[e].begin < p[e].end
        BY <3>a, <3>2, <1>5
      <3>4. b = c \/ p[b].end <= p[c].begin
        BY <1>1, <1>5, <3>2, NodesInOrder
      <3>5. c = e \/ p[c].end <= p[e].begin
        BY <1>1, <1>5, <3>2, NodesInOrder
      <3> QED BY <3>1, <3>3, <3>4, <3>5
    <2> QED BY <2>1, <2>2, <2>3
  <1>11. node.norm \notin Punctuation
    <2> DEFINE norms == [n \in 1..(e - b + 1) |-> p[b + n - 1].norm]
    <2>1. e - b + 1 \in Nat /\ e - b + 1 > 1
      <3>1. e = b + Cardinality(range) - 1
        BY DEF e, range
      <3>2. Cardinality(range) > 1 /\ b \in Nat /\ e \in Nat
        BY <1>1, <1>5 DEF range
      <3>3. e - b + 1 \in Int
        BY <3>2
      <3>4. Cardinality(range) \in Nat
        <4>1. Cardinality(b..e) = IF b > e THEN 0 ELSE e - b + 1
          BY <3>2, FS_Interval
        <4> QED BY <1>6, <3>2, <4>1
      <3> QED BY <3>1, <3>2, <3>4
    <2>2. ASSUME NEW n \in 1..(e - b + 1) PROVE norms[n] \in Seq(STRING) \ {<<>>}
      <3> DEFINE c == b + n - 1
      <3>1. c \in b..e /\ c \in 1..Len(p)
        BY <1>1, <1>5, <2>1
      <3>2. Plain(p[c]) /\ p[c].begin \in 1..Len(text) /\ c \in RunOf(p, a)
        BY <1>2, <1>3, <1>4, <1>6, <3>1
      <3>3. IsKatakanaWord(p[c].begin)
        BY <3>1, <3>2, <1>1, PartsAlike DEF RunOf
      <3>4. p[c].norm = text[p[c].begin].norm
        BY <1>1, <3>2, BestPathFacts DEF Plain
      <3>5. p[c].norm \in Seq(STRING) \ {<<>>}
        BY <1>1, <3>2, <3>3, <3>4 DEF KatakanaApart, IsKatakanaWord
      <3> QED BY <3>5
    <2>3. norms = [n \in 1..(e - b + 1) |-> norms[n]]
      OBVIOUS
    <2>4. NormsOf(p, b, e) = FlattenSeq(norms)
      BY DEF NormsOf
    <2> HIDE DEF norms
    <2>5. FlattenSeq(norms) \in Seq(STRING) /\ Len(FlattenSeq(norms)) >= e - b + 1
      BY <2>1, <2>2, <2>3, FlattenLength
    <2>6. Len(FlattenSeq(norms)) > 1
      BY <2>1, <2>5
    <2>7. Len(<<",">>) = 1 /\ Len(<<".">>) = 1
      OBVIOUS
    <2>8. node.norm = FlattenSeq(norms)
      BY <2>4
    <2>9. FlattenSeq(norms) # <<",">> /\ FlattenSeq(norms) # <<".">>
      <3> DEFINE flat == FlattenSeq(norms)
      <3>1. Len(flat) > 1
        BY <2>6
      <3> HIDE DEF flat
      <3>2. ASSUME NEW c, flat = <<c>> PROVE FALSE
        <4>1. Len(<<c>>) = 1
          OBVIOUS
        <4>2. Len(flat) = 1
          BY <3>2, <4>1
        <4> QED BY <3>1, <4>2
      <3>a. \A c : flat # <<c>>
        BY <3>2, Zenon
      <3>3. flat # <<",">> /\ flat # <<".">>
        BY <3>a, Zenon
      <3> QED BY <3>3 DEF flat
    <2> QED BY <2>8, <2>9 DEF Punctuation
  <1>12. NodeKept(node)
    <2>1. b \in range /\ b \in RunOf(p, a)
      BY <1>1, <1>2, <1>5, <1>6 DEF range
    <2>2. p[b].begin \in RunOf(BestPath, k) /\ k \in 1..Len(text) /\ p[b].begin \in 1..Len(text)
      BY <1>3, <1>5, <2>1
    <2>3. /\ WordsToJoin(p[b].begin) = WordsToJoin(k) /\ IsKatakanaWord(p[b].begin)
          /\ MayJoin(p[b].begin)
      BY <1>1, <1>9, <2>2, SameRun
    <2>4. node.begin = p[b].begin /\ node.end = p[e].end
      OBVIOUS
    <2>5. node.end \in node.begin + 1..Len(text) + 1
      <3>1. e \in 1..Len(p)
        BY <1>1, <1>5
      <3>a. p[e].begin \in 1..Len(text) /\ p[e].end \in p[e].begin + 1..Len(text) + 1
        BY <1>1, <3>1 DEF IsPath
      <3>2. p[e].end \in Nat /\ p[e].end <= Len(text) + 1
        BY <1>1, <3>a
      <3>3. p[b].begin \in p[b].begin..(p[e].end - 1)
        <4>1. p[b].begin \in WordsToJoin(k)
          BY <1>5, <1>7, <2>1
        <4> QED BY <4>1, <1>10 DEF PartsOf
      <3> QED BY <1>1, <2>2, <2>4, <3>2, <3>3
    <2>6. JoinedRun(node)
      BY <1>10, <2>3, <2>4 DEF JoinedRun
    <2> HIDE DEF node
    <2> QED BY <1>11, <2>2, <2>3, <2>4, <2>5, <2>6 DEF NodeKept
  <1>13. node.begin = p[b].begin /\ node.end = p[e].end
    OBVIOUS
  <1>14. q = ReplaceRange(p, b, e, node)
    BY DEF ConcatOovNodes
  <1> HIDE DEF node, q
  <1>15. Rewritten(q, p, b, e, node)
    BY <1>5, <1>12, <1>13, <1>14, ReplacedNodes
  <1>16. PartsOf(q[b]) = WordsToJoin(p[a].begin)
    BY <1>10, <1>15 DEF Rewritten, Replaced
  <1> QED BY <1>4, <1>5, <1>6, <1>15, <1>16 DEF q, e, b, range

----------------------------------------------------------------------------
(* The text and the settings do not change.                                *)

Still == UNCHANGED <<text, setting>>

LEMMA SameNumCodepts ==
    ASSUME Still, NEW node
    PROVE  NumCodepts(node)' = NumCodepts(node)
  <1> DEFINE Count(t) == MapThenSumSet(LAMBDA k : t[k].length, PartsOf(node))
  <1>1. NumCodepts(node) = Count(text)
    BY DEF NumCodepts
  <1>2. NumCodepts(node)' = Count(text')
    BY DEF NumCodepts, PartsOf, MapThenSumSet, MapThenFoldSet
  <1>3. text' = text
    BY DEF Still
  <1> HIDE DEF Count
  <1> QED BY <1>1, <1>2, <1>3

\* So the runs of the text, and what is to be joined in them, stay the same.
LEMMA SameBestPath ==
    ASSUME Still
    PROVE  /\ BestPath' = BestPath
           /\ \A k : IsKatakanaWord(k)' <=> IsKatakanaWord(k)
           /\ \A node : /\ IsKatakana(node)' <=> IsKatakana(node)
                        /\ CanOovBow(node)' <=> CanOovBow(node)
                        /\ StartsJoin(node)' <=> StartsJoin(node)
  <1>1. text' = text /\ setting' = setting
    BY DEF Still
  <1>2. BestPath' = BestPath
    BY <1>1 DEF BestPath
  <1>3. ASSUME NEW k PROVE IsKatakanaWord(k)' <=> IsKatakanaWord(k)
    BY <1>1 DEF IsKatakanaWord
  <1>4. ASSUME NEW node
        PROVE  /\ IsKatakana(node)' <=> IsKatakana(node)
               /\ CanOovBow(node)' <=> CanOovBow(node)
               /\ StartsJoin(node)' <=> StartsJoin(node)
    <2>1. CatOfRange(node)' = CatOfRange(node)
      BY <1>1 DEF CatOfRange, PartsOf
    <2>2. IsKatakana(node)' <=> IsKatakana(node)
      BY <2>1 DEF IsKatakana
    <2>3. CanOovBow(node)' <=> CanOovBow(node)
      BY <1>1 DEF CanOovBow, CatAtChar
    <2>4. IsShorter(node)' <=> IsShorter(node)
      BY <1>1, SameNumCodepts DEF IsShorter
    <2>5. StartsJoin(node)' <=> StartsJoin(node)
      BY <2>2, <2>4 DEF StartsJoin
    <2> QED BY <2>2, <2>3, <2>5
  <1> QED BY <1>2, <1>3, <1>4

LEMMA SameWordsToJoin ==
    ASSUME Still, NEW k
    PROVE  /\ WordsToJoin(k)' = WordsToJoin(k)
           /\ MayJoin(k)' <=> MayJoin(k)
  <1>1. text' = text /\ setting' = setting /\ BestPath' = BestPath
    BY SameBestPath DEF Still
  <1>2. ASSUME NEW n PROVE IsKatakana(BestPath[n])' <=> IsKatakana(BestPath[n])
    <2>1. CatOfRange(BestPath[n])' = CatOfRange(BestPath[n])
      BY <1>1 DEF CatOfRange, PartsOf
    <2> QED BY <2>1 DEF IsKatakana
  <1>3. ASSUME NEW n PROVE CanOovBow(BestPath[n])' <=> CanOovBow(BestPath[n])
    BY <1>1 DEF CanOovBow, CatAtChar
  <1>4. ASSUME NEW n PROVE StartsJoin(BestPath[n])' <=> StartsJoin(BestPath[n])
    <2> DEFINE Count(t, s) == MapThenSumSet(LAMBDA l : t[l].length, s)
    <2>1. NumCodepts(BestPath[n]) = Count(text, PartsOf(BestPath[n]))
      BY DEF NumCodepts
    <2>2. NumCodepts(BestPath[n])' = Count(text', PartsOf(BestPath[n])')
      BY DEF NumCodepts, PartsOf, MapThenSumSet, MapThenFoldSet
    <2> HIDE DEF Count
    <2>3. PartsOf(BestPath[n])' = PartsOf(BestPath[n])
      BY <1>1 DEF PartsOf
    <2>4. NumCodepts(BestPath[n])' = NumCodepts(BestPath[n])
      BY <1>1, <2>1, <2>2, <2>3
    <2>5. IsShorter(BestPath[n])' <=> IsShorter(BestPath[n])
      BY <1>1, <2>4 DEF IsShorter
    <2> QED BY <1>1, <1>2, <2>5 DEF StartsJoin
  <1>5. RunOf(BestPath, k)' = RunOf(BestPath, k)
    BY <1>1, <1>2 DEF RunOf
  <1>6. RangeToJoin(BestPath, k)' = RangeToJoin(BestPath, k)
    BY <1>1, <1>3, <1>5 DEF RangeToJoin
  <1>7. WordsToJoin(k)' = WordsToJoin(k)
    BY <1>6 DEF WordsToJoin
  <1>8. MayJoin(k)' <=> MayJoin(k)
    BY <1>4, <1>5, <1>7 DEF MayJoin
  <1> QED BY <1>7, <1>8

\* What is said of the path of the next state is what it says now.
LEMMA SameMeaning ==
    ASSUME Still
    PROVE  /\ NodesKept(path)' <=> NodesKept(path')
           /\ \A k : Settled(path, k)' <=> Settled(path', k)
           /\ SettledTo(path, i)' <=> SettledTo(path', i')
  <1>1. text' = text /\ setting' = setting /\ BestPath' = BestPath
    BY SameBestPath DEF Still
  <1>2. \A k : /\ WordsToJoin(k)' = WordsToJoin(k)
               /\ MayJoin(k)' <=> MayJoin(k)
               /\ IsKatakanaWord(k)' <=> IsKatakanaWord(k)
    BY SameWordsToJoin, SameBestPath
  <1>3. ASSUME NEW k PROVE Settled(path, k)' <=> Settled(path', k)
    BY <1>2 DEF Settled, PartsOf
  <1>4. ASSUME NEW n PROVE NodeKept(path[n])' <=> NodeKept(path'[n])
    <2>1. IsKatakanaWord(path[n].begin)' <=> IsKatakanaWord(path'[n].begin)
      BY <1>1 DEF IsKatakanaWord
    <2>2. Plain(path[n])' <=> Plain(path'[n])
      BY <1>1 DEF Plain
    <2>3. JoinedRun(path[n])' <=> JoinedRun(path'[n])
      BY <1>2 DEF JoinedRun, PartsOf
    <2>4. (\A m \in PartsOf(path[n]) : ~ IsKatakanaWord(m))'
            <=> \A m \in PartsOf(path'[n]) : ~ IsKatakanaWord(m)
      BY <1>1 DEF IsKatakanaWord, PartsOf
    <2> QED BY <1>1, <2>1, <2>2, <2>3, <2>4 DEF NodeKept, Punctuation
  <1>5. NodesKept(path)' <=> NodesKept(path')
    BY <1>4 DEF NodesKept
  <1>6. SettledTo(path, i)' <=> SettledTo(path', i')
    <2>1. ASSUME NEW n
          PROVE  /\ IsKatakanaWord(path[n].begin)' <=> IsKatakanaWord(path'[n].begin)
                 /\ Plain(path[n])' <=> Plain(path'[n])
                 /\ MayJoin(path[n].begin)' <=> MayJoin(path'[n].begin)
                 /\ Settled(path, path[n].begin)' <=> Settled(path', path'[n].begin)
      <3>1. Plain(path[n])' <=> Plain(path'[n])
        BY <1>1 DEF Plain
      <3>2. IsKatakanaWord(path[n].begin)' <=> IsKatakanaWord(path'[n].begin)
        BY <1>1 DEF IsKatakanaWord
      <3>3. MayJoin(path[n].begin)' <=> MayJoin(path'[n].begin)
        BY <1>2
      <3>4. Settled(path, path[n].begin)' <=> Settled(path', path'[n].begin)
        BY <1>2 DEF Settled, PartsOf
      <3> QED BY <3>1, <3>2, <3>3, <3>4
    <2>2. ASSUME NEW n PROVE StartsJoin(path[n])' <=> StartsJoin(path'[n])
      <3> DEFINE Count(t, s) == MapThenSumSet(LAMBDA l : t[l].length, s)
      <3>1. NumCodepts(path'[n]) = Count(text, PartsOf(path'[n]))
        BY DEF NumCodepts
      <3>2. NumCodepts(path[n])' = Count(text', PartsOf(path'[n]))
        BY DEF NumCodepts, PartsOf, MapThenSumSet, MapThenFoldSet
      <3> HIDE DEF Count
      <3>3. NumCodepts(path[n])' = NumCodepts(path'[n])
        BY <1>1, <3>1, <3>2
      <3>4. IsShorter(path[n])' <=> IsShorter(path'[n])
        BY <1>1, <3>3 DEF IsShorter
      <3>5. CatOfRange(path[n])' = CatOfRange(path'[n])
        BY <1>1 DEF CatOfRange, PartsOf
      <3>6. IsKatakana(path[n])' <=> IsKatakana(path'[n])
        BY <3>5 DEF IsKatakana
      <3> QED BY <3>4, <3>6 DEF StartsJoin
    <2> QED BY <2>1, <2>2 DEF SettledTo
  <1> QED BY <1>3, <1>5, <1>6

----------------------------------------------------------------------------
(* Every step keeps what is said of the runs.                              *)

LEMMA PathIsKept ==
    ASSUME IInv, NodesKept(path)
    PROVE  /\ KeptPath(path) /\ IsPath(path) /\ text \in Seq(Words) \ {<<>>}
           /\ Len(path) \in Nat /\ Len(text) \in Nat /\ i \in Nat /\ begin_idx \in Nat
           /\ DOMAIN path = 1..Len(path) /\ DOMAIN text = 1..Len(text)
  <1>1. IsPath(path)
    BY DEF IInv, NodesKept, NodeKept, IsPath
  <1> QED BY <1>1, Lengths DEF KeptPath, IInv

LEMMA RunsAtStart ==
    ASSUME KatakanaApart, Init
    PROVE  RunsInv
  <1>1. IInv /\ text \in Seq(Words) \ {<<>>} /\ path = BestPath
    BY InitInv DEF Init, IInv
  <1>2. /\ Len(text) \in Nat /\ \A k \in 1..Len(text) : text[k] \in Words
    BY <1>1
  <1>3. DOMAIN path = 1..Len(text)
    BY <1>1 DEF BestPath
  <1>4. IsSeq(path) /\ Len(path) = Len(text)
    <2>1. IsSeq(path) /\ Len(path) \in Nat /\ DOMAIN path = 1..Len(path)
      BY <1>1 DEF IInv, Tiles, IsSeq
    <2>2. path = [k \in 1..Len(text) |-> path[k]]
      BY <1>1, <1>3 DEF BestPath
    <2> QED BY <2>1, <2>2, <1>2, MapIsSeq
  <1>5. ASSUME NEW k \in 1..Len(path) PROVE NodeKept(path[k])
    <2>1. k \in 1..Len(text)
      BY <1>4
    <2>2. /\ path[k].begin = k /\ path[k].end = k + 1 /\ path[k].norm = text[k].norm
          /\ PartsOf(path[k]) = {k}
      BY <1>1, <2>1, BestPathFacts
    <2>3. Plain(path[k])
      BY <1>1, <2>2 DEF Plain
    <2>4. IsKatakanaWord(k) => path[k].norm \notin Punctuation
      BY <1>2, <2>1, <2>2 DEF KatakanaApart, IsKatakanaWord
    <2>5. path[k].begin \in 1..Len(text) /\ path[k].end \in path[k].begin + 1..Len(text) + 1
      BY <1>2, <2>1, <2>2
    <2> QED BY <2>2, <2>3, <2>4, <2>5 DEF NodeKept
  <1>6. plugin = 1 /\ i = 0 /\ begin_idx = 0
    BY DEF Init
  <1>7. SettledTo(path, i)
    <2>1. ASSUME NEW n \in 1..Len(path) PROVE ~ (n <= i)
      BY <1>2, <1>4, <1>6
    <2> QED BY <2>1 DEF SettledTo
  <1>8. ~ HasRun
    BY <1>6 DEF HasRun
  <1> QED BY <1>5, <1>6, <1>7, <1>8 DEF RunsInv, NodesKept

LEMMA NumericLoopKeepsRuns ==
    ASSUME KatakanaApart, IInv, RunsInv, ReadNode \/ RefuseNode \/ PassNode
    PROVE  RunsInv'
  <1>1. NodesKept(path) /\ plugin \in Nat \ {0}
    BY DEF RunsInv
  <1>2. /\ Still /\ path' = path /\ plugin' = plugin /\ Running("numeric")
    BY DEF ReadNode, RefuseNode, PassNode, config, Still
  <1>3. ~ Running("katakana")'
    BY <1>2 DEF Running
  <1>4. NodesKept(path)'
    BY <1>1, <1>2, SameMeaning
  <1>5. HasRun' => HasRun
    BY <1>2 DEF HasRun
  <1>6. HasRun' => (\A k \in 1..Len(text) : IsKatakanaWord(k) /\ MayJoin(k) => Settled(path, k))'
    <2>1. SUFFICES ASSUME HasRun'
                   PROVE  (\A k \in 1..Len(text) :
                             IsKatakanaWord(k) /\ MayJoin(k) => Settled(path, k))'
      OBVIOUS
    <2>2. \A k \in 1..Len(text) : IsKatakanaWord(k) /\ MayJoin(k) => Settled(path, k)
      BY <2>1, <1>5 DEF RunsInv
    <2>3. \A k : /\ IsKatakanaWord(k)' <=> IsKatakanaWord(k)
                 /\ MayJoin(k)' <=> MayJoin(k)
                 /\ Settled(path, k)' <=> Settled(path, k)
      BY <1>2, SameBestPath, SameWordsToJoin, SameMeaning
    <2>4. text' = text
      BY <1>2 DEF Still
    <2> QED BY <2>2, <2>3, <2>4
  <1>7. (begin_idx > 0 => \A n \in begin_idx..i : ~ IsKatakanaWord(path[n].begin))'
    <2>1. text' = text
      BY <1>2 DEF Still
    <2>2. CASE begin_idx' = 0
      BY <2>2
    <2>3. CASE ReadNode
      <3>1. /\ i < Len(path) /\ IsNumeric(path[i + 1]) /\ i' = i + 1 /\ begin_idx' = Begin
        BY <2>3 DEF ReadNode, Next1
      <3>2. KeptPath(path) /\ Len(path) \in Nat /\ i \in Nat /\ begin_idx \in Nat
        BY <1>1, PathIsKept
      <3>3. ~ IsKatakanaWord(path[i + 1].begin)
        BY <3>1, <3>2, NumeralsApart
      <3>4. ASSUME NEW n \in Begin..(i + 1) PROVE ~ IsKatakanaWord(path[n].begin)
        <4>1. CASE n = i + 1
          BY <3>3, <4>1
        <4>2. CASE n # i + 1
          <5>1. begin_idx > 0 /\ n \in begin_idx..i
            BY <3>2, <4>2 DEF Begin
          <5> QED BY <5>1 DEF RunsInv
        <4> QED BY <4>1, <4>2
      <3>5. \A n \in begin_idx'..i' : ~ IsKatakanaWord(path[n].begin)'
        BY <1>2, <2>1, <3>1, <3>4 DEF IsKatakanaWord
      <3> QED BY <3>5 DEF IsKatakanaWord
    <2>4. RefuseNode \/ PassNode => begin_idx' = 0
      BY DEF RefuseNode, PassNode
    <2> QED BY <2>2, <2>3, <2>4
  <1> QED BY <1>1, <1>2, <1>3, <1>4, <1>6, <1>7 DEF RunsInv

AllSettled(p) == \A k \in 1..Len(text) : IsKatakanaWord(k) /\ MayJoin(k) => Settled(p, k)

\* What a step that changes the path or the plugin has to show.
LEMMA NextRuns ==
    ASSUME Still, plugin' \in Nat \ {0}, NodesKept(path'), begin_idx' = 0,
           Running("katakana")' => SettledTo(path', i'),
           HasRun' => AllSettled(path')
    PROVE  RunsInv'
  <1>1. text' = text
    BY DEF Still
  <1>2. NodesKept(path)' /\ (Running("katakana") => SettledTo(path, i))'
    BY SameMeaning
  <1>3. (HasRun => \A k \in 1..Len(text) : IsKatakanaWord(k) /\ MayJoin(k) => Settled(path, k))'
    <2>1. SUFFICES ASSUME HasRun'
                   PROVE  (\A k \in 1..Len(text) :
                             IsKatakanaWord(k) /\ MayJoin(k) => Settled(path, k))'
      OBVIOUS
    <2>2. \A k \in 1..Len(text) : IsKatakanaWord(k) /\ MayJoin(k) => Settled(path', k)
      BY <2>1 DEF AllSettled
    <2>3. \A k : /\ IsKatakanaWord(k)' <=> IsKatakanaWord(k)
                 /\ MayJoin(k)' <=> MayJoin(k)
                 /\ Settled(path, k)' <=> Settled(path', k)
      BY SameBestPath, SameWordsToJoin, SameMeaning
    <2> QED BY <1>1, <2>2, <2>3
  <1> QED BY <1>2, <1>3 DEF RunsInv

LEMMA ConcatKeeps ==
    ASSUME NEW p, KeptPath(p), NEW b \in 1..Len(p), NEW e \in b..Len(p),
           \A n \in b..e : ~ IsKatakanaWord(p[n].begin), NEW read
    PROVE  NodesKept(Concat(p, b, e, read)) /\ KeepsSettled(p, Concat(p, b, e, read))
  <1>1. ASSUME NEW norm
        PROVE  /\ NodesKept(ConcatNodes(p, b, e, norm))
               /\ KeepsSettled(p, ConcatNodes(p, b, e, norm))
    <2> DEFINE node == [begin |-> p[b].begin, end |-> p[e].end, norm |-> norm,
                        is_numeral_pos |-> p[b].is_numeral_pos, oov |-> TRUE]
    <2>1. node.begin = p[b].begin /\ node.end = p[e].end
      OBVIOUS
    <2>2. ConcatNodes(p, b, e, norm) = ReplaceRange(p, b, e, node)
      BY DEF ConcatNodes
    <2> HIDE DEF node
    <2>3. /\ KeptPath(ReplaceRange(p, b, e, node))
          /\ KeepsSettled(p, ReplaceRange(p, b, e, node))
      BY <2>1, NumericJoinKeeps
    <2> QED BY <2>2, <2>3 DEF KeptPath
  <1>2. \/ Concat(p, b, e, read) = p
        \/ \E norm : Concat(p, b, e, read) = ConcatNodes(p, b, e, norm)
    BY DEF Concat
  <1>3. NodesKept(p) /\ KeepsSettled(p, p)
    BY DEF KeptPath, KeepsSettled
  <1> QED BY <1>1, <1>2, <1>3

\* JoinNumericPlugin joins nodes that were read as a numeral.
LEMMA NumeralsKeepRuns ==
    ASSUME IInv, RunsInv, begin_idx > 0, NEW read, NEW error
    PROVE  /\ NodesKept(Concat(path, begin_idx, i, read))
           /\ KeepsSettled(path, Concat(path, begin_idx, i, read))
           /\ StoppedAt(path, i, error) =>
                 /\ NodesKept(Concat(path, begin_idx, i - 1, read))
                 /\ KeepsSettled(path, Concat(path, begin_idx, i - 1, read))
  <1>1. NodesKept(path) /\ \A n \in begin_idx..i : ~ IsKatakanaWord(path[n].begin)
    BY DEF RunsInv
  <1>2. /\ KeptPath(path) /\ Len(path) \in Nat /\ i \in Nat /\ begin_idx \in Nat
        /\ begin_idx <= i /\ i <= Len(path) /\ path[begin_idx].norm \notin Punctuation
    BY <1>1, PathIsKept DEF IInv, ReadingOK
  <1>3. begin_idx \in 1..Len(path) /\ i \in begin_idx..Len(path)
    BY <1>2
  <1>4. ASSUME StoppedAt(path, i, error)
        PROVE  /\ i - 1 \in begin_idx..Len(path)
               /\ \A n \in begin_idx..i - 1 : ~ IsKatakanaWord(path[n].begin)
    <2>1. path[i].norm \in Punctuation
      BY <1>4 DEF StoppedAt, Punctuation
    <2>2. begin_idx # i
      BY <1>2, <2>1
    <2>3. \A n \in begin_idx..i - 1 : n \in begin_idx..i
      BY <1>2
    <2> QED BY <1>1, <1>2, <2>2, <2>3
  <1> QED BY <1>1, <1>2, <1>3, <1>4, ConcatKeeps

LEMMA NumericEndKeepsRuns ==
    ASSUME KatakanaApart, IInv, RunsInv, EndNumeral \/ LastPart
    PROVE  RunsInv'
  <1>0. /\ NodesKept(path) /\ plugin \in Nat \ {0} /\ Running("numeric") /\ Still
        /\ (HasRun => AllSettled(path))
    BY DEF RunsInv, EndNumeral, LastPart, NextPlugin, config, Still, AllSettled
  <1>1. KeptPath(path) /\ Len(path) \in Nat /\ i \in Nat /\ begin_idx \in Nat
    BY <1>0, PathIsKept
  <1>2. KeepsSettled(path, path)
    BY DEF KeepsSettled
  <1>3. NodesKept(path') /\ KeepsSettled(path, path') /\ begin_idx' = 0
    <2>1. CASE EndNumeral
      <3> DEFINE done == Done(parser)
                 error == done.parser.error_state
      <3>1. /\ begin_idx > 0 /\ begin_idx' = 0
            /\ \/ path' = Concat(path, begin_idx, i, done.parser)
               \/ /\ StoppedAt(path, i, error)
                  /\ path' = Concat(path, begin_idx, i - 1, done.parser)
               \/ path' = path
        BY <2>1 DEF EndNumeral
      <3> HIDE DEF done, error
      <3> QED BY <3>1, <1>0, <1>2, NumeralsKeepRuns
    <2>2. CASE LastPart
      <3> DEFINE done == Done(parser)
                 error == done.parser.error_state
      <3>1. /\ begin_idx' = 0 /\ i >= Len(path)
            /\ path' = IF begin_idx = 0 THEN path
                       ELSE IF done.ok THEN Concat(path, begin_idx, Len(path), done.parser)
                       ELSE IF StoppedAt(path, Len(path), error)
                       THEN Concat(path, begin_idx, Len(path) - 1, done.parser)
                       ELSE path
        BY <2>2 DEF LastPart, NextPlugin
      <3> HIDE DEF done, error
      <3>2. CASE begin_idx = 0
        BY <3>1, <3>2, <1>0, <1>2
      <3>3. CASE begin_idx # 0
        <4>1. begin_idx > 0 /\ i = Len(path)
          BY <3>1, <3>3, <1>1 DEF IInv, ReadingOK
        <4> QED BY <3>1, <4>1, <1>0, <1>2, NumeralsKeepRuns
      <3> QED BY <3>2, <3>3
    <2> QED BY <2>1, <2>2
  <1>4. plugin' \in Nat \ {0} /\ (Running("katakana")' => SettledTo(path', i'))
    <2>1. CASE EndNumeral
      <3>1. plugin' = plugin
        BY <2>1 DEF EndNumeral
      <3> QED BY <3>1, <1>0 DEF Running
    <2>2. CASE LastPart
      <3>1. plugin' = plugin + 1 /\ i' = 0
        BY <2>2 DEF LastPart, NextPlugin
      <3>2. ASSUME NEW n \in 1..Len(path') PROVE ~ (n <= 0)
        OBVIOUS
      <3>3. SettledTo(path', 0)
        BY <3>2 DEF SettledTo
      <3> QED BY <3>1, <3>3, <1>0
    <2> QED BY <2>1, <2>2
  <1>5. HasRun' => HasRun
    <2>1. plugin' = plugin \/ plugin' = plugin + 1
      BY DEF EndNumeral, LastPart, NextPlugin
    <2>2. \A q \in 1..plugin' - 1 : q \in 1..plugin - 1 \/ q = plugin
      BY <1>0, <2>1
    <2>3. Plugins[plugin] # "katakana"
      BY <1>0 DEF Running
    <2> QED BY <2>2, <2>3 DEF HasRun
  <1>6. HasRun' => AllSettled(path')
    BY <1>0, <1>3, <1>5 DEF AllSettled, KeepsSettled
  <1> QED BY <1>0, <1>3, <1>4, <1>6, NextRuns

\* A node that calls for no join, or that another one has joined already.
LEMMA PassKatakanaKeepsRuns ==
    ASSUME IInv, RunsInv, PassKatakana
    PROVE  RunsInv'
  <1>0. /\ NodesKept(path) /\ plugin \in Nat \ {0} /\ Running("katakana") /\ Still
        /\ (HasRun => AllSettled(path)) /\ SettledTo(path, i)
        /\ path' = path /\ i' = i + 1 /\ plugin' = plugin /\ begin_idx' = begin_idx
        /\ i < Len(path)
    BY DEF RunsInv, PassKatakana, config, numeric, Still, AllSettled
  <1>1. KeptPath(path) /\ Len(path) \in Nat /\ i \in Nat /\ begin_idx \in Nat
        /\ DOMAIN path = 1..Len(path)
    BY <1>0, PathIsKept
  <1>2. begin_idx = 0
    BY <1>0, <1>1 DEF IInv, ReadingOK, Running
  <1> DEFINE n == i + 1
  <1>3. n \in 1..Len(path) /\ StartsJoin(path[n]) => ~ (Cardinality(RangeToJoin(path, n)) > 1)
    <2>1. StartsJoin(path[n]) => Cardinality(RangeToJoin(path, n)) <= 1
      BY DEF PassKatakana, Next1
    <2>2. IsFiniteSet(1..Len(path)) /\ RangeToJoin(path, n) \subseteq 1..Len(path)
      BY <1>1, FS_Interval DEF RangeToJoin, RunOf
    <2>3. Cardinality(RangeToJoin(path, n)) \in Nat
      BY <2>2, FS_Subset, FS_CardinalityType
    <2> QED BY <2>1, <2>3
  <1>4. n \in 1..Len(path)
    BY <1>0, <1>1
  <1> HIDE DEF n
  <1>5. ASSUME StartsJoin(path[n]), MayJoin(path[n].begin) PROVE Settled(path, path[n].begin)
    <2>1. CASE \A c \in RunOf(path, n) : Plain(path[c])
      <3>1. Cardinality(RangeToJoin(path, n)) = Cardinality(WordsToJoin(path[n].begin))
        BY <1>1, <1>4, <2>1, RangeOfPlain
      <3>2. Cardinality(WordsToJoin(path[n].begin)) > 1
        BY <1>5 DEF MayJoin
      <3> QED BY <1>3, <1>4, <1>5, <3>1, <3>2
    <2>2. CASE \E c \in RunOf(path, n) : ~ Plain(path[c])
      <3>1. PICK c \in RunOf(path, n) : ~ Plain(path[c])
        BY <2>2
      <3>2. c \in 1..Len(path) /\ IsKatakana(path[c])
        <4>1. c \in 1..Len(path) /\ n \in Nat /\ c \in Nat
          BY <1>1, <1>4 DEF RunOf
        <4>2. (n <= c /\ c <= c) \/ (c <= c /\ c <= n)
          BY <4>1
        <4> QED BY <1>1, <4>1, <4>2 DEF RunOf
      <3>3. JoinedRun(path[c])
        BY <1>1, <3>1, <3>2, PartsAlike
      <3> QED BY <1>1, <1>4, <3>3, JoinedIsAll
    <2> QED BY <2>1, <2>2
  <1>6. SettledTo(path, n)
    <2>1. ASSUME NEW m \in 1..Len(path), m <= n, IsKatakanaWord(path[m].begin),
                 Plain(path[m]), StartsJoin(path[m]), MayJoin(path[m].begin)
          PROVE  Settled(path, path[m].begin)
      <3>1. CASE m = n
        BY <2>1, <3>1, <1>5
      <3>2. CASE m # n
        <4>1. m <= i
          BY <2>1, <3>2, <1>1 DEF n
        <4> QED BY <2>1, <4>1, <1>0 DEF SettledTo
      <3> QED BY <3>1, <3>2
    <2> QED BY <2>1 DEF SettledTo
  <1>7. HasRun' => AllSettled(path')
    BY <1>0 DEF HasRun
  <1>8. SettledTo(path', i')
    BY <1>0, <1>6 DEF n
  <1>9. begin_idx' = 0 /\ plugin' \in Nat \ {0} /\ NodesKept(path')
    BY <1>0, <1>2
  <1> QED BY <1>0, <1>7, <1>8, <1>9, NextRuns

\* JoinKatakanaOovPlugin joins, and goes on behind the node.
LEMMA JoinKatakanaKeepsRuns ==
    ASSUME KatakanaApart, IInv, RunsInv, JoinKatakana
    PROVE  RunsInv'
  <1> DEFINE a == i + 1
             range == RangeToJoin(path, a)
             b == FirstOf(range, 0)
             e == b + Cardinality(range) - 1
             q == ConcatOovNodes(path, b, e)
             k == path[a].begin
  <1>0. /\ NodesKept(path) /\ plugin \in Nat \ {0} /\ Running("katakana") /\ Still
        /\ (HasRun => AllSettled(path)) /\ SettledTo(path, i)
        /\ path' = q /\ i' = b + 1 /\ plugin' = plugin /\ begin_idx' = begin_idx
        /\ i < Len(path) /\ StartsJoin(path[a]) /\ Cardinality(range) > 1
    BY DEF RunsInv, JoinKatakana, config, numeric, Still, AllSettled, Next1
  <1>1. KeptPath(path) /\ Len(path) \in Nat /\ i \in Nat /\ begin_idx \in Nat
        /\ DOMAIN path = 1..Len(path) /\ text \in Seq(Words) \ {<<>>} /\ IsPath(path)
    BY <1>0, PathIsKept
  <1>2. begin_idx = 0
    BY <1>0, <1>1 DEF IInv, ReadingOK, Running
  <1>3. a \in 1..Len(path)
    BY <1>0, <1>1
  <1> HIDE DEF a
  <1>4. /\ \A c \in RunOf(path, a) : Plain(path[c])
        /\ b \in 1..Len(path) /\ e \in b..Len(path) /\ range = b..e
        /\ PartsOf(q[b]) = WordsToJoin(k)
        /\ \E node : Rewritten(q, path, b, e, node)
    BY <1>0, <1>1, <1>3, KatakanaJoin
  <1>5. range \subseteq RunOf(path, a) /\ RunOf(path, a) \subseteq 1..Len(path)
    BY <1>1 DEF RangeToJoin, RunOf
  <1> HIDE DEF q, e, b, range
  <1>6. PICK node : Rewritten(q, path, b, e, node)
    BY <1>4
  <1>7. /\ NodesKept(q) /\ KeptPath(q) /\ Len(q) = Len(path) - (e - b) /\ b \in 1..Len(q)
        /\ \A n \in 1..b - 1 : q[n] = path[n]
        /\ \A n \in 1..Len(path) - e : q[b + n] = path[e + n]
    BY <1>6 DEF Rewritten, Replaced, KeptPath
  <1>8. b \in Nat /\ e \in Nat /\ a \in Nat /\ 1 <= b /\ b <= e /\ e <= Len(path)
    BY <1>1, <1>3, <1>4
  <1>9. k \in 1..Len(text)
    BY <1>1, <1>3, PartsAlike
  <1>10. Settled(q, k)
    BY <1>4, <1>7 DEF Settled
  \* What is joined elsewhere is not touched.
  <1>11. ASSUME NEW l, MayJoin(l), Settled(path, l) PROVE Settled(q, l)
    <2>1. ASSUME NEW n \in b..e PROVE PartsOf(path[n]) # WordsToJoin(l)
      <3>1. n \in RunOf(path, a) /\ n \in 1..Len(path)
        BY <1>4, <1>5
      <3>2. Plain(path[n]) /\ path[n].begin \in 1..Len(text)
        BY <1>1, <1>4, <3>1, PartsAlike
      <3>3. PartsOf(path[n]) = {path[n].begin}
        BY <1>1, <3>2, BestPathFacts DEF Plain
      <3>4. Cardinality(PartsOf(path[n])) = 1
        BY <3>3, FS_Singleton
      <3> QED BY <1>11, <3>4 DEF MayJoin
    <2> QED BY <1>1, <1>4, <1>6, <1>11, <2>1, StaysSettled
  \* A word of the run is settled by the new node.
  <1>12. ASSUME NEW n \in RunOf(path, a) PROVE Settled(q, path[n].begin)
    <2>1. n \in 1..Len(path)
      BY <1>5
    <2>2. path[n].begin \in RunOf(BestPath, k)
      BY <1>1, <1>3, <2>1, RunsMatch
    <2>3. WordsToJoin(path[n].begin) = WordsToJoin(k)
      BY <1>1, <1>9, <2>2, SameRun
    <2> QED BY <1>10, <2>3 DEF Settled
  <1>13. a \in RunOf(path, a) /\ b \in RunOf(path, a) /\ e \in RunOf(path, a)
    <2>1. IsKatakana(path[a])
      BY <1>0 DEF StartsJoin
    <2>2. \A n \in 1..Len(path) : (a <= n /\ n <= a) => n = a
      BY <1>8
    <2>3. a \in RunOf(path, a)
      BY <1>1, <1>3, <2>1, <2>2 DEF RunOf
    <2>4. b \in b..e /\ e \in b..e
      BY <1>8
    <2> QED BY <1>4, <1>5, <2>3, <2>4
  <1>14. SettledTo(q, b + 1)
    <2>1. SUFFICES ASSUME NEW n \in 1..Len(q), n <= b + 1, IsKatakanaWord(q[n].begin),
                          Plain(q[n]), StartsJoin(q[n]), MayJoin(q[n].begin)
                   PROVE  Settled(q, q[n].begin)
      BY DEF SettledTo
    <2>2. CASE n < b
      <3>1. n \in 1..b - 1 /\ n \in 1..Len(path) /\ n \in Nat
        BY <2>2, <1>1, <1>7, <1>8
      <3>2. q[n] = path[n]
        BY <3>1, <1>7
      <3>3. CASE n \in RunOf(path, a)
        BY <3>2, <3>3, <1>12
      <3>4. CASE n \notin RunOf(path, a)
        <4>1. n <= i
          <5>1. CASE n > a
            <6>1. \A x \in 1..Len(path) : (a <= x /\ x <= n) \/ (n <= x /\ x <= a) =>
                      (a <= x /\ x <= b) \/ (b <= x /\ x <= a)
              BY <2>2, <3>1, <5>1, <1>8
            <6>2. n \in RunOf(path, a)
              BY <6>1, <3>1, <1>1, <1>13 DEF RunOf
            <6> QED BY <6>2, <3>4
          <5>2. CASE n = a
            BY <5>2, <3>4, <1>13
          <5>3. CASE n < a
            BY <5>3, <3>1, <1>1 DEF a
          <5> QED BY <5>1, <5>2, <5>3, <3>1, <1>8
        <4>2. Settled(path, path[n].begin)
          BY <2>1, <3>1, <3>2, <4>1, <1>0 DEF SettledTo
        <4> QED BY <2>1, <3>2, <4>2, <1>11
      <3> QED BY <3>3, <3>4
    <2>3. CASE n = b
      <3>1. q[b].begin \in WordsToJoin(k)
        BY <1>4, <1>7, PartsAlike
      <3>2. q[b].begin \in RunOf(BestPath, k)
        BY <3>1, <1>1, <1>9, ToJoin
      <3>3. WordsToJoin(q[b].begin) = WordsToJoin(k)
        BY <3>2, <1>1, <1>9, SameRun
      <3> QED BY <2>3, <3>3, <1>10 DEF Settled
    <2>4. CASE n > b
      <3>1. n = b + 1 /\ e + 1 \in 1..Len(path) /\ 1 \in 1..Len(path) - e
        <4>1. n = b + 1 /\ n \in Nat
          BY <2>1, <2>4, <1>1, <1>8
        <4>2. n <= Len(path) - (e - b)
          BY <1>7, <1>1, <1>8
        <4> QED BY <4>1, <4>2, <1>1, <1>8
      <3>2. q[n] = path[e + 1]
        BY <3>1, <1>7
      <3>3. IsKatakana(path[e + 1])
        BY <2>1, <3>1, <3>2, <1>1, PartsAlike
      <3>4. \A x \in 1..Len(path) :
              (a <= x /\ x <= e + 1) \/ (e + 1 <= x /\ x <= a) =>
                  x = e + 1 \/ (a <= x /\ x <= e) \/ (e <= x /\ x <= a)
        BY <1>8
      <3>5. \A x \in 1..Len(path) : (a <= x /\ x <= e) \/ (e <= x /\ x <= a) => IsKatakana(path[x])
        BY <1>1, <1>13 DEF RunOf
      <3>6. e + 1 \in RunOf(path, a)
        BY <3>1, <3>3, <3>4, <3>5, <1>1 DEF RunOf
      <3> QED BY <3>2, <3>6, <1>12
    <2>5. n \in Nat
      BY <1>1, <1>7, <1>8
    <2> QED BY <2>2, <2>3, <2>4, <2>5, <1>8
  <1>15. HasRun' => AllSettled(q)
    <2>1. HasRun' => HasRun
      BY <1>0 DEF HasRun
    <2> QED BY <2>1, <1>0, <1>11 DEF AllSettled
  <1>16. /\ begin_idx' = 0 /\ plugin' \in Nat \ {0} /\ NodesKept(path')
         /\ (HasRun' => AllSettled(path')) /\ SettledTo(path', i')
    BY <1>0, <1>2, <1>7, <1>14, <1>15
  <1> QED BY <1>0, <1>16, NextRuns

\* A word of katakana is alone in its node, or in what is joined of its run.
LEMMA WordIsKept ==
    ASSUME NEW p, KeptPath(p), NEW m \in 1..Len(text), IsKatakanaWord(m)
    PROVE  \E n \in 1..Len(p) :
              \/ p[n] = BestPath[m] /\ p[n].begin = m
              \/ m \in WordsToJoin(m) /\ MayJoin(m) /\ PartsOf(p[n]) = WordsToJoin(m)
  <1>1. IsPath(p) /\ text \in Seq(Words) \ {<<>>}
    BY DEF KeptPath, IsPath
  <1>2. PICK n \in 1..Len(p) : m \in PartsOf(p[n])
    BY <1>1, NodeOfWord
  <1>3. IsKatakanaWord(p[n].begin) /\ p[n].begin \in 1..Len(text)
    BY <1>2, PartsAlike
  <1>4. CASE Plain(p[n])
    <2>1. PartsOf(p[n]) = {p[n].begin}
      BY <1>1, <1>3, <1>4, BestPathFacts DEF Plain
    <2> QED BY <1>2, <1>4, <2>1 DEF Plain
  <1>5. CASE JoinedRun(p[n])
    <2>1. m \in WordsToJoin(p[n].begin) /\ MayJoin(p[n].begin)
      BY <1>2, <1>5 DEF JoinedRun
    <2>2. m \in RunOf(BestPath, p[n].begin)
      BY <2>1, <1>1, <1>3, ToJoin
    <2>3. WordsToJoin(m) = WordsToJoin(p[n].begin) /\ (MayJoin(m) <=> MayJoin(p[n].begin))
      BY <2>2, <1>1, <1>3, SameRun
    <2> QED BY <1>5, <2>1, <2>3 DEF JoinedRun
  <1> QED BY <1>3, <1>4, <1>5, PartsAlike

\* At its end JoinKatakanaOovPlugin has passed every node.
LEMMA EndKatakanaKeepsRuns ==
    ASSUME IInv, RunsInv, EndKatakana
    PROVE  RunsInv'
  <1>0. /\ NodesKept(path) /\ plugin \in Nat \ {0} /\ Running("katakana") /\ Still
        /\ SettledTo(path, i) /\ i >= Len(path)
        /\ path' = path /\ i' = 0 /\ plugin' = plugin + 1 /\ begin_idx' = 0
    BY DEF RunsInv, EndKatakana, NextPlugin, config, Still
  <1>1. KeptPath(path) /\ Len(path) \in Nat /\ i \in Nat /\ text \in Seq(Words) \ {<<>>}
    BY <1>0, PathIsKept
  <1>2. ASSUME NEW k \in 1..Len(text), IsKatakanaWord(k), MayJoin(k) PROVE Settled(path, k)
    <2>1. PICK m \in RunOf(BestPath, k) : StartsJoin(BestPath[m])
      BY <1>2 DEF MayJoin
    <2>2. /\ m \in 1..Len(text) /\ IsKatakanaWord(m) /\ MayJoin(m)
          /\ WordsToJoin(m) = WordsToJoin(k)
      BY <1>1, <1>2, <2>1, SameRun
    <2>3. PICK n \in 1..Len(path) :
              \/ path[n] = BestPath[m] /\ path[n].begin = m
              \/ m \in WordsToJoin(m) /\ MayJoin(m) /\ PartsOf(path[n]) = WordsToJoin(m)
      BY <1>1, <2>2, WordIsKept
    <2>4. CASE path[n] = BestPath[m] /\ path[n].begin = m
      <3>1. n <= i
        BY <1>0, <1>1
      <3>2. Plain(path[n]) /\ StartsJoin(path[n])
        BY <2>1, <2>4 DEF Plain
      <3>3. Settled(path, m)
        BY <1>0, <2>2, <2>4, <3>1, <3>2 DEF SettledTo
      <3> QED BY <2>2, <3>3 DEF Settled
    <2>5. CASE PartsOf(path[n]) = WordsToJoin(m)
      BY <2>2, <2>5 DEF Settled
    <2> QED BY <2>3, <2>4, <2>5
  <1>3. ASSUME NEW n \in 1..Len(path') PROVE ~ (n <= 0)
    OBVIOUS
  <1>4. /\ SettledTo(path', i') /\ NodesKept(path') /\ plugin' \in Nat \ {0}
        /\ AllSettled(path')
    BY <1>0, <1>2, <1>3 DEF SettledTo, AllSettled
  <1> QED BY <1>0, <1>4, NextRuns

LEMMA StepKeepsRuns ==
    ASSUME KatakanaApart, IInv, RunsInv, [Next]_vars
    PROVE  RunsInv'
  <1>1. CASE ReadNode \/ RefuseNode \/ PassNode
    BY <1>1, NumericLoopKeepsRuns
  <1>2. CASE EndNumeral \/ LastPart
    BY <1>2, NumericEndKeepsRuns
  <1>3. CASE PassKatakana
    BY <1>3, PassKatakanaKeepsRuns
  <1>4. CASE JoinKatakana
    BY <1>4, JoinKatakanaKeepsRuns
  <1>5. CASE EndKatakana
    BY <1>5, EndKatakanaKeepsRuns
  <1>6. CASE UNCHANGED vars
    <2>1. /\ Still /\ path' = path /\ plugin' = plugin /\ i' = i /\ begin_idx' = begin_idx
          /\ text' = text
      BY <1>6 DEF vars, numeric, Still
    <2>2. NodesKept(path)' /\ (Running("katakana") => SettledTo(path, i))'
      BY <2>1, SameMeaning DEF RunsInv, Running
    <2>3. \A k : /\ IsKatakanaWord(k)' <=> IsKatakanaWord(k)
                 /\ MayJoin(k)' <=> MayJoin(k)
                 /\ Settled(path, k)' <=> Settled(path, k)
      BY <2>1, SameBestPath, SameWordsToJoin, SameMeaning
    <2>4. (HasRun => \A k \in 1..Len(text) : IsKatakanaWord(k) /\ MayJoin(k) => Settled(path, k))'
      <3>1. HasRun' => HasRun
        BY <2>1 DEF HasRun
      <3>2. HasRun => \A k \in 1..Len(text) : IsKatakanaWord(k) /\ MayJoin(k) => Settled(path, k)
        BY DEF RunsInv
      <3> QED BY <2>1, <2>3, <3>1, <3>2
    <2>5. (begin_idx > 0 => \A n \in begin_idx..i : ~ IsKatakanaWord(path[n].begin))'
      <3>1. begin_idx > 0 => \A n \in begin_idx..i : ~ IsKatakanaWord(path[n].begin)
        BY DEF RunsInv
      <3> QED BY <2>1, <3>1 DEF IsKatakanaWord
    <2> QED BY <2>1, <2>2, <2>4, <2>5 DEF RunsInv
  <1> QED BY <1>1, <1>2, <1>3, <1>4, <1>5, <1>6 DEF Next

\* What the property asks for when all plugins have run.
LEMMA RunsFollow ==
    ASSUME IInv, RunsInv, Len(Plugins) \in Nat,
           \E q \in 1..Len(Plugins) : Plugins[q] = "katakana"
    PROVE  KatakanaRunsJoined
  <1>1. SUFFICES ASSUME plugin > Len(Plugins), NEW k \in 1..Len(text), IsKatakana(BestPath[k])
                 PROVE  LET run == RunOf(BestPath, k)
                            later == {m \in run : \A n \in run : n <= m => ~ CanOovBow(BestPath[n])}
                            joined == run \ later
                        IN  IF Cardinality(joined) > 1 /\ \E m \in run : StartsJoin(BestPath[m])
                            THEN /\ \E n \in DOMAIN path : PartsOf(path[n]) = joined
                                 /\ \A m \in later : BestPath[m] \in ToSet(path)
                            ELSE \A m \in run : BestPath[m] \in ToSet(path)
    <2>1. DOMAIN text = 1..Len(text)
      BY DEF IInv
    <2> QED BY <1>1, <2>1 DEF KatakanaRunsJoined
  <1> DEFINE run == RunOf(BestPath, k)
             later == {m \in run : \A n \in run : n <= m => ~ CanOovBow(BestPath[n])}
             joined == run \ later
  <1>2. NodesKept(path) /\ HasRun /\ AllSettled(path)
    <2>1. HasRun
      BY <1>1 DEF HasRun, RunsInv
    <2> QED BY <2>1 DEF RunsInv, AllSettled
  <1>3. /\ KeptPath(path) /\ Len(path) \in Nat /\ text \in Seq(Words) \ {<<>>}
        /\ DOMAIN path = 1..Len(path)
    BY <1>2, PathIsKept
  <1>4. joined = WordsToJoin(k) /\ IsKatakanaWord(k)
    <2>1. joined = WordsToJoin(k)
      BY DEF WordsToJoin, RangeToJoin
    <2>2. IsKatakanaWord(k)
      BY <1>1, <1>3, BestPathFacts
    <2> QED BY <2>1, <2>2
  <1>5. MayJoin(k) <=> Cardinality(joined) > 1 /\ \E m \in run : StartsJoin(BestPath[m])
    BY <1>4 DEF MayJoin
  <1>6. later \subseteq run
    OBVIOUS
  <1>7. ASSUME NEW m \in run, m \in later \/ ~ MayJoin(k) PROVE BestPath[m] \in ToSet(path)
    <2>1. /\ m \in 1..Len(text) /\ IsKatakanaWord(m)
          /\ WordsToJoin(m) = WordsToJoin(k)
          /\ MayJoin(m) <=> MayJoin(k)
      BY <1>3, SameRun
    <2>2. PICK n \in 1..Len(path) :
              \/ path[n] = BestPath[m] /\ path[n].begin = m
              \/ m \in WordsToJoin(m) /\ MayJoin(m) /\ PartsOf(path[n]) = WordsToJoin(m)
      BY <1>3, <2>1, WordIsKept
    <2>3. m \in later => m \notin WordsToJoin(k)
      BY <1>4
    <2>4. path[n] = BestPath[m]
      BY <1>7, <2>1, <2>2, <2>3
    <2> QED BY <1>3, <2>4 DEF ToSet
  <1> HIDE DEF later, joined
  <1>8. CASE MayJoin(k)
    <2>1. \E n \in DOMAIN path : PartsOf(path[n]) = joined
      BY <1>2, <1>3, <1>4, <1>8 DEF AllSettled, Settled
    <2>2. \A m \in later : BestPath[m] \in ToSet(path)
      BY <1>6, <1>7
    <2>3. Cardinality(joined) > 1 /\ \E m \in run : StartsJoin(BestPath[m])
      BY <1>5, <1>8
    <2> HIDE DEF run
    <2> QED BY <2>1, <2>2, <2>3 DEF joined, later, run
  <1>9. CASE ~ MayJoin(k)
    <2>1. \A m \in run : BestPath[m] \in ToSet(path)
      BY <1>7, <1>9
    <2>2. ~ (Cardinality(joined) > 1 /\ \E m \in run : StartsJoin(BestPath[m]))
      BY <1>5, <1>9
    <2> HIDE DEF run
    <2> QED BY <2>1, <2>2 DEF joined, later, run
  <1> QED BY <1>8, <1>9

\* In whatever order the plugins run and however often, a run of katakana nodes
\* with an OOV or a short word in it is one node at the end, from the first
\* that an OOV may begin with, and every other katakana node is as it was: it
\* does not matter at which node of the run JoinKatakanaOovPlugin found it.
THEOREM KatakanaRunsJoinedCorrect ==
    ASSUME KatakanaApart, Len(Plugins) \in Nat,
           \E q \in 1..Len(Plugins) : Plugins[q] = "katakana"
    PROVE  Spec => []KatakanaRunsJoined
  <1>1. Init => IInv /\ RunsInv
    BY InitInv, RunsAtStart
  <1>2. IInv /\ RunsInv /\ [Next]_vars => IInv' /\ RunsInv'
    BY StepInv, StepKeepsRuns
  <1>3. IInv /\ RunsInv => KatakanaRunsJoined
    BY RunsFollow
  <1> QED BY <1>1, <1>2, <1>3, PTL DEF Spec
=============================================================================
