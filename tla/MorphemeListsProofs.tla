------------------------ MODULE MorphemeListsProofs ------------------------
(***************************************************************************)
(* Proofs about Tokenizer and MorphemeLists, for every dictionary, every   *)
(* best path and any number of lists: the nodes of a list belong to its    *)
(* input, and, when the units of the dictionary make up their words, where *)
(* the words of a result and of a list lie in the text.                    *)
(***************************************************************************)
EXTENDS MorphemeLists, SequenceFacts

----------------------------------------------------------------------------
(* Result nodes.                                                           *)

InfoOK(info) == info.a \in Seq(Ref) /\ info.b \in Seq(Ref)

\* The nodes of p were made for the text t.
NodesFor(p, t) == IsSeq(p) /\ \A x \in Elems(p) : x.text = t /\ InfoOK(x.info)

LEMMA ResolveAllRange ==
    ASSUME NEW refs \in Seq(Ref), NEW dict \in 0..OovDict
    PROVE  ResolveAll(refs, dict) \in Seq(Ref)
  <1>1. \A r \in Ref : ResolveRef(r, dict) \in Ref
    BY DEF ResolveRef, Ref
  <1> DEFINE f == [k \in 1..Len(refs) |-> ResolveRef(refs[k], dict)]
  <1>2. ResolveAll(refs, dict) = f
    BY DEF ResolveAll
  <1>3. f \in [1..Len(refs) -> Ref] /\ Len(refs) \in Nat
    BY <1>1
  <1> HIDE DEF f
  <1>4. QED
    BY <1>2, <1>3

\* The info of a word, and its units when they were asked for.
LEMMA WordInfoRange ==
    ASSUME NEW w \in WordId, NEW s
    PROVE  LET info == GetWordInfoSubset(w, s)
           IN  /\ InfoOK(info)
               /\ "SPLIT_A" \in s => \A k \in DOMAIN info.a : info.a[k] \in WordId
               /\ "SPLIT_B" \in s => \A k \in DOMAIN info.b : info.b[k] \in WordId
  <1> DEFINE raw == Parse(w, s)
             info == GetWordInfoSubset(w, s)
  <1>1. /\ w[1] \in 0..OovDict /\ Info[w].a \in Seq(Ref) /\ Info[w].b \in Seq(Ref)
        /\ \A k \in DOMAIN Info[w].a : ResolveRef(Info[w].a[k], w[1]) \in WordId
        /\ \A k \in DOMAIN Info[w].b : ResolveRef(Info[w].b[k], w[1]) \in WordId
    BY InfoAssumption DEF Ref, Range
  <1>2. /\ raw.a = IF s \cap {"SPLIT_A", "WORD_STRUCTURE"} # {} THEN Info[w].a ELSE <<>>
        /\ raw.b = IF s \cap {"SPLIT_B", "SPLIT_A", "WORD_STRUCTURE"} # {}
                   THEN Info[w].b ELSE <<>>
    BY DEF Parse
  <1>3. raw.a \in Seq(Ref) /\ raw.b \in Seq(Ref)
    BY <1>1, <1>2
  <1>4. /\ info.a = IF "SPLIT_A" \in s THEN ResolveAll(raw.a, w[1]) ELSE raw.a
        /\ info.b = IF "SPLIT_B" \in s THEN ResolveAll(raw.b, w[1]) ELSE raw.b
    BY DEF GetWordInfoSubset, Resolve, Parse
  <1> HIDE DEF raw, info
  <1>5. InfoOK(info)
    BY <1>1, <1>3, <1>4, ResolveAllRange DEF InfoOK
  <1>6. "SPLIT_A" \in s => \A k \in DOMAIN info.a : info.a[k] \in WordId
    <2>1. SUFFICES ASSUME "SPLIT_A" \in s
                   PROVE  \A k \in DOMAIN info.a : info.a[k] \in WordId
      OBVIOUS
    <2>2. raw.a = Info[w].a /\ info.a = ResolveAll(Info[w].a, w[1])
      BY <2>1, <1>2, <1>4
    <2>3. QED
      BY <2>2, <1>1 DEF ResolveAll
  <1>7. "SPLIT_B" \in s => \A k \in DOMAIN info.b : info.b[k] \in WordId
    <2>1. SUFFICES ASSUME "SPLIT_B" \in s
                   PROVE  \A k \in DOMAIN info.b : info.b[k] \in WordId
      OBVIOUS
    <2>2. raw.b = Info[w].b /\ info.b = ResolveAll(Info[w].b, w[1])
      BY <2>1, <1>2, <1>4
    <2>3. QED
      BY <2>2, <1>1 DEF ResolveAll
  <1>8. QED
    BY <1>5, <1>6, <1>7 DEF info

\* The words that a split of x in the mode m looks up are there.
UnitsFound(x, m) == \A k \in DOMAIN Units(x, m) : Units(x, m)[k] \in WordId

LEMMA BestNodesRange ==
    ASSUME NEW t \in Text, NEW s, NEW m \in Mode, ModeSubset(m) \subseteq s
    PROVE  /\ NodesFor(BestNodes(t, s), t)
           /\ \A x \in Elems(BestNodes(t, s)) : UnitsFound(x, m)
  <1> DEFINE p == BestNodes(t, s)
             n == Len(BestPath[t])
  <1>1. n \in Nat /\ BestPath[t] \in Seq(WordId) /\ DOMAIN BestPath[t] = 1..n
    BY TextAssumption
  <1>2. p = [k \in 1..n |-> p[k]] /\ DOMAIN p = 1..n
    BY <1>1 DEF BestNodes
  <1>3. ASSUME NEW k \in 1..n
        PROVE  p[k].text = t /\ p[k].info = NodeInfo(BestPath[t][k], s)
    BY <1>1 DEF BestNodes
  <1> HIDE DEF p
  <1>4. IsSeq(p)
    BY <1>1, <1>2, MapIsSeq
  <1>5. ASSUME NEW k \in 1..n
        PROVE  InfoOK(p[k].info) /\ UnitsFound(p[k], m)
    <2> DEFINE w == BestPath[t][k]
               x == p[k]
    <2>1. w \in WordId
      BY <1>1
    <2>2. x.info = NodeInfo(w, s)
      BY <1>3
    <2> HIDE DEF w, x
    <2>3. CASE IsOov(w)
      <3>1. x.info.a = <<>> /\ x.info.b = <<>>
        BY <2>2, <2>3 DEF NodeInfo
      <3>2. Units(x, m) = <<>>
        BY <3>1 DEF Units, Mode
      <3>3. DOMAIN <<>> = {}
        OBVIOUS
      <3>4. QED
        BY <3>1, <3>2, <3>3 DEF InfoOK, UnitsFound, x
    <2>4. CASE ~IsOov(w)
      <3>1. x.info = GetWordInfoSubset(w, s)
        BY <2>2, <2>4 DEF NodeInfo
      <3>2. /\ InfoOK(x.info)
            /\ "SPLIT_A" \in s => \A j \in DOMAIN x.info.a : x.info.a[j] \in WordId
            /\ "SPLIT_B" \in s => \A j \in DOMAIN x.info.b : x.info.b[j] \in WordId
        BY <3>1, <2>1, WordInfoRange
      <3>3. UnitsFound(x, m)
        <4>1. CASE m = "A"
          BY <4>1, <3>2 DEF ModeSubset, UnitsFound, Units
        <4>2. CASE m = "B"
          BY <4>2, <3>2 DEF ModeSubset, UnitsFound, Units
        <4>3. CASE m = "C"
          <5>1. Units(x, m) = <<>> /\ DOMAIN <<>> = {}
            BY <4>3 DEF Units
          <5>2. QED
            BY <5>1 DEF UnitsFound
        <4>4. QED
          BY <4>1, <4>2, <4>3 DEF Mode
      <3>4. QED
        BY <3>2, <3>3 DEF x
    <2>5. QED
      BY <2>3, <2>4
  <1>6. \A x \in Elems(p) : \E k \in 1..n : x = p[k]
    BY <1>2 DEF Elems
  <1>7. QED
    BY <1>3, <1>4, <1>5, <1>6 DEF NodesFor, p

\* A split keeps the text of the node.
LEMMA SplitNodeRange ==
    ASSUME NEW x, InfoOK(x.info), NEW m \in Mode, NEW s, UnitsFound(x, m)
    PROVE  NodesFor(SplitNode(x, m, s), x.text)
  <1> DEFINE us == Units(x, m)
             p == SplitNode(x, m, s)
  <1>1. us \in Seq(Ref)
    BY DEF Units, Mode, InfoOK
  <1>2. Len(us) \in Nat /\ DOMAIN us = 1..Len(us)
    BY <1>1
  <1>3. p = [k \in 1..Len(us) |-> p[k]]
    BY <1>2 DEF SplitNode
  <1>4. ASSUME NEW k \in 1..Len(us)
        PROVE  p[k].text = x.text /\ InfoOK(p[k].info)
    <2>1. p[k] = UnitNode(x, m, k, s)
      BY <1>2 DEF SplitNode
    <2>2. p[k].text = x.text /\ p[k].info = GetWordInfoSubset(us[k], s)
      BY <2>1 DEF UnitNode, UnitInfo
    <2>3. us[k] \in WordId
      BY <1>2 DEF UnitsFound
    <2>4. QED
      BY <2>2, <2>3, WordInfoRange
  <1> HIDE DEF p, us
  <1>5. IsSeq(p) /\ DOMAIN p = 1..Len(us)
    BY <1>2, <1>3, MapIsSeq
  <1>6. QED
    BY <1>4, <1>5 DEF NodesFor, Elems, p

LEMMA SplitPathRange ==
    ASSUME NEW p, NEW t, NodesFor(p, t), NEW m \in Mode, NEW s,
           \A x \in Elems(p) : UnitsFound(x, m)
    PROVE  NodesFor(SplitPath(p, m, s), t)
  <1>1. CASE m = "C"
    BY <1>1 DEF SplitPath
  <1>2. CASE m # "C"
    <2> DEFINE ss == [k \in DOMAIN p |-> IF Len(Units(p[k], m)) =< 1 THEN <<p[k]>>
                                         ELSE SplitNode(p[k], m, s)]
    <2>1. SplitPath(p, m, s) = FlattenSeq(ss)
      BY <1>2 DEF SplitPath
    <2>2. Len(p) \in Nat /\ DOMAIN p = 1..Len(p)
      BY DEF NodesFor, IsSeq
    <2>3. ss = [k \in 1..Len(p) |-> ss[k]]
      BY <2>2
    <2>4. ASSUME NEW k \in 1..Len(p)
          PROVE  NodesFor(ss[k], t)
      <3>1. p[k] \in Elems(p) /\ p[k].text = t /\ InfoOK(p[k].info)
            /\ UnitsFound(p[k], m)
        BY <2>2 DEF Elems, NodesFor
      <3>2. CASE Len(Units(p[k], m)) =< 1
        <4>1. ss[k] = <<p[k]>>
          BY <2>2, <3>2
        <4>2. IsSeq(<<p[k]>>) /\ Elems(<<p[k]>>) \subseteq {p[k]}
          <5>1. <<p[k]>> \in Seq({p[k]})
            OBVIOUS
          <5>2. QED
            BY <5>1, SeqIsSeq
        <4>3. QED
          BY <4>1, <4>2, <3>1 DEF NodesFor
      <3>3. CASE ~(Len(Units(p[k], m)) =< 1)
        <4>1. ss[k] = SplitNode(p[k], m, s)
          BY <2>2, <3>3
        <4>2. QED
          BY <4>1, <3>1, SplitNodeRange
      <3>4. QED
        BY <3>2, <3>3
    <2> HIDE DEF ss
    <2>5. /\ IsSeq(FlattenSeq(ss))
          /\ \A x \in Elems(FlattenSeq(ss)) : \E k \in 1..Len(p) : x \in Elems(ss[k])
      BY <2>2, <2>3, <2>4, FlattenElems DEF NodesFor
    <2>6. QED
      BY <2>1, <2>4, <2>5 DEF NodesFor
  <1>3. QED
    BY <1>1, <1>2

----------------------------------------------------------------------------
(* The tokenizer.                                                          *)

Input == [text : Text, state : {"Clean", "RW", "RO"}]

\* The path the tokenizer has between two calls: nothing when a text is being
\* written, and the nodes of its text when the analysis is over.  In between
\* it is the old vector of the list that took the nodes.
TopPathOK ==
    /\ \A p \in top_path : IsSeq(p) /\ \A x \in Elems(p) : InfoOK(x.info)
    /\ phase = "text" => \A p \in top_path : p = <<>>
    /\ phase = "done" => \A p \in top_path : /\ NodesFor(p, input.text)
                                             /\ p # <<>> => input.state = "RO"

TokenizerInv ==
    /\ mode \in Mode /\ subset \in SUBSET Field /\ ModeSubset(mode) \subseteq subset
    /\ input \in Input
    /\ phase \in {"none", "text", "done"}
    /\ TopPathOK

LEMMA NoNodes ==
    ASSUME NEW t
    PROVE  NodesFor(<<>>, t) /\ IsSeq(<<>>) /\ Elems(<<>>) = {}
  <1>1. <<>> \in Seq({}) /\ DOMAIN <<>> = {}
    OBVIOUS
  <1>2. Elems(<<>>) = {}
    BY <1>1 DEF Elems
  <1>3. QED
    BY <1>1, <1>2 DEF NodesFor, IsSeq

LEMMA TokenizerInitInv == TokenizerInit => TokenizerInv
  <1>1. SUFFICES ASSUME TokenizerInit PROVE TokenizerInv
    OBVIOUS
  <1>2. mode \in Mode /\ subset = Field /\ input \in Input /\ phase = "none"
        /\ top_path = {<<>>}
    BY <1>1, CallerAssumption DEF TokenizerInit, Input
  <1>3. ModeSubset(mode) \subseteq Field
    BY <1>2 DEF Mode, ModeSubset, Field
  <1>4. QED
    BY <1>2, <1>3, NoNodes DEF TokenizerInv, TopPathOK

\* An analysis gives the nodes of its text and of nothing before it.
LEMMA AnalysisRange ==
    ASSUME TokenizerInv, phase = "text"
    PROVE  NodesFor(Analysis(input.text, mode, subset), input.text)
  <1> DEFINE t == input.text
             b == BestNodes(t, subset)
  <1>1. t \in Text
    BY DEF TokenizerInv, Input
  <1>2. NodesFor(b, t) /\ \A x \in Elems(b) : UnitsFound(x, mode)
    BY <1>1, BestNodesRange DEF TokenizerInv
  <1>3. Taken = <<>>
    BY DEF Taken, TokenizerInv, TopPathOK
  <1>4. Taken \o b = b
    <2>1. b \in Seq(Elems(b))
      BY <1>2 DEF NodesFor, IsSeq
    <2> HIDE DEF b
    <2>2. QED
      BY <1>3, <2>1
  <1>5. QED
    BY <1>2, <1>4, SplitPathRange DEF TokenizerInv, Analysis

LEMMA TokenizerStep ==
    ASSUME TokenizerInv, TokenizerNext
    PROVE  TokenizerInv'
  <1>1. CASE \E m \in Modes : SetMode(m)
    <2>1. PICK m \in Modes : SetMode(m)
      BY <1>1
    <2>2. m \in Mode /\ ModeSubset(m) \subseteq Field
      BY CallerAssumption DEF Mode, ModeSubset, Field
    <2>3. QED
      BY <2>1, <2>2 DEF SetMode, TokenizerInv, TopPathOK
  <1>2. CASE \E s \in Subsets : SetSubset(s)
    <2>1. PICK s \in Subsets : SetSubset(s)
      BY <1>2
    <2>2. s \subseteq Field /\ ModeSubset(mode) \subseteq Field
      BY CallerAssumption DEF TokenizerInv, Mode, ModeSubset, Field
    <2>3. /\ Normalize(s \cup ModeSubset(mode)) \subseteq Field
          /\ ModeSubset(mode) \subseteq Normalize(s \cup ModeSubset(mode))
      BY <2>2 DEF Normalize, Field
    <2>4. QED
      BY <2>1, <2>3 DEF SetSubset, TokenizerInv, TopPathOK
  <1>3. CASE \E t \in Text : Reset(t)
    <2>1. PICK t \in Text : Reset(t)
      BY <1>3
    <2>2. input' \in Input /\ phase' = "text" /\ \A p \in top_path' : p = <<>>
      BY <2>1 DEF Reset, Input
    <2>3. TopPathOK'
      BY <2>2, NoNodes DEF TopPathOK
    <2>4. QED
      BY <2>1, <2>2, <2>3 DEF Reset, TokenizerInv
  <1>4. CASE FailEarly
    <2>1. /\ input' \in Input /\ phase' = "done" /\ UNCHANGED <<mode, subset, top_path>>
          /\ \A p \in top_path : p = <<>>
      BY <1>4 DEF FailEarly, TokenizerInv, Input, TopPathOK
    <2>2. TopPathOK'
      BY <2>1, NoNodes DEF TopPathOK
    <2>3. QED
      BY <2>1, <2>2 DEF TokenizerInv
  <1>5. CASE TokenizeEmpty
    <2>1. /\ input' \in Input /\ phase' = "done" /\ UNCHANGED <<mode, subset, top_path>>
          /\ \A p \in top_path : p = <<>>
      BY <1>5 DEF TokenizeEmpty, TokenizerInv, Input, TopPathOK
    <2>2. TopPathOK'
      BY <2>1, NoNodes DEF TopPathOK
    <2>3. QED
      BY <2>1, <2>2 DEF TokenizerInv
  <1>6. CASE FailLate
    <2>1. /\ input' \in Input /\ phase' = "done" /\ UNCHANGED <<mode, subset>>
          /\ top_path' = {}
      BY <1>6 DEF FailLate, TokenizerInv, Input
    <2>2. QED
      BY <2>1 DEF TokenizerInv, TopPathOK
  <1>7. CASE Tokenize
    <2>1. /\ input' \in Input /\ phase' = "done" /\ UNCHANGED <<mode, subset>>
          /\ top_path' = {Analysis(input.text, mode, subset)}
          /\ input'.text = input.text /\ input'.state = "RO" /\ phase = "text"
      BY <1>7 DEF Tokenize, TokenizerInv, Input
    <2>2. NodesFor(Analysis(input.text, mode, subset), input.text)
      BY <2>1, AnalysisRange
    <2>3. QED
      BY <2>1, <2>2 DEF TokenizerInv, TopPathOK, NodesFor
  <1>8. QED
    BY <1>1, <1>2, <1>3, <1>4, <1>5, <1>6, <1>7 DEF TokenizerNext, DoTokenize

----------------------------------------------------------------------------
(* The inputs that lists share.                                            *)

Part == [input : Input, subset : SUBSET Field]

\* Sharing is an equivalence, and what is shared is one input.
SharingOK ==
    /\ sharing \in [List -> SUBSET List] /\ part \in [List -> Part]
    /\ \A l \in List : l \in sharing[l]
    /\ SharersAgree

\* The Rc of a list is replaced.
LEMMA AloneOK ==
    ASSUME SharingOK, NEW l \in List, NEW p \in Part,
           sharing' = Alone(l), part' = [part EXCEPT ![l] = p]
    PROVE  SharingOK' /\ part'[l] = p /\ \A k \in List \ {l} : part'[k] = part[k]
  <1>1. part \in [List -> Part] /\ sharing \in [List -> SUBSET List]
    BY DEF SharingOK
  <1>2. /\ sharing' = [k \in List |-> IF k = l THEN {l} ELSE sharing[k] \ {l}]
        /\ part' \in [List -> Part] /\ part'[l] = p
        /\ \A k \in List \ {l} : part'[k] = part[k]
    BY <1>1 DEF Alone
  <1>3. sharing' \in [List -> SUBSET List] /\ \A k \in List : k \in sharing'[k]
    BY <1>1, <1>2 DEF SharingOK
  <1>4. ASSUME NEW j \in List, NEW k \in sharing'[j]
        PROVE  sharing'[k] = sharing'[j] /\ part'[k] = part'[j]
    <2>1. k \in List
      BY <1>3
    <2>2. CASE j = l
      BY <1>2, <2>2
    <2>3. CASE j # l
      <3>1. k \in sharing[j] /\ k # l
        BY <1>2, <2>3
      <3>2. sharing[k] = sharing[j] /\ part[k] = part[j]
        BY <3>1 DEF SharingOK, SharersAgree
      <3>3. QED
        BY <1>2, <2>1, <2>3, <3>1, <3>2
    <2>4. QED
      BY <2>2, <2>3
  <1>5. QED
    BY <1>2, <1>3, <1>4 DEF SharingOK, SharersAgree

\* The Rc of a list becomes that of another one.
LEMMA JoinedOK ==
    ASSUME SharingOK, NEW l \in List, NEW out \in List, l # out,
           sharing' = Joined(l, out), part' = [part EXCEPT ![out] = part[l]]
    PROVE  SharingOK' /\ part'[out] = part[l]
           /\ \A k \in List \ {out} : part'[k] = part[k]
  <1> DEFINE G == sharing[l] \cup {out}
  <1>1. part \in [List -> Part] /\ sharing \in [List -> SUBSET List] /\ l \in sharing[l]
    BY DEF SharingOK
  <1>2. /\ sharing' = [k \in List |-> IF k \in G THEN G ELSE sharing[k] \ {out}]
        /\ part' \in [List -> Part] /\ part'[out] = part[l]
        /\ \A k \in List \ {out} : part'[k] = part[k]
    BY <1>1 DEF Joined
  <1>3. G \subseteq List
    BY <1>1
  <1>4. sharing' \in [List -> SUBSET List] /\ \A k \in List : k \in sharing'[k]
    BY <1>1, <1>2, <1>3 DEF SharingOK
  <1>5. \A k \in G : part'[k] = part[l]
    <2>1. \A k \in sharing[l] : part[k] = part[l]
      BY DEF SharingOK, SharersAgree
    <2>2. QED
      BY <1>2, <1>3, <2>1
  <1>6. ASSUME NEW j \in List, NEW k \in sharing'[j]
        PROVE  sharing'[k] = sharing'[j] /\ part'[k] = part'[j]
    <2>1. k \in List
      BY <1>4
    <2>2. CASE j \in G
      <3>1. sharing'[j] = G
        BY <1>2, <2>2
      <3>2. k \in G
        BY <3>1
      <3>3. sharing'[k] = G
        BY <1>2, <2>1, <3>2
      <3>4. QED
        BY <1>5, <2>2, <3>1, <3>2, <3>3
    <2>3. CASE j \notin G
      <3>1. k \in sharing[j] /\ k # out /\ j # out
        BY <1>2, <2>3
      <3>2. sharing[k] = sharing[j] /\ part[k] = part[j]
        BY <3>1 DEF SharingOK, SharersAgree
      <3>3. k \notin sharing[l]
        <4>1. k \in sharing[l] => sharing[k] = sharing[l]
          BY DEF SharingOK, SharersAgree
        <4>2. j \in sharing[j]
          BY DEF SharingOK
        <4>3. QED
          BY <2>3, <3>2, <4>1, <4>2
      <3>4. QED
        BY <1>2, <2>1, <2>3, <3>1, <3>2, <3>3
    <2>4. QED
      BY <2>2, <2>3
  <1>7. QED
    BY <1>2, <1>4, <1>6 DEF SharingOK, SharersAgree

\* An input is replaced under all the lists that share it.
LEMMA PartBecomesOK ==
    ASSUME SharingOK, NEW l \in List, NEW p \in Part,
           sharing' = sharing, part' = PartBecomes(l, p)
    PROVE  /\ SharingOK'
           /\ \A k \in sharing[l] : part'[k] = p
           /\ \A k \in List \ sharing[l] : part'[k] = part[k]
  <1>1. /\ part \in [List -> Part] /\ sharing \in [List -> SUBSET List]
        /\ \A k \in List : k \in sharing[k]
    BY DEF SharingOK
  <1>2. part' = [k \in List |-> IF k \in sharing[l] THEN p ELSE part[k]]
    BY DEF PartBecomes
  <1>3. part' \in [List -> Part]
    BY <1>1, <1>2
  <1>4. ASSUME NEW j \in List, NEW k \in sharing[j]
        PROVE  sharing[k] = sharing[j] /\ part'[k] = part'[j]
    <2>1. k \in List
      BY <1>1
    <2>2. sharing[k] = sharing[j] /\ part[k] = part[j]
      BY DEF SharingOK, SharersAgree
    <2>3. k \in sharing[l] <=> j \in sharing[l]
      <3>1. ASSUME NEW x \in sharing[l] PROVE sharing[x] = sharing[l]
        BY DEF SharingOK, SharersAgree
      <3>2. k \in sharing[k] /\ j \in sharing[j]
        BY <1>1, <2>1
      <3>3. QED
        BY <2>2, <3>1, <3>2
    <2>4. QED
      BY <1>2, <2>1, <2>2, <2>3
  <1>5. QED
    BY <1>1, <1>2, <1>3, <1>4 DEF SharingOK, SharersAgree

----------------------------------------------------------------------------
(* The inductive invariant.                                                *)

ListOK(l) ==
    /\ IsSeq(nodes[l]) /\ \A x \in Elems(nodes[l]) : InfoOK(x.info)
    /\ l \notin stale =>
           \A x \in Elems(nodes[l]) : x.text = InputOf(l).text /\ InputOf(l).state = "RO"

ListsInv ==
    /\ TokenizerInv /\ SharingOK
    /\ nodes = [l \in List |-> nodes[l]]
    /\ held \subseteq List /\ stale \subseteq List
    /\ \A l \in List : ListOK(l)

\* A list of which nothing changes.
LEMMA ListKept ==
    ASSUME NEW k, ListOK(k), nodes'[k] = nodes[k], part'[k] = part[k],
           k \in stale => k \in stale'
    PROVE  ListOK(k)'
  BY DEF ListOK, InputOf

\* A list that a caller is told not to read, or that has no nodes, may change
\* its input.
LEMMA ListTold ==
    ASSUME NEW k, ListOK(k), nodes'[k] = nodes[k],
           k \in stale' \/ nodes[k] = <<>>
    PROVE  ListOK(k)'
  <1>1. CASE k \in stale'
    BY <1>1 DEF ListOK
  <1>2. CASE nodes[k] = <<>>
    <2>1. Elems(nodes'[k]) = {} /\ IsSeq(nodes'[k])
      BY <1>2, NoNodes
    <2>2. QED
      BY <2>1 DEF ListOK
  <1>3. QED
    BY <1>1, <1>2

\* A list without nodes.
LEMMA ListEmpty ==
    ASSUME NEW k, nodes'[k] = <<>>
    PROVE  ListOK(k)'
  <1>1. Elems(nodes'[k]) = {} /\ IsSeq(nodes'[k])
    BY NoNodes
  <1>2. QED
    BY <1>1 DEF ListOK

\* A list with the nodes of the text it gets.
LEMMA ListFilled ==
    ASSUME NEW k, NEW p, NEW t, NodesFor(p, t), nodes'[k] = p,
           part'[k].input.text = t, p # <<>> => part'[k].input.state = "RO"
    PROVE  ListOK(k)'
  <1>1. CASE p = <<>>
    BY <1>1, ListEmpty
  <1>2. CASE p # <<>>
    BY <1>2 DEF ListOK, InputOf, NodesFor
  <1>3. QED
    BY <1>1, <1>2

LEMMA DefaultPartOK == DefaultPart \in Part
  <1>1. EmptyText \in Text
    BY EmptyTextAssumption DEF EmptyText
  <1>2. QED
    BY <1>1 DEF DefaultPart, Part, Input

LEMMA ListsInitInv == ListsInit => ListsInv
  <1>1. SUFFICES ASSUME ListsInit PROVE ListsInv
    OBVIOUS
  <1>2. TokenizerInv
    BY <1>1, TokenizerInitInv DEF ListsInit
  <1>3. SharingOK
    BY <1>1, DefaultPartOK DEF ListsInit, ListInit, SharingOK, SharersAgree
  <1>4. ASSUME NEW l \in List PROVE ListOK(l)
    <2>1. nodes[l] = <<>>
      BY <1>1 DEF ListsInit, ListInit
    <2>2. QED
      BY <2>1, NoNodes DEF ListOK
  <1>5. QED
    BY <1>1, <1>2, <1>3, <1>4 DEF ListsInit, ListInit, ListsInv

----------------------------------------------------------------------------
(* The operations keep it.                                                 *)

\* nodes' is nodes but for one list.
LEMMA OneList ==
    ASSUME nodes = [k \in List |-> nodes[k]], NEW l \in List, NEW p,
           nodes' = [nodes EXCEPT ![l] = p]
    PROVE  /\ nodes' = [k \in List |-> nodes'[k]]
           /\ nodes'[l] = p /\ \A k \in List \ {l} : nodes'[k] = nodes[k]
  <1>1. DOMAIN nodes = List
    OBVIOUS
  <1>2. QED
    BY <1>1

LEMMA NewListInv ==
    ASSUME ListsInv, NEW l \in List, NewList(l)
    PROVE  ListsInv'
  <1>1. SharingOK' /\ \A k \in List \ {l} : part'[k] = part[k]
    BY AloneOK, DefaultPartOK DEF NewList, ListsInv
  <1>2. nodes' = [k \in List |-> nodes'[k]] /\ nodes'[l] = <<>>
        /\ \A k \in List \ {l} : nodes'[k] = nodes[k]
    BY OneList DEF NewList, ListsInv
  <1>3. ASSUME NEW k \in List PROVE ListOK(k)'
    <2>1. CASE k = l
      BY <1>2, <2>1, ListEmpty
    <2>2. CASE k # l
      BY <1>1, <1>2, <2>2, ListKept DEF ListsInv, NewList
    <2>3. QED
      BY <2>1, <2>2
  <1>4. TokenizerInv'
    BY DEF NewList, ListsInv, tokenizer_vars, TokenizerInv, TopPathOK
  <1>5. QED
    BY <1>1, <1>2, <1>3, <1>4 DEF NewList, ListsInv

LEMMA EmptyCloneInv ==
    ASSUME ListsInv, NEW l \in List, NEW out \in List, EmptyClone(l, out)
    PROVE  ListsInv'
  <1>1. SharingOK' /\ \A k \in List \ {out} : part'[k] = part[k]
    BY JoinedOK DEF EmptyClone, ListsInv
  <1>2. nodes' = [k \in List |-> nodes'[k]] /\ nodes'[out] = <<>>
        /\ \A k \in List \ {out} : nodes'[k] = nodes[k]
    BY OneList DEF EmptyClone, ListsInv
  <1>3. ASSUME NEW k \in List PROVE ListOK(k)'
    <2>1. CASE k = out
      BY <1>2, <2>1, ListEmpty
    <2>2. CASE k # out
      BY <1>1, <1>2, <2>2, ListKept DEF ListsInv, EmptyClone
    <2>3. QED
      BY <2>1, <2>2
  <1>4. TokenizerInv'
    BY DEF EmptyClone, ListsInv, tokenizer_vars, TokenizerInv, TopPathOK
  <1>5. QED
    BY <1>1, <1>2, <1>3, <1>4 DEF EmptyClone, ListsInv

LEMMA ClearInv ==
    ASSUME ListsInv, NEW l \in List, Clear(l)
    PROVE  ListsInv'
  <1>1. nodes' = [k \in List |-> nodes'[k]] /\ nodes'[l] = <<>>
        /\ \A k \in List \ {l} : nodes'[k] = nodes[k]
    BY OneList DEF Clear, ListsInv
  <1>2. ASSUME NEW k \in List PROVE ListOK(k)'
    <2>1. CASE k = l
      BY <1>1, <2>1, ListEmpty
    <2>2. CASE k # l
      BY <1>1, <2>2, ListKept DEF ListsInv, Clear
    <2>3. QED
      BY <2>1, <2>2
  <1>3. TokenizerInv' /\ SharingOK'
    BY DEF Clear, ListsInv, tokenizer_vars, TokenizerInv, TopPathOK, SharingOK,
           SharersAgree
  <1>4. QED
    BY <1>1, <1>2, <1>3 DEF Clear, ListsInv

\* The result of a tokenizer of its own.
LEMMA StatelessInv ==
    ASSUME ListsInv, NEW t \in Text, NEW m \in Modes, NEW out \in List,
           StatelessTokenize(t, m, out)
    PROVE  ListsInv'
  <1> DEFINE p == SplitPath(BestNodes(t, Field), m, Field)
             q == [input |-> [text |-> t, state |-> "RO"], subset |-> Field]
  <1>1. NodesFor(p, t)
    <2>1. m \in Mode /\ ModeSubset(m) \subseteq Field
      BY CallerAssumption DEF Mode, ModeSubset, Field
    <2>2. QED
      BY <2>1, BestNodesRange, SplitPathRange
  <1> HIDE DEF p
  <1>2. q \in Part
    BY DEF Part, Input
  <1>3. SharingOK' /\ part'[out] = q /\ \A k \in List \ {out} : part'[k] = part[k]
    BY <1>2, AloneOK DEF StatelessTokenize, ListsInv
  <1>4. nodes' = [k \in List |-> nodes'[k]] /\ nodes'[out] = p
        /\ \A k \in List \ {out} : nodes'[k] = nodes[k]
    BY OneList DEF StatelessTokenize, ListsInv, p
  <1>5. ASSUME NEW k \in List PROVE ListOK(k)'
    <2>1. CASE k = out
      BY <1>1, <1>3, <1>4, <2>1, ListFilled
    <2>2. CASE k # out
      BY <1>3, <1>4, <2>2, ListKept DEF ListsInv, StatelessTokenize
    <2>3. QED
      BY <2>1, <2>2
  <1>6. TokenizerInv'
    BY DEF StatelessTokenize, ListsInv, tokenizer_vars, TokenizerInv, TopPathOK
  <1>7. QED
    BY <1>3, <1>4, <1>5, <1>6 DEF StatelessTokenize, ListsInv

\* The path of a list goes into the tokenizer, to be cleared there.
LEMMA CollectInv ==
    ASSUME ListsInv, NEW l \in List, Collect(l)
    PROVE  ListsInv'
  <1> DEFINE q == [input |-> input, subset |-> subset]
  <1>1. q \in Part
    BY DEF ListsInv, TokenizerInv, Part
  <1>2. /\ SharingOK' /\ \A k \in sharing[l] : part'[k] = q
        /\ \A k \in List \ sharing[l] : part'[k] = part[k]
    BY <1>1, PartBecomesOK DEF Collect, SwapInput, ListsInv
  <1>3. l \in sharing[l] /\ part[l] \in Part
    BY DEF ListsInv, SharingOK
  <1>4. Taken \in top_path /\ NodesFor(Taken, input.text)
        /\ (Taken # <<>> => input.state = "RO")
    BY DEF Collect, Taken, ListsInv, TokenizerInv, TopPathOK
  <1>5. nodes' = [k \in List |-> nodes'[k]] /\ nodes'[l] = Taken
        /\ \A k \in List \ {l} : nodes'[k] = nodes[k]
    BY OneList DEF Collect, ListsInv
  <1>6. ASSUME NEW k \in List PROVE ListOK(k)'
    <2>1. CASE k = l
      BY <1>2, <1>3, <1>4, <1>5, <2>1, ListFilled
    <2>2. CASE k # l /\ k \in sharing[l]
      <3>1. k \in stale' \/ nodes[k] = <<>>
        BY <2>2 DEF Collect, Invalidated
      <3>2. QED
        BY <3>1, <1>5, <2>2, ListTold DEF ListsInv
    <2>3. CASE k \notin sharing[l]
      <3>1. k # l /\ (k \in stale => k \in stale')
        BY <1>3, <2>3 DEF Collect
      <3>2. QED
        BY <3>1, <1>2, <1>5, <2>3, ListKept DEF ListsInv
    <2>4. QED
      BY <2>1, <2>2, <2>3
  <1>7. TokenizerInv'
    <2>1. input' \in Input
      BY <1>3 DEF Collect, SwapInput, InputOf, Part
    <2>2. /\ top_path' = {nodes[l]} /\ phase' = "none"
          /\ UNCHANGED <<mode, subset>>
      BY DEF Collect
    <2>3. TopPathOK'
      BY <2>2 DEF TopPathOK, ListsInv, ListOK
    <2>4. QED
      BY <2>1, <2>2, <2>3 DEF ListsInv, TokenizerInv
  <1>8. stale' \subseteq List /\ held' \subseteq List
    BY DEF Collect, Invalidated, ListsInv, SharingOK
  <1>9. QED
    BY <1>2, <1>5, <1>6, <1>7, <1>8 DEF ListsInv

LEMMA CollectPanicsInv ==
    ASSUME ListsInv, NEW l \in List, CollectPanics(l)
    PROVE  ListsInv'
  <1> DEFINE q == [part[l] EXCEPT !.input = input]
  <1>1. part[l] \in Part /\ q \in Part /\ l \in sharing[l]
    BY DEF ListsInv, SharingOK, TokenizerInv, Part
  <1>2. /\ SharingOK' /\ \A k \in List \ sharing[l] : part'[k] = part[k]
    BY <1>1, PartBecomesOK DEF CollectPanics, ListsInv
  <1>3. ASSUME NEW k \in List PROVE ListOK(k)'
    <2>1. CASE k \in sharing[l]
      <3>1. nodes'[k] = nodes[k] /\ (k \in stale' \/ nodes[k] = <<>>)
        BY <2>1 DEF CollectPanics
      <3>2. QED
        BY <3>1, ListTold DEF ListsInv
    <2>2. CASE k \notin sharing[l]
      <3>1. nodes'[k] = nodes[k] /\ (k \in stale => k \in stale')
        BY DEF CollectPanics
      <3>2. QED
        BY <3>1, <1>2, <2>2, ListKept DEF ListsInv
    <2>3. QED
      BY <2>1, <2>2
  <1>4. TokenizerInv'
    <2>1. input' \in Input
      BY <1>1 DEF CollectPanics, InputOf, Part
    <2>2. top_path' = {} /\ phase' = "none" /\ UNCHANGED <<mode, subset>>
      BY DEF CollectPanics
    <2>3. QED
      BY <2>1, <2>2 DEF ListsInv, TokenizerInv, TopPathOK
  <1>5. /\ stale' \subseteq List /\ held' \subseteq List
        /\ nodes' = [k \in List |-> nodes'[k]]
    BY DEF CollectPanics, ListsInv, SharingOK
  <1>6. QED
    BY <1>2, <1>3, <1>4, <1>5 DEF ListsInv

\* Nodes pushed behind those of a list: it may be read if all of them have the
\* text it has now.
LEMMA ListExtended ==
    ASSUME NEW k, NEW s, IsSeq(s), \A x \in Elems(s) : InfoOK(x.info),
           NEW p, IsSeq(p), \A x \in Elems(p) : InfoOK(x.info),
           nodes'[k] = s \o p,
           k \notin stale' =>
               \A x \in Elems(s) \cup Elems(p) :
                   x.text = part'[k].input.text /\ part'[k].input.state = "RO"
    PROVE  ListOK(k)'
  <1>1. IsSeq(s \o p) /\ Elems(s \o p) \subseteq Elems(s) \cup Elems(p)
    BY ConcatIsSeq
  <1>2. QED
    BY <1>1 DEF ListOK, InputOf

\* The units of a node go to a list that joins.
LEMMA SplitIntoInv ==
    ASSUME ListsInv, NEW l \in List, NEW out \in List, NEW i \in DOMAIN nodes[l],
           NEW m \in {"A", "B"}, SplitInto(l, i, m, out)
    PROVE  ListsInv'
  <1> DEFINE n == nodes[l][i]
             p == SplitNode(n, m, part[l].subset)
  <1>1. n \in Elems(nodes[l]) /\ InfoOK(n.info)
    BY DEF Elems, ListsInv, ListOK
  <1>2. NodesFor(p, n.text)
    <2>1. UnitsFound(n, m) /\ m \in Mode
      BY DEF SplitInto, Splittable, UnitsFound, Mode
    <2>2. QED
      BY <1>1, <2>1, SplitNodeRange
  <1> HIDE DEF p
  <1>3. SharingOK' /\ part'[out] = part[l] /\ \A k \in List \ {out} : part'[k] = part[k]
    BY JoinedOK DEF SplitInto, ListsInv
  <1>4. nodes' = [k \in List |-> nodes'[k]] /\ nodes'[out] = nodes[out] \o p
        /\ \A k \in List \ {out} : nodes'[k] = nodes[k]
    <2>1. nodes' = [nodes EXCEPT ![out] = nodes[out] \o p]
      BY DEF SplitInto, p
    <2>2. QED
      BY <2>1, OneList DEF ListsInv
  <1>5. ListOK(out)'
    <2>1. ASSUME out \notin stale', NEW x \in Elems(nodes[out]) \cup Elems(p)
          PROVE  x.text = part'[out].input.text /\ part'[out].input.state = "RO"
      <3>1. l \notin stale /\ ~Mixed(l, out)
        BY <2>1 DEF SplitInto, Stale
      <3>2. n.text = part[l].input.text /\ part[l].input.state = "RO"
        BY <1>1, <3>1 DEF ListsInv, ListOK, InputOf
      <3>3. CASE x \in Elems(p)
        BY <1>2, <1>3, <3>2, <3>3 DEF NodesFor
      <3>4. CASE x \in Elems(nodes[out])
        <4>1. nodes[out] # <<>>
          BY <3>4, NoNodes
        <4>2. out \in sharing[l] /\ out \notin stale
          BY <3>1, <4>1 DEF Mixed
        <4>3. part[out] = part[l]
          BY <4>2 DEF ListsInv, SharingOK, SharersAgree
        <4>4. x.text = part[out].input.text
          BY <3>4, <4>2 DEF ListsInv, ListOK, InputOf
        <4>5. QED
          BY <1>3, <3>2, <4>3, <4>4
      <3>5. QED
        BY <2>1, <3>3, <3>4
    <2>2. IsSeq(nodes[out]) /\ \A x \in Elems(nodes[out]) : InfoOK(x.info)
      BY DEF ListsInv, ListOK
    <2>3. IsSeq(p) /\ \A x \in Elems(p) : InfoOK(x.info)
      BY <1>2 DEF NodesFor
    <2>4. QED
      BY <1>4, <2>1, <2>2, <2>3, ListExtended
  <1>6. ASSUME NEW k \in List PROVE ListOK(k)'
    <2>1. CASE k # out
      <3>1. k \in stale => k \in stale'
        BY <2>1 DEF SplitInto, Stale
      <3>2. QED
        BY <3>1, <1>3, <1>4, <2>1, ListKept DEF ListsInv
    <2>2. QED
      BY <2>1, <1>5
  <1>7. TokenizerInv' /\ stale' \subseteq List /\ held' \subseteq List
    BY DEF SplitInto, Stale, ListsInv, tokenizer_vars, TokenizerInv, TopPathOK
  <1>8. QED
    BY <1>3, <1>4, <1>6, <1>7 DEF ListsInv

LEMMA CopySliceInv ==
    ASSUME ListsInv, NEW l \in List, NEW out \in List, NEW i \in DOMAIN nodes[l],
           CopySlice(l, i, out)
    PROVE  ListsInv'
  <1> DEFINE n == nodes[l][i]
  <1>1. n \in Elems(nodes[l]) /\ InfoOK(n.info)
    BY DEF Elems, ListsInv, ListOK
  <1>2. IsSeq(<<n>>) /\ Elems(<<n>>) \subseteq {n}
    <2>1. <<n>> \in Seq({n})
      OBVIOUS
    <2>2. QED
      BY <2>1, SeqIsSeq
  <1>3. IsSeq(nodes[out]) /\ \A x \in Elems(nodes[out]) : InfoOK(x.info)
    BY DEF ListsInv, ListOK
  <1>4. nodes' = [k \in List |-> nodes'[k]] /\ nodes'[out] = nodes[out] \o <<n>>
        /\ \A k \in List \ {out} : nodes'[k] = nodes[k]
    <2>1. Append(nodes[out], n) = nodes[out] \o <<n>>
      <3>1. nodes[out] \in Seq(Elems(nodes[out]) \cup {n})
        <4>1. nodes[out] \in Seq(Elems(nodes[out]))
          BY <1>3 DEF IsSeq
        <4>2. Len(nodes[out]) \in Nat
              /\ nodes[out] \in [1..Len(nodes[out]) -> Elems(nodes[out])]
          BY <4>1
        <4>3. nodes[out] \in [1..Len(nodes[out]) -> Elems(nodes[out]) \cup {n}]
          BY <4>2
        <4>4. QED
          BY <4>2, <4>3
      <3>2. n \in Elems(nodes[out]) \cup {n}
        OBVIOUS
      <3> HIDE DEF n
      <3>3. QED
        BY <3>1, <3>2, AppendIsConcat
    <2>2. nodes' = [nodes EXCEPT ![out] = nodes[out] \o <<n>>]
      BY <2>1 DEF CopySlice
    <2>3. QED
      BY <2>2, OneList DEF ListsInv
  <1>5. ListOK(out)'
    <2>1. ASSUME out \notin stale', NEW x \in Elems(nodes[out]) \cup Elems(<<n>>)
          PROVE  x.text = part'[out].input.text /\ part'[out].input.state = "RO"
      <3>1. /\ l \notin stale /\ out \in sharing[l]
            /\ nodes[out] = <<>> \/ out \notin stale
            /\ part' = part
        BY <2>1 DEF CopySlice, Stale
      <3>2. part[out] = part[l]
        BY <3>1 DEF ListsInv, SharingOK, SharersAgree
      <3>3. n.text = part[l].input.text /\ part[l].input.state = "RO"
        BY <1>1, <3>1 DEF ListsInv, ListOK, InputOf
      <3>4. CASE x \in Elems(<<n>>)
        BY <1>2, <3>1, <3>2, <3>3, <3>4
      <3>5. CASE x \in Elems(nodes[out])
        <4>1. nodes[out] # <<>>
          BY <3>5, NoNodes
        <4>2. out \notin stale
          BY <3>1, <4>1
        <4>3. x.text = part[out].input.text
          BY <3>5, <4>2 DEF ListsInv, ListOK, InputOf
        <4>4. QED
          BY <3>1, <3>2, <3>3, <4>3
      <3>6. QED
        BY <2>1, <3>4, <3>5
    <2>2. \A x \in Elems(<<n>>) : InfoOK(x.info)
      BY <1>1, <1>2
    <2>3. QED
      BY <1>2, <1>3, <1>4, <2>1, <2>2, ListExtended
  <1>6. ASSUME NEW k \in List PROVE ListOK(k)'
    <2>1. CASE k # out
      <3>1. (k \in stale => k \in stale') /\ part' = part
        BY <2>1 DEF CopySlice, Stale
      <3>2. QED
        BY <3>1, <1>4, <2>1, ListKept DEF ListsInv
    <2>2. QED
      BY <2>1, <1>5
  <1>7. /\ TokenizerInv' /\ stale' \subseteq List /\ held' \subseteq List /\ SharingOK'
    BY DEF CopySlice, Stale, ListsInv, tokenizer_vars, TokenizerInv, TopPathOK,
           SharingOK, SharersAgree
  <1>8. QED
    BY <1>4, <1>6, <1>7 DEF ListsInv

LEMMA LookupInv ==
    ASSUME ListsInv, NEW l \in List, NEW t \in Text, NEW s, Lookup(l, t, s)
    PROVE  ListsInv'
  <1> DEFINE q == [part[l] EXCEPT !.input = [text |-> t, state |-> "RO"]]
             p == FoundNodes(t, s)
             n == Len(Found[t])
  <1>1. part[l] \in Part /\ q \in Part /\ l \in sharing[l]
        /\ q.input.text = t /\ q.input.state = "RO"
    BY DEF ListsInv, SharingOK, Part, Input
  <1>2. /\ SharingOK' /\ \A k \in sharing[l] : part'[k] = q
        /\ \A k \in List \ sharing[l] : part'[k] = part[k]
    <2> HIDE DEF q
    <2> QED BY <1>1, PartBecomesOK DEF Lookup, ListsInv, q
  <1>3. NodesFor(p, t)
    <2>1. Found[t] \in Seq(WordId) /\ n \in Nat /\ DOMAIN Found[t] = 1..n
      BY FoundAssumption
    <2>2. p = [k \in 1..n |-> p[k]]
      BY <2>1 DEF FoundNodes
    <2>3. ASSUME NEW k \in 1..n PROVE p[k].text = t /\ InfoOK(p[k].info)
      <3>1. p[k].text = t /\ p[k].info = GetWordInfoSubset(Found[t][k], s)
        BY <2>1 DEF FoundNodes
      <3>2. Found[t][k] \in WordId
        BY <2>1
      <3>3. QED
        BY <3>1, <3>2, WordInfoRange
    <2> HIDE DEF p, n
    <2>4. IsSeq(p) /\ DOMAIN p = 1..n
      BY <2>1, <2>2, MapIsSeq
    <2>5. QED
      BY <2>3, <2>4 DEF NodesFor, Elems
  <1> HIDE DEF p, q
  <1>4. nodes' = [k \in List |-> nodes'[k]] /\ nodes'[l] = nodes[l] \o p
        /\ \A k \in List \ {l} : nodes'[k] = nodes[k]
    <2>1. nodes' = [nodes EXCEPT ![l] = nodes[l] \o p]
      BY DEF Lookup, p
    <2>2. QED
      BY <2>1, OneList DEF ListsInv
  <1>5. ListOK(l)'
    <2>1. ASSUME l \notin stale', NEW x \in Elems(nodes[l]) \cup Elems(p)
          PROVE  x.text = part'[l].input.text /\ part'[l].input.state = "RO"
      <3>1. nodes[l] = <<>>
        BY <2>1 DEF Lookup, Stale
      <3>2. x \in Elems(p)
        BY <2>1, <3>1, NoNodes
      <3>3. QED
        BY <3>2, <1>1, <1>2, <1>3 DEF NodesFor
    <2>2. IsSeq(nodes[l]) /\ \A x \in Elems(nodes[l]) : InfoOK(x.info)
      BY DEF ListsInv, ListOK
    <2>3. IsSeq(p) /\ \A x \in Elems(p) : InfoOK(x.info)
      BY <1>3 DEF NodesFor
    <2>4. QED
      BY <1>4, <2>1, <2>2, <2>3, ListExtended
  <1>6. ASSUME NEW k \in List PROVE ListOK(k)'
    <2>1. CASE k # l /\ k \in sharing[l]
      <3>1. k \in stale' \/ nodes[k] = <<>>
        BY <2>1 DEF Lookup, Invalidated
      <3>2. QED
        BY <3>1, <1>4, <2>1, ListTold DEF ListsInv
    <2>2. CASE k \notin sharing[l]
      <3>1. k # l /\ (k \in stale => k \in stale')
        BY <1>1, <2>2 DEF Lookup, Stale
      <3>2. QED
        BY <3>1, <1>2, <1>4, <2>2, ListKept DEF ListsInv
    <2>3. QED
      BY <2>1, <2>2, <1>5
  <1>7. TokenizerInv' /\ stale' \subseteq List /\ held' \subseteq List
    BY DEF Lookup, Stale, Invalidated, ListsInv, SharingOK, tokenizer_vars,
           TokenizerInv, TopPathOK
  <1>8. QED
    BY <1>2, <1>4, <1>6, <1>7 DEF ListsInv

LEMMA LookupFailsInv ==
    ASSUME ListsInv, NEW l \in List, NEW t \in Text, LookupFails(l, t)
    PROVE  ListsInv'
  <1> DEFINE q == [part[l] EXCEPT !.input =
                      [text |-> t, state |-> IF t \in TooLong THEN "Clean" ELSE "RW"]]
  <1>1. q \in Part /\ l \in sharing[l]
    BY DEF ListsInv, SharingOK, Part, Input
  <1>2. /\ SharingOK' /\ \A k \in List \ sharing[l] : part'[k] = part[k]
    BY <1>1, PartBecomesOK DEF LookupFails, ListsInv
  <1>3. ASSUME NEW k \in List PROVE ListOK(k)'
    <2>1. nodes'[k] = nodes[k]
      BY DEF LookupFails
    <2>2. CASE k \in sharing[l]
      <3>1. k \in stale' \/ nodes[k] = <<>>
        BY <2>2 DEF LookupFails
      <3>2. QED
        BY <2>1, <3>1, ListTold DEF ListsInv
    <2>3. CASE k \notin sharing[l]
      <3>1. k \in stale => k \in stale'
        BY DEF LookupFails
      <3>2. QED
        BY <2>1, <3>1, <1>2, <2>3, ListKept DEF ListsInv
    <2>4. QED
      BY <2>2, <2>3
  <1>4. /\ TokenizerInv' /\ stale' \subseteq List /\ held' \subseteq List
        /\ nodes' = [k \in List |-> nodes'[k]]
    BY DEF LookupFails, ListsInv, SharingOK, tokenizer_vars, TokenizerInv, TopPathOK
  <1>5. QED
    BY <1>2, <1>3, <1>4 DEF ListsInv

\* What leaves the lists alone.
LEMMA OthersInv ==
    ASSUME ListsInv, TokenizerInv', UNCHANGED <<sharing, part, nodes, stale>>,
           held' \subseteq List
    PROVE  ListsInv'
  BY DEF ListsInv, SharingOK, SharersAgree, ListOK, InputOf

LEMMA ListsStep == ListsInv /\ [ListsNext]_all_vars => ListsInv'
  <1>1. SUFFICES ASSUME ListsInv, [ListsNext]_all_vars PROVE ListsInv'
    OBVIOUS
  <1>2. CASE TokenizerNext /\ UNCHANGED list_vars
    BY <1>1, <1>2, TokenizerStep, OthersInv DEF ListsInv, list_vars, history_vars
  <1>3. ASSUME NEW l \in List, ListStep(l)
        PROVE  ListsInv'
    <2>1. CASE Hold(l) \/ Release(l)
      <3>1. TokenizerInv' /\ held' \subseteq List
            /\ UNCHANGED <<sharing, part, nodes, stale>>
        BY <1>1, <2>1 DEF Hold, Release, history_vars, ListsInv, tokenizer_vars,
                          TokenizerInv, TopPathOK
      <3>2. QED
        BY <1>1, <3>1, OthersInv
    <2>2. QED
      BY <1>1, <1>3, <2>1, NewListInv, ClearInv, CollectInv, CollectPanicsInv,
         StatelessInv, LookupInv, LookupFailsInv DEF ListStep
  <1>4. ASSUME NEW l \in List, NEW out \in List, ListPairStep(l, out)
        PROVE  ListsInv'
    BY <1>1, <1>4, EmptyCloneInv, CopySliceInv, SplitIntoInv DEF ListPairStep
  <1>5. CASE UNCHANGED all_vars
    BY <1>1, <1>5, OthersInv
       DEF all_vars, list_vars, history_vars, tokenizer_vars, ListsInv, TokenizerInv,
           TopPathOK
  <1>6. QED
    BY <1>1, <1>2, <1>3, <1>4, <1>5 DEF ListsNext

LEMMA ListsInvariance == ListsSpec => []ListsInv
  BY ListsInitInv, ListsStep, PTL DEF ListsSpec

----------------------------------------------------------------------------
(* Theorems.                                                               *)

\* Whatever is analysed, split, cloned, copied, cleared and looked up, and in
\* whatever order: the lists that share an input agree on it, and the nodes of
\* a list were made for the text it has, but for the lists a caller was told
\* not to read.
THEOREM NodesMatchInputCorrect == ListsSpec => []NodesMatchInput
  <1>1. ASSUME ListsInv PROVE NodesMatchInput
    <2>1. NodesHaveText
      BY <1>1 DEF ListsInv, ListOK, NodesHaveText, Elems
    <2>2. QED
      BY <1>1, <2>1 DEF ListsInv, SharingOK, NodesMatchInput
  <1>2. QED
    BY <1>1, ListsInvariance, PTL

\* No operation on any list, the analysis of another text into a list that
\* shares the input included, changes the text under a surface a caller holds.
THEOREM HeldTextStaysCorrect == ListsSpec => HeldTextStays
  <1> DEFINE Stays == \A l \in held \cap held' : InputOf(l)' = InputOf(l)
  <1>1. ASSUME ListsInv, [ListsNext]_all_vars PROVE Stays
    <2>1. /\ held \subseteq List /\ part \in [List -> Part]
          /\ \A k \in List : k \in sharing[k]
      BY <1>1 DEF ListsInv, SharingOK
    <2>2. ASSUME NEW l \in List, ListStep(l) PROVE Stays
      <3>1. CASE Collect(l) \/ CollectPanics(l) \/ \E t \in Text : LookupFails(l, t)
        <4>1. /\ \A k \in List \ sharing[l] : part'[k] = part[k]
              /\ sharing[l] \cap held = {}
          BY <3>1 DEF Collect, CollectPanics, LookupFails, SwapInput, PartBecomes,
                      Borrowed
        <4>2. QED
          BY <2>1, <4>1 DEF InputOf
      <3>2. CASE \E t \in Text, s \in LookupSubsets : Lookup(l, t, s)
        <4>1. /\ \A k \in List \ sharing[l] : part'[k] = part[k]
              /\ sharing[l] \cap held = {}
          BY <3>2 DEF Lookup, PartBecomes, Borrowed
        <4>2. QED
          BY <2>1, <4>1 DEF InputOf
      <3>3. CASE \/ NewList(l) \/ Clear(l) \/ Hold(l) \/ Release(l)
                 \/ \E t \in Text, m \in Modes : StatelessTokenize(t, m, l)
        <4>1. \A k \in held \cap held' : part'[k] = part[k]
          BY <2>1, <3>3 DEF NewList, Clear, Hold, Release, StatelessTokenize, Mutable
        <4>2. QED
          BY <4>1 DEF InputOf
      <3>4. QED
        BY <2>2, <3>1, <3>2, <3>3 DEF ListStep
    <2>3. ASSUME NEW l \in List, NEW out \in List, ListPairStep(l, out) PROVE Stays
      <3>1. \A k \in held \cap held' : part'[k] = part[k]
        BY <2>1, <2>3 DEF ListPairStep, EmptyClone, CopySlice, SplitInto, Mutable
      <3>2. QED
        BY <3>1 DEF InputOf
    <2>4. CASE UNCHANGED part
      BY <2>4 DEF InputOf
    <2>5. QED
      BY <1>1, <2>2, <2>3, <2>4 DEF ListsNext, list_vars, all_vars
  <1>2. QED
    BY <1>1, ListsInvariance, PTL DEF ListsSpec, HeldTextStays


----------------------------------------------------------------------------
(* The units of words.                                                     *)

\* The units of w in the mode m.
UnitsOf(w, m) ==
    IF IsOov(w) \/ m = "C" THEN <<>>
    ELSE ResolveAll(IF m = "A" THEN Info[w].a ELSE Info[w].b, w[1])

\* These are read when they are asked for.
LEMMA UnitsRead ==
    ASSUME NEW w \in WordId, NEW m \in Mode, NEW s, ModeSubset(m) \subseteq s,
           NEW x, x.info = NodeInfo(w, s)
    PROVE  Units(x, m) = UnitsOf(w, m)
  <1>1. CASE IsOov(w)
    <2>1. x.info.a = <<>> /\ x.info.b = <<>>
      BY <1>1 DEF NodeInfo
    <2>2. QED
      BY <1>1, <2>1 DEF Units, UnitsOf, Mode
  <1>2. CASE ~IsOov(w)
    <2>1. x.info = GetWordInfoSubset(w, s)
      BY <1>2 DEF NodeInfo
    <2>2. CASE m = "A"
      <3>1. "SPLIT_A" \in s
        BY <2>2 DEF ModeSubset
      <3>2. x.info.a = ResolveAll(Info[w].a, w[1])
        BY <2>1, <3>1 DEF GetWordInfoSubset, Resolve, Parse
      <3>3. QED
        BY <1>2, <2>2, <3>2 DEF Units, UnitsOf
    <2>3. CASE m = "B"
      <3>1. "SPLIT_B" \in s
        BY <2>3 DEF ModeSubset
      <3>2. x.info.b = ResolveAll(Info[w].b, w[1])
        BY <2>1, <3>1 DEF GetWordInfoSubset, Resolve, Parse
      <3>3. QED
        BY <1>2, <2>3, <3>2 DEF Units, UnitsOf
    <2>4. CASE m = "C"
      BY <2>4 DEF Units, UnitsOf
    <2>5. QED
      BY <2>2, <2>3, <2>4 DEF Mode
  <1>3. QED
    BY <1>1, <1>2

\* So is their length.
LEMMA UnitLength ==
    ASSUME NEW u, NEW s, "LENGTH" \in Normalize(s)
    PROVE  GetWordInfoSubset(u, s).length = Info[u].length
  BY DEF GetWordInfoSubset, Resolve, Parse

\* The boundaries of the units us in a word of this length.
Boundaries(e, us, length) ==
    /\ e \in [0..Len(us) -> Nat] /\ e[0] = 0 /\ e[Len(us)] = length
    /\ \A k \in 1..Len(us) : e[k] = e[k - 1] + Info[us[k]].length

LEMMA UnitsOfFit ==
    ASSUME UnitsFit, NEW w \in WordId, NEW m \in Mode, UnitsOf(w, m) # <<>>
    PROVE  /\ UnitsOf(w, m) \in Seq(WordId) /\ Len(UnitsOf(w, m)) \in Nat \ {0}
           /\ \A k \in 1..Len(UnitsOf(w, m)) : ~IsOov(UnitsOf(w, m)[k])
           /\ \E e : Boundaries(e, UnitsOf(w, m), Info[w].length)
  <1> DEFINE refs == IF m = "A" THEN Info[w].a ELSE Info[w].b
             us == UnitsOf(w, m)
             n == Len(refs)
  <1>1. ~IsOov(w) /\ m # "C" /\ us = ResolveAll(refs, w[1])
    BY DEF UnitsOf
  <1>2. /\ refs \in Seq(Ref) /\ w \in Ref /\ Info[w].length \in Nat
        /\ \A k \in DOMAIN refs : ResolveRef(refs[k], w[1]) \in WordId
    BY InfoAssumption DEF Range
  <1>3. n \in Nat /\ DOMAIN refs = 1..n /\ refs \in {Info[w].a, Info[w].b}
    BY <1>2
  <1> HIDE DEF refs
  <1>4. us = [k \in 1..n |-> ResolveRef(refs[k], w[1])]
    BY <1>1, <1>3 DEF ResolveAll
  <1>5. us \in Seq(WordId) /\ Len(us) = n
    <2>1. us \in [1..n -> WordId]
      BY <1>2, <1>3, <1>4
    <2> HIDE DEF us
    <2>2. QED
      BY <2>1, <1>3
  <1>6. n # 0
    <2>1. us # <<>>
      OBVIOUS
    <2> HIDE DEF us
    <2>2. QED
      BY <1>5, <2>1
  <1>7. refs # <<>>
    BY <1>3, <1>6
  <1>8. PICK e \in [0..n -> 0..Info[w].length] :
           /\ e[0] = 0 /\ e[n] = Info[w].length
           /\ \A k \in 1..n : e[k] = e[k - 1] + Info[ResolveRef(refs[k], w[1])].length
    BY <1>1, <1>3, <1>7 DEF UnitsFit
  <1>9. Boundaries(e, us, Info[w].length)
    <2>1. e \in [0..n -> Nat]
      BY <1>2, <1>8
    <2>2. \A k \in 1..n : us[k] = ResolveRef(refs[k], w[1])
      BY <1>4
    <2> HIDE DEF us
    <2>3. QED
      BY <1>5, <1>8, <2>1, <2>2 DEF Boundaries
  <1>10. ASSUME NEW k \in 1..n PROVE ~IsOov(us[k])
    <2>1. us[k] = ResolveRef(refs[k], w[1])
      BY <1>4
    <2>2. refs[k] \in Ref
      BY <1>2, <1>3
    <2>3. QED
      BY <1>1, <2>1, <2>2 DEF ResolveRef, IsOov, OovDict, Ref
  <1>11. QED
    <2> HIDE DEF us
    <2> QED BY <1>3, <1>5, <1>6, <1>9, <1>10 DEF us

----------------------------------------------------------------------------
(* Boundaries.                                                             *)

\* The ends of the words of a best path add up.
LEMMA BestEnds ==
    ASSUME NEW t \in Text
    PROVE  LET n == Len(BestPath[t])
           IN  \E g \in [0..n -> Nat] :
                   /\ g[0] = 0 /\ \A k \in 0..n : BestEnd(t, k) = g[k]
                   /\ \A k \in 1..n : g[k] = g[k - 1] + Info[BestPath[t][k]].length
  <1> DEFINE n == Len(BestPath[t])
             v == [i \in 1..n |-> Info[BestPath[t][i]].length]
  <1>1. n \in Nat /\ \A i \in 1..n : BestPath[t][i] \in WordId
    BY TextAssumption
  <1>2. v \in [1..n -> Nat]
    BY <1>1, InfoAssumption
  <1>3. \A i \in 1..n : v[i] = Info[BestPath[t][i]].length
    OBVIOUS
  <1> HIDE DEF n, v
  <1>4. PICK g \in [0..n -> Nat] : g[0] = 0 /\ \A i \in 1..n : g[i] = g[i - 1] + v[i]
    <2>1. 0 \in Nat
      OBVIOUS
    <2>2. QED
      BY <1>1, <1>2, <2>1, RunningSum
  <1>5. ASSUME NEW k \in 0..n PROVE BestEnd(t, k) = g[k]
    <2> DEFINE Is(e) == e = [i \in 0..k |-> IF i = 0 THEN 0
                                ELSE e[i - 1] + Info[BestPath[t][i]].length]
               c == CHOOSE e : Is(e)
               h == [i \in 0..k |-> g[i]]
    <2>1. k \in Nat
      BY <1>1
    <2>2. ASSUME NEW i \in 1..k
          PROVE  i \in 1..n /\ i \in 0..k /\ i # 0 /\ i - 1 \in 0..k
      BY <1>1
    <2>3. Is(h)
      <3>1. ASSUME NEW i \in 0..k
            PROVE  h[i] = IF i = 0 THEN 0
                          ELSE h[i - 1] + Info[BestPath[t][i]].length
        <4>1. i = 0 \/ i \in 1..k
          OBVIOUS
        <4>2. QED
          BY <1>3, <1>4, <2>2, <4>1
      <3>2. h = [i \in 0..k |-> h[i]]
        OBVIOUS
      <3> HIDE DEF h
      <3>3. QED
        BY <3>1, <3>2
    <2>4. Is(c)
      <3> HIDE DEF Is, h
      <3> QED BY <2>3
    <2>5. BestEnd(t, k) = c[k]
      BY DEF BestEnd
    <2>6. c[0] = 0 /\ \A i \in 1..k : c[i] = c[i - 1] + v[i]
      <3> HIDE DEF c
      <3>1. 0 \in 0..k
        BY <2>1
      <3>2. QED
        BY <1>3, <2>2, <2>4, <3>1
    <2>7. \A i \in 1..k : g[i] = g[i - 1] + v[i]
      BY <1>4, <2>2
    <2> HIDE DEF c
    <2>8. c[k] = g[k]
      <3>1. Sums(c, v, k) /\ Sums(g, v, k)
        BY <2>6, <2>7 DEF Sums
      <3>2. c[0] = g[0]
        BY <1>4, <2>6
      <3>3. QED
        BY <2>1, <3>1, <3>2, SumIs
    <2>9. QED
      BY <2>5, <2>8
  <1>6. QED
    BY <1>3, <1>4, <1>5 DEF n

\* So do those of the units of a node, from where it begins.
LEMMA UnitEnds ==
    ASSUME NEW x, NEW m, NEW s, "LENGTH" \in Normalize(s),
           Units(x, m) \in Seq(WordId), x.begin \in Nat,
           NEW length, x.end = x.begin + length,
           NEW e, Boundaries(e, Units(x, m), length),
           NEW k \in 1..Len(Units(x, m))
    PROVE  UnitEnd(x, m, k, s) = x.begin + e[k]
  <1> DEFINE us == Units(x, m)
             b == x.begin
             n == Len(us)
             v == [i \in 1..n |-> UnitInfo(x, m, i, s).length]
  <1>1. n \in Nat /\ k \in Nat /\ e \in [0..n -> Nat] /\ e[0] = 0 /\ e[n] = length
        /\ b \in Nat /\ k \in 1..n
    BY DEF Boundaries
  <1>2. ASSUME NEW i \in 1..n
        PROVE  v[i] \in Nat /\ e[i] = e[i - 1] + v[i]
    <2>1. us[i] \in WordId
      OBVIOUS
    <2>2. Info[us[i]].length \in Nat /\ v[i] = Info[us[i]].length
      BY <2>1, InfoAssumption, UnitLength DEF UnitInfo
    <2>3. QED
      BY <2>2 DEF Boundaries
  <1>3. \A i \in 1..n : v[i] = UnitInfo(x, m, i, s).length
    OBVIOUS
  <1> HIDE DEF v
  <1>4. CASE k = n
    BY <1>1, <1>4 DEF UnitEnd
  <1>5. CASE k # n
    <2> DEFINE Is(f) == f = [i \in 0..k |-> IF i = 0 THEN x.begin
                                ELSE f[i - 1] + UnitInfo(x, m, i, s).length]
               c == CHOOSE f : Is(f)
               h == [i \in 0..k |-> b + e[i]]
    <2>1. UnitEnd(x, m, k, s) = c[k]
      BY <1>5 DEF UnitEnd
    <2> HIDE DEF us, n
    <2>2. ASSUME NEW i \in 1..k
          PROVE  i \in 1..n /\ i \in 0..k /\ i # 0 /\ i - 1 \in 0..k
                 /\ i \in 0..n /\ i - 1 \in 0..n
      BY <1>1
    <2>3. h[0] = b /\ h[k] = b + e[k]
      BY <1>1
    <2>4. ASSUME NEW i \in 1..k PROVE h[i] = h[i - 1] + v[i]
      <3>1. h[i] = b + e[i] /\ h[i - 1] = b + e[i - 1]
        BY <2>2
      <3>2. e[i] \in Nat /\ e[i - 1] \in Nat /\ v[i] \in Nat /\ e[i] = e[i - 1] + v[i]
        BY <1>1, <1>2, <2>2
      <3>3. b \in Nat
        BY <1>1
      <3> HIDE DEF h, b
      <3>4. QED
        BY <3>1, <3>2, <3>3
    <2>5. Is(h)
      <3>1. ASSUME NEW i \in 0..k
            PROVE  h[i] = IF i = 0 THEN x.begin
                          ELSE h[i - 1] + UnitInfo(x, m, i, s).length
        <4>1. i = 0 \/ i \in 1..k
          BY <1>1
        <4> HIDE DEF h
        <4>2. QED
          BY <1>3, <2>2, <2>3, <2>4, <4>1
      <3>2. h = [i \in 0..k |-> h[i]]
        OBVIOUS
      <3> HIDE DEF h
      <3>3. QED
        BY <3>1, <3>2
    <2>6. Is(c)
      <3> HIDE DEF Is, h
      <3> QED BY <2>5
    <2>7. c[0] = b /\ \A i \in 1..k : c[i] = c[i - 1] + v[i]
      <3> HIDE DEF c
      <3>1. 0 \in 0..k
        BY <1>1
      <3>2. QED
        BY <1>3, <2>2, <2>6, <3>1
    <2> HIDE DEF c, h
    <2>8. c[k] = h[k]
      <3>1. Sums(c, v, k) /\ Sums(h, v, k)
        BY <2>4, <2>7 DEF Sums
      <3>2. QED
        BY <1>1, <2>3, <2>7, <3>1, SumIs
    <2>9. QED
      BY <2>1, <2>3, <2>8
  <1>6. QED
    BY <1>4, <1>5

----------------------------------------------------------------------------
(* Rows of nodes.                                                          *)

\* x is as long as its word.
Fits(x) ==
    /\ x.word \in WordId /\ x.begin \in Nat /\ x.end \in Nat
    /\ x.end = x.begin + Info[x.word].length

\* Nodes of the text t that go from b to e without gap or overlap.
Chain(p, b, e, t) ==
    /\ IsSeq(p) /\ Len(p) > 0
    /\ p[1].begin = b /\ p[Len(p)].end = e
    /\ \A k \in 2..Len(p) : p[k].begin = p[k - 1].end
    /\ \A k \in 1..Len(p) : Fits(p[k]) /\ p[k].text = t

WordsOf(p) == [k \in 1..Len(p) |-> p[k].word]

LEMMA SeqLen ==
    ASSUME NEW p, IsSeq(p)
    PROVE  Len(p) \in Nat /\ DOMAIN p = 1..Len(p) /\ p = [k \in 1..Len(p) |-> p[k]]
  BY DEF IsSeq

\* The units of a node go from its begin to its end.
LEMMA SplitNodeChain ==
    ASSUME UnitsFit, NEW x, Fits(x), NEW m \in Mode,
           Units(x, m) = UnitsOf(x.word, m), Units(x, m) # <<>>,
           NEW s, "LENGTH" \in Normalize(s)
    PROVE  /\ Chain(SplitNode(x, m, s), x.begin, x.end, x.text)
           /\ WordsOf(SplitNode(x, m, s)) = Units(x, m)
  <1> DEFINE us == Units(x, m)
             n == Len(us)
             p == SplitNode(x, m, s)
  <1>1. /\ us \in Seq(WordId) /\ n \in Nat \ {0} /\ DOMAIN us = 1..n
        /\ \E e : Boundaries(e, us, Info[x.word].length)
    BY UnitsOfFit DEF Fits
  <1>2. PICK e : Boundaries(e, us, Info[x.word].length)
    BY <1>1
  <1>3. /\ e \in [0..n -> Nat] /\ e[0] = 0 /\ x.begin \in Nat
        /\ x.end = x.begin + e[n]
        /\ \A k \in 1..n : e[k] = e[k - 1] + Info[us[k]].length
    BY <1>2 DEF Boundaries, Fits
  <1>4. p = [k \in 1..n |-> UnitNode(x, m, k, s)]
    BY <1>1 DEF SplitNode
  <1>5. p = [k \in 1..n |-> p[k]]
    BY <1>4
  <1>6. IsSeq(p) /\ Len(p) = n /\ DOMAIN p = 1..n
    <2> HIDE DEF p
    <2> QED BY <1>1, <1>5, MapIsSeq
  <1>7. ASSUME NEW k \in 1..n
        PROVE  UnitEnd(x, m, k, s) = x.begin + e[k]
    <2>1. /\ Units(x, m) \in Seq(WordId) /\ k \in 1..Len(Units(x, m))
          /\ Boundaries(e, Units(x, m), Info[x.word].length)
      BY <1>1, <1>2
    <2>2. x.begin \in Nat /\ x.end = x.begin + Info[x.word].length
      BY DEF Fits
    <2>3. QED
      BY <2>1, <2>2, UnitEnds
  <1>8. ASSUME NEW k \in 1..n
        PROVE  /\ p[k].word = us[k] /\ p[k].text = x.text
               /\ p[k].begin = x.begin + e[k - 1] /\ p[k].end = x.begin + e[k]
    <2>1. p[k] = UnitNode(x, m, k, s)
      BY <1>4
    <2>2. /\ p[k].word = us[k] /\ p[k].text = x.text /\ p[k].end = x.begin + e[k]
          /\ p[k].begin = IF k = 1 THEN x.begin ELSE UnitEnd(x, m, k - 1, s)
      BY <2>1, <1>7 DEF UnitNode
    <2>3. CASE k = 1
      BY <1>3, <2>2, <2>3
    <2>4. CASE k # 1
      <3>1. k - 1 \in 1..n
        BY <1>1, <2>4
      <3>2. QED
        BY <1>7, <2>2, <2>4, <3>1
    <2>5. QED
      BY <2>2, <2>3, <2>4
  <1> HIDE DEF p, us, n
  <1>9. ASSUME NEW k \in 1..n PROVE Fits(p[k])
    <2>1. k \in 0..n /\ k - 1 \in 0..n
      BY <1>1
    <2>2. e[k] \in Nat /\ e[k - 1] \in Nat /\ us[k] \in WordId
      BY <1>1, <1>3, <2>1
    <2>3. Info[us[k]].length \in Nat
      BY <2>2, InfoAssumption
    <2>4. /\ p[k].word = us[k] /\ p[k].begin = x.begin + e[k - 1]
          /\ p[k].end = x.begin + e[k] /\ e[k] = e[k - 1] + Info[us[k]].length
      BY <1>3, <1>8
    <2>5. /\ p[k].begin \in Nat /\ p[k].end \in Nat
          /\ p[k].end = p[k].begin + Info[us[k]].length
      BY <1>3, <2>2, <2>3, <2>4
    <2>6. QED
      BY <2>2, <2>4, <2>5 DEF Fits
  <1>10. ASSUME NEW k \in 2..n PROVE p[k].begin = p[k - 1].end
    <2>1. k \in 1..n /\ k - 1 \in 1..n
      BY <1>1
    <2>2. QED
      BY <1>8, <2>1
  <1>11. p[1].begin = x.begin /\ p[n].end = x.end
    <2>1. 1 \in 1..n /\ n \in 1..n
      BY <1>1
    <2>2. QED
      BY <1>3, <1>8, <2>1
  <1>12. Chain(p, x.begin, x.end, x.text)
    BY <1>1, <1>6, <1>8, <1>9, <1>10, <1>11 DEF Chain
  <1>13. WordsOf(p) = us
    <2>1. us = [k \in 1..n |-> us[k]]
      BY <1>1 DEF n
    <2>2. \A k \in 1..n : p[k].word = us[k]
      BY <1>8
    <2>3. QED
      BY <1>6, <2>1, <2>2 DEF WordsOf
  <1>14. QED
    BY <1>12, <1>13 DEF p, us

LEMMA ChainConcat ==
    ASSUME NEW p, NEW q, NEW t, NEW b, NEW c, NEW e, Chain(p, b, c, t), Chain(q, c, e, t)
    PROVE  Chain(p \o q, b, e, t)
  <1> DEFINE r == p \o q
             n == Len(p)
             l == Len(q)
  <1>1. IsSeq(p) /\ IsSeq(q) /\ n \in Nat /\ l \in Nat /\ n > 0 /\ l > 0
    BY SeqLen DEF Chain
  <1>2. /\ IsSeq(r) /\ Len(r) = n + l
        /\ \A k \in 1..n : r[k] = p[k]
        /\ \A k \in 1..l : r[n + k] = q[k]
    BY <1>1, ConcatAt, ConcatIsSeq
  <1> HIDE DEF r
  <1>3. ASSUME NEW k \in 1..n + l
        PROVE  k \in 1..n \/ (k - n \in 1..l /\ r[k] = q[k - n])
    <2>1. k > n => k - n \in 1..l /\ n + (k - n) = k
      BY <1>1
    <2>2. QED
      BY <1>1, <1>2, <2>1
  <1>4. ASSUME NEW k \in 1..n + l PROVE Fits(r[k]) /\ r[k].text = t
    <2>1. /\ \A i \in 1..n : Fits(p[i]) /\ p[i].text = t
          /\ \A i \in 1..l : Fits(q[i]) /\ q[i].text = t
      BY DEF Chain
    <2> HIDE DEF n, l
    <2>2. CASE k \in 1..n
      BY <1>2, <2>1, <2>2
    <2>3. CASE k \notin 1..n
      BY <1>3, <2>1, <2>3
    <2>4. QED
      BY <2>2, <2>3
  <1>5. ASSUME NEW k \in 2..n + l PROVE r[k].begin = r[k - 1].end
    <2>1. CASE k =< n
      <3>1. k \in 2..n /\ k \in 1..n /\ k - 1 \in 1..n
        BY <1>1, <2>1
      <3>2. QED
        BY <1>2, <3>1 DEF Chain
    <2>2. CASE k = n + 1
      <3>1. 1 \in 1..l /\ n \in 1..n
        BY <1>1
      <3>2. r[k] = q[1] /\ r[k - 1] = p[n]
        BY <1>1, <1>2, <2>2, <3>1
      <3>3. QED
        BY <3>2 DEF Chain
    <2>3. CASE k > n + 1
      <3>1. k - n \in 2..l /\ k - 1 \in 1..n + l /\ k - 1 \notin 1..n /\ k \notin 1..n
            /\ k \in 1..n + l /\ (k - 1) - n = (k - n) - 1
        BY <1>1, <2>3
      <3>2. r[k] = q[k - n] /\ r[k - 1] = q[(k - n) - 1]
        BY <1>3, <3>1
      <3>3. QED
        BY <3>1, <3>2 DEF Chain
    <2>4. QED
      BY <1>1, <2>1, <2>2, <2>3
  <1>6. r[1].begin = b /\ r[n + l].end = e
    <2>1. 1 \in 1..n /\ l \in 1..l
      BY <1>1
    <2>2. r[1] = p[1] /\ r[n + l] = q[l]
      BY <1>2, <2>1
    <2>3. QED
      BY <2>2 DEF Chain
  <1>7. Len(r) > 0
    BY <1>1, <1>2
  <1>8. QED
    BY <1>2, <1>4, <1>5, <1>6, <1>7 DEF Chain, r

\* Rows that follow each other make a row.
LEMMA FlattenChain ==
    ASSUME NEW n \in Nat, n > 0, NEW ss, ss = [i \in 1..n |-> ss[i]], NEW t, NEW c,
           \A i \in 1..n : Chain(ss[i], c[i - 1], c[i], t)
    PROVE  Chain(FlattenSeq(ss), c[0], c[n], t)
  <1>1. PICK g : IsFlattening(g, ss, n) /\ FlattenSeq(ss) = g[n]
    BY FlattenStages
  <1> DEFINE T == {i \in 1..n : ~Chain(g[i], c[0], c[i], t)}
  <1>2. CASE T # {}
    <2>1. PICK m \in T : \A k \in T : m =< k
      <3>1. T \in SUBSET Nat
        OBVIOUS
      <3> HIDE DEF T
      <3> QED BY <1>2, <3>1, MinNat
    <2>2. m \in 1..n /\ ~Chain(g[m], c[0], c[m], t)
      OBVIOUS
    <2>3. g[m] = IF m = 1 THEN ss[m] ELSE g[m - 1] \o ss[m]
      BY <1>1, <2>2 DEF IsFlattening
    <2>4. CASE m = 1
      <3>1. Chain(ss[1], c[0], c[1], t)
        <4>1. 1 \in 1..n /\ 1 - 1 = 0
          OBVIOUS
        <4>2. QED
          BY <4>1
      <3>2. QED
        BY <2>2, <2>3, <2>4, <3>1
    <2>5. CASE m # 1
      <3>1. m - 1 \in 1..n /\ ~(m =< m - 1)
        BY <2>2, <2>5
      <3>2. m - 1 \notin T
        <4> HIDE DEF T
        <4> QED BY <2>1, <3>1
      <3>3. Chain(g[m - 1], c[0], c[m - 1], t)
        BY <3>1, <3>2
      <3>4. Chain(ss[m], c[m - 1], c[m], t)
        BY <2>2
      <3>5. Chain(g[m - 1] \o ss[m], c[0], c[m], t)
        BY <3>3, <3>4, ChainConcat
      <3>6. QED
        BY <2>2, <2>3, <2>5, <3>5
    <2>6. QED
      BY <2>4, <2>5
  <1>3. CASE T = {}
    <2>1. n \in 1..n
      OBVIOUS
    <2>2. QED
      BY <1>1, <1>3, <2>1
  <1>4. QED
    BY <1>2, <1>3

\* Their words are those of the row.
HaveWords(ss, us, n) == \A i \in 1..n : IsSeq(ss[i]) /\ WordsOf(ss[i]) = us[i]

LEMMA FlattenWords ==
    ASSUME NEW n \in Nat, n > 0, NEW ss, ss = [i \in 1..n |-> ss[i]],
           NEW us, us = [i \in 1..n |-> us[i]], HaveWords(ss, us, n)
    PROVE  WordsOf(FlattenSeq(ss)) = FlattenSeq(us)
  <1> DEFINE X == UNION {Elems(ss[i]) : i \in 1..n}
             F == [x \in X |-> x.word]
             r == FlattenSeq(ss)
  <1>1. ASSUME NEW p, IsSeq(p), Elems(p) \subseteq X
        PROVE  WordsOf(p) = Mapped(F, p)
    <2>1. DOMAIN p = 1..Len(p)
      BY <1>1, SeqLen
    <2>2. \A k \in 1..Len(p) : p[k] \in X
      BY <1>1, <2>1 DEF Elems
    <2> HIDE DEF X
    <2>3. \A k \in 1..Len(p) : F[p[k]] = p[k].word
      BY <2>2
    <2> HIDE DEF F
    <2>4. QED
      BY <2>1, <2>3 DEF WordsOf, Mapped
  <1>2. ASSUME NEW i \in 1..n PROVE IsSeq(ss[i]) /\ us[i] = Mapped(F, ss[i])
    <2>1. IsSeq(ss[i]) /\ WordsOf(ss[i]) = us[i]
      BY DEF HaveWords
    <2>2. Elems(ss[i]) \subseteq X
      OBVIOUS
    <2> HIDE DEF X, F
    <2>3. QED
      BY <1>1, <2>1, <2>2
  <1>3. IsSeq(r) /\ Elems(r) \subseteq X
    <2>1. /\ IsSeq(r)
          /\ \A x \in Elems(r) : \E i \in 1..n : x \in Elems(ss[i])
      BY <1>2, FlattenElems
    <2> HIDE DEF r
    <2>2. QED
      BY <2>1
  <1> HIDE DEF X, F
  <1>4. FlattenSeq(us) = Mapped(F, r)
    <2>1. AreImages(F, ss, us, n)
      BY <1>2 DEF AreImages
    <2>2. QED
      BY <2>1, FlattenMapped
  <1> HIDE DEF r
  <1>5. WordsOf(r) = Mapped(F, r)
    BY <1>1, <1>3
  <1>6. QED
    BY <1>4, <1>5 DEF r

----------------------------------------------------------------------------
(* The result of an analysis.                                              *)

\* The words an analysis in the mode m gives for the k-th word of the best path.
Kept(t, m, k) ==
    LET w == BestPath[t][k]
    IN  IF Len(UnitsOf(w, m)) =< 1 THEN <<w>> ELSE UnitsOf(w, m)

LEMMA BestNodesFit ==
    ASSUME NEW t \in Text, NEW s, NEW k \in 1..Len(BestPath[t])
    PROVE  LET x == BestNodes(t, s)[k]
           IN  /\ Fits(x) /\ x.text = t
               /\ x.word = BestPath[t][k] /\ x.info = NodeInfo(x.word, s)
               /\ x.begin = BestEnd(t, k - 1) /\ x.end = BestEnd(t, k)
  <1> DEFINE n == Len(BestPath[t])
             w == BestPath[t][k]
             x == BestNodes(t, s)[k]
  <1>1. n \in Nat /\ DOMAIN BestPath[t] = 1..n /\ w \in WordId
    BY TextAssumption
  <1>2. x = [word |-> w, begin |-> BestEnd(t, k - 1), end |-> BestEnd(t, k),
             info |-> NodeInfo(w, s), text |-> t]
    BY <1>1 DEF BestNodes
  <1>3. PICK g \in [0..n -> Nat] :
            /\ \A i \in 0..n : BestEnd(t, i) = g[i]
            /\ \A i \in 1..n : g[i] = g[i - 1] + Info[BestPath[t][i]].length
    BY BestEnds
  <1>4. k \in 0..n /\ k - 1 \in 0..n
    BY <1>1
  <1>5. /\ BestEnd(t, k) \in Nat /\ BestEnd(t, k - 1) \in Nat
        /\ BestEnd(t, k) = BestEnd(t, k - 1) + Info[w].length
    BY <1>3, <1>4
  <1> HIDE DEF x
  <1>6. QED
    BY <1>1, <1>2, <1>5 DEF Fits, x

LEMMA LengthFacts ==
    ASSUME NEW t \in Text
    PROVE  Length(t) \in Nat /\ BestEnd(t, 0) = 0 /\ (BestPath[t] = <<>> => Length(t) = 0)
  <1> DEFINE n == Len(BestPath[t])
  <1>1. n \in Nat
    BY TextAssumption
  <1>2. PICK g \in [0..n -> Nat] : g[0] = 0 /\ \A i \in 0..n : BestEnd(t, i) = g[i]
    BY BestEnds
  <1>3. 0 \in 0..n /\ n \in 0..n
    BY <1>1
  <1>4. BestEnd(t, 0) = 0 /\ BestEnd(t, n) = g[n] /\ g[n] \in Nat
    BY <1>2, <1>3
  <1>5. BestPath[t] = <<>> => n = 0
    OBVIOUS
  <1>6. QED
    BY <1>4, <1>5 DEF Length

\* The nodes of a text go from its beginning to its end, in any mode whose
\* fields were read, and their words are the units of the mode.
LEMMA ResultChain ==
    ASSUME UnitsFit, NEW t \in Text, BestPath[t] # <<>>, NEW m \in Mode, NEW s,
           ModeSubset(m) \subseteq s
    PROVE  LET p == SplitPath(BestNodes(t, s), m, s)
           IN  /\ Chain(p, 0, Length(t), t)
               /\ WordsOf(p) = FlattenSeq([k \in 1..Len(BestPath[t]) |-> Kept(t, m, k)])
  <1> DEFINE n == Len(BestPath[t])
             b == BestNodes(t, s)
             ss == [k \in 1..n |-> IF Len(Units(b[k], m)) =< 1 THEN <<b[k]>>
                                   ELSE SplitNode(b[k], m, s)]
             us == [k \in 1..n |-> Kept(t, m, k)]
             c == [k \in 0..n |-> BestEnd(t, k)]
  <1>1. n \in Nat /\ n > 0 /\ DOMAIN BestPath[t] = 1..n
    BY TextAssumption
  <1>2. b = [k \in 1..n |-> b[k]] /\ DOMAIN b = 1..n
    BY <1>1 DEF BestNodes
  <1>3. ASSUME NEW k \in 1..n
        PROVE  /\ Fits(b[k]) /\ b[k].text = t /\ b[k].word = BestPath[t][k]
               /\ b[k].begin = BestEnd(t, k - 1) /\ b[k].end = BestEnd(t, k)
               /\ Units(b[k], m) = UnitsOf(BestPath[t][k], m)
    <2>1. /\ Fits(b[k]) /\ b[k].text = t /\ b[k].word = BestPath[t][k]
          /\ b[k].begin = BestEnd(t, k - 1) /\ b[k].end = BestEnd(t, k)
          /\ b[k].info = NodeInfo(BestPath[t][k], s)
      BY BestNodesFit
    <2>2. BestPath[t][k] \in WordId
      BY <2>1 DEF Fits
    <2>3. QED
      BY <2>1, <2>2, UnitsRead
  <1> HIDE DEF b
  <1>4. ASSUME NEW k \in 1..n, Len(Units(b[k], m)) =< 1
        PROVE  /\ Chain(<<b[k]>>, BestEnd(t, k - 1), BestEnd(t, k), t)
               /\ WordsOf(<<b[k]>>) = us[k]
    <2> DEFINE x == b[k]
               q == <<x>>
    <2>1. IsSeq(q) /\ Len(q) = 1 /\ q[1] = x
      <3>1. q \in Seq({x})
        OBVIOUS
      <3>2. QED
        BY <3>1, SeqIsSeq
    <2>2. us[k] = <<x.word>>
      BY <1>3, <1>4 DEF Kept
    <2>3. WordsOf(q) = <<x.word>>
      <3>1. WordsOf(q) = [j \in 1..1 |-> q[j].word]
        BY <2>1 DEF WordsOf
      <3>2. <<x.word>> = [j \in 1..1 |-> x.word]
        OBVIOUS
      <3>3. \A j \in 1..1 : q[j].word = x.word
        BY <2>1
      <3> HIDE DEF q, x
      <3>4. QED
        BY <3>1, <3>2, <3>3
    <2> HIDE DEF q, us
    <2>4. Chain(q, BestEnd(t, k - 1), BestEnd(t, k), t)
      <3>1. \A j \in 1..Len(q) : q[j] = x
        BY <2>1
      <3>2. \A j \in 2..Len(q) : FALSE
        BY <2>1
      <3>3. QED
        BY <1>3, <2>1, <3>1, <3>2 DEF Chain
    <2>5. QED
      BY <2>2, <2>3, <2>4 DEF q
  <1>5. ASSUME NEW k \in 1..n, ~(Len(Units(b[k], m)) =< 1)
        PROVE  /\ m # "C"
               /\ Chain(SplitNode(b[k], m, s), BestEnd(t, k - 1), BestEnd(t, k), t)
               /\ WordsOf(SplitNode(b[k], m, s)) = us[k]
    <2> DEFINE x == b[k]
    <2>1. /\ Fits(x) /\ x.text = t /\ x.word = BestPath[t][k]
          /\ x.begin = BestEnd(t, k - 1) /\ x.end = BestEnd(t, k)
          /\ Units(x, m) = UnitsOf(x.word, m)
      BY <1>3
    <2>2. Len(<<>>) = 0
      OBVIOUS
    <2>3. Units(x, m) # <<>>
      BY <1>5, <2>2
    <2>4. m # "C"
      BY <2>3 DEF Units
    <2>5. "LENGTH" \in Normalize(s)
      BY <2>4 DEF Mode, ModeSubset, Normalize
    <2>6. us[k] = Units(x, m)
      BY <1>3, <1>5 DEF Kept
    <2> HIDE DEF x, us
    <2>7. /\ Chain(SplitNode(x, m, s), x.begin, x.end, x.text)
          /\ WordsOf(SplitNode(x, m, s)) = Units(x, m)
      BY <2>1, <2>3, <2>5, SplitNodeChain
    <2>8. QED
      BY <2>1, <2>4, <2>6, <2>7 DEF x
  <1>6. ASSUME NEW k \in 1..n
        PROVE  Chain(ss[k], c[k - 1], c[k], t) /\ IsSeq(ss[k]) /\ WordsOf(ss[k]) = us[k]
    <2>1. c[k] = BestEnd(t, k) /\ c[k - 1] = BestEnd(t, k - 1)
      BY <1>1
    <2>2. ss[k] = IF Len(Units(b[k], m)) =< 1 THEN <<b[k]>> ELSE SplitNode(b[k], m, s)
      OBVIOUS
    <2> HIDE DEF c, ss, us
    <2>3. QED
      BY <1>4, <1>5, <2>1, <2>2 DEF Chain
  <1>7. c[0] = 0 /\ c[n] = Length(t)
    BY <1>1, LengthFacts DEF Length
  <1>8. ss = [k \in 1..n |-> ss[k]] /\ us = [k \in 1..n |-> us[k]]
    OBVIOUS
  <1>9. FlattenSeq(ss) = SplitPath(b, m, s)
    <2>1. CASE m # "C"
      BY <1>2, <2>1 DEF SplitPath
    <2>2. CASE m = "C"
      <3>1. \A k \in 1..n : Len(Units(b[k], m)) =< 1
        BY <1>5, <2>2
      <3>2. ss = [k \in 1..n |-> <<b[k]>>]
        BY <3>1
      <3>3. FlattenSeq([k \in 1..n |-> <<b[k]>>]) = b
        BY <1>1, <1>2, FlattenSingles
      <3> HIDE DEF ss
      <3>4. QED
        BY <2>2, <3>2, <3>3 DEF SplitPath
    <2>3. QED
      BY <2>1, <2>2
  <1> HIDE DEF ss, us, c
  <1>10. Chain(FlattenSeq(ss), c[0], c[n], t)
    BY <1>1, <1>6, <1>8, FlattenChain
  <1>11. WordsOf(FlattenSeq(ss)) = FlattenSeq(us)
    <2>1. HaveWords(ss, us, n)
      BY <1>6 DEF HaveWords
    <2>2. n \in Nat /\ n > 0
      BY <1>1
    <2> HIDE DEF n
    <2>3. QED
      BY <1>8, <2>1, <2>2, FlattenWords
  <1>12. QED
    BY <1>7, <1>9, <1>10, <1>11 DEF us, b

\* An empty text has none.
LEMMA NoWords ==
    ASSUME NEW t \in Text, BestPath[t] = <<>>, NEW m \in Mode, NEW s
    PROVE  SplitPath(BestNodes(t, s), m, s) = <<>>
  <1>1. DOMAIN <<>> = {} /\ Len(<<>>) = 0
    OBVIOUS
  <1>2. BestNodes(t, s) = <<>>
    BY <1>1 DEF BestNodes
  <1>3. FlattenSeq(<<>>) = <<>>
    BY <1>1 DEF FlattenSeq
  <1>4. [k \in DOMAIN <<>> |-> IF Len(Units((<<>>)[k], m)) =< 1 THEN <<(<<>>)[k]>>
                               ELSE SplitNode((<<>>)[k], m, s)] = <<>>
    BY <1>1
  <1>5. QED
    BY <1>2, <1>3, <1>4 DEF SplitPath

----------------------------------------------------------------------------
(* What the tokenizer has when an analysis is over.                        *)

ResultOf(t, a) == SplitPath(BestNodes(t, a.subset), a.mode, a.subset)

\* It is the analysis of its text, in the mode and with the fields the
\* tokenizer had then, and these include what the mode cannot do without.
ResultInv ==
    Analyzed =>
        /\ analyzed.mode \in Mode /\ ModeSubset(analyzed.mode) \subseteq analyzed.subset
        /\ \A p \in top_path : p = ResultOf(input.text, analyzed)

LEMMA ResultInitInv == ListsInit => ResultInv
  BY DEF ListsInit, TokenizerInit, ResultInv, Analyzed

LEMMA TokenizeResult ==
    ASSUME TokenizerInv, Tokenize
    PROVE  ResultInv'
  <1> DEFINE t == input.text
             b == BestNodes(t, subset)
  <1>1. /\ top_path' = {Analysis(t, mode, subset)}
        /\ analyzed' = [mode |-> mode, subset |-> subset]
        /\ input'.text = t /\ phase = "text"
    BY DEF Tokenize, TokenizerInv, Input
  <1>2. t \in Text /\ mode \in Mode /\ ModeSubset(mode) \subseteq subset
    BY DEF TokenizerInv, Input
  <1>3. Taken = <<>>
    BY <1>1 DEF Taken, TokenizerInv, TopPathOK
  <1>4. Taken \o b = b
    <2>1. NodesFor(b, t)
      BY <1>2, BestNodesRange
    <2>2. b \in Seq(Elems(b))
      BY <2>1 DEF NodesFor, IsSeq
    <2> HIDE DEF b
    <2>3. QED
      BY <1>3, <2>2
  <1>5. Analysis(t, mode, subset) = ResultOf(t, analyzed')
    BY <1>1, <1>4 DEF Analysis, ResultOf
  <1>6. QED
    BY <1>1, <1>2, <1>5 DEF ResultInv

LEMMA TokenizeEmptyResult ==
    ASSUME TokenizerInv, TokenizeEmpty
    PROVE  ResultInv'
  <1> DEFINE t == input.text
  <1>1. /\ top_path' = top_path /\ \A p \in top_path : p = <<>>
        /\ analyzed' = [mode |-> mode, subset |-> subset]
        /\ input'.text = t /\ BestPath[t] = <<>>
    BY DEF TokenizeEmpty, TokenizerInv, TopPathOK, Input, IsEmpty
  <1>2. t \in Text /\ mode \in Mode /\ ModeSubset(mode) \subseteq subset
    BY DEF TokenizerInv, Input
  <1>3. ResultOf(t, analyzed') = <<>>
    BY <1>1, <1>2, NoWords DEF ResultOf
  <1>4. QED
    BY <1>1, <1>2, <1>3 DEF ResultInv

LEMMA ResultStep == ListsInv /\ ResultInv /\ [ListsNext]_all_vars => ResultInv'
  <1>1. SUFFICES ASSUME ListsInv, ResultInv, [ListsNext]_all_vars PROVE ResultInv'
    OBVIOUS
  <1>2. TokenizerInv
    BY <1>1 DEF ListsInv
  <1>3. CASE UNCHANGED tokenizer_vars
    BY <1>1, <1>3 DEF tokenizer_vars, ResultInv, Analyzed
  <1>4. CASE ~Analyzed'
    BY <1>4 DEF ResultInv
  <1>5. CASE TokenizerNext
    <2>1. CASE \E m \in Modes : SetMode(m)
      BY <1>1, <2>1 DEF SetMode, ResultInv, Analyzed
    <2>2. CASE \E s \in Subsets : SetSubset(s)
      BY <1>1, <2>2 DEF SetSubset, ResultInv, Analyzed
    <2>3. CASE (\E t \in Text : Reset(t)) \/ FailEarly \/ FailLate
      <3>1. ~Analyzed'
        BY <2>3 DEF Reset, FailEarly, FailLate, Analyzed
      <3>2. QED
        BY <3>1, <1>4
    <2>4. QED
      BY <1>2, <1>5, <2>1, <2>2, <2>3, TokenizeResult, TokenizeEmptyResult
         DEF TokenizerNext, DoTokenize
  <1>6. ASSUME NEW l \in List, ListStep(l) PROVE UNCHANGED tokenizer_vars \/ ~Analyzed'
    <2>1. CASE Collect(l) \/ CollectPanics(l)
      BY <2>1 DEF Collect, CollectPanics, Analyzed
    <2>2. CASE Hold(l) \/ Release(l) \/ NewList(l) \/ Clear(l)
      BY <2>2 DEF Hold, Release, NewList, Clear, tokenizer_vars
    <2>3. QED
      BY <1>6, <2>1, <2>2 DEF ListStep, StatelessTokenize, Lookup, LookupFails,
                              tokenizer_vars
  <1>7. ASSUME NEW l \in List, NEW out \in List, ListPairStep(l, out)
        PROVE  UNCHANGED tokenizer_vars
    BY <1>7 DEF ListPairStep, EmptyClone, CopySlice, SplitInto, tokenizer_vars
  <1>8. QED
    BY <1>1, <1>3, <1>4, <1>5, <1>6, <1>7 DEF ListsNext, all_vars

LEMMA ResultInvariance == ListsSpec => []ResultInv
  BY ListsInvariance, ResultInitInv, ResultStep, PTL DEF ListsSpec

\* The units of the mode of the analysis are those it gives.
LEMMA KeptUnits ==
    ASSUME NEW t \in Text, NEW k \in 1..Len(BestPath[t]), analyzed.mode \in Mode
    PROVE  Kept(t, analyzed.mode, k) = UnitsInMode(BestPath[t][k])
  <1> DEFINE w == BestPath[t][k]
             m == analyzed.mode
             units == IF m = "A" THEN Info[w].a ELSE Info[w].b
  <1>1. w \in WordId
    BY TextAssumption
  <1>2. units \in Seq(Ref)
    BY <1>1, InfoAssumption
  <1>3. Len(<<>>) = 0
    OBVIOUS
  <1> HIDE DEF units
  <1>4. Len(ResolveAll(units, w[1])) = Len(units)
    BY <1>2 DEF ResolveAll
  <1>5. Kept(t, m, k) = IF Len(UnitsOf(w, m)) =< 1 THEN <<w>> ELSE UnitsOf(w, m)
    BY DEF Kept
  <1>6. UnitsOf(w, m) = IF IsOov(w) \/ m = "C" THEN <<>> ELSE ResolveAll(units, w[1])
    BY DEF UnitsOf, units
  <1>7. UnitsInMode(w) = IF m = "C" \/ IsOov(w) \/ Len(units) =< 1 THEN <<w>>
                         ELSE ResolveAll(units, w[1])
    BY DEF UnitsInMode, units
  <1> HIDE DEF w, m
  <1>8. Kept(t, m, k) = UnitsInMode(w)
    BY <1>3, <1>4, <1>5, <1>6, <1>7
  <1>9. QED
    BY <1>8 DEF w, m

----------------------------------------------------------------------------
(* Nodes that can be split again.                                          *)

\* The nodes of a row end inside it.
LEMMA ChainEnds ==
    ASSUME NEW p, NEW b, NEW e, NEW t, Chain(p, b, e, t), NEW k \in 1..Len(p)
    PROVE  p[k].end =< e
  <1> DEFINE n == Len(p)
             T == {i \in Nat : i < n /\ ~(p[n - i].end =< e)}
  <1>1. n \in Nat /\ n > 0 /\ k \in 1..n
    BY SeqLen DEF Chain
  <1>2. /\ p[n].end = e
        /\ \A i \in 2..n : p[i].begin = p[i - 1].end
        /\ \A i \in 1..n : Fits(p[i])
    BY DEF Chain
  <1> HIDE DEF n
  <1>3. ASSUME NEW i \in 1..n
        PROVE  p[i].begin \in Nat /\ p[i].end \in Nat /\ p[i].begin =< p[i].end
    <2>1. Fits(p[i])
      BY <1>2
    <2>2. Info[p[i].word].length \in Nat
      BY <2>1, InfoAssumption DEF Fits
    <2>3. QED
      BY <2>1, <2>2 DEF Fits
  <1>4. e \in Nat
    BY <1>1, <1>2, <1>3
  <1>5. CASE T # {}
    <2>1. PICK m \in T : \A i \in T : m =< i
      <3>1. T \in SUBSET Nat
        OBVIOUS
      <3> HIDE DEF T
      <3> QED BY <1>5, <3>1, MinNat
    <2>2. m \in Nat /\ m < n /\ ~(p[n - m].end =< e)
      OBVIOUS
    <2>3. m # 0
      <3>1. n - 0 = n /\ e =< e
        BY <1>1, <1>4
      <3>2. QED
        BY <1>2, <2>2, <3>1
    <2>4. m - 1 \in Nat /\ m - 1 < n /\ ~(m =< m - 1)
      BY <1>1, <2>2, <2>3
    <2>5. m - 1 \notin T
      <3> HIDE DEF T
      <3> QED BY <2>1, <2>4
    <2>6. p[n - (m - 1)].end =< e
      BY <2>4, <2>5
    <2> DEFINE j == n - (m - 1)
    <2>7. j \in 2..n /\ j \in 1..n /\ j - 1 = n - m /\ n - m \in 1..n
      BY <1>1, <2>2, <2>3
    <2> HIDE DEF j, T
    <2>8. p[j].begin = p[n - m].end /\ p[j].begin =< p[j].end /\ p[j].end =< e
      BY <1>2, <1>3, <2>6, <2>7 DEF j
    <2>9. p[j].begin \in Nat /\ p[j].end \in Nat /\ p[n - m].end \in Nat
      BY <1>3, <2>7
    <2>10. QED
      BY <1>4, <2>2, <2>8, <2>9
  <1>6. CASE T = {}
    <2>1. n - k \in Nat /\ n - k < n /\ n - (n - k) = k
      BY <1>1
    <2>2. QED
      BY <1>6, <2>1
  <1>7. QED
    BY <1>5, <1>6

\* x lies in its text, is as long as its word, and knows its units in the modes
\* whose fields are among r.
Good(x, r) ==
    /\ Fits(x) /\ x.text \in Text /\ x.end =< Length(x.text)
    /\ \A m \in Mode : ModeSubset(m) \subseteq r => Units(x, m) = UnitsOf(x.word, m)

AllGood(p, r) == \A x \in Elems(p) : Good(x, r)

\* Fewer fields ask for less.
LEMMA FewerGood ==
    ASSUME NEW p, NEW r, NEW s, AllGood(p, r), s \subseteq r
    PROVE  AllGood(p, s)
  BY DEF AllGood, Good

LEMMA SplitNodeGood ==
    ASSUME UnitsFit, NEW x, NEW r, Good(x, r), NEW m \in Mode, ModeSubset(m) \subseteq r,
           Units(x, m) # <<>>, NEW s, "LENGTH" \in Normalize(s)
    PROVE  IsSeq(SplitNode(x, m, s)) /\ AllGood(SplitNode(x, m, s), s)
  <1> DEFINE p == SplitNode(x, m, s)
             us == Units(x, m)
  <1>1. /\ Fits(x) /\ x.text \in Text /\ x.end =< Length(x.text)
        /\ us = UnitsOf(x.word, m) /\ x.word \in WordId
    BY DEF Good, Fits
  <1>2. Chain(p, x.begin, x.end, x.text) /\ WordsOf(p) = us
    BY <1>1, SplitNodeChain
  <1>3. /\ us \in Seq(WordId) /\ DOMAIN us = 1..Len(us) /\ Len(us) \in Nat
        /\ \A k \in 1..Len(us) : ~IsOov(us[k])
    BY <1>1, UnitsOfFit
  <1>4. p = [k \in 1..Len(us) |-> UnitNode(x, m, k, s)]
    BY <1>3 DEF SplitNode
  <1>5. IsSeq(p) /\ Len(p) = Len(us) /\ DOMAIN p = 1..Len(us)
    <2>1. p = [k \in 1..Len(us) |-> p[k]]
      BY <1>4
    <2> HIDE DEF p, us
    <2>2. QED
      BY <1>3, <2>1, MapIsSeq
  <1>6. ASSUME NEW k \in 1..Len(us)
        PROVE  p[k].word = us[k] /\ p[k].info = NodeInfo(us[k], s)
    <2>1. p[k] = UnitNode(x, m, k, s)
      BY <1>4
    <2>2. p[k].word = us[k] /\ p[k].info = GetWordInfoSubset(us[k], s)
      BY <2>1 DEF UnitNode, UnitInfo
    <2>3. QED
      BY <1>3, <2>2 DEF NodeInfo
  <1> HIDE DEF p, us
  <1>7. ASSUME NEW k \in 1..Len(us) PROVE Good(p[k], s)
    <2>1. us[k] \in WordId
      BY <1>3
    <2>2. \A i \in Mode : ModeSubset(i) \subseteq s => Units(p[k], i) = UnitsOf(p[k].word, i)
      BY <1>6, <2>1, UnitsRead
    <2>3. Fits(p[k]) /\ p[k].text = x.text
      BY <1>2, <1>5 DEF Chain
    <2>4. p[k].end =< x.end
      BY <1>2, <1>5, ChainEnds
    <2>5. p[k].end \in Nat /\ x.end \in Nat /\ Length(x.text) \in Nat
      BY <1>1, <2>3, LengthFacts DEF Fits
    <2>6. p[k].end =< Length(p[k].text)
      BY <1>1, <2>3, <2>4, <2>5
    <2>7. QED
      BY <1>1, <2>2, <2>3, <2>6 DEF Good
  <1>8. QED
    BY <1>5, <1>7 DEF AllGood, Elems, p

LEMMA BestNodesGood ==
    ASSUME UnitsFit, NEW t \in Text, NEW s
    PROVE  IsSeq(BestNodes(t, s)) /\ AllGood(BestNodes(t, s), s)
  <1> DEFINE b == BestNodes(t, s)
             n == Len(BestPath[t])
  <1>1. "C" \in Mode /\ ModeSubset("C") \subseteq s /\ SplitPath(b, "C", s) = b
    BY DEF Mode, ModeSubset, SplitPath
  <1>2. IsSeq(b)
    BY <1>1, BestNodesRange DEF NodesFor
  <1>3. n \in Nat /\ DOMAIN BestPath[t] = 1..n
    BY TextAssumption
  <1>4. DOMAIN b = 1..n
    BY <1>3 DEF BestNodes
  <1>5. ASSUME NEW k \in 1..n PROVE Good(b[k], s)
    <2>1. /\ Fits(b[k]) /\ b[k].text = t /\ b[k].info = NodeInfo(b[k].word, s)
      BY BestNodesFit
    <2>2. \A i \in Mode : ModeSubset(i) \subseteq s => Units(b[k], i) = UnitsOf(b[k].word, i)
      BY <2>1, UnitsRead DEF Fits
    <2>3. Chain(b, 0, Length(t), t)
      <3>1. BestPath[t] # <<>>
        <4>1. Len(<<>>) = 0
          OBVIOUS
        <4>2. QED
          BY <4>1
      <3>2. Chain(SplitPath(b, "C", s), 0, Length(t), t)
        BY <1>1, <3>1, ResultChain
      <3>3. QED
        BY <1>1, <3>2
    <2> HIDE DEF b, n
    <2>4. Len(b) = n
      BY <1>2, <1>3, <1>4, SeqLen
    <2>5. b[k].end =< Length(b[k].text)
      BY <2>1, <2>3, <2>4, ChainEnds
    <2>6. QED
      BY <2>1, <2>2, <2>5 DEF Good
  <1> HIDE DEF b, n
  <1>6. QED
    BY <1>2, <1>4, <1>5 DEF AllGood, Elems, b

LEMMA SplitPathGood ==
    ASSUME UnitsFit, NEW p, NEW s, IsSeq(p), AllGood(p, s), NEW m \in Mode,
           ModeSubset(m) \subseteq s
    PROVE  AllGood(SplitPath(p, m, s), s)
  <1>1. CASE m = "C"
    BY <1>1 DEF SplitPath
  <1>2. CASE m # "C"
    <2> DEFINE n == Len(p)
               ss == [k \in 1..n |-> IF Len(Units(p[k], m)) =< 1 THEN <<p[k]>>
                                     ELSE SplitNode(p[k], m, s)]
    <2>1. n \in Nat /\ DOMAIN p = 1..n
      BY SeqLen
    <2>2. SplitPath(p, m, s) = FlattenSeq(ss)
      BY <1>2, <2>1 DEF SplitPath
    <2>3. ss = [k \in 1..n |-> ss[k]]
      OBVIOUS
    <2>4. ASSUME NEW k \in 1..n PROVE IsSeq(ss[k]) /\ AllGood(ss[k], s)
      <3>1. Good(p[k], s)
        BY <2>1 DEF AllGood, Elems
      <3>2. CASE Len(Units(p[k], m)) =< 1
        <4>1. ss[k] = <<p[k]>>
          BY <3>2
        <4>2. IsSeq(<<p[k]>>) /\ Elems(<<p[k]>>) \subseteq {p[k]}
          <5>1. <<p[k]>> \in Seq({p[k]})
            OBVIOUS
          <5>2. QED
            BY <5>1, SeqIsSeq
        <4>3. QED
          BY <3>1, <4>1, <4>2 DEF AllGood
      <3>3. CASE ~(Len(Units(p[k], m)) =< 1)
        <4>1. ss[k] = SplitNode(p[k], m, s)
          BY <3>3
        <4>2. Units(p[k], m) # <<>>
          <5>1. Len(<<>>) = 0
            OBVIOUS
          <5>2. QED
            BY <3>3, <5>1
        <4>3. "LENGTH" \in Normalize(s)
          BY <1>2 DEF Mode, ModeSubset, Normalize
        <4> HIDE DEF ss
        <4>4. QED
          BY <3>1, <4>1, <4>2, <4>3, SplitNodeGood
      <3>4. QED
        BY <3>2, <3>3
    <2> HIDE DEF ss, n
    <2>5. \A x \in Elems(FlattenSeq(ss)) : \E k \in 1..n : x \in Elems(ss[k])
      BY <2>1, <2>3, <2>4, FlattenElems
    <2>6. QED
      BY <2>2, <2>4, <2>5 DEF AllGood
  <1>3. QED
    BY <1>1, <1>2

LEMMA ResultGood ==
    ASSUME UnitsFit, NEW t \in Text, NEW m \in Mode, NEW s, ModeSubset(m) \subseteq s
    PROVE  AllGood(SplitPath(BestNodes(t, s), m, s), s)
  BY BestNodesGood, SplitPathGood

LEMMA FoundNodesGood ==
    ASSUME NEW t \in Text, NEW s
    PROVE  IsSeq(FoundNodes(t, s)) /\ AllGood(FoundNodes(t, s), s)
  <1> DEFINE p == FoundNodes(t, s)
             n == Len(Found[t])
  <1>1. Found[t] \in Seq(WordId) /\ n \in Nat /\ DOMAIN Found[t] = 1..n
    BY FoundAssumption
  <1>2. p = [k \in 1..n |-> p[k]]
    BY <1>1 DEF FoundNodes
  <1>3. ASSUME NEW k \in 1..n PROVE Good(p[k], s)
    <2> DEFINE w == Found[t][k]
    <2>1. w \in WordId /\ ~IsOov(w) /\ Info[w].length = Length(t)
      BY <1>1, FoundAssumption DEF Range
    <2>2. /\ p[k].word = w /\ p[k].begin = 0 /\ p[k].end = Length(t) /\ p[k].text = t
          /\ p[k].info = GetWordInfoSubset(w, s)
      BY <1>1 DEF FoundNodes
    <2>3. p[k].info = NodeInfo(w, s)
      BY <2>1, <2>2 DEF NodeInfo
    <2> HIDE DEF p, w
    <2>4. ASSUME NEW i \in Mode, ModeSubset(i) \subseteq s
          PROVE  Units(p[k], i) = UnitsOf(p[k].word, i)
      <3>1. Units(p[k], i) = UnitsOf(w, i)
        BY <2>1, <2>3, <2>4, UnitsRead
      <3>2. QED
        BY <2>2, <3>1
    <2>5. Length(t) \in Nat
      BY LengthFacts
    <2>6. QED
      BY <2>1, <2>2, <2>4, <2>5 DEF Good, Fits
  <1> HIDE DEF p, n
  <1>4. IsSeq(p) /\ DOMAIN p = 1..n
    BY <1>1, <1>2, MapIsSeq
  <1>5. QED
    BY <1>3, <1>4 DEF AllGood, Elems, p

----------------------------------------------------------------------------
(* Lists of such nodes.                                                    *)

\* The nodes of a list are good in what all of them were read with, unless
\* some come from a split that lacked its fields.
ListsGood ==
    /\ read = [l \in List |-> read[l]]
    /\ \A l \in List \ lacking : AllGood(nodes[l], read[l])

\* So are those of an analysis, until a list has taken them.
ResultsGood == phase = "done" => \A p \in top_path : AllGood(p, analyzed.subset)

LEMMA NothingGood ==
    ASSUME NEW r
    PROVE  AllGood(<<>>, r)
  BY NoNodes DEF AllGood

LEMMA ConcatGood ==
    ASSUME NEW r, NEW p, IsSeq(p), AllGood(p, r), NEW q, IsSeq(q), AllGood(q, r)
    PROVE  AllGood(p \o q, r)
  BY ConcatIsSeq DEF AllGood

\* A list gets other nodes ...
LEMMA GoodAnew ==
    ASSUME ListsInv, ListsGood, NEW l \in List, NEW p, NEW s, AllGood(p, s),
           nodes' = [nodes EXCEPT ![l] = p], ReadAnew(l, s)
    PROVE  ListsGood'
  <1>1. nodes'[l] = p /\ \A k \in List \ {l} : nodes'[k] = nodes[k]
    BY OneList DEF ListsInv
  <1>2. /\ read' = [k \in List |-> read'[k]]
        /\ read'[l] = IF p = <<>> THEN Field ELSE s
        /\ \A k \in List \ {l} : read'[k] = read[k]
        /\ lacking' = lacking \ {l}
    BY <1>1 DEF ReadAnew, ReadWith, ListsGood
  <1>3. AllGood(nodes'[l], read'[l])
    BY <1>1, <1>2, NothingGood
  <1>4. ASSUME NEW k \in List \ lacking', k # l PROVE AllGood(nodes'[k], read'[k])
    BY <1>1, <1>2, <1>4 DEF ListsGood
  <1>5. QED
    BY <1>2, <1>3, <1>4 DEF ListsGood

\* ... or more of them.
LEMMA GoodMore ==
    ASSUME ListsInv, ListsGood, NEW l \in List, NEW p, IsSeq(p), NEW s,
           NEW lack \in BOOLEAN, ~lack => AllGood(p, s),
           nodes' = [nodes EXCEPT ![l] = nodes[l] \o p], ReadMore(l, s, lack)
    PROVE  ListsGood'
  <1> DEFINE q == nodes[l] \o p
             r == IF nodes[l] = <<>> THEN s ELSE read[l] \cap s
  <1>1. nodes'[l] = q /\ \A k \in List \ {l} : nodes'[k] = nodes[k]
    BY OneList DEF ListsInv
  <1>2. /\ read' = [k \in List |-> read'[k]]
        /\ read'[l] = IF q = <<>> THEN Field ELSE r
        /\ \A k \in List \ {l} : read'[k] = read[k]
    BY <1>1 DEF ReadMore, ReadWith, ListsGood
  <1>3. lacking' = IF lack THEN lacking \cup {l} ELSE lacking
    BY DEF ReadMore
  <1>4. ASSUME l \notin lacking' PROVE AllGood(nodes'[l], read'[l])
    <2>1. l \notin lacking /\ AllGood(p, s) /\ AllGood(nodes[l], read[l])
      BY <1>3, <1>4 DEF ListsGood
    <2>2. AllGood(p, r)
      BY <2>1, FewerGood
    <2>3. AllGood(nodes[l], r)
      <3>1. CASE nodes[l] = <<>>
        BY <3>1, NothingGood
      <3>2. CASE nodes[l] # <<>>
        BY <2>1, <3>2, FewerGood
      <3>3. QED
        BY <3>1, <3>2
    <2>4. IsSeq(nodes[l])
      BY DEF ListsInv, ListOK
    <2> HIDE DEF r
    <2>5. AllGood(q, r)
      BY <2>2, <2>3, <2>4, ConcatGood
    <2> HIDE DEF q
    <2>6. QED
      BY <1>1, <1>2, <2>5, NothingGood
  <1>5. ASSUME NEW k \in List \ lacking', k # l PROVE AllGood(nodes'[k], read'[k])
    BY <1>1, <1>2, <1>3, <1>5 DEF ListsGood
  <1> HIDE DEF q, r
  <1>6. QED
    BY <1>2, <1>4, <1>5 DEF ListsGood

LEMMA ResultsGoodStep ==
    ASSUME UnitsFit, TokenizerInv, ResultsGood, TokenizerNext
    PROVE  ResultsGood'
  <1>1. CASE \E m \in Modes : SetMode(m)
    BY <1>1 DEF SetMode, ResultsGood
  <1>2. CASE \E s \in Subsets : SetSubset(s)
    BY <1>2 DEF SetSubset, ResultsGood
  <1>3. CASE \E t \in Text : Reset(t)
    BY <1>3 DEF Reset, ResultsGood
  <1>4. CASE FailEarly \/ TokenizeEmpty
    <2>1. top_path' = top_path /\ \A p \in top_path : p = <<>>
      BY <1>4 DEF FailEarly, TokenizeEmpty, TokenizerInv, TopPathOK
    <2>2. QED
      BY <2>1, NothingGood DEF ResultsGood
  <1>5. CASE FailLate
    BY <1>5 DEF FailLate, ResultsGood
  <1>6. CASE Tokenize
    <2>1. ResultInv' /\ Analyzed'
      BY <1>6, TokenizeResult DEF Tokenize, Analyzed
    <2>2. input'.text \in Text
      BY <1>6 DEF Tokenize, TokenizerInv, Input
    <2>3. /\ analyzed'.mode \in Mode
          /\ ModeSubset(analyzed'.mode) \subseteq analyzed'.subset
          /\ \A p \in top_path' : p = SplitPath(BestNodes(input'.text, analyzed'.subset),
                                               analyzed'.mode, analyzed'.subset)
      BY <2>1 DEF ResultInv, ResultOf
    <2>4. QED
      BY <2>2, <2>3, ResultGood DEF ResultsGood
  <1>7. QED
    BY <1>1, <1>2, <1>3, <1>4, <1>5, <1>6 DEF TokenizerNext, DoTokenize

\* What one list does leaves good nodes everywhere ...
LEMMA GoodList ==
    ASSUME UnitsFit, ListsInv, ListsGood, ResultsGood, NEW l \in List, ListStep(l)
    PROVE  ListsGood'
  <1>1. CASE Hold(l) \/ Release(l) \/ CollectPanics(l) \/ \E t \in Text : LookupFails(l, t)
    BY <1>1 DEF Hold, Release, CollectPanics, LookupFails, history_vars, ListsGood
  <1>2. CASE NewList(l) \/ Clear(l)
    <2>1. nodes' = [nodes EXCEPT ![l] = <<>>] /\ ReadAnew(l, Field)
      BY <1>2 DEF NewList, Clear
    <2>2. QED
      BY <2>1, NothingGood, GoodAnew
  <1>3. CASE Collect(l)
    <2>1. /\ nodes' = [nodes EXCEPT ![l] = Taken] /\ ReadAnew(l, analyzed.subset)
          /\ phase = "done" /\ top_path # {}
      BY <1>3 DEF Collect
    <2>2. AllGood(Taken, analyzed.subset)
      BY <2>1 DEF Taken, ResultsGood
    <2>3. QED
      BY <2>1, <2>2, GoodAnew
  <1>4. CASE \E t \in Text, m \in Modes : StatelessTokenize(t, m, l)
    <2>1. PICK t \in Text, m \in Modes : StatelessTokenize(t, m, l)
      BY <1>4
    <2> DEFINE p == SplitPath(BestNodes(t, Field), m, Field)
    <2>2. nodes' = [nodes EXCEPT ![l] = p] /\ ReadAnew(l, Field)
      BY <2>1 DEF StatelessTokenize
    <2>3. m \in Mode /\ ModeSubset(m) \subseteq Field
      BY CallerAssumption DEF Mode, ModeSubset, Field
    <2>4. AllGood(p, Field)
      BY <2>3, ResultGood
    <2> HIDE DEF p
    <2>5. QED
      BY <2>2, <2>4, GoodAnew
  <1>5. CASE \E t \in Text, s \in LookupSubsets : Lookup(l, t, s)
    <2>1. PICK t \in Text, s \in LookupSubsets : Lookup(l, t, s)
      BY <1>5
    <2> DEFINE p == FoundNodes(t, s)
    <2>2. nodes' = [nodes EXCEPT ![l] = nodes[l] \o p] /\ ReadMore(l, s, FALSE)
      BY <2>1 DEF Lookup
    <2>3. IsSeq(p) /\ AllGood(p, s)
      BY FoundNodesGood
    <2> HIDE DEF p
    <2>4. QED
      BY <2>2, <2>3, GoodMore
  <1>6. QED
    BY <1>1, <1>2, <1>3, <1>4, <1>5 DEF ListStep

\* ... and so does what goes from one list to another.
LEMMA GoodPair ==
    ASSUME UnitsFit, ListsInv, ListsGood, NEW l \in List, NEW out \in List,
           ListPairStep(l, out)
    PROVE  ListsGood'
  <1>1. CASE EmptyClone(l, out)
    <2>1. nodes' = [nodes EXCEPT ![out] = <<>>] /\ ReadAnew(out, Field)
      BY <1>1 DEF EmptyClone
    <2>2. QED
      BY <2>1, NothingGood, GoodAnew
  <1>2. CASE \E i \in DOMAIN nodes[l] : CopySlice(l, i, out)
    <2>1. PICK i \in DOMAIN nodes[l] : CopySlice(l, i, out)
      BY <1>2
    <2> DEFINE x == nodes[l][i]
               lack == l \in lacking
    <2>2. ReadMore(out, read[l], lack) /\ nodes' = [nodes EXCEPT ![out] = Append(nodes[out], x)]
      BY <2>1 DEF CopySlice
    <2>3. ~lack => Good(x, read[l])
      BY DEF ListsGood, AllGood, Elems
    <2> HIDE DEF x
    <2>4. IsSeq(<<x>>) /\ Elems(<<x>>) \subseteq {x}
      <3>1. <<x>> \in Seq({x})
        OBVIOUS
      <3>2. QED
        BY <3>1, SeqIsSeq
    <2>5. ~lack => AllGood(<<x>>, read[l])
      BY <2>3, <2>4 DEF AllGood
    <2>6. Append(nodes[out], x) = nodes[out] \o <<x>>
      <3> DEFINE S == Elems(nodes[out]) \cup {x}
      <3>1. nodes[out] \in Seq(Elems(nodes[out]))
        BY DEF ListsInv, ListOK, IsSeq
      <3>2. /\ Len(nodes[out]) \in Nat
            /\ nodes[out] \in [1..Len(nodes[out]) -> Elems(nodes[out])]
        BY <3>1
      <3>3. nodes[out] \in [1..Len(nodes[out]) -> S]
        BY <3>2
      <3>4. nodes[out] \in Seq(S) /\ x \in S
        BY <3>2, <3>3
      <3> HIDE DEF S
      <3>5. QED
        BY <3>4, AppendIsConcat
    <2>7. lack \in BOOLEAN
      OBVIOUS
    <2> HIDE DEF lack
    <2>8. QED
      BY <2>2, <2>4, <2>5, <2>6, <2>7, GoodMore
  <1>3. CASE \E i \in DOMAIN nodes[l] : \E m \in {"A", "B"} : SplitInto(l, i, m, out)
    <2>1. PICK i \in DOMAIN nodes[l], m \in {"A", "B"} : SplitInto(l, i, m, out)
      BY <1>3
    <2> DEFINE x == nodes[l][i]
               p == SplitNode(x, m, part[l].subset)
               lack == l \in lacking \/ ~HasFields(l, m)
    <2>2. /\ nodes' = [nodes EXCEPT ![out] = nodes[out] \o p]
          /\ ReadMore(out, part[l].subset, lack)
          /\ Units(x, m) # <<>>
      BY <2>1 DEF SplitInto
    <2>3. IsSeq(p)
      <3>1. DOMAIN Units(x, m) = 1..Len(Units(x, m)) /\ Len(Units(x, m)) \in Nat
        <4>1. x \in Elems(nodes[l]) /\ m \in Mode
          BY DEF Elems, Mode
        <4>2. InfoOK(x.info)
          BY <4>1 DEF ListsInv, ListOK
        <4>3. Units(x, m) \in Seq(Ref)
          BY <4>1, <4>2 DEF Units, Mode, InfoOK
        <4>4. QED
          BY <4>3
      <3>2. p = [k \in 1..Len(Units(x, m)) |-> p[k]]
        BY <3>1 DEF SplitNode
      <3> HIDE DEF x, p
      <3>3. QED
        BY <3>1, <3>2, MapIsSeq
    <2>4. ASSUME ~lack PROVE AllGood(p, part[l].subset)
      <3>1. Good(x, read[l])
        BY <2>4 DEF ListsGood, AllGood, Elems
      <3>2. /\ m \in Mode /\ ModeSubset(m) \subseteq read[l]
            /\ "LENGTH" \in Normalize(part[l].subset)
        BY <2>4 DEF HasFields, Mode
      <3> HIDE DEF x
      <3>3. QED
        BY <2>2, <3>1, <3>2, SplitNodeGood
    <2>5. lack \in BOOLEAN
      OBVIOUS
    <2> HIDE DEF lack, p
    <2>6. QED
      BY <2>2, <2>3, <2>4, <2>5, GoodMore
  <1>4. QED
    BY <1>1, <1>2, <1>3 DEF ListPairStep

LEMMA GoodInit == ListsInit => ListsGood /\ ResultsGood
  <1>1. SUFFICES ASSUME ListsInit PROVE ListsGood /\ ResultsGood
    OBVIOUS
  <1>2. ListsGood
    BY <1>1, NothingGood DEF ListsInit, ListInit, ListsGood
  <1>3. ResultsGood
    BY <1>1 DEF ListsInit, TokenizerInit, ResultsGood
  <1>4. QED
    BY <1>2, <1>3

LEMMA GoodStep ==
    ASSUME UnitsFit, ListsInv, ListsGood, ResultsGood, [ListsNext]_all_vars
    PROVE  ListsGood' /\ ResultsGood'
  <1>1. CASE TokenizerNext /\ UNCHANGED list_vars
    <2>1. ListsGood'
      BY <1>1 DEF list_vars, history_vars, ListsGood
    <2>2. ResultsGood'
      BY <1>1, ResultsGoodStep DEF ListsInv
    <2>3. QED
      BY <2>1, <2>2
  <1>2. ASSUME NEW l \in List, ListStep(l) PROVE ListsGood' /\ ResultsGood'
    <2>1. CASE Collect(l) \/ CollectPanics(l)
      BY <2>1, <1>2, GoodList DEF Collect, CollectPanics, ResultsGood
    <2>2. CASE Hold(l) \/ Release(l) \/ NewList(l) \/ Clear(l)
      <3>1. UNCHANGED tokenizer_vars
        BY <2>2 DEF Hold, Release, NewList, Clear, tokenizer_vars
      <3>2. QED
        BY <1>2, <3>1, GoodList DEF tokenizer_vars, ResultsGood
    <2>3. CASE \/ \E t \in Text, m \in Modes : StatelessTokenize(t, m, l)
               \/ \E t \in Text, s \in LookupSubsets : Lookup(l, t, s)
               \/ \E t \in Text : LookupFails(l, t)
      <3>1. UNCHANGED tokenizer_vars
        BY <2>3 DEF StatelessTokenize, Lookup, LookupFails, tokenizer_vars
      <3>2. QED
        BY <1>2, <3>1, GoodList DEF tokenizer_vars, ResultsGood
    <2>4. QED
      BY <1>2, <2>1, <2>2, <2>3 DEF ListStep
  <1>3. ASSUME NEW l \in List, NEW out \in List, ListPairStep(l, out)
        PROVE  ListsGood' /\ ResultsGood'
    <2>1. UNCHANGED tokenizer_vars
      BY <1>3 DEF ListPairStep, EmptyClone, CopySlice, SplitInto, tokenizer_vars
    <2>2. QED
      BY <1>3, <2>1, GoodPair DEF tokenizer_vars, ResultsGood
  <1>4. CASE UNCHANGED all_vars
    BY <1>4 DEF all_vars, list_vars, history_vars, tokenizer_vars, ListsGood, ResultsGood
  <1>5. QED
    BY <1>1, <1>2, <1>3, <1>4 DEF ListsNext

----------------------------------------------------------------------------
(* Theorems.                                                               *)

\* The result of every analysis, after any sequence of analyses, failures and
\* changes of mode and fields, and of operations on the lists that took the
\* results, covers its text without gap or overlap, each word as long as its
\* index form, and is the best path in units of the mode the tokenizer had
\* (stateful_tokenizer.rs, do_tokenize).
THEOREM ResultStandsAloneCorrect ==
    ASSUME UnitsFit
    PROVE  ListsSpec => []ResultStandsAlone
  <1>1. ASSUME ListsInv, ResultInv PROVE ResultStandsAlone
    <2> DEFINE t == input.text
               m == analyzed.mode
               n == Len(BestPath[t])
    <2>1. SUFFICES ASSUME Analyzed, NEW p \in top_path
                   PROVE  /\ Tiles(p, t)
                          /\ [k \in DOMAIN p |-> p[k].word]
                               = FlattenSeq([k \in DOMAIN BestPath[t] |->
                                                UnitsInMode(BestPath[t][k])])
      BY DEF ResultStandsAlone
    <2>2. t \in Text
      BY <1>1 DEF ListsInv, TokenizerInv, Input
    <2>3. m \in Mode /\ ModeSubset(m) \subseteq analyzed.subset
          /\ p = SplitPath(BestNodes(t, analyzed.subset), m, analyzed.subset)
      BY <1>1, <2>1 DEF ResultInv, ResultOf
    <2>4. n \in Nat /\ DOMAIN BestPath[t] = 1..n
      BY <2>2, TextAssumption
    <2>5. [k \in 1..n |-> Kept(t, m, k)]
            = [k \in DOMAIN BestPath[t] |-> UnitsInMode(BestPath[t][k])]
      <3>1. \A k \in 1..n : Kept(t, m, k) = UnitsInMode(BestPath[t][k])
        BY <2>2, <2>3, KeptUnits
      <3>2. QED
        BY <2>4, <3>1
    <2>6. CASE BestPath[t] = <<>>
      <3>1. p = <<>> /\ Length(t) = 0 /\ DOMAIN <<>> = {} /\ Len(<<>>) = 0
        BY <2>2, <2>3, <2>6, NoWords, LengthFacts
      <3>2. Tiles(p, t)
        BY <3>1 DEF Tiles
      <3>3. [k \in DOMAIN p |-> p[k].word] = <<>>
        BY <3>1
      <3>4. [k \in DOMAIN BestPath[t] |-> UnitsInMode(BestPath[t][k])] = <<>>
        BY <2>6, <3>1
      <3>5. FlattenSeq(<<>>) = <<>>
        BY <3>1 DEF FlattenSeq
      <3>6. QED
        BY <3>2, <3>3, <3>4, <3>5
    <2>7. CASE BestPath[t] # <<>>
      <3>1. /\ Chain(p, 0, Length(t), t)
            /\ WordsOf(p) = FlattenSeq([k \in 1..n |-> Kept(t, m, k)])
        BY <2>2, <2>3, <2>7, ResultChain
      <3>2. Len(p) \in Nat /\ Len(p) > 0 /\ DOMAIN p = 1..Len(p)
        BY <3>1, SeqLen DEF Chain
      <3>3. Tiles(p, t)
        <4>1. p # <<>>
          <5>1. Len(<<>>) = 0
            OBVIOUS
          <5>2. QED
            BY <3>2, <5>1
        <4>2. ASSUME NEW k \in 1..Len(p)
              PROVE  /\ k > 1 => p[k].begin = p[k - 1].end
                     /\ p[k].end - p[k].begin = Info[p[k].word].length
                     /\ p[k].text = t
          <5>1. Fits(p[k]) /\ p[k].text = t
            BY <3>1 DEF Chain
          <5>2. k > 1 => k \in 2..Len(p)
            BY <3>2
          <5>3. p[k].end - p[k].begin = Info[p[k].word].length
            <6>1. /\ p[k].begin \in Nat /\ p[k].end \in Nat
                  /\ p[k].end = p[k].begin + Info[p[k].word].length
                  /\ Info[p[k].word].length \in Nat
              BY <5>1, InfoAssumption DEF Fits
            <6>2. QED
              BY <6>1
          <5>4. QED
            BY <3>1, <5>1, <5>2, <5>3 DEF Chain
        <4>3. QED
          BY <3>1, <3>2, <4>1, <4>2 DEF Chain, Tiles
      <3>4. [k \in DOMAIN p |-> p[k].word] = WordsOf(p)
        BY <3>2 DEF WordsOf
      <3>5. QED
        BY <2>5, <3>1, <3>3, <3>4
    <2>8. QED
      BY <2>6, <2>7
  <1>2. QED
    BY <1>1, ListsInvariance, ResultInvariance, PTL

\* Whatever fields the tokenizer and the lookups are asked for, and in whatever
\* order texts are analysed, collected, looked up, split and copied: each word of
\* a list lies in the text of the list and is as long as its own index form, the
\* units that were split from other words, and from units, included; but for the
\* lists with words of a split that lacked its fields (mlist.rs, split_into;
\* node.rs, NodeSplitIterator).
THEOREM SplitSurfacesCorrect ==
    ASSUME UnitsFit
    PROVE  ListsSpec => []SplitSurfaces
  <1> DEFINE IInv == ListsGood /\ ResultsGood
  <1>1. ListsInit => IInv
    BY GoodInit
  <1>2. ListsInv /\ IInv /\ [ListsNext]_all_vars => IInv'
    BY GoodStep
  <1>3. ASSUME ListsInv, IInv PROVE SplitSurfaces
    <2>1. SUFFICES ASSUME NEW l \in List \ (stale \cup lacking), NEW k \in DOMAIN nodes[l]
                   PROVE  LET n == nodes[l][k]
                          IN  /\ 0 =< n.begin /\ n.begin =< n.end
                              /\ n.end =< Length(InputOf(l).text)
                              /\ n.end - n.begin = Info[n.word].length
      BY DEF SplitSurfaces
    <2> DEFINE n == nodes[l][k]
    <2>2. Good(n, read[l]) /\ n \in Elems(nodes[l])
      BY <1>3 DEF ListsGood, AllGood, Elems
    <2>3. n.text = InputOf(l).text
      BY <1>3, <2>2 DEF ListsInv, ListOK
    <2> HIDE DEF n
    <2>4. /\ n.begin \in Nat /\ n.end \in Nat /\ Info[n.word].length \in Nat
          /\ n.end = n.begin + Info[n.word].length /\ n.end =< Length(n.text)
      BY <2>2, InfoAssumption DEF Good, Fits
    <2>5. QED
      BY <2>3, <2>4 DEF n
  <1> HIDE DEF IInv
  <1>4. QED
    BY <1>1, <1>2, <1>3, ListsInvariance, PTL DEF ListsSpec
=============================================================================
