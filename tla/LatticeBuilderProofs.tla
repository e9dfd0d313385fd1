------------------------ MODULE LatticeBuilderProofs ------------------------
(***************************************************************************)
(* Proofs about the lattice and its builder, for every dictionary, text,   *)
(* connection matrix, set of nodes and width of the costs.                 *)
(*                                                                         *)
(* First Lattice: what its vectors hold, the equations the Viterbi search  *)
(* leaves of each node, and that these add up to the minimum over all ways *)
(* through the words of the sentence.  Then LatticeBuilder, which          *)
(* implements it.                                                          *)
(***************************************************************************)
EXTENDS LatticeBuilder, SequenceFacts


----------------------------------------------------------------------------
(* connect_node.                                                           *)

\* The wrapped costs are those of an i32.
LEMMA WrapRange ==
    ASSUME NEW x \in Int
    PROVE  Wrap(x) \in Int /\ -(MaxI32 + 1) =< Wrap(x) /\ Wrap(x) =< MaxI32
  <1> DEFINE y == x + MaxI32 + 1
             n == 2 * MaxI32 + 2
  <1>1. y \in Int /\ n \in Nat \ {0} /\ MaxI32 \in Nat
    BY BoundsAssumption
  <1>2. y % n \in 0..n - 1
    <2> HIDE DEF y, n
    <2> QED BY <1>1
  <1>3. Wrap(x) = (y % n) - (MaxI32 + 1)
    BY DEF Wrap
  <1>4. \A r \in 0..n - 1 : /\ r - (MaxI32 + 1) \in Int
                            /\ -(MaxI32 + 1) =< r - (MaxI32 + 1)
                            /\ r - (MaxI32 + 1) =< MaxI32
    BY <1>1
  <1>5. QED
    BY <1>2, <1>3, <1>4

\* What a lattice node, EOS included, is made of.
AnyNode == [begin : Nat, end : Nat, left : ConnId, right : ConnId, cost : Int]

LEMMA NewCostRange ==
    ASSUME NEW v \in VNode, NEW node, node.left \in ConnId, node.cost \in Int
    PROVE  NewCost(v, node) \in Int /\ -(MaxI32 + 1) =< NewCost(v, node)
  <1>1. <<v.right, node.left>> \in ConnId \X ConnId
    BY DEF VNode
  <1>2. Conn[<<v.right, node.left>>] \in Int /\ v.total \in Int
    BY <1>1, MatrixAssumption DEF VNode
  <1> DEFINE x == v.total + Conn[<<v.right, node.left>>] + node.cost
  <1>3. x \in Int
    BY <1>2
  <1>4. NewCost(v, node) = Wrap(x)
    BY DEF NewCost
  <1> HIDE DEF x
  <1>5. QED
    BY <1>3, <1>4, WrapRange

\* connect_node either finds no candidate or returns a best one.
LEMMA ConnectNodeBest ==
    ASSUME NEW node, node.left \in ConnId, node.cost \in Int, node.begin \in Nat,
           ends[node.begin] \in Seq(VNode)
    PROVE  LET c == ConnectNode(node)
           IN  /\ c.cost \in Int /\ c.idx \in NodeIdx
               /\ c.cost # MaxI32 =>
                      /\ PointsBack(c.idx, node, ends[node.begin])
                      /\ BestPredecessor(c.idx, c.cost, node, ends[node.begin])
  <1> DEFINE prevs == ends[node.begin]
             S == Candidates(prevs, node)
             f == [i \in S |-> NewCost(prevs[i], node)]
             m == -(MaxI32 + 1)
             Best(i) == \A j \in S : f[i] < f[j] \/ (f[i] = f[j] /\ i =< j)
             b == CHOOSE i \in S : Best(i)
             c == ConnectNode(node)
  <1>1. MaxI32 \in Nat /\ m \in Int
    BY BoundsAssumption
  <1>2. S \in SUBSET Nat /\ \A i \in S : i \in 1..Len(prevs) /\ prevs[i] \in VNode
    BY DEF Candidates
  <1>3. f \in [S -> Int] /\ \A i \in S : m =< f[i]
    BY <1>2, NewCostRange
  <1>4. CASE S = {}
    <2>1. c = [idx |-> EmptyIdx, cost |-> MaxI32]
      BY <1>4 DEF ConnectNode
    <2>2. QED
      BY <2>1, <1>1 DEF EmptyIdx, NodeIdx
  <1>5. CASE S # {}
    <2>1. \E i \in S : Best(i)
      <3> HIDE DEF S, f, m
      <3> QED BY <1>1, <1>2, <1>3, <1>5, FirstMinimum
    <2>2. b \in S /\ Best(b)
      <3> HIDE DEF S, Best
      <3> QED BY <2>1
    <2>3. c = [idx |-> [end |-> node.begin, index |-> b - 1], cost |-> f[b]]
      <3>1. b = CHOOSE i \in S : \A j \in S :
                    \/ NewCost(prevs[i], node) < NewCost(prevs[j], node)
                    \/ /\ NewCost(prevs[i], node) = NewCost(prevs[j], node)
                       /\ i =< j
        OBVIOUS
      <3>2. QED
        BY <1>5, <2>2, <3>1 DEF ConnectNode
    <2>4. /\ b \in 1..Len(prevs) /\ f[b] \in Int /\ f[b] = NewCost(prevs[b], node)
          /\ \A j \in S : f[b] =< f[j]
          /\ IsConnected(prevs[b])
      <3>1. b \in 1..Len(prevs) /\ f[b] \in Int /\ f[b] = NewCost(prevs[b], node)
        BY <2>2, <1>2, <1>3
      <3>2. \A j \in S : f[b] =< f[j]
        <4> HIDE DEF S, f, b
        <4> QED BY <2>2, <1>3
      <3>3. IsConnected(prevs[b])
        <4> HIDE DEF b, f
        <4> QED BY <2>2 DEF Candidates
      <3>4. QED
        BY <3>1, <3>2, <3>3
    <2>5. c.idx.index + 1 = b /\ c.idx.end = node.begin /\ c.cost = f[b]
          /\ c.idx.index \in 0..Len(prevs) - 1
      <3> HIDE DEF b, c, f
      <3> QED BY <2>3, <2>4
    <2>6. c.cost \in Int /\ c.idx \in NodeIdx
      <3> HIDE DEF b, c, f
      <3> QED BY <2>3, <2>4 DEF NodeIdx
    <2>7. PointsBack(c.idx, node, prevs)
      <3> HIDE DEF b, c, f
      <3> QED BY <2>4, <2>5 DEF PointsBack
    <2>8. BestPredecessor(c.idx, c.cost, node, prevs)
      <3>1. \A j \in S : f[j] = NewCost(prevs[j], node)
        OBVIOUS
      <3> HIDE DEF b, c, f
      <3> QED BY <2>4, <2>5, <3>1 DEF BestPredecessor
    <2>9. QED
      BY <2>6, <2>7, <2>8
  <1>6. QED
    BY <1>4, <1>5

----------------------------------------------------------------------------
(* The inductive invariant.                                                *)

SizeOK == size = 0 \/ size >= 2

\* Nodes come boundary by boundary: a boundary where a node begins is closed
\* once a later one is reached, since a node ends after it begins.
FrontierOK ==
    size > 0 =>
        \A b \in DOMAIN ends \ {0} : \A i \in 1..Len(ends[b]) :
            ends_full[b][i].begin =< frontier

EosOK ==
    \A e \in eos : size >= 2 /\ PointsBack(e.idx, EosNode, ends[size - 1])

\* What is on the path is connected, so that its predecessor exists.
PathOK ==
    path # <<>> =>
        /\ size >= 2 /\ eos # {}
        /\ \A k \in 1..Len(path) :
               /\ path[k].end \in 1..size - 1
               /\ path[k].index \in 0..Len(ends[path[k].end]) - 1
               /\ IsConnected(ends[path[k].end][path[k].index + 1])

IInv == /\ TypeOK /\ SizeOK /\ Aligned /\ BackPointers /\ FrontierOK
        /\ EosOK /\ PathOK /\ PathTiles

\* A new lattice satisfies the invariant.
LEMMA InitInv == LatticeInit => IInv
  <1>1. SUFFICES ASSUME LatticeInit PROVE IInv
    OBVIOUS
  <1>2. DOMAIN ends = {} /\ DOMAIN ends_full = {} /\ DOMAIN indices = {}
    BY <1>1 DEF LatticeInit
  <1>3. TypeOK
    BY <1>1, <1>2 DEF LatticeInit, TypeOK
  <1>4. QED
    BY <1>1, <1>3 DEF LatticeInit, IInv, SizeOK, Aligned, BackPointers, FrontierOK,
                      EosOK, PathOK, PathTiles

\* reset leaves BOS and nothing else, whatever the lattice held.
LEMMA ResetInv ==
    ASSUME IInv, NEW length \in 1..MaxLen, Reset(length)
    PROVE  IInv'
  <1> DEFINE D == DOMAIN ends \cup 0..length
  <1>1. length \in Nat /\ length >= 1 /\ size' = length + 1 /\ size' >= 2
    BY BoundsAssumption DEF Reset
  <1>2. D \in SUBSET Nat /\ 0 \in D /\ 0..length \subseteq D
    BY <1>1 DEF IInv, TypeOK
  <1>3. 0..(length + 1) - 1 = 0..length
    BY <1>1
  <1>4. /\ Cleared(ends, length + 1) = [b \in D |-> <<>>]
        /\ ends_full' = [b \in D |-> <<>>]
        /\ indices' = [b \in D |-> <<>>]
    BY <1>3 DEF Reset, Cleared, IInv, TypeOK
  <1>5. ends' = [b \in D |-> IF b = 0 THEN <<BOS>> ELSE <<>>]
    BY <1>2, <1>4 DEF Reset
  <1>6. /\ DOMAIN ends' = D /\ DOMAIN ends_full' = D /\ DOMAIN indices' = D
        /\ ends'[0] = <<BOS>> /\ ends_full'[0] = <<>> /\ indices'[0] = <<>>
        /\ \A b \in D \ {0} : /\ ends'[b] = <<>> /\ ends_full'[b] = <<>>
                              /\ indices'[b] = <<>>
    BY <1>2, <1>4, <1>5
  <1>7. eos' = {} /\ path' = <<>> /\ frontier' = 0
    BY DEF Reset
  <1>8. BOS \in VNode
    BY MatrixAssumption DEF BOS, VNode
  <1>9. TypeOK'
    <2> HIDE DEF D
    <2>1. <<BOS>> \in Seq(VNode)
      BY <1>8
    <2>2. \A b \in D : /\ ends'[b] \in Seq(VNode) /\ ends_full'[b] \in Seq(Nodes)
                       /\ indices'[b] \in Seq(NodeIdx)
      <3>1. /\ <<>> \in Seq(VNode) /\ <<>> \in Seq(Nodes) /\ <<>> \in Seq(NodeIdx)
        OBVIOUS
      <3>2. QED
        BY <1>6, <2>1, <3>1
    <2>3. eos' \in SUBSET [idx : NodeIdx, cost : Int] /\ path' \in Seq(NodeIdx)
      BY <1>7
    <2>4. size' \in Nat /\ frontier' \in Nat
      BY <1>1, <1>7
    <2>5. QED
      BY <1>2, <1>6, <2>2, <2>3, <2>4 DEF TypeOK
  <1>10. Aligned'
    <2> HIDE DEF D
    <2> QED BY <1>1, <1>2, <1>3, <1>6 DEF Aligned
  <1>11. (SizeOK /\ BackPointers /\ FrontierOK)'
    <2> HIDE DEF D
    <2> QED BY <1>1, <1>6 DEF SizeOK, BackPointers, FrontierOK
  <1>12. (EosOK /\ PathOK /\ PathTiles)'
    BY <1>7 DEF EosOK, PathOK, PathTiles
  <1>13. QED
    BY <1>9, <1>10, <1>11, <1>12 DEF IInv

\* An insertion appends to the boundary where the node ends, which lies after
\* every boundary where a node already begins: no pointer and no minimum that
\* was computed before is disturbed.
LEMMA InsertInv ==
    ASSUME IInv, NEW node \in Nodes, InsertNode(node)
    PROVE  IInv'
  <1> DEFINE c == ConnectNode(node)
             e == node.end
             a == node.begin
             v == [right |-> node.right, total |-> c.cost]
  <1>1. /\ a \in Nat /\ e \in Nat /\ a < e /\ e < size /\ frontier =< a
        /\ size \in Nat /\ frontier \in Nat /\ size > 0 /\ eos = {}
        /\ node.left \in ConnId /\ node.right \in ConnId /\ node.cost \in Int
    BY NodesAssumption DEF InsertNode, InsertAllowed, IInv, TypeOK
  <1>2. a \in DOMAIN ends /\ e \in DOMAIN ends /\ e # 0 /\ a # e
    BY <1>1 DEF IInv, Aligned
  <1>3. ends[a] \in Seq(VNode)
    BY <1>2 DEF IInv, TypeOK
  <1>4. /\ c.cost \in Int /\ c.idx \in NodeIdx
        /\ c.cost # MaxI32 => /\ PointsBack(c.idx, node, ends[a])
                              /\ BestPredecessor(c.idx, c.cost, node, ends[a])
    BY <1>1, <1>3, ConnectNodeBest
  <1>5. /\ ends' = [ends EXCEPT ![e] = Append(@, v)]
        /\ indices' = [indices EXCEPT ![e] = Append(@, c.idx)]
        /\ ends_full' = [ends_full EXCEPT ![e] = Append(@, node)]
        /\ frontier' = a /\ eos' = eos /\ size' = size /\ path' = path
    BY DEF InsertNode, Insert
  <1> HIDE DEF c
  <1>6. /\ DOMAIN ends' = DOMAIN ends /\ DOMAIN ends_full' = DOMAIN ends
        /\ DOMAIN indices' = DOMAIN ends
        /\ \A b \in DOMAIN ends \ {e} : /\ ends'[b] = ends[b]
                                      /\ ends_full'[b] = ends_full[b]
                                      /\ indices'[b] = indices[b]
        /\ ends'[e] = Append(ends[e], v)
        /\ ends_full'[e] = Append(ends_full[e], node)
        /\ indices'[e] = Append(indices[e], c.idx)
    BY <1>2, <1>5 DEF IInv, TypeOK
  <1>7. v \in VNode
    BY <1>1, <1>4 DEF VNode
  <1> DEFINE n == Len(ends[e])
  <1>8. /\ ends[e] \in Seq(VNode) /\ ends_full[e] \in Seq(Nodes)
        /\ indices[e] \in Seq(NodeIdx)
        /\ n \in Nat /\ Len(ends_full[e]) = n /\ Len(indices[e]) = n
    BY <1>1, <1>2 DEF IInv, TypeOK, Aligned
  <1>9. /\ Len(ends'[e]) = n + 1 /\ Len(ends_full'[e]) = n + 1
        /\ Len(indices'[e]) = n + 1
        /\ ends'[e][n + 1] = v /\ ends_full'[e][n + 1] = node
        /\ indices'[e][n + 1] = c.idx
        /\ \A i \in 1..n : /\ ends'[e][i] = ends[e][i]
                           /\ ends_full'[e][i] = ends_full[e][i]
                           /\ indices'[e][i] = indices[e][i]
    <2>1. node \in Nodes /\ c.idx \in NodeIdx
      BY <1>4
    <2> HIDE DEF v, n
    <2>2. /\ Len(ends'[e]) = n + 1 /\ ends'[e][n + 1] = v
          /\ \A i \in 1..n : ends'[e][i] = ends[e][i]
      BY <1>6, <1>7, <1>8, AppendFacts DEF n
    <2>3. /\ Len(ends_full'[e]) = n + 1 /\ ends_full'[e][n + 1] = node
          /\ \A i \in 1..n : ends_full'[e][i] = ends_full[e][i]
      <3>1. /\ Len(Append(ends_full[e], node)) = Len(ends_full[e]) + 1
            /\ Append(ends_full[e], node)[Len(ends_full[e]) + 1] = node
            /\ \A i \in 1..Len(ends_full[e]) :
                   Append(ends_full[e], node)[i] = ends_full[e][i]
        BY <1>8, <2>1, AppendFacts
      <3>2. QED
        BY <3>1, <1>6, <1>8
    <2>4. /\ Len(indices'[e]) = n + 1 /\ indices'[e][n + 1] = c.idx
          /\ \A i \in 1..n : indices'[e][i] = indices[e][i]
      <3>1. /\ Len(Append(indices[e], c.idx)) = Len(indices[e]) + 1
            /\ Append(indices[e], c.idx)[Len(indices[e]) + 1] = c.idx
            /\ \A i \in 1..Len(indices[e]) :
                   Append(indices[e], c.idx)[i] = indices[e][i]
        BY <1>8, <2>1, AppendFacts
      <3>2. QED
        BY <3>1, <1>6, <1>8
    <2>5. QED
      BY <2>2, <2>3, <2>4
  <1>10. TypeOK'
    <2>1. /\ ends'[e] \in Seq(VNode) /\ ends_full'[e] \in Seq(Nodes)
          /\ indices'[e] \in Seq(NodeIdx)
      BY <1>4, <1>6, <1>7, <1>8
    <2>2. \A b \in DOMAIN ends' : /\ ends'[b] \in Seq(VNode)
                                 /\ ends_full'[b] \in Seq(Nodes)
                                 /\ indices'[b] \in Seq(NodeIdx)
      BY <2>1, <1>6 DEF IInv, TypeOK
    <2>3. QED
      BY <2>2, <1>1, <1>5, <1>6 DEF IInv, TypeOK
  <1>11. Aligned'
    BY <1>1, <1>2, <1>5, <1>6, <1>8, <1>9 DEF IInv, Aligned
  <1> DEFINE Old(b, i) == b \in DOMAIN ends \ {0} /\ i \in 1..Len(ends[b])
  <1>12. ASSUME NEW b \in DOMAIN ends' \ {0}, NEW i \in 1..Len(ends'[b])
         PROVE  Old(b, i) \/ (b = e /\ i = n + 1)
    BY <1>6, <1>8, <1>9
  <1>13. ASSUME NEW b, NEW i, Old(b, i)
         PROVE  /\ ends'[b][i] = ends[b][i] /\ ends_full'[b][i] = ends_full[b][i]
                /\ indices'[b][i] = indices[b][i]
    BY <1>13, <1>6, <1>9
  <1>14. ASSUME NEW b, NEW i, Old(b, i)
         PROVE  /\ ends_full[b][i].begin =< frontier
                /\ ends_full[b][i].begin \in DOMAIN ends \ {e}
                /\ ends'[ends_full[b][i].begin] = ends[ends_full[b][i].begin]
    <2>1. ends_full[b][i].begin =< frontier
      BY <1>14, <1>1 DEF IInv, FrontierOK
    <2>2. Len(ends[b]) = Len(ends_full[b]) /\ ends_full[b] \in Seq(Nodes)
      BY <1>14, <1>1 DEF IInv, Aligned, TypeOK
    <2>3. ends_full[b][i] \in Nodes
      BY <2>2, <1>14
    <2>4. ends_full[b][i].begin \in Nat
      BY <2>3, NodesAssumption
    <2>5. ends_full[b][i].begin \in 0..size - 1 /\ ends_full[b][i].begin # e
      BY <2>1, <2>4, <1>1
    <2>6. QED
      BY <2>1, <2>5, <1>1, <1>6 DEF IInv, Aligned
  <1>15. BackPointers'
    <2>1. SUFFICES ASSUME NEW b \in DOMAIN ends' \ {0}, NEW i \in 1..Len(ends'[b])
                   PROVE  /\ ends_full'[b][i].end = b /\ ends_full'[b][i].begin < b
                          /\ Linked(indices'[b][i], ends'[b][i], ends_full'[b][i],
                                    ends'[ends_full'[b][i].begin])
      BY DEF BackPointers
    <2>2. CASE Old(b, i)
      <3>1. /\ ends_full[b][i].end = b /\ ends_full[b][i].begin < b
            /\ Linked(indices[b][i], ends[b][i], ends_full[b][i],
                      ends[ends_full[b][i].begin])
        BY <2>2, <1>1 DEF IInv, BackPointers
      <3>2. QED
        BY <3>1, <2>2, <1>13, <1>14
    <2>3. CASE b = e /\ i = n + 1
      <3>1. Linked(c.idx, v, node, ends[a])
        BY <1>4 DEF Linked, IsConnected
      <3>2. ends'[a] = ends[a]
        BY <1>2, <1>6
      <3>3. QED
        BY <2>3, <3>1, <3>2, <1>1, <1>9
    <2>4. QED
      BY <2>2, <2>3, <1>12
  <1>16. FrontierOK'
    <2>1. SUFFICES ASSUME NEW b \in DOMAIN ends' \ {0}, NEW i \in 1..Len(ends'[b])
                   PROVE  ends_full'[b][i].begin =< a
      BY <1>5 DEF FrontierOK
    <2>2. CASE Old(b, i)
      <3>1. /\ ends_full'[b][i] = ends_full[b][i]
            /\ ends_full[b][i].begin =< frontier
            /\ ends_full[b][i].begin \in DOMAIN ends
        BY <2>2, <1>13, <1>14
      <3>2. ends_full[b][i].begin \in Nat
        BY <3>1 DEF IInv, TypeOK
      <3>3. QED
        BY <3>1, <3>2, <1>1
    <2>3. CASE b = e /\ i = n + 1
      BY <2>3, <1>1, <1>9
    <2>4. QED
      BY <2>2, <2>3, <1>12
  <1>17. path = <<>>
    BY <1>1 DEF IInv, PathOK
  <1>18. QED
    BY <1>1, <1>5, <1>10, <1>11, <1>15, <1>16, <1>17
       DEF IInv, SizeOK, EosOK, PathOK, PathTiles

\* connect_eos points back at a node that ends with the sentence.
LEMMA ConnectEosInv ==
    ASSUME IInv, ConnectEos
    PROVE  IInv'
  <1> DEFINE c == ConnectNode(EosNode)
  <1>1. size \in Nat /\ size >= 2 /\ size - 1 \in Nat /\ size - 1 \in 0..size - 1
    BY DEF IInv, TypeOK, SizeOK, ConnectEos
  <1>2. /\ EosNode.left \in ConnId /\ EosNode.cost \in Int /\ EosNode.begin \in Nat
        /\ EosNode.begin = size - 1
    BY <1>1, MatrixAssumption DEF EosNode
  <1>3. ends[EosNode.begin] \in Seq(VNode)
    BY <1>1, <1>2 DEF IInv, TypeOK, Aligned
  <1>4. /\ c.cost \in Int /\ c.idx \in NodeIdx
        /\ c.cost # MaxI32 => PointsBack(c.idx, EosNode, ends[size - 1])
    BY <1>2, <1>3, ConnectNodeBest
  <1>5. /\ eos' = {c} /\ eos = {} /\ c.cost # MaxI32 /\ size' = size /\ ends' = ends
        /\ ends_full' = ends_full /\ indices' = indices /\ path' = path
        /\ frontier' = frontier /\ path = <<>>
    BY DEF ConnectEos, vecs, IInv, PathOK
  <1>6. c \in [idx : NodeIdx, cost : Int]
    <2>1. c = [idx |-> c.idx, cost |-> c.cost]
      BY DEF ConnectNode
    <2> HIDE DEF c
    <2>2. QED
      BY <2>1, <1>4
  <1>7. EosNode' = EosNode
    BY <1>5 DEF EosNode
  <1> HIDE DEF c
  <1>8. TypeOK'
    BY <1>5, <1>6 DEF IInv, TypeOK
  <1>9. (SizeOK /\ Aligned /\ BackPointers /\ FrontierOK)'
    BY <1>5 DEF IInv, SizeOK, Aligned, BackPointers, FrontierOK
  <1>10. EosOK'
    BY <1>1, <1>4, <1>5, <1>7 DEF EosOK
  <1>11. (PathOK /\ PathTiles)'
    BY <1>5 DEF PathOK, PathTiles
  <1>12. QED
    BY <1>8, <1>9, <1>10, <1>11 DEF IInv

\* The predecessor of a connected node that is not BOS is a connected node,
\* and ends where the node begins.
LEMMA StepBack ==
    ASSUME IInv, size >= 2, NEW b \in 1..size - 1, NEW i \in 1..Len(ends[b]),
           IsConnected(ends[b][i])
    PROVE  LET p == indices[b][i]
           IN  /\ p \in NodeIdx
               /\ p.end = ends_full[b][i].begin
               /\ p.end # 0 => /\ p.end \in 1..size - 1
                               /\ p.index \in 0..Len(ends[p.end]) - 1
                               /\ IsConnected(ends[p.end][p.index + 1])
  <1> DEFINE p == indices[b][i]
             node == ends_full[b][i]
  <1>1. size \in Nat /\ b \in DOMAIN ends \ {0} /\ b \in Nat
    <2>1. size \in Nat /\ 0..size - 1 \subseteq DOMAIN ends
      BY DEF IInv, TypeOK, Aligned
    <2>2. b \in Nat /\ b # 0 /\ b \in 0..size - 1
      BY <2>1
    <2> QED BY <2>1, <2>2
  <1>2. /\ node.begin < b /\ Linked(p, ends[b][i], node, ends[node.begin])
    BY <1>1 DEF IInv, BackPointers
  <1>3. PointsBack(p, node, ends[node.begin])
    BY <1>2 DEF Linked
  <1>4. p \in NodeIdx /\ node \in Nodes
    <2>1. /\ ends[b] \in Seq(VNode) /\ ends_full[b] \in Seq(Nodes)
          /\ indices[b] \in Seq(NodeIdx)
      BY <1>1 DEF IInv, TypeOK
    <2>2. Len(ends[b]) = Len(ends_full[b]) /\ Len(ends[b]) = Len(indices[b])
      BY <1>1 DEF IInv, Aligned
    <2>3. i \in 1..Len(ends_full[b]) /\ i \in 1..Len(indices[b])
      BY <2>2
    <2>4. QED
      BY <2>1, <2>3
  <1>5. node.begin \in Nat
    BY <1>4, NodesAssumption
  <1> HIDE DEF p, node
  <1>6. p.end = node.begin /\ p.index \in 0..Len(ends[p.end]) - 1
        /\ IsConnected(ends[p.end][p.index + 1])
    <2> DEFINE left == ends[node.begin]
    <2>1. PointsBack(p, node, left)
      BY <1>3
    <2> HIDE DEF left
    <2>2. /\ p.end = node.begin /\ p.index \in 0..Len(left) - 1
          /\ IsConnected(left[p.index + 1])
      BY <2>1 DEF PointsBack
    <2>3. QED
      BY <2>2 DEF left
  <1>7. p.end # 0 => p.end \in 1..size - 1
    BY <1>1, <1>2, <1>5, <1>6
  <1>8. QED
    BY <1>4, <1>6, <1>7 DEF p, node

\* A boundary of the sentence after the first one.
LEMMA BoundaryOK ==
    ASSUME IInv, size >= 2, NEW b \in 1..size - 1
    PROVE  /\ b \in DOMAIN ends \ {0} /\ Len(ends[b]) \in Nat
           /\ Len(ends[b]) = Len(ends_full[b])
  <1>1. size \in Nat /\ b \in 0..size - 1 /\ b # 0
    BY DEF IInv, TypeOK
  <1>2. b \in DOMAIN ends \ {0}
    BY <1>1 DEF IInv, Aligned
  <1>3. QED
    BY <1>1, <1>2 DEF IInv, Aligned, TypeOK

\* The first node of the path is the predecessor of EOS.
LEMMA FillStartInv ==
    ASSUME IInv, FillStart
    PROVE  IInv'
  <1>1. PICK x \in eos : path' = <<x.idx>>
    BY DEF FillStart
  <1>2. /\ size >= 2 /\ size \in Nat /\ x.idx \in NodeIdx
        /\ PointsBack(x.idx, EosNode, ends[size - 1])
    BY DEF IInv, EosOK, TypeOK
  <1> DEFINE p == x.idx
  <1>3. /\ p.end = size - 1 /\ p.end \in 1..size - 1
        /\ p.index \in 0..Len(ends[p.end]) - 1
        /\ IsConnected(ends[p.end][p.index + 1])
    BY <1>2 DEF PointsBack, EosNode
  <1>4. /\ ends' = ends /\ ends_full' = ends_full /\ indices' = indices
        /\ eos' = eos /\ size' = size /\ frontier' = frontier /\ eos # {}
    BY DEF FillStart, vecs
  <1>5. /\ path' \in Seq(NodeIdx) /\ Len(path') = 1 /\ path'[1] = p
    BY <1>1, <1>2
  <1>6. p.end \in DOMAIN ends \ {0} /\ Len(ends[p.end]) = Len(ends_full[p.end])
        /\ Len(ends[p.end]) \in Nat
    BY <1>2, <1>3 DEF IInv, Aligned, TypeOK
  <1> HIDE DEF p
  <1>7. TypeOK'
    BY <1>4, <1>5 DEF IInv, TypeOK
  <1>8. (SizeOK /\ Aligned /\ BackPointers /\ FrontierOK /\ EosOK)'
    BY <1>4 DEF IInv, SizeOK, Aligned, BackPointers, FrontierOK, EosOK, EosNode
  <1>9. PathOK'
    BY <1>2, <1>3, <1>4, <1>5 DEF PathOK
  <1>10. FillDone' => ends_full[p.end][p.index + 1].begin = 0
    <2>1. p.index + 1 \in 1..Len(ends[p.end])
      BY <1>3, <1>6
    <2>2. indices[p.end][p.index + 1].end = ends_full[p.end][p.index + 1].begin
      BY <1>2, <1>3, <2>1, StepBack
    <2>3. QED
      BY <2>2, <1>4, <1>5 DEF FillDone, PrevOf
  <1>11. PathTiles'
    BY <1>3, <1>4, <1>5, <1>6, <1>10 DEF PathTiles, NodeAt
  <1>12. QED
    BY <1>7, <1>8, <1>9, <1>11 DEF IInv

\* The loop of fill_top_path follows a pointer of a connected node.
LEMMA FillStepInv ==
    ASSUME IInv, FillStep
    PROVE  IInv'
  <1> DEFINE n == Len(path)
             q == path[n]
             p == PrevOf(q)
  <1>1. /\ path # <<>> /\ path \in Seq(NodeIdx) /\ n \in Nat /\ n >= 1 /\ n \in 1..n
        /\ size >= 2 /\ size \in Nat /\ eos # {}
    BY DEF FillStep, IInv, TypeOK, PathOK
  <1>2. /\ q.end \in 1..size - 1 /\ q.index \in 0..Len(ends[q.end]) - 1
        /\ IsConnected(ends[q.end][q.index + 1])
    BY <1>1 DEF IInv, PathOK
  <1>3. q.end \in DOMAIN ends \ {0} /\ Len(ends[q.end]) \in Nat
    BY <1>1, <1>2, BoundaryOK
  <1>4. p.end # 0 /\ path' = Append(path, p)
    BY <1>1 DEF FillStep, FillDone
  <1>5. /\ ends' = ends /\ ends_full' = ends_full /\ indices' = indices
        /\ eos' = eos /\ size' = size /\ frontier' = frontier
    BY DEF FillStep, vecs
  <1>6. q.index + 1 \in 1..Len(ends[q.end])
    BY <1>2, <1>3
  <1>7. /\ p \in NodeIdx /\ p.end = NodeAt(q).begin
        /\ p.end \in 1..size - 1 /\ p.index \in 0..Len(ends[p.end]) - 1
        /\ IsConnected(ends[p.end][p.index + 1])
    BY <1>1, <1>2, <1>4, <1>6, StepBack DEF PrevOf, NodeAt
  <1>8. /\ p.end \in DOMAIN ends \ {0} /\ Len(ends[p.end]) \in Nat
        /\ Len(ends[p.end]) = Len(ends_full[p.end])
    BY <1>1, <1>7, BoundaryOK
  <1>9. FillDone' => NodeAt(p).begin = 0
    <2>1. p.index + 1 \in 1..Len(ends[p.end])
      BY <1>7, <1>8
    <2>2. PrevOf(p).end = NodeAt(p).begin
      BY <1>1, <1>7, <2>1, StepBack DEF PrevOf, NodeAt
    <2>3. path'[Len(path')] = p
      BY <1>1, <1>4, <1>7
    <2>4. FillDone' => PrevOf(p).end = 0
      BY <2>3, <1>5 DEF FillDone, PrevOf
    <2>5. QED
      BY <2>2, <2>4
  <1> HIDE DEF p
  <1>10. /\ path' \in Seq(NodeIdx) /\ Len(path') = n + 1 /\ path'[n + 1] = p
         /\ \A k \in 1..n : path'[k] = path[k]
    BY <1>1, <1>4, <1>7, AppendFacts
  <1>11. TypeOK'
    BY <1>5, <1>10 DEF IInv, TypeOK
  <1>12. (SizeOK /\ Aligned /\ BackPointers /\ FrontierOK /\ EosOK)'
    BY <1>5 DEF IInv, SizeOK, Aligned, BackPointers, FrontierOK, EosOK, EosNode
  <1>13. PathOK'
    <2>1. SUFFICES ASSUME NEW k \in 1..n + 1
                   PROVE  /\ path'[k].end \in 1..size - 1
                          /\ path'[k].index \in 0..Len(ends[path'[k].end]) - 1
                          /\ IsConnected(ends[path'[k].end][path'[k].index + 1])
      BY <1>1, <1>5, <1>10 DEF PathOK
    <2>2. CASE k = n + 1
      BY <2>2, <1>7, <1>10
    <2>3. CASE k \in 1..n
      <3>1. path'[k] = path[k]
        BY <2>3, <1>10
      <3>2. QED
        BY <3>1, <2>3, <1>1 DEF IInv, PathOK
    <2>4. QED
      BY <2>2, <2>3, <1>1
  <1>14. PathTiles'
    <2>1. path'[1].end = size - 1
      <3>1. path'[1] = path[1]
        BY <1>1, <1>10
      <3>2. QED
        BY <3>1, <1>1 DEF IInv, PathTiles
    <2>2. ASSUME NEW k \in 1..n + 1
          PROVE  /\ path'[k].end \in 1..size - 1
                 /\ path'[k].index \in 0..Len(ends_full[path'[k].end]) - 1
      <3>1. CASE k = n + 1
        BY <3>1, <1>7, <1>8, <1>10
      <3>2. CASE k \in 1..n
        <4>1. path'[k] = path[k]
          BY <3>2, <1>10
        <4>2. QED
          BY <4>1, <3>2, <1>1 DEF IInv, PathTiles
      <3>3. QED
        BY <3>1, <3>2, <1>1
    <2>3. ASSUME NEW k \in 1..n
          PROVE  NodeAt(path'[k]).begin = path'[k + 1].end
      <3>1. CASE k = n
        BY <3>1, <1>1, <1>7, <1>10
      <3>2. CASE k \in 1..n - 1
        <4>1. path'[k] = path[k] /\ path'[k + 1] = path[k + 1]
          BY <3>2, <1>1, <1>10
        <4>2. QED
          BY <4>1, <3>2, <1>1 DEF IInv, PathTiles
      <3>3. QED
        BY <3>1, <3>2, <1>1
    <2>4. 1..(n + 1) - 1 = 1..n
      BY <1>1
    <2>5. QED
      BY <1>1, <1>5, <1>9, <1>10, <2>1, <2>2, <2>3, <2>4 DEF PathTiles, NodeAt
  <1>15. QED
    BY <1>11, <1>12, <1>13, <1>14 DEF IInv

\* The invariant is inductive.
LEMMA StepInv == IInv /\ [LatticeNext]_lattice_vars => IInv'
  <1>1. SUFFICES ASSUME IInv, [LatticeNext]_lattice_vars PROVE IInv'
    OBVIOUS
  <1>2. CASE \E length \in 1..MaxLen : Reset(length)
    BY <1>1, <1>2, ResetInv
  <1>3. CASE \E node \in Nodes : InsertNode(node)
    BY <1>1, <1>3, InsertInv
  <1>4. CASE ConnectEos
    BY <1>1, <1>4, ConnectEosInv
  <1>5. CASE FillStart
    BY <1>1, <1>5, FillStartInv
  <1>6. CASE FillStep
    BY <1>1, <1>6, FillStepInv
  <1>7. CASE UNCHANGED lattice_vars
    BY <1>1, <1>7
       DEF lattice_vars, vecs, IInv, TypeOK, SizeOK, Aligned, BackPointers, FrontierOK,
           EosOK, EosNode, PathOK, PathTiles, FillDone, PrevOf, NodeAt
  <1>8. QED
    BY <1>1, <1>2, <1>3, <1>4, <1>5, <1>6, <1>7 DEF LatticeNext

\* The invariant holds in every reachable state.
LEMMA Invariance == LatticeSpec => []IInv
  BY InitInv, StepInv, PTL DEF LatticeSpec

----------------------------------------------------------------------------
(* No cost overflows.                                                      *)

\* The amount a total cost may have at the boundary b: a word and a connection
\* for every character.
Amount(b) == b * (2 * MaxCost)

LEMMA AmountGrows ==
    ASSUME NEW a \in Nat, NEW b \in Nat, a < b, b =< MaxLen
    PROVE  /\ Amount(a) \in Nat /\ Amount(b) \in Nat
           /\ Amount(a) + 2 * MaxCost =< Amount(b)
           /\ Amount(b) + MaxCost < MaxI32
  <1> DEFINE u == 2 * MaxCost
  <1>1. u \in Nat /\ MaxLen \in Nat /\ MaxI32 \in Nat /\ MaxCost \in Nat
        /\ MaxLen * u + MaxCost < MaxI32
    <2>1. MaxCost \in Nat /\ (2 * MaxLen + 1) * MaxCost < MaxI32
      BY CostsAssumption
    <2>2. MaxLen \in Nat /\ MaxI32 \in Nat
      BY BoundsAssumption
    <2>3. (2 * MaxLen + 1) * MaxCost = MaxLen * u + MaxCost
      BY <2>1, <2>2
    <2>4. QED
      BY <2>1, <2>2, <2>3
  <1>2. \A x, y \in Nat : x =< y => x * u \in Nat /\ y * u \in Nat /\ x * u =< y * u
    <2> HIDE DEF u
    <2> QED BY <1>1
  <1>3. (a + 1) * u = a * u + u
    <2> HIDE DEF u
    <2> QED BY <1>1
  <1>4. a * u \in Nat /\ b * u \in Nat /\ (a + 1) * u =< b * u /\ b * u =< MaxLen * u
    <2>1. a + 1 \in Nat /\ a + 1 =< b
      OBVIOUS
    <2> HIDE DEF u
    <2>2. QED
      BY <1>1, <1>2, <2>1
  <1>5. Amount(a) = a * u /\ Amount(b) = b * u
    BY DEF Amount
  <1> HIDE DEF u
  <1>6. a * u + u =< b * u /\ b * u + MaxCost < MaxI32
    BY <1>1, <1>3, <1>4
  <1>7. QED
    BY <1>4, <1>5, <1>6 DEF u

\* A sum that fits is not wrapped.
LEMMA WrapFits ==
    ASSUME NEW x \in Int, -MaxI32 =< x, x =< MaxI32
    PROVE  Wrap(x) = x
  <1>1. MaxI32 \in Nat
    BY BoundsAssumption
  <1>2. \A n, y \in Nat : y < n => y % n = y
    OBVIOUS
  <1>3. x + MaxI32 + 1 \in Nat /\ 2 * MaxI32 + 2 \in Nat
        /\ x + MaxI32 + 1 < 2 * MaxI32 + 2
    BY <1>1
  <1>4. (x + MaxI32 + 1) % (2 * MaxI32 + 2) = x + MaxI32 + 1
    BY <1>2, <1>3
  <1>5. QED
    BY <1>1, <1>4 DEF Wrap

Fits(v, b) == -Amount(b) =< v.total /\ v.total =< Amount(b)

\* Every node that is inserted is connected, since its predecessors are, and its
\* cost is that of the words and connections that lead to it.
TotalsFit ==
    /\ size =< MaxLen + 1
    /\ size > 0 => \A b \in 0..size - 1 : \A i \in 1..Len(ends[b]) : Fits(ends[b][i], b)

\* A cost after a predecessor that fits.
LEMMA NewCostFits ==
    ASSUME NEW a \in Nat, NEW r \in Nat, Amount(a) \in Nat,
           Amount(a) + MaxCost + r < MaxI32,
           NEW v \in VNode, Fits(v, a),
           NEW node, node.left \in ConnId, node.cost \in -r..r
    PROVE  /\ NewCost(v, node) = v.total + Conn[<<v.right, node.left>>] + node.cost
           /\ NewCost(v, node) \in Int /\ NewCost(v, node) < MaxI32
           /\ -Amount(a) - MaxCost - r =< NewCost(v, node)
           /\ NewCost(v, node) =< Amount(a) + MaxCost + r
           /\ IsConnected(v)
  <1>1. MaxCost \in Nat /\ MaxI32 \in Nat
    BY CostsAssumption, BoundsAssumption
  <1> DEFINE k == Conn[<<v.right, node.left>>]
             x == v.total + k + node.cost
  <1>2. k \in -MaxCost..MaxCost
    <2>1. <<v.right, node.left>> \in ConnId \X ConnId
      BY DEF VNode
    <2>2. QED
      BY <2>1, CostsAssumption
  <1>3. v.total \in Int /\ -Amount(a) =< v.total /\ v.total =< Amount(a)
    BY DEF Fits, VNode
  <1>4. NewCost(v, node) = Wrap(x)
    BY DEF NewCost
  <1> HIDE DEF k
  <1>5. x \in Int /\ -MaxI32 =< x /\ x < MaxI32 /\ -Amount(a) - MaxCost - r =< x
        /\ x =< Amount(a) + MaxCost + r
    BY <1>1, <1>2, <1>3
  <1> HIDE DEF x
  <1>6. Wrap(x) = x
    BY <1>1, <1>5, WrapFits
  <1>7. v.total # MaxI32
    BY <1>1, <1>3
  <1>8. QED
    BY <1>4, <1>5, <1>6, <1>7 DEF IsConnected, x, k

\* Then all the nodes before a node are candidates, and it is connected.
LEMMA AllCandidates ==
    ASSUME TypeOK, NEW a \in Nat, NEW r \in Nat, Amount(a) \in Nat,
           Amount(a) + MaxCost + r < MaxI32, a \in DOMAIN ends,
           \A i \in 1..Len(ends[a]) : Fits(ends[a][i], a),
           NEW node, node.begin = a, node.left \in ConnId,
           node.cost \in -r..r
    PROVE  /\ Candidates(ends[a], node) = 1..Len(ends[a])
           /\ ends[a] # <<>> =>
                  LET c == ConnectNode(node)
                  IN  /\ c.cost \in Int /\ c.cost # MaxI32
                      /\ -Amount(a) - MaxCost - r =< c.cost
                      /\ c.cost =< Amount(a) + MaxCost + r
                      /\ c.idx.index + 1 \in 1..Len(ends[a]) /\ c.idx.end = a
                      /\ c.cost = NewCost(ends[a][c.idx.index + 1], node)
                      /\ \A i \in 1..Len(ends[a]) : c.cost =< NewCost(ends[a][i], node)
  <1> DEFINE prevs == ends[a]
             c == ConnectNode(node)
  <1>1. prevs \in Seq(VNode)
    BY DEF TypeOK
  <1>2. \A i \in 1..Len(prevs) :
            /\ NewCost(prevs[i], node) \in Int /\ NewCost(prevs[i], node) < MaxI32
            /\ -Amount(a) - MaxCost - r =< NewCost(prevs[i], node)
            /\ NewCost(prevs[i], node) =< Amount(a) + MaxCost + r
            /\ IsConnected(prevs[i])
    <2>1. \A i \in 1..Len(prevs) : prevs[i] \in VNode
      BY <1>1
    <2>2. QED
      BY <2>1, NewCostFits
  <1>3. Candidates(prevs, node) = 1..Len(prevs)
    BY <1>2 DEF Candidates
  <1>4. ASSUME prevs # <<>>
        PROVE  c.cost = NewCost(prevs[c.idx.index + 1], node)
               /\ c.idx.index + 1 \in 1..Len(prevs) /\ c.idx.end = a
               /\ \A i \in 1..Len(prevs) : c.cost =< NewCost(prevs[i], node)
    <2> DEFINE S == Candidates(prevs, node)
               f == [i \in S |-> NewCost(prevs[i], node)]
               m == -Amount(a) - MaxCost - r
               Best(i) == \A j \in S : f[i] < f[j] \/ (f[i] = f[j] /\ i =< j)
               b == CHOOSE i \in S : Best(i)
    <2>1. S \in SUBSET Nat /\ S # {} /\ m \in Int
      <3>1. Len(prevs) \in Nat \ {0}
        BY <1>1, <1>4
      <3>2. m \in Int
        BY CostsAssumption
      <3>3. S \in SUBSET Nat /\ 1 \in S
        <4>1. S = 1..Len(prevs)
          BY <1>3
        <4> HIDE DEF S, prevs
        <4>2. QED
          BY <4>1, <3>1
      <3> HIDE DEF S, m
      <3>4. QED
        BY <3>2, <3>3
    <2>2. f \in [S -> Int] /\ \A i \in S : m =< f[i]
      BY <1>2, <1>3
    <2>3. \E i \in S : Best(i)
      <3> HIDE DEF S, f, m
      <3> QED BY <2>1, <2>2, FirstMinimum
    <2>4. b \in S /\ Best(b)
      <3> HIDE DEF S, Best
      <3> QED BY <2>3
    <2>5. c = [idx |-> [end |-> a, index |-> b - 1], cost |-> f[b]]
      <3>1. b = CHOOSE i \in S : \A j \in S :
                    \/ NewCost(prevs[i], node) < NewCost(prevs[j], node)
                    \/ /\ NewCost(prevs[i], node) = NewCost(prevs[j], node)
                       /\ i =< j
        OBVIOUS
      <3>2. QED
        BY <2>1, <2>4, <3>1 DEF ConnectNode
    <2>6. b \in 1..Len(prevs) /\ \A i \in 1..Len(prevs) : f[b] =< f[i]
      <3>1. b \in 1..Len(prevs)
        <4> HIDE DEF b, S
        <4> QED BY <1>3, <2>4 DEF S
      <3>2. \A i \in S : f[b] =< f[i]
        <4> HIDE DEF S, f, b, m
        <4> QED BY <2>2, <2>4
      <3>3. QED
        <4> HIDE DEF b, f
        <4> QED BY <3>1, <3>2, <1>3
    <2>7. \A i \in 1..Len(prevs) : f[i] = NewCost(prevs[i], node)
      BY <1>3
    <2>8. c.cost = f[b] /\ c.idx.end = a /\ c.idx.index + 1 = b
      <3> HIDE DEF f, b, c, S
      <3> QED BY <2>5, <2>6
    <2> HIDE DEF f, b, c, S
    <2>9. QED
      BY <2>6, <2>7, <2>8
  <1> HIDE DEF c
  <1>5. ASSUME prevs # <<>>
        PROVE  /\ c.cost \in Int /\ c.cost # MaxI32
               /\ -Amount(a) - MaxCost - r =< c.cost
               /\ c.cost =< Amount(a) + MaxCost + r
    <2>1. MaxI32 \in Nat
      BY BoundsAssumption
    <2>2. QED
      BY <1>2, <1>4, <1>5, <2>1
  <1>6. QED
    BY <1>3, <1>4, <1>5 DEF c

\* The totals fit: one more invariant, on top of IInv.
LEMMA ResetTotals ==
    ASSUME IInv, NEW length \in 1..MaxLen, Reset(length)
    PROVE  TotalsFit'
  <1>1. length \in Nat /\ length + 1 =< MaxLen + 1 /\ size' = length + 1
    BY BoundsAssumption DEF Reset
  <1>2. IInv'
    BY ResetInv
  <1>3. ASSUME NEW b \in 0..length PROVE b # 0 => ends'[b] = <<>>
    <2>1. b \in DOMAIN Cleared(ends, length + 1) /\ Cleared(ends, length + 1)[b] = <<>>
      BY <1>1 DEF Cleared
    <2>2. ends' = [Cleared(ends, length + 1) EXCEPT
                      ![0] = Append(Cleared(ends, length + 1)[0], BOS)]
      BY DEF Reset
    <2>3. QED
      BY <2>1, <2>2
  <1>4. ends'[0] = <<BOS>>
    BY <1>1, <1>2 DEF IInv, Aligned
  <1>5. Fits(BOS, 0)
    BY CostsAssumption DEF Fits, Amount, BOS
  <1>6. ASSUME NEW b \in 0..length, NEW i \in 1..Len(ends'[b])
        PROVE  Fits(ends'[b][i], b)
    <2>1. CASE b = 0
      BY <2>1, <1>4, <1>5
    <2>2. CASE b # 0
      BY <2>2, <1>3
    <2>3. QED
      BY <2>1, <2>2
  <1>7. size' - 1 = length
    BY <1>1
  <1>8. QED
    BY <1>1, <1>6, <1>7 DEF TotalsFit, Fits, Amount

LEMMA InsertTotals ==
    ASSUME IInv, TotalsFit, NEW node \in Nodes, InsertNode(node)
    PROVE  TotalsFit'
  <1> DEFINE c == ConnectNode(node)
             e == node.end
             a == node.begin
             v == [right |-> node.right, total |-> c.cost]
  <1>1. /\ a \in Nat /\ e \in Nat /\ a < e /\ e < size /\ size \in Nat
        /\ node.left \in ConnId /\ node.cost \in -MaxCost..MaxCost
        /\ size =< MaxLen + 1 /\ size > 0 /\ MaxLen \in Nat /\ ends[a] # <<>>
    BY NodesAssumption, CostsAssumption, BoundsAssumption
       DEF InsertNode, InsertAllowed, HasPreviousNode, IInv, TypeOK, TotalsFit
  <1>2. a \in 0..size - 1 /\ e \in 0..size - 1 /\ a < MaxLen /\ e =< MaxLen
    BY <1>1
  <1>3. a \in DOMAIN ends /\ e \in DOMAIN ends /\ TypeOK
    BY <1>1, <1>2 DEF IInv, Aligned
  <1>4. \A i \in 1..Len(ends[a]) : Fits(ends[a][i], a)
    BY <1>1, <1>2 DEF TotalsFit
  <1>5. /\ c.cost \in Int /\ -Amount(a) - 2 * MaxCost =< c.cost
        /\ c.cost =< Amount(a) + 2 * MaxCost
    <2>1. MaxCost \in Nat /\ MaxI32 \in Nat
      BY CostsAssumption, BoundsAssumption
    <2>2. /\ Amount(a) \in Nat /\ Amount(e) \in Nat
          /\ Amount(a) + 2 * MaxCost =< Amount(e) /\ Amount(e) + MaxCost < MaxI32
      BY <1>1, <1>2, AmountGrows
    <2>3. Amount(a) + MaxCost + MaxCost < MaxI32
      BY <2>1, <2>2
    <2>4. /\ c.cost \in Int /\ -Amount(a) - MaxCost - MaxCost =< c.cost
          /\ c.cost =< Amount(a) + MaxCost + MaxCost
      <3> HIDE DEF c
      <3> QED BY <1>1, <1>3, <1>4, <2>1, <2>2, <2>3, AllCandidates DEF c
    <2> HIDE DEF c
    <2>5. QED
      BY <2>1, <2>2, <2>4
  <1>6. /\ ends' = [ends EXCEPT ![e] = Append(ends[e], v)] /\ size' = size
    BY DEF InsertNode, Insert
  <1>7. Amount(a) \in Nat /\ Amount(e) \in Nat /\ Amount(a) + 2 * MaxCost =< Amount(e)
        /\ MaxCost \in Nat
    BY <1>1, <1>2, AmountGrows, CostsAssumption
  <1> HIDE DEF c
  <1>8. Fits(v, e)
    <2>1. v.total = c.cost
      OBVIOUS
    <2>2. QED
      BY <1>5, <1>7, <2>1 DEF Fits
  <1>9. v \in VNode /\ ends[e] \in Seq(VNode)
    BY <1>3, <1>5, NodesAssumption DEF TypeOK, VNode
  <1> HIDE DEF v
  <1>10. ASSUME NEW b \in 0..size - 1, NEW i \in 1..Len(ends'[b])
         PROVE  Fits(ends'[b][i], b)
    <2>1. CASE b = e
      <3>1. ends'[b] = Append(ends[e], v)
        BY <2>1, <1>3, <1>6
      <3>2. /\ Len(ends'[b]) = Len(ends[e]) + 1 /\ ends'[b][Len(ends[e]) + 1] = v
            /\ \A k \in 1..Len(ends[e]) : ends'[b][k] = ends[e][k]
        BY <3>1, <1>9, AppendFacts
      <3>3. Len(ends[e]) \in Nat
        BY <1>9
      <3>4. i = Len(ends[e]) + 1 \/ i \in 1..Len(ends[e])
        BY <3>2, <3>3
      <3>5. \A k \in 1..Len(ends[e]) : Fits(ends[e][k], e)
        BY <1>1, <1>2 DEF TotalsFit
      <3>6. QED
        BY <2>1, <3>2, <3>4, <3>5, <1>8
    <2>2. CASE b # e
      <3>1. ends'[b] = ends[b]
        <4>1. b \in DOMAIN ends
          BY <1>1 DEF IInv, Aligned
        <4>2. QED
          BY <4>1, <2>2, <1>6
      <3>2. QED
        BY <3>1, <1>1 DEF TotalsFit
    <2>3. QED
      BY <2>1, <2>2
  <1>11. QED
    BY <1>1, <1>6, <1>10 DEF TotalsFit, Fits, Amount

LEMMA TotalsInit == LatticeInit => TotalsFit
  BY BoundsAssumption DEF LatticeInit, TotalsFit

LEMMA TotalsStep == IInv /\ TotalsFit /\ [LatticeNext]_lattice_vars => TotalsFit'
  <1>1. SUFFICES ASSUME IInv, TotalsFit, [LatticeNext]_lattice_vars PROVE TotalsFit'
    OBVIOUS
  <1>2. CASE \E length \in 1..MaxLen : Reset(length)
    BY <1>1, <1>2, ResetTotals
  <1>3. CASE \E node \in Nodes : InsertNode(node)
    BY <1>1, <1>3, InsertTotals
  <1>4. CASE UNCHANGED <<ends, size>>
    BY <1>1, <1>4 DEF TotalsFit, Fits, Amount
  <1>5. QED
    BY <1>1, <1>2, <1>3, <1>4
       DEF LatticeNext, ConnectEos, FillStart, FillStep, lattice_vars, vecs

LEMMA TotalsInvariance == LatticeSpec => [](IInv /\ TotalsFit)
  BY TotalsInit, TotalsStep, InitInv, StepInv, PTL DEF LatticeSpec

\* EOS: all the nodes that end with the sentence lead to it.
LEMMA EosCandidates ==
    ASSUME IInv, TotalsFit, size > 0
    PROVE  /\ size - 1 \in Nat /\ size - 1 \in DOMAIN ends
           /\ EosNode.begin = size - 1
           /\ EosNode.left \in ConnId /\ EosNode.cost = 0
           /\ Amount(size - 1) \in Nat /\ Amount(size - 1) + MaxCost + 0 < MaxI32
           /\ \A i \in 1..Len(ends[size - 1]) : Fits(ends[size - 1][i], size - 1)
  <1>1. size \in Nat /\ size >= 2 /\ size - 1 \in 0..size - 1 /\ size - 1 =< MaxLen
        /\ MaxLen \in Nat
    BY BoundsAssumption DEF IInv, TypeOK, SizeOK, TotalsFit
  <1>2. size - 1 \in DOMAIN ends
    BY <1>1 DEF IInv, Aligned
  <1>3. Amount(size - 1) \in Nat /\ Amount(size - 1) + MaxCost < MaxI32
        /\ MaxCost \in Nat
    <2>1. 0 \in Nat /\ size - 1 \in Nat /\ 0 < size - 1
      BY <1>1
    <2>2. QED
      BY <1>1, <2>1, AmountGrows, CostsAssumption
  <1>4. QED
    BY <1>1, <1>2, <1>3, MatrixAssumption DEF EosNode, TotalsFit

LEMMA EosConnects ==
    ASSUME IInv, TotalsFit, size > 0, ends[size - 1] # <<>>
    PROVE  ~EosDisconnected
  <1> DEFINE a == size - 1
             c == ConnectNode(EosNode)
  <1>1. TypeOK /\ 0 \in Nat /\ EosNode.cost \in -0..0
    BY EosCandidates DEF IInv
  <1>2. c.cost # MaxI32
    BY <1>1, EosCandidates, AllCandidates
  <1>3. QED
    BY <1>2 DEF EosDisconnected

----------------------------------------------------------------------------
(* Theorems.                                                               *)

\* Every reachable lattice is well-typed.
THEOREM TypeCorrect == LatticeSpec => []TypeOK
  <1>1. IInv => TypeOK
    BY DEF IInv
  <1>2. QED
    BY <1>1, Invariance, PTL

\* ends, ends_full and indices stay parallel through any number of sentences
\* of any lengths, so that one NodeIdx indexes all of them.
THEOREM AlignedCorrect == LatticeSpec => []Aligned
  <1>1. IInv => Aligned
    BY DEF IInv
  <1>2. QED
    BY <1>1, Invariance, PTL

\* Every pointer is to a node that exists and is the best predecessor, of all
\* the nodes that will ever end at its boundary: the Bellman equation of the
\* Viterbi search.
THEOREM BackPointersCorrect == LatticeSpec => []BackPointers
  <1>1. IInv => BackPointers
    BY DEF IInv
  <1>2. QED
    BY <1>1, Invariance, PTL

\* The best path covers the sentence from its beginning to its end, without a
\* gap and without an overlap.
THEOREM PathTilesCorrect == LatticeSpec => []PathTiles
  <1>1. IInv => PathTiles
    BY DEF IInv
  <1>2. QED
    BY <1>1, Invariance, PTL


----------------------------------------------------------------------------
(* The ways to a boundary.                                                 *)

\* A node of the boundary c begins at an earlier one.
LEMMA WordAt ==
    ASSUME IInv, size > 0, NEW c \in 1..size - 1, NEW i \in 1..Len(ends_full[c])
    PROVE  /\ ends_full[c][i] \in Nodes
           /\ ends_full[c][i].begin \in 0..c - 1
           /\ i \in 1..Len(ends[c]) /\ ends[c][i] \in VNode
           /\ Linked(indices[c][i], ends[c][i], ends_full[c][i],
                     ends[ends_full[c][i].begin])
  <1> DEFINE node == ends_full[c][i]
  <1>1. size \in Nat /\ c \in DOMAIN ends \ {0} /\ c \in Nat
    BY DEF IInv, TypeOK, Aligned
  <1>2. ends_full[c] \in Seq(Nodes) /\ ends[c] \in Seq(VNode)
        /\ Len(ends[c]) = Len(ends_full[c])
    BY <1>1 DEF IInv, TypeOK, Aligned
  <1>3. node \in Nodes /\ i \in 1..Len(ends[c]) /\ ends[c][i] \in VNode
    BY <1>2
  <1>4. node.begin < c /\ Linked(indices[c][i], ends[c][i], node, ends[node.begin])
    BY <1>1, <1>3 DEF IInv, BackPointers
  <1>5. node.begin \in Nat
    BY <1>3, NodesAssumption
  <1> HIDE DEF node
  <1>6. node.begin \in 0..c - 1
    BY <1>1, <1>4, <1>5
  <1>7. QED
    BY <1>3, <1>4, <1>6 DEF node

\* The ways that end with the node i of the boundary c.
Extended(f, c, i) == {Append(p, ends_full[c][i]) : p \in f[ends_full[c][i].begin]}

WaysAt(f, c) ==
    IF c = 0 THEN {<<>>} ELSE UNION {Extended(f, c, i) : i \in 1..Len(ends_full[c])}

\* f is the table of the ways to the boundaries 0..b.
IsWays(f, b) == f = [c \in 0..b |-> WaysAt(f, c)]

LEMMA WaysOf ==
    ASSUME NEW b, NEW f, IsWays(f, b), NEW c \in 0..b
    PROVE  f[c] = WaysAt(f, c)
  <1> DEFINE h == [d \in 0..b |-> WaysAt(f, d)]
  <1>1. h[c] = WaysAt(f, c)
    OBVIOUS
  <1>2. f = h
    BY DEF IsWays
  <1> HIDE DEF h
  <1>3. QED
    BY <1>1, <1>2

\* The table of PathsTo exists: a boundary only needs those before it.
LEMMA WaysExist ==
    ASSUME IInv, size > 0, NEW b \in 0..size - 1
    PROVE  \E f : IsWays(f, b)
  <1> DEFINE T == {m \in 0..size - 1 : ~ \E f : IsWays(f, m)}
  <1>1. CASE T = {}
    BY <1>1
  <1>2. CASE T # {}
    <2>1. size \in Nat
      BY DEF IInv, TypeOK
    <2>2. PICK m \in T : \A k \in T : m =< k
      <3>1. T \in SUBSET Nat
        BY <2>1
      <3> HIDE DEF T
      <3> QED BY <1>2, <3>1, MinNat
    <2>3. m \in 0..size - 1 /\ ~ \E f : IsWays(f, m)
      OBVIOUS
    <2>4. CASE m = 0
      <3>1. IsWays([c \in 0..0 |-> {<<>>}], 0)
        <4> DEFINE f == [c \in 0..0 |-> {<<>>}]
        <4>1. \A c \in 0..0 : c = 0
          OBVIOUS
        <4>2. \A c \in 0..0 : WaysAt(f, c) = {<<>>}
          BY <4>1 DEF WaysAt
        <4>3. QED
          BY <4>2 DEF IsWays
      <3>2. QED
        BY <3>1, <2>3, <2>4
    <2>5. CASE m # 0
      <3>1. m - 1 \in 0..size - 1 /\ m - 1 \notin T /\ m \in 1..size - 1
        <4>1. m - 1 \in 0..size - 1 /\ ~(m =< m - 1) /\ m \in 1..size - 1
          BY <2>1, <2>3, <2>5
        <4> HIDE DEF T
        <4>2. QED
          BY <2>2, <4>1
      <3>2. PICK f : IsWays(f, m - 1)
        BY <3>1
      <3> DEFINE h == [c \in 0..m |-> IF c = m THEN WaysAt(f, m) ELSE f[c]]
      <3>3. \A c \in 0..m - 1 : h[c] = f[c] /\ f[c] = WaysAt(f, c)
        <4>1. \A c \in 0..m - 1 : f[c] = WaysAt(f, c)
          BY <3>2, WaysOf
        <4>2. \A c \in 0..m - 1 : c \in 0..m /\ c # m
          BY <2>1, <3>1
        <4>3. QED
          BY <4>1, <4>2
      <3>4. h[m] = WaysAt(f, m)
        BY <2>1, <3>1
      <3> HIDE DEF h
      <3>5. ASSUME NEW c \in 0..m PROVE WaysAt(h, c) = WaysAt(f, c)
        <4>1. CASE c = 0
          BY <4>1 DEF WaysAt
        <4>2. CASE c # 0
          <5>1. c \in 1..size - 1
            BY <2>1, <3>1, <4>2
          <5>2. ASSUME NEW i \in 1..Len(ends_full[c])
                PROVE  Extended(h, c, i) = Extended(f, c, i)
            <6>1. ends_full[c][i].begin \in 0..c - 1
              BY <5>1, WordAt
            <6>2. ends_full[c][i].begin \in 0..m - 1
              BY <6>1, <5>1, <3>1
            <6>3. QED
              BY <6>2, <3>3 DEF Extended
          <5>3. QED
            BY <4>2, <5>2 DEF WaysAt
        <4>3. QED
          BY <4>1, <4>2
      <3>6. \A c \in 0..m : h[c] = WaysAt(h, c)
        <4>1. \A c \in 0..m : c = m \/ c \in 0..m - 1
          BY <2>1, <3>1
        <4>2. QED
          BY <4>1, <3>3, <3>4, <3>5
      <3>7. h = [c \in 0..m |-> h[c]]
        BY DEF h
      <3>8. IsWays(h, m)
        BY <3>6, <3>7 DEF IsWays
      <3>9. QED
        BY <3>8, <2>3
    <2>6. QED
      BY <2>4, <2>5
  <1>3. QED
    BY <1>1, <1>2

\* PathsTo reads such a table.
LEMMA PathsToIs ==
    ASSUME IInv, size > 0, NEW b \in 0..size - 1
    PROVE  \E f : IsWays(f, b) /\ PathsTo(b) = f[b]
  <1> DEFINE paths == CHOOSE f : IsWays(f, b)
  <1>1. IsWays(paths, b)
    BY WaysExist
  <1>2. PathsTo(b) = paths[b]
    BY DEF PathsTo, IsWays, WaysAt, Extended
  <1>3. QED
    BY <1>1, <1>2

----------------------------------------------------------------------------
(* The cost of a way.                                                      *)

RightOf(p, k) == IF k = 0 THEN 0 ELSE p[k].right

NextCost(g, p, k) == g[k - 1] + Conn[<<RightOf(p, k - 1), p[k].left>>] + p[k].cost

\* g is the table of the costs of the first words of p.
IsCost(g, p) == g = [k \in 0..Len(p) |-> IF k = 0 THEN 0 ELSE NextCost(g, p, k)]

LEMMA CostAt ==
    ASSUME NEW p, Len(p) \in Nat, NEW g, IsCost(g, p)
    PROVE  g[0] = 0 /\ \A k \in 1..Len(p) : g[k] = NextCost(g, p, k)
  <1> DEFINE h == [k \in 0..Len(p) |-> IF k = 0 THEN 0 ELSE NextCost(g, p, k)]
  <1>1. h[0] = 0 /\ \A k \in 1..Len(p) : h[k] = NextCost(g, p, k)
    OBVIOUS
  <1>2. g = h
    BY DEF IsCost
  <1> HIDE DEF h
  <1>3. QED
    BY <1>1, <1>2

\* The table is what its equations say.
LEMMA CostFrom ==
    ASSUME NEW p, Len(p) \in Nat, NEW g,
           g = [k \in 0..Len(p) |-> g[k]],
           g[0] = 0, \A k \in 1..Len(p) : g[k] = NextCost(g, p, k)
    PROVE  IsCost(g, p)
  <1> DEFINE h == [k \in 0..Len(p) |-> IF k = 0 THEN 0 ELSE NextCost(g, p, k)]
  <1>1. ASSUME NEW k \in 0..Len(p) PROVE g[k] = IF k = 0 THEN 0 ELSE NextCost(g, p, k)
    <2>1. k = 0 \/ k \in 1..Len(p)
      OBVIOUS
    <2>2. QED
      BY <2>1
  <1>2. [k \in 0..Len(p) |-> g[k]] = h
    BY <1>1
  <1>3. QED
    BY <1>2 DEF IsCost

\* The costs of a node's connection and of the node.
LEMMA CostOfWord ==
    ASSUME NEW p \in Seq(Nodes), NEW k \in 1..Len(p)
    PROVE  /\ RightOf(p, k - 1) \in ConnId /\ RightOf(p, k) = p[k].right
           /\ p[k].left \in ConnId /\ p[k].cost \in Int
           /\ Conn[<<RightOf(p, k - 1), p[k].left>>] \in Int
  <1>1. p[k] \in Nodes /\ (k - 1 = 0 \/ p[k - 1] \in Nodes)
    BY DEF RightOf
  <1>2. RightOf(p, k - 1) \in ConnId /\ p[k].left \in ConnId /\ p[k].cost \in Int
    BY <1>1, NodesAssumption, MatrixAssumption DEF RightOf
  <1>3. <<RightOf(p, k - 1), p[k].left>> \in ConnId \X ConnId
    BY <1>2
  <1>4. QED
    BY <1>2, <1>3, MatrixAssumption DEF RightOf

LEMMA CostExists ==
    ASSUME NEW p \in Seq(Nodes)
    PROVE  \E g \in [0..Len(p) -> Int] : IsCost(g, p)
  <1> DEFINE n == Len(p)
             Add(k) == Conn[<<RightOf(p, k - 1), p[k].left>>] + p[k].cost
             step == [x \in Int \X Nat |->
                          IF x[2] \in 1..n THEN x[1] + Add(x[2]) ELSE 0]
  <1>1. n \in Nat
    OBVIOUS
  <1>2. \A k \in 1..n : Add(k) \in Int
    BY CostOfWord
  <1> HIDE DEF Add, n
  <1>3. step \in [Int \X Nat -> Int]
    BY <1>2
  <1>4. \A x \in Int : \A k \in 1..n : step[<<x, k>>] = x + Add(k)
    <2>1. \A x \in Int : \A k \in 1..n : <<x, k>> \in Int \X Nat
      OBVIOUS
    <2>2. QED
      BY <2>1
  <1> HIDE DEF step
  <1>5. PICK g : IsRecursion(g, Int, 0, step, n)
    <2>1. 0 \in Int
      OBVIOUS
    <2>2. QED
      BY <1>1, <1>3, <2>1, Recursion
  <1>6. g \in [0..n -> Int] /\ g[0] = 0 /\ \A k \in 1..n : g[k] = step[<<g[k - 1], k>>]
    BY <1>5 DEF IsRecursion
  <1>7. \A k \in 1..n : g[k - 1] \in Int
    <2>1. \A k \in 1..n : k - 1 \in 0..n
      BY <1>1
    <2>2. QED
      BY <2>1, <1>6
  <1>8. \A k \in 1..n : g[k] = g[k - 1] + Add(k)
    BY <1>4, <1>6, <1>7
  <1>9. \A k \in 1..n : g[k] = NextCost(g, p, k)
    <2>1. ASSUME NEW k \in 1..n PROVE g[k] = NextCost(g, p, k)
      <3>1. Conn[<<RightOf(p, k - 1), p[k].left>>] \in Int /\ p[k].cost \in Int
        BY CostOfWord DEF n
      <3>2. g[k] = g[k - 1] + Add(k) /\ g[k - 1] \in Int
        BY <1>7, <1>8
      <3>3. QED
        BY <3>1, <3>2 DEF NextCost, Add
    <2>2. QED
      BY <2>1
  <1>10. IsCost(g, p)
    BY <1>1, <1>6, <1>9, CostFrom DEF n
  <1>11. QED
    BY <1>6, <1>10 DEF n

\* There is one table.
LEMMA CostUnique ==
    ASSUME NEW p, Len(p) \in Nat, NEW g, IsCost(g, p), NEW h, IsCost(h, p),
           NEW m \in 0..Len(p)
    PROVE  g[m] = h[m]
  <1> DEFINE T == {k \in 0..Len(p) : g[k] # h[k]}
  <1>1. CASE T = {}
    BY <1>1
  <1>2. CASE T # {}
    <2>1. PICK k \in T : \A j \in T : k =< j
      <3>1. T \in SUBSET Nat
        OBVIOUS
      <3> HIDE DEF T
      <3> QED BY <1>2, <3>1, MinNat
    <2>2. k \in 0..Len(p) /\ g[k] # h[k]
      OBVIOUS
    <2>3. k \in 1..Len(p)
      BY <2>2, CostAt
    <2>4. g[k - 1] = h[k - 1]
      <3>1. k - 1 \in 0..Len(p) /\ ~(k =< k - 1)
        BY <2>3
      <3>2. k - 1 \notin T
        <4> HIDE DEF T
        <4> QED BY <3>1, <2>1
      <3>3. QED
        BY <3>1, <3>2
    <2>5. g[k] = NextCost(g, p, k) /\ h[k] = NextCost(h, p, k)
      BY <2>3, CostAt
    <2>6. QED
      BY <2>2, <2>4, <2>5 DEF NextCost
  <1>3. QED
    BY <1>1, <1>2

\* CostOf reads it.
LEMMA CostOfIs ==
    ASSUME NEW p \in Seq(Nodes), NEW g, IsCost(g, p)
    PROVE  CostOf(p) = g[Len(p)] + Conn[<<RightOf(p, Len(p)), 0>>]
  <1> DEFINE cost == CHOOSE f : IsCost(f, p)
  <1>1. IsCost(cost, p)
    OBVIOUS
  <1>2. CostOf(p) = cost[Len(p)] + Conn[<<RightOf(p, Len(p)), 0>>]
    BY DEF CostOf, IsCost, NextCost, RightOf
  <1>3. cost[Len(p)] = g[Len(p)]
    <2>1. Len(p) \in Nat /\ Len(p) \in 0..Len(p)
      OBVIOUS
    <2> HIDE DEF cost
    <2>2. QED
      BY <1>1, <2>1, CostUnique
  <1>4. QED
    BY <1>2, <1>3

----------------------------------------------------------------------------
(* No way is cheaper than the search.                                      *)

\* The boundary b has a node that ends like the way p and costs no more.
Reached(p, b) ==
    /\ p \in Seq(Nodes)
    /\ \E g \in [0..Len(p) -> Int] : \E i \in 1..Len(ends[b]) :
           /\ IsCost(g, p)
           /\ ends[b][i].right = RightOf(p, Len(p))
           /\ ends[b][i].total =< g[Len(p)]

LEMMA ReachedEmpty ==
    ASSUME IInv, size > 0
    PROVE  Reached(<<>>, 0)
  <1>1. ends[0] = <<BOS>>
    BY DEF IInv, Aligned
  <1>2. Len(ends[0]) = 1 /\ ends[0][1].right = 0 /\ ends[0][1].total = 0
    BY <1>1 DEF BOS
  <1>3. PICK g \in [0..Len(<<>>) -> Int] : IsCost(g, <<>>)
    <2>1. <<>> \in Seq(Nodes)
      OBVIOUS
    <2>2. QED
      BY <2>1, CostExists
  <1>4. Len(<<>>) = 0 /\ g[0] = 0
    <2>1. Len(<<>>) = 0
      OBVIOUS
    <2>2. QED
      BY <2>1, <1>3, CostAt
  <1>5. RightOf(<<>>, Len(<<>>)) = 0
    BY <1>4 DEF RightOf
  <1>6. /\ 1 \in 1..Len(ends[0]) /\ ends[0][1].right = RightOf(<<>>, Len(<<>>))
        /\ ends[0][1].total =< g[Len(<<>>)]
    BY <1>2, <1>4, <1>5
  <1>7. <<>> \in Seq(Nodes)
    OBVIOUS
  <1>8. QED
    BY <1>3, <1>6, <1>7 DEF Reached

\* The costs of a way and a word: those of the way, and one more.
LEMMA CostAppend ==
    ASSUME NEW q \in Seq(Nodes), NEW node \in Nodes, NEW g, IsCost(g, q)
    PROVE  LET p == Append(q, node)
           IN  /\ p \in Seq(Nodes) /\ Len(p) = Len(q) + 1
               /\ RightOf(p, Len(p)) = node.right
               /\ \A h : IsCost(h, p) =>
                      h[Len(p)] = g[Len(q)] + Conn[<<RightOf(q, Len(q)), node.left>>]
                                      + node.cost
  <1> DEFINE p == Append(q, node)
             n == Len(q)
  <1>1. /\ p \in Seq(Nodes) /\ Len(p) = n + 1 /\ n \in Nat /\ p[n + 1] = node
        /\ \A k \in 1..n : p[k] = q[k]
    BY AppendFacts
  <1> HIDE DEF p
  <1>2. \A k \in 0..n : RightOf(p, k) = RightOf(q, k)
    <2>1. \A k \in 0..n : k = 0 \/ k \in 1..n
      BY <1>1
    <2>2. QED
      BY <2>1, <1>1 DEF RightOf
  <1>3. ASSUME NEW h, IsCost(h, p)
        PROVE  h[n + 1] = g[n] + Conn[<<RightOf(q, n), node.left>>] + node.cost
    <2>1. h[0] = 0 /\ \A k \in 1..n + 1 : h[k] = NextCost(h, p, k)
      <3>1. Len(p) \in Nat
        BY <1>1
      <3>2. QED
        BY <3>1, <1>1, <1>3, CostAt
    <2> DEFINE f == [k \in 0..n |-> h[k]]
    <2>2. \A k \in 0..n : f[k] = h[k]
      OBVIOUS
    <2>3. f = [k \in 0..n |-> f[k]]
      OBVIOUS
    <2> HIDE DEF f
    <2>4. f[0] = 0
      BY <1>1, <2>1, <2>2
    <2>5. ASSUME NEW k \in 1..n PROVE f[k] = NextCost(f, q, k)
      <3>1. k - 1 \in 0..n /\ k \in 0..n /\ k \in 1..n + 1
        BY <1>1
      <3>2. f[k] = h[k] /\ f[k - 1] = h[k - 1] /\ p[k] = q[k]
            /\ RightOf(p, k - 1) = RightOf(q, k - 1)
        BY <3>1, <1>1, <1>2, <2>2
      <3>3. h[k] = NextCost(h, p, k)
        BY <3>1, <2>1
      <3>4. QED
        BY <3>2, <3>3 DEF NextCost
    <2>6. IsCost(f, q)
      BY <1>1, <2>3, <2>4, <2>5, CostFrom
    <2>7. f[n] = g[n] /\ f[n] = h[n]
      <3>1. n \in 0..n
        BY <1>1
      <3>2. QED
        BY <3>1, <1>1, <2>2, <2>6, CostUnique
    <2>8. h[n + 1] = NextCost(h, p, n + 1)
      <3>1. n + 1 \in 1..n + 1
        BY <1>1
      <3>2. QED
        BY <3>1, <2>1
    <2>9. (n + 1) - 1 = n /\ RightOf(p, n) = RightOf(q, n)
      <3>1. n \in 0..n
        BY <1>1
      <3>2. QED
        BY <3>1, <1>1, <1>2
    <2>10. QED
      BY <1>1, <2>7, <2>8, <2>9 DEF NextCost
  <1>4. RightOf(p, Len(p)) = node.right
    BY <1>1 DEF RightOf
  <1>5. QED
    BY <1>1, <1>3, <1>4 DEF p

\* A word takes the best of its predecessors: also one that ends like the way.
LEMMA ReachedStep ==
    ASSUME IInv, TotalsFit, size > 0,
           NEW c \in 1..size - 1, NEW i \in 1..Len(ends_full[c]),
           NEW q, Reached(q, ends_full[c][i].begin)
    PROVE  Reached(Append(q, ends_full[c][i]), c)
  <1> DEFINE node == ends_full[c][i]
             a == node.begin
             p == Append(q, node)
  <1>1. /\ node \in Nodes /\ a \in 0..c - 1 /\ i \in 1..Len(ends[c])
        /\ ends[c][i] \in VNode
        /\ Linked(indices[c][i], ends[c][i], node, ends[a])
    BY WordAt
  <1>2. /\ size \in Nat /\ size =< MaxLen + 1 /\ MaxLen \in Nat /\ TypeOK /\ c \in Nat
        /\ MaxCost \in Nat /\ MaxI32 \in Nat
    BY CostsAssumption, BoundsAssumption DEF IInv, TypeOK, TotalsFit
  <1> HIDE DEF node
  <1>3. /\ a \in Nat /\ a < c /\ c =< MaxLen /\ a \in 0..size - 1 /\ c \in 0..size - 1
        /\ a \in DOMAIN ends
    BY <1>1, <1>2 DEF IInv, Aligned
  <1>4. /\ Amount(a) \in Nat /\ Amount(c) \in Nat
        /\ Amount(a) + 2 * MaxCost =< Amount(c) /\ Amount(c) + MaxCost < MaxI32
    BY <1>2, <1>3, AmountGrows
  <1>5. \A j \in 1..Len(ends[a]) : Fits(ends[a][j], a)
    BY <1>1, <1>3 DEF TotalsFit
  <1>6. Fits(ends[c][i], c)
    BY <1>1, <1>3 DEF TotalsFit
  <1>7. node.left \in ConnId /\ node.right \in ConnId
        /\ node.cost \in -MaxCost..MaxCost /\ node.cost \in Int
    BY <1>1, NodesAssumption, CostsAssumption
  <1>8. Amount(a) + MaxCost + MaxCost < MaxI32
    BY <1>2, <1>4
  <1>9. Candidates(ends[a], node) = 1..Len(ends[a])
    BY <1>2, <1>3, <1>4, <1>5, <1>7, <1>8, AllCandidates
  <1>10. IsConnected(ends[c][i])
    BY <1>1, <1>2, <1>4, <1>6 DEF Fits, VNode, IsConnected
  <1>11. /\ ends[c][i].right = node.right
         /\ \A j \in 1..Len(ends[a]) : ends[c][i].total =< NewCost(ends[a][j], node)
    BY <1>1, <1>9, <1>10 DEF Linked, BestPredecessor
  <1>12. PICK g \in [0..Len(q) -> Int], j \in 1..Len(ends[a]) :
             /\ IsCost(g, q)
             /\ ends[a][j].right = RightOf(q, Len(q))
             /\ ends[a][j].total =< g[Len(q)]
    BY DEF Reached, node
  <1>13. q \in Seq(Nodes) /\ Len(q) \in Nat /\ g[Len(q)] \in Int
    <2>1. q \in Seq(Nodes)
      BY DEF Reached, node
    <2>2. Len(q) \in 0..Len(q)
      BY <2>1
    <2>3. QED
      BY <2>1, <2>2, <1>12
  <1>14. ends[a][j] \in VNode
    BY <1>3, <1>12 DEF IInv, TypeOK
  <1> DEFINE k == Conn[<<RightOf(q, Len(q)), node.left>>]
  <1>15. k \in Int
    <2>1. <<ends[a][j].right, node.left>> \in ConnId \X ConnId
      BY <1>7, <1>14 DEF VNode
    <2>2. QED
      BY <2>1, <1>12, MatrixAssumption
  <1>16. NewCost(ends[a][j], node) = ends[a][j].total + k + node.cost
    <2> DEFINE u == ends[a][j]
    <2>1. Fits(u, a) /\ u \in VNode
      BY <1>5, <1>12, <1>14
    <2>2. u.right = RightOf(q, Len(q))
      BY <1>12
    <2>3. NewCost(u, node) = u.total + Conn[<<u.right, node.left>>] + node.cost
      <3> DEFINE m == node
      <3>1. /\ a \in Nat /\ MaxCost \in Nat /\ Amount(a) \in Nat
            /\ Amount(a) + MaxCost + MaxCost < MaxI32
            /\ m.left \in ConnId /\ m.cost \in -MaxCost..MaxCost
        BY <1>2, <1>3, <1>4, <1>7, <1>8
      <3> HIDE DEF u, a, m
      <3>2. NewCost(u, m) = u.total + Conn[<<u.right, m.left>>] + m.cost
        BY <2>1, <3>1, NewCostFits
      <3>3. QED
        BY <3>2 DEF m
    <2> HIDE DEF u
    <2>4. NewCost(u, node) = u.total + k + node.cost
      BY <2>2, <2>3
    <2>5. QED
      BY <2>4 DEF u
  <1> HIDE DEF k
  <1>17. ends[c][i].total =< g[Len(q)] + k + node.cost
    <2>1. ends[c][i].total =< NewCost(ends[a][j], node)
      BY <1>11, <1>12
    <2>2. ends[c][i].total \in Int /\ ends[a][j].total \in Int
      BY <1>1, <1>14 DEF VNode
    <2> DEFINE x == ends[c][i].total
               y == ends[a][j].total
               z == g[Len(q)]
               w == node.cost
    <2>3. /\ x \in Int /\ y \in Int /\ z \in Int /\ w \in Int /\ k \in Int
          /\ y =< z /\ x =< y + k + w
      BY <2>1, <2>2, <1>7, <1>12, <1>13, <1>15, <1>16
    <2> HIDE DEF x, y, z, w
    <2>4. x =< z + k + w
      BY <2>3
    <2>5. QED
      BY <2>4 DEF x, z, w
  <1>18. /\ p \in Seq(Nodes) /\ RightOf(p, Len(p)) = node.right
         /\ \A h : IsCost(h, p) => h[Len(p)] = g[Len(q)] + k + node.cost
    BY <1>1, <1>12, <1>13, CostAppend DEF k
  <1> HIDE DEF p
  <1>19. PICK h \in [0..Len(p) -> Int] : IsCost(h, p)
    BY <1>18, CostExists
  <1>20. /\ ends[c][i].right = RightOf(p, Len(p))
         /\ ends[c][i].total =< h[Len(p)]
    BY <1>11, <1>17, <1>18, <1>19
  <1>21. Reached(p, c)
    BY <1>1, <1>18, <1>19, <1>20 DEF Reached
  <1>22. QED
    BY <1>21 DEF p, node

\* So does every word of every way, one after the other.
LEMMA WaysReached ==
    ASSUME IInv, TotalsFit, size > 0, NEW n \in 0..size - 1, NEW f, IsWays(f, n),
           NEW b \in 0..n, NEW p \in f[b]
    PROVE  Reached(p, b)
  <1> DEFINE T == {c \in 0..n : \E q \in f[c] : ~Reached(q, c)}
  <1>1. CASE T = {}
    BY <1>1
  <1>2. CASE T # {}
    <2>1. size \in Nat /\ n \in Nat
      BY DEF IInv, TypeOK
    <2>2. PICK c \in T : \A d \in T : c =< d
      <3>1. T \in SUBSET Nat
        BY <2>1
      <3> HIDE DEF T
      <3> QED BY <1>2, <3>1, MinNat
    <2>3. c \in 0..n
      OBVIOUS
    <2>4. PICK q \in f[c] : ~Reached(q, c)
      OBVIOUS
    <2>5. \A d \in 0..n : d < c => \A w \in f[d] : Reached(w, d)
      <3>1. \A d \in 0..n : d < c => ~(c =< d)
        BY <2>1, <2>3
      <3>2. \A d \in 0..n : d < c => d \notin T
        <4> HIDE DEF T
        <4> QED BY <2>2, <3>1
      <3>3. QED
        BY <3>2
    <2> HIDE DEF T
    <2>6. q \in WaysAt(f, c)
      <3>1. f[c] = WaysAt(f, c)
        BY <2>3, WaysOf
      <3>2. QED
        BY <3>1, <2>4
    <2>7. CASE c = 0
      <3>1. q = <<>>
        BY <2>6, <2>7 DEF WaysAt
      <3>2. QED
        BY <3>1, <2>4, <2>7, ReachedEmpty
    <2>8. CASE c # 0
      <3>1. c \in 1..size - 1
        BY <2>1, <2>3, <2>8
      <3>2. PICK i \in 1..Len(ends_full[c]) : q \in Extended(f, c, i)
        BY <2>6, <2>8 DEF WaysAt
      <3>3. PICK w \in f[ends_full[c][i].begin] : q = Append(w, ends_full[c][i])
        BY <3>2 DEF Extended
      <3>4. ends_full[c][i].begin \in 0..n /\ ends_full[c][i].begin < c
        <4>1. ends_full[c][i].begin \in 0..c - 1
          BY <3>1, WordAt
        <4>2. QED
          BY <4>1, <2>1, <2>3
      <3>5. Reached(w, ends_full[c][i].begin)
        BY <3>3, <3>4, <2>5
      <3>6. Reached(q, c)
        BY <3>1, <3>3, <3>5, ReachedStep
      <3>7. QED
        BY <3>6, <2>4
    <2>9. QED
      BY <2>7, <2>8
  <1>3. QED
    BY <1>1, <1>2

----------------------------------------------------------------------------
(* What EOS and the path keep from the moment they are found.              *)

\* EOS has the best of its predecessors, like any node.
EosBest ==
    \A e \in eos : /\ eos = {e}
                   /\ BestPredecessor(e.idx, e.cost, EosNode, ends[size - 1])

\* The path follows the pointers.
PathLinked ==
    path # <<>> =>
        /\ \A e \in eos : path[1] = e.idx
        /\ \A k \in 1..Len(path) - 1 : path[k + 1] = PrevOf(path[k])

SearchInv == IInv /\ TotalsFit /\ EosBest /\ PathLinked

LEMMA ConnectEosBest ==
    ASSUME IInv, ConnectEos
    PROVE  EosBest'
  <1> DEFINE c == ConnectNode(EosNode)
  <1>1. size \in Nat /\ size >= 2 /\ size - 1 \in Nat /\ size - 1 \in 0..size - 1
    BY DEF IInv, TypeOK, SizeOK, ConnectEos
  <1>2. /\ EosNode.left \in ConnId /\ EosNode.cost \in Int /\ EosNode.begin \in Nat
        /\ EosNode.begin = size - 1
    BY <1>1, MatrixAssumption DEF EosNode
  <1>3. ends[EosNode.begin] \in Seq(VNode)
    BY <1>1, <1>2 DEF IInv, TypeOK, Aligned
  <1>4. c.cost # MaxI32 => BestPredecessor(c.idx, c.cost, EosNode, ends[size - 1])
    BY <1>2, <1>3, ConnectNodeBest
  <1>5. eos' = {c} /\ c.cost # MaxI32 /\ size' = size /\ ends' = ends
    BY DEF ConnectEos, vecs
  <1>6. EosNode' = EosNode
    BY <1>5 DEF EosNode
  <1> HIDE DEF c
  <1>7. QED
    BY <1>4, <1>5, <1>6 DEF EosBest, BestPredecessor, Candidates, NewCost, IsConnected

LEMMA FillStepLinked ==
    ASSUME IInv, PathLinked, FillStep
    PROVE  PathLinked'
  <1> DEFINE n == Len(path)
             p == PrevOf(path[n])
  <1>1. /\ path # <<>> /\ path \in Seq(NodeIdx) /\ n \in Nat /\ n >= 1
        /\ path' = Append(path, p) /\ eos' = eos /\ indices' = indices
    BY DEF FillStep, IInv, TypeOK, vecs
  <1>2. IInv' /\ path' # <<>>
    <2>1. IInv'
      BY FillStepInv
    <2>2. Len(path') = n + 1
      <3> HIDE DEF p
      <3> QED BY <1>1
    <2>3. path' # <<>>
      BY <2>2, <1>1
    <2>4. QED
      BY <2>1, <2>3
  <1>3. Len(path') = n + 1 /\ path'[n + 1] = p /\ \A k \in 1..n : path'[k] = path[k]
    <2> HIDE DEF p
    <2> QED BY <1>1
  <1> HIDE DEF p
  <1>4. \A e \in eos : path'[1] = e.idx
    BY <1>1, <1>3 DEF PathLinked
  <1>5. ASSUME NEW k \in 1..n PROVE path'[k + 1] = PrevOf(path'[k])
    <2>1. CASE k = n
      BY <2>1, <1>1, <1>3 DEF p
    <2>2. CASE k # n
      <3>1. k \in 1..n - 1 /\ k + 1 \in 1..n
        BY <2>2, <1>1
      <3>2. path[k + 1] = PrevOf(path[k])
        BY <3>1, <1>1 DEF PathLinked
      <3>3. QED
        BY <3>1, <3>2, <1>3
    <2>3. QED
      BY <2>1, <2>2
  <1>6. (n + 1) - 1 = n
    BY <1>1
  <1>7. QED
    BY <1>1, <1>3, <1>4, <1>5, <1>6 DEF PathLinked, PrevOf

LEMMA SearchStep == SearchInv /\ [LatticeNext]_lattice_vars => SearchInv'
  <1>1. SUFFICES ASSUME SearchInv, [LatticeNext]_lattice_vars PROVE SearchInv'
    OBVIOUS
  <1>2. IInv /\ TotalsFit /\ EosBest /\ PathLinked /\ IInv' /\ TotalsFit'
    BY <1>1, StepInv, TotalsStep DEF SearchInv
  <1>3. CASE \E length \in 1..MaxLen : Reset(length)
    BY <1>2, <1>3 DEF SearchInv, EosBest, PathLinked, Reset
  <1>4. CASE \E node \in Nodes : InsertNode(node)
    <2>1. eos = {} /\ eos' = {} /\ path' = path
      BY <1>4 DEF InsertNode, InsertAllowed, Insert
    <2>2. path = <<>>
      BY <1>2, <2>1 DEF IInv, PathOK
    <2>3. QED
      BY <1>2, <2>1, <2>2 DEF SearchInv, EosBest, PathLinked
  <1>5. CASE ConnectEos
    <2>1. path' = <<>>
      BY <1>2, <1>5 DEF ConnectEos, IInv, PathOK
    <2>2. EosBest'
      BY <1>2, <1>5, ConnectEosBest
    <2>3. QED
      BY <1>2, <2>1, <2>2 DEF SearchInv, PathLinked
  <1>6. CASE FillStart
    <2>1. PICK e \in eos : path' = <<e.idx>>
      BY <1>6 DEF FillStart
    <2>2. eos = {e} /\ eos' = eos /\ ends' = ends /\ size' = size
      BY <1>2, <1>6 DEF EosBest, FillStart, vecs
    <2>3. Len(path') = 1 /\ path'[1] = e.idx
      BY <2>1
    <2>4. PathLinked'
      <3>1. \A k \in 1..Len(path') - 1 : FALSE
        BY <2>3
      <3>2. \A x \in eos' : path'[1] = x.idx
        BY <2>2, <2>3
      <3>3. QED
        BY <3>1, <3>2 DEF PathLinked
    <2>5. EosBest'
      BY <1>2, <2>2
         DEF EosBest, EosNode, BestPredecessor, Candidates, NewCost, IsConnected
    <2>6. QED
      BY <1>2, <2>4, <2>5 DEF SearchInv
  <1>7. CASE FillStep
    <2>1. EosBest'
      <3>1. eos' = eos /\ ends' = ends /\ size' = size
        BY <1>7 DEF FillStep, vecs
      <3>2. QED
        BY <1>2, <3>1
           DEF EosBest, EosNode, BestPredecessor, Candidates, NewCost, IsConnected
    <2>2. QED
      BY <1>2, <1>7, <2>1, FillStepLinked DEF SearchInv
  <1>8. CASE UNCHANGED lattice_vars
    BY <1>2, <1>8
       DEF lattice_vars, vecs, SearchInv, EosBest, EosNode, BestPredecessor, Candidates,
           NewCost, IsConnected, PathLinked, PrevOf
  <1>9. QED
    BY <1>1, <1>3, <1>4, <1>5, <1>6, <1>7, <1>8 DEF LatticeNext

LEMMA SearchInit == LatticeInit => SearchInv
  BY InitInv, TotalsInit DEF SearchInv, LatticeInit, EosBest, PathLinked

LEMMA SearchInvariance == LatticeSpec => []SearchInv
  BY SearchInit, SearchStep, PTL DEF LatticeSpec

----------------------------------------------------------------------------
(* The answers.                                                            *)

\* EOS with a found predecessor is at the end of a sentence.
LEMMA EosFound ==
    ASSUME SearchInv, NEW e \in eos
    PROVE  /\ size > 0 /\ size \in Nat /\ size - 1 \in 1..size - 1 /\ e.cost \in Int
           /\ e.idx.end = size - 1
           /\ e.idx.index + 1 \in 1..Len(ends[size - 1])
           /\ e.cost = NewCost(ends[size - 1][e.idx.index + 1], EosNode)
           /\ \A i \in 1..Len(ends[size - 1]) :
                  /\ ends[size - 1][i] \in VNode
                  /\ NewCost(ends[size - 1][i], EosNode)
                         = ends[size - 1][i].total
                               + Conn[<<ends[size - 1][i].right, 0>>]
                  /\ e.cost =< NewCost(ends[size - 1][i], EosNode)
  <1> DEFINE a == size - 1
             prevs == ends[a]
  <1>1. size \in Nat /\ size >= 2 /\ IInv /\ TotalsFit /\ TypeOK
        /\ e.cost \in Int /\ e.idx \in NodeIdx
    BY DEF SearchInv, IInv, EosOK, TypeOK
  <1>2. size > 0 /\ a \in 1..size - 1 /\ a \in Nat
    BY <1>1
  <1>3. /\ a \in DOMAIN ends /\ EosNode.begin = a /\ EosNode.left \in ConnId
        /\ EosNode.cost = 0 /\ EosNode.left = 0
        /\ Amount(a) \in Nat /\ Amount(a) + MaxCost + 0 < MaxI32
        /\ \A i \in 1..Len(prevs) : Fits(prevs[i], a)
    BY <1>1, <1>2, EosCandidates DEF EosNode
  <1>4. 0 \in Nat /\ EosNode.cost \in -0..0
    BY <1>3
  <1>5. Candidates(prevs, EosNode) = 1..Len(prevs)
    <2> HIDE DEF a
    <2> QED BY <1>1, <1>2, <1>3, <1>4, AllCandidates
  <1>6. prevs \in Seq(VNode) /\ \A i \in 1..Len(prevs) : prevs[i] \in VNode
    BY <1>1, <1>3 DEF TypeOK
  <1>7. \A i \in 1..Len(prevs) :
            NewCost(prevs[i], EosNode) = prevs[i].total + Conn[<<prevs[i].right, 0>>]
    <2>1. SUFFICES ASSUME NEW i \in 1..Len(prevs)
                   PROVE  NewCost(prevs[i], EosNode)
                              = prevs[i].total + Conn[<<prevs[i].right, 0>>]
      OBVIOUS
    <2> DEFINE u == prevs[i]
    <2>2. u \in VNode /\ Fits(u, a)
      BY <1>3, <1>6
    <2>3. NewCost(u, EosNode)
              = u.total + Conn[<<u.right, EosNode.left>>] + EosNode.cost
      <3> HIDE DEF u, a
      <3> QED BY <1>2, <1>3, <1>4, <2>2, NewCostFits
    <2>4. u.total \in Int /\ Conn[<<u.right, 0>>] \in Int
      <3>1. u.right \in ConnId /\ 0 \in ConnId /\ u.total \in Int
        BY <2>2, MatrixAssumption DEF VNode
      <3>2. <<u.right, 0>> \in ConnId \X ConnId
        BY <3>1
      <3>3. QED
        BY <3>1, <3>2, MatrixAssumption
    <2> HIDE DEF u
    <2>5. NewCost(u, EosNode) = u.total + Conn[<<u.right, 0>>]
      BY <1>3, <2>3, <2>4
    <2>6. QED
      BY <2>5 DEF u
  <1>8. PointsBack(e.idx, EosNode, prevs) /\ BestPredecessor(e.idx, e.cost, EosNode, prevs)
    BY DEF SearchInv, IInv, EosOK, EosBest
  <1>9. e.idx.end = a /\ e.idx.index \in 0..Len(prevs) - 1
    BY <1>3, <1>8 DEF PointsBack
  <1>10. e.idx.index + 1 \in 1..Len(prevs)
    BY <1>6, <1>9
  <1>11. /\ e.cost = NewCost(prevs[e.idx.index + 1], EosNode)
         /\ \A i \in 1..Len(prevs) : e.cost =< NewCost(prevs[i], EosNode)
    BY <1>5, <1>8 DEF BestPredecessor
  <1>12. QED
    BY <1>1, <1>2, <1>6, <1>7, <1>9, <1>10, <1>11

\* No way to the end of the sentence is cheaper than EOS.
LEMMA EosCheapest ==
    ASSUME SearchInv, NEW e \in eos, NEW p \in PathsTo(size - 1)
    PROVE  e.cost =< CostOf(p)
  <1> DEFINE n == size - 1
  <1>1. /\ size > 0 /\ size \in Nat /\ n \in 0..n /\ e.cost \in Int /\ IInv /\ TotalsFit
        /\ \A i \in 1..Len(ends[n]) :
               /\ ends[n][i] \in VNode
               /\ NewCost(ends[n][i], EosNode)
                      = ends[n][i].total + Conn[<<ends[n][i].right, 0>>]
               /\ e.cost =< NewCost(ends[n][i], EosNode)
    BY EosFound DEF SearchInv
  <1>2. Reached(p, n)
    <2>1. PICK f : IsWays(f, n) /\ PathsTo(n) = f[n]
      BY <1>1, PathsToIs
    <2>2. QED
      BY <1>1, <2>1, WaysReached
  <1> HIDE DEF n
  <1>3. PICK g \in [0..Len(p) -> Int], i \in 1..Len(ends[n]) :
            /\ IsCost(g, p) /\ ends[n][i].right = RightOf(p, Len(p))
            /\ ends[n][i].total =< g[Len(p)]
    BY <1>2 DEF Reached
  <1>4. p \in Seq(Nodes) /\ g[Len(p)] \in Int
    <2>1. p \in Seq(Nodes)
      BY <1>2 DEF Reached
    <2>2. Len(p) \in 0..Len(p)
      BY <2>1
    <2>3. QED
      BY <2>1, <2>2, <1>3
  <1> DEFINE k == Conn[<<RightOf(p, Len(p)), 0>>]
             t == ends[n][i].total
             z == g[Len(p)]
  <1>5. CostOf(p) = z + k
    BY <1>3, <1>4, CostOfIs
  <1>6. e.cost =< t + k /\ t =< z /\ t \in Int /\ z \in Int
    BY <1>1, <1>3, <1>4 DEF VNode
  <1>7. k \in Int
    <2>1. <<RightOf(p, Len(p)), 0>> \in ConnId \X ConnId
      BY <1>1, <1>3, MatrixAssumption DEF VNode
    <2>2. QED
      BY <2>1, MatrixAssumption
  <1> HIDE DEF k, t, z
  <1>8. QED
    BY <1>1, <1>5, <1>6, <1>7

\* The nodes of the finished path, from the beginning to the end.
Result == [k \in 1..Len(path) |-> NodeAt(path[Len(path) + 1 - k])]

\* What is known of a place on the path.
LEMMA OnPath ==
    ASSUME SearchInv, path # <<>>, NEW j \in 1..Len(path)
    PROVE  LET q == path[j]
               p == PrevOf(q)
           IN  /\ NodeAt(q) \in Nodes /\ TotalAt(q) \in Int
               /\ ends[q.end][q.index + 1].right = NodeAt(q).right
               /\ p.end = NodeAt(q).begin
               /\ p.end # 0 => j < Len(path) \/ ~FillDone
               /\ TotalAt(q) = TotalAt(p)
                      + Conn[<<ends[p.end][p.index + 1].right, NodeAt(q).left>>]
                      + NodeAt(q).cost
               /\ p.end = 0 => p.index = 0
  <1> DEFINE q == path[j]
             c == q.end
             i == q.index + 1
             p == indices[c][i]
             node == ends_full[c][i]
             a == node.begin
             u == ends[p.end][p.index + 1]
  <1>1. /\ IInv /\ TotalsFit /\ size >= 2 /\ size \in Nat /\ size > 0
        /\ c \in 1..size - 1 /\ q.index \in 0..Len(ends[c]) - 1
        /\ IsConnected(ends[c][i])
    BY DEF SearchInv, IInv, PathOK, TypeOK
  <1> HIDE DEF q
  <1>2. Len(ends[c]) \in Nat /\ Len(ends[c]) = Len(ends_full[c])
    BY <1>1, BoundaryOK
  <1>3. i \in 1..Len(ends[c]) /\ i \in 1..Len(ends_full[c])
    BY <1>1, <1>2
  <1>4. /\ node \in Nodes /\ a \in 0..c - 1 /\ ends[c][i] \in VNode
        /\ Linked(p, ends[c][i], node, ends[a])
    BY <1>1, <1>3, WordAt
  <1> HIDE DEF i, c, p, node
  <1>5. /\ ends[c][i].right = node.right
        /\ p.end = a /\ p.index \in 0..Len(ends[a]) - 1
        /\ ends[c][i].total = NewCost(ends[a][p.index + 1], node)
    BY <1>1, <1>4 DEF Linked, PointsBack, BestPredecessor
  <1>6. /\ a \in Nat /\ a < c /\ c =< MaxLen /\ a \in 0..size - 1 /\ a \in DOMAIN ends
        /\ MaxCost \in Nat /\ MaxI32 \in Nat /\ c \in Nat
    BY <1>1, <1>4, CostsAssumption, BoundsAssumption DEF TotalsFit, IInv, Aligned
  <1>7. Len(ends[a]) \in Nat /\ ends[a] \in Seq(VNode)
    BY <1>1, <1>6 DEF IInv, TypeOK
  <1>8. p.index + 1 \in 1..Len(ends[a])
    BY <1>5, <1>7
  <1>9. u \in VNode /\ Fits(u, a)
    <2>1. ends[a][p.index + 1] \in VNode
      BY <1>7, <1>8
    <2>2. Fits(ends[a][p.index + 1], a)
      BY <1>1, <1>6, <1>8 DEF TotalsFit
    <2>3. QED
      BY <2>1, <2>2, <1>5
  <1>10. ends[c][i].total = u.total + Conn[<<u.right, node.left>>] + node.cost
    <2>1. ends[c][i].total = NewCost(u, node)
      BY <1>5
    <2>2. /\ Amount(a) \in Nat /\ Amount(a) + 2 * MaxCost =< Amount(c)
          /\ Amount(c) + MaxCost < MaxI32 /\ Amount(c) \in Nat
      BY <1>6, AmountGrows
    <2>3. Amount(a) + MaxCost + MaxCost < MaxI32
      BY <1>6, <2>2
    <2>4. node.left \in ConnId /\ node.cost \in -MaxCost..MaxCost
      BY <1>4, NodesAssumption, CostsAssumption
    <2> HIDE DEF u, a
    <2>5. NewCost(u, node) = u.total + Conn[<<u.right, node.left>>] + node.cost
      BY <1>6, <1>9, <2>2, <2>3, <2>4, NewCostFits
    <2>6. QED
      BY <2>1, <2>5
  <1>11. p.end # 0 => j < Len(path) \/ ~FillDone
    <2>1. j = Len(path) => p = PrevOf(path[Len(path)])
      BY DEF PrevOf, p, q, c, i
    <2>2. path \in Seq(NodeIdx)
      BY <1>1 DEF IInv, TypeOK
    <2>3. QED
      BY <2>1, <2>2 DEF FillDone
  <1>12. p.end = 0 => p.index = 0
    <2>1. ends[0] = <<BOS>> /\ Len(<<BOS>>) = 1
      BY <1>1 DEF IInv, Aligned
    <2>2. SUFFICES ASSUME p.end = 0 PROVE p.index = 0
      OBVIOUS
    <2>3. ends[a] = <<BOS>>
      BY <2>1, <2>2, <1>5
    <2>4. Len(ends[a]) = 1
      BY <2>1, <2>3
    <2> HIDE DEF a
    <2>5. QED
      BY <2>4, <1>5
  <1>13. ends[c][i].total \in Int
    BY <1>4 DEF VNode
  <1>14. /\ NodeAt(q) = node /\ TotalAt(q) = ends[c][i].total
         /\ ends[q.end][q.index + 1] = ends[c][i]
         /\ PrevOf(q) = p /\ TotalAt(p) = u.total
    BY DEF NodeAt, TotalAt, PrevOf, node, c, i, p
  <1>15. QED
    BY <1>4, <1>5, <1>10, <1>11, <1>12, <1>13, <1>14 DEF q

\* The finished path costs what EOS says.
LEMMA ResultCost ==
    ASSUME SearchInv, NEW e \in eos, FillDone
    PROVE  CostOf(Result) = e.cost
  <1> DEFINE n == Len(path)
             R == Result
             g == [k \in 0..n |-> IF k = 0 THEN 0 ELSE TotalAt(path[n + 1 - k])]
  <1>1. /\ IInv /\ path # <<>> /\ path \in Seq(NodeIdx) /\ n \in Nat /\ n >= 1
        /\ PathLinked /\ size > 0
    BY EosFound DEF SearchInv, IInv, TypeOK, FillDone
  <1>2. \A k \in 1..n : n + 1 - k \in 1..n
    BY <1>1
  <1>3. R \in Seq(Nodes) /\ Len(R) = n
        /\ \A k \in 1..n : R[k] = NodeAt(path[n + 1 - k])
    <2>1. \A k \in 1..n : NodeAt(path[n + 1 - k]) \in Nodes
      BY <1>1, <1>2, OnPath
    <2>2. QED
      BY <1>1, <2>1 DEF Result
  <1> HIDE DEF R
  <1>4. g[0] = 0 /\ \A k \in 1..n : g[k] = TotalAt(path[n + 1 - k])
    BY <1>1
  <1>5. g = [k \in 0..n |-> g[k]]
    OBVIOUS
  <1> HIDE DEF g
  <1>6. ASSUME NEW k \in 1..n
        PROVE  g[k] = NextCost(g, R, k)
    <2> DEFINE j == n + 1 - k
               q == path[j]
               p == PrevOf(q)
               u == ends[p.end][p.index + 1]
    <2>1. j \in 1..n /\ j \in Nat
      BY <1>1
    <2>2. /\ TotalAt(q) = TotalAt(p) + Conn[<<u.right, NodeAt(q).left>>] + NodeAt(q).cost
          /\ p.end = 0 => p.index = 0
      BY <1>1, <2>1, OnPath
    <2>3. g[k] = TotalAt(q) /\ R[k] = NodeAt(q)
      BY <1>3, <1>4
    <2>4. g[k - 1] = TotalAt(p) /\ RightOf(R, k - 1) = u.right
      <3>1. CASE k = 1
        <4>1. j = n
          BY <1>1, <3>1
        <4>2. p.end = 0
          BY <4>1 DEF FillDone
        <4>3. ends[0] = <<BOS>>
          BY <1>1 DEF IInv, Aligned
        <4>4. u = BOS
          BY <2>2, <4>2, <4>3
        <4>5. TotalAt(p) = u.total
          BY DEF TotalAt
        <4> HIDE DEF p, u
        <4>6. QED
          BY <3>1, <1>4, <4>4, <4>5 DEF RightOf, BOS
      <3>2. CASE k # 1
        <4>1. k - 1 \in 1..n /\ n + 1 - (k - 1) = j + 1 /\ j \in 1..n - 1
              /\ j + 1 \in 1..n
          BY <1>1, <3>2
        <4>2. path[j + 1] = p
          BY <1>1, <4>1 DEF PathLinked
        <4>3. g[k - 1] = TotalAt(p)
          BY <1>4, <4>1, <4>2
        <4>4. R[k - 1] = NodeAt(p)
          BY <1>3, <4>1, <4>2
        <4>5. u.right = NodeAt(path[j + 1]).right
          <5> HIDE DEF j
          <5>1. ends[path[j + 1].end][path[j + 1].index + 1].right
                    = NodeAt(path[j + 1]).right
            BY <1>1, <4>1, OnPath
          <5>2. QED
            BY <5>1, <4>2
        <4> HIDE DEF p, u, j
        <4>6. RightOf(R, k - 1) = u.right
          BY <3>2, <4>2, <4>4, <4>5 DEF RightOf
        <4>7. QED
          BY <4>3, <4>6
      <3>3. QED
        BY <3>1, <3>2
    <2> HIDE DEF j, q, p, u
    <2>5. QED
      BY <2>2, <2>3, <2>4 DEF NextCost
  <1>7. IsCost(g, R)
    BY <1>1, <1>3, <1>4, <1>5, <1>6, CostFrom
  <1>8. CostOf(R) = g[n] + Conn[<<RightOf(R, n), 0>>]
    BY <1>3, <1>7, CostOfIs
  <1>9. g[n] = TotalAt(path[1]) /\ RightOf(R, n) = NodeAt(path[1]).right
    <2>1. n \in 1..n /\ n + 1 - n = 1 /\ n # 0
      BY <1>1
    <2>2. g[n] = TotalAt(path[1]) /\ R[n] = NodeAt(path[1])
      BY <1>3, <1>4, <2>1
    <2>3. QED
      BY <2>1, <2>2 DEF RightOf
  <1>10. path[1] = e.idx
    BY <1>1 DEF PathLinked
  <1> DEFINE v == ends[e.idx.end][e.idx.index + 1]
  <1>11. e.cost = v.total + Conn[<<v.right, 0>>]
    BY EosFound
  <1>12. v.total = TotalAt(path[1]) /\ v.right = NodeAt(path[1]).right
    <2>1. 1 \in 1..Len(path)
      BY <1>1
    <2>2. ends[path[1].end][path[1].index + 1].right = NodeAt(path[1]).right
      BY <1>1, <2>1, OnPath
    <2>3. QED
      BY <1>10, <2>2 DEF TotalAt
  <1> HIDE DEF v
  <1>13. QED
    BY <1>8, <1>9, <1>11, <1>12 DEF R

\* Without a way there is no node at the end of the sentence.
LEMMA NoWay ==
    ASSUME SearchInv, EosDisconnected
    PROVE  PathsTo(size - 1) = {}
  <1> DEFINE n == size - 1
  <1>1. IInv /\ TotalsFit /\ size > 0 /\ size \in Nat /\ size >= 2
    BY DEF SearchInv, EosDisconnected, IInv, TypeOK, SizeOK
  <1>2. n \in 0..n /\ n \in 1..n /\ n # 0
    BY <1>1
  <1>3. ends[n] = <<>>
    BY <1>1, EosConnects
  <1>4. Len(ends_full[n]) = 0
    <2>1. Len(ends[n]) = Len(ends_full[n])
      BY <1>1, <1>2, BoundaryOK
    <2> HIDE DEF n
    <2>2. QED
      BY <2>1, <1>3
  <1>5. PICK f : IsWays(f, n) /\ PathsTo(n) = f[n]
    BY <1>1, <1>2, PathsToIs
  <1>6. f[n] = WaysAt(f, n)
    BY <1>2, <1>5, WaysOf
  <1> HIDE DEF n
  <1>7. WaysAt(f, n) = {}
    BY <1>2, <1>4 DEF WaysAt
  <1>8. QED
    BY <1>5, <1>6, <1>7 DEF n

----------------------------------------------------------------------------
(* Theorems.                                                               *)

\* What connect_eos and fill_top_path answer is right for every sentence and
\* every dictionary: the cost of EOS is the least of all the ways through the
\* nodes that were inserted, the path that is returned has this cost, and an
\* end that is refused cannot be reached.
THEOREM SearchIsCorrect == LatticeSpec => []SearchCorrect
  <1>1. ASSUME SearchInv PROVE SearchCorrect
    <2>1. OptimalPath
      <3>1. SUFFICES ASSUME NEW e \in eos
                     PROVE  /\ \A p \in PathsTo(size - 1) : e.cost =< CostOf(p)
                            /\ FillDone => CostOf(Result) = e.cost
        BY DEF OptimalPath, Result
      <3>2. \A p \in PathsTo(size - 1) : e.cost =< CostOf(p)
        BY <1>1, EosCheapest
      <3>3. FillDone => CostOf(Result) = e.cost
        BY <1>1, ResultCost
      <3>4. QED
        BY <3>2, <3>3
    <2>2. DisconnectedOnlyIfUnreachable
      BY <1>1, NoWay DEF DisconnectedOnlyIfUnreachable
    <2>3. QED
      BY <2>1, <2>2 DEF SearchCorrect
  <1>2. SearchInv => SearchCorrect
    BY <1>1
  <1>3. QED
    BY <1>2, SearchInvariance, PTL

(***************************************************************************)
(* The builder.                                                            *)
(***************************************************************************)

----------------------------------------------------------------------------
(* Words of the dictionary.                                                *)

\* What Lookup may give at the offset off: a word of the lexicon that is
\* written there.
WordsAt(lexicon, s, off) ==
    {e \in [word : DOMAIN lexicon, end : off + 1..Len(s)] :
        SubSeq(s, off + 1, e.end) = lexicon[e.word].surface}

LEMMA LookupRange ==
    ASSUME NEW d \in Dictionaries, NEW s \in Sentences, NEW off \in Nat
    PROVE  Lookup(d.lexicon, s, off) \in Seq(WordsAt(d.lexicon, s, off))
  <1> DEFINE lexicon == d.lexicon
             n == Len(lexicon)
             X == WordsAt(lexicon, s, off)
             Surface(w) == lexicon[w].surface
             Begins(w) == /\ off + Len(Surface(w)) =< Len(s)
                          /\ SubSeq(s, off + 1, off + Len(Surface(w))) = Surface(w)
             Found(w) == [word |-> w, end |-> off + Len(Surface(w))]
             ss == [w \in 1..n |-> IF Begins(w) THEN <<Found(w)>> ELSE <<>>]
  <1>1. n \in Nat /\ DOMAIN lexicon = 1..n
    BY DictionariesAssumption DEF IsSequence
  <1>2. ASSUME NEW w \in 1..n, Begins(w) PROVE Found(w) \in X
    <2>1. Len(Surface(w)) \in Nat \ {0}
      <3>1. Surface(w) \in Seq(DOMAIN Cat) /\ Surface(w) # <<>>
        BY <1>1, DictionariesAssumption
      <3> HIDE DEF Surface
      <3> QED BY <3>1
    <2>2. Len(s) \in Nat
      BY SentencesAssumption
    <2> HIDE DEF Surface
    <2>3. off + Len(Surface(w)) \in off + 1..Len(s)
      BY <2>1, <2>2, <1>2
    <2>4. Found(w) \in [word : DOMAIN lexicon, end : off + 1..Len(s)]
      BY <1>1, <2>3
    <2>5. QED
      BY <2>4, <1>2 DEF WordsAt, Surface
  <1>3. \A w \in 1..n : ss[w] \in Seq(X)
    <2> HIDE DEF Found, X, Begins
    <2> QED BY <1>2
  <1>4. ss \in Seq(Seq(X))
    <2>1. ss \in [1..n -> Seq(X)]
      <3> HIDE DEF Found, X, Begins, n
      <3> QED BY <1>3
    <2> HIDE DEF ss, X, n
    <2> QED BY <1>1, <2>1, FunctionIsSeq
  <1>5. Lookup(lexicon, s, off) = FlattenSeq(ss)
    BY <1>1 DEF Lookup
  <1>6. QED
    <2> HIDE DEF ss
    <2> QED BY <1>4, <1>5, FlattenRange

----------------------------------------------------------------------------
(* Lengths that follow from the categories.                                *)

\* get_word_candidate_length gives a character at least, and stays in the text.
LEMMA CandidateLength ==
    ASSUME NEW cats, NEW off \in Nat, Len(cats) \in Nat, off < Len(cats)
    PROVE  WordCandidateLength(cats, off) \in 1..Len(cats) - off
  <1> DEFINE n == Len(cats)
             Ends == {i \in off + 1..n : i < n => CanBowChar(cats, i + 1)}
  <1>1. Ends \in SUBSET Nat /\ n \in Ends
    OBVIOUS
  <1>2. \E e \in Ends : \A i \in Ends : e =< i
    <2> HIDE DEF Ends
    <2> QED BY <1>1, MinNat
  <1> DEFINE e == CHOOSE e \in Ends : \A i \in Ends : e =< i
  <1>3. e \in Ends
    <2> HIDE DEF Ends
    <2> QED BY <1>2
  <1>4. e \in off + 1..n
    <2> HIDE DEF e
    <2> QED BY <1>3
  <1>5. WordCandidateLength(cats, off) = e - off
    BY DEF WordCandidateLength
  <1> HIDE DEF e
  <1>6. QED
    BY <1>4, <1>5

\* A run has a character at least, and stays in the text.
LEMMA RunLengthRange ==
    ASSUME NEW cats, Len(cats) \in Nat, NEW i \in 1..Len(cats)
    PROVE  RunLength(cats, i) \in 1..Len(cats) - i + 1
  <1> DEFINE n == Len(cats)
             Stops(k) == i + k =< n => Common(cats, i, i + k) = {}
             Goes(k) == k = 1 \/ Common(cats, i, i + k - 1) # {}
             T == {k \in 1..n - i + 1 : Stops(k)}
  <1>1. T \in SUBSET Nat /\ n - i + 1 \in T
    OBVIOUS
  <1>2. PICK k \in T : \A j \in T : k =< j
    <2> HIDE DEF T
    <2> QED BY <1>1, MinNat
  <1>3. k \in 1..n - i + 1 /\ Stops(k)
    OBVIOUS
  <1>4. Goes(k)
    <2>1. CASE k # 1
      <3>1. k - 1 \in 1..n - i + 1 /\ k - 1 \notin T
        <4>1. k - 1 \in 1..n - i + 1 /\ ~(k =< k - 1)
          BY <1>3, <2>1
        <4> HIDE DEF T
        <4>2. QED
          BY <1>2, <4>1
      <3>2. ~Stops(k - 1) /\ i + (k - 1) = i + k - 1
        BY <3>1, <1>3
      <3>3. QED
        BY <3>2
    <2>2. QED
      BY <2>1
  <1>5. RunLength(cats, i)
            = CHOOSE m \in 1..n - i + 1 : Goes(m) /\ Stops(m)
    BY DEF RunLength
  <1> HIDE DEF Goes, Stops
  <1>6. QED
    BY <1>3, <1>4, <1>5

\* The function fill_cat_continuity computes.
IsContinuity(f, cats) ==
    f = [i \in 1..Len(cats) |->
            IF i > 1 /\ f[i - 1] > 1 THEN f[i - 1] - 1 ELSE RunLength(cats, i)]

LEMMA ContinuityExists ==
    ASSUME NEW cats, Len(cats) \in Nat
    PROVE  \E f : IsContinuity(f, cats)
  <1> DEFINE n == Len(cats)
             step == [q \in Nat \X Nat |->
                         IF q[1] > 1 THEN q[1] - 1
                         ELSE IF q[2] \in 1..n THEN RunLength(cats, q[2]) ELSE 0]
  <1>1. \A i \in 1..n : RunLength(cats, i) \in Nat
    BY RunLengthRange
  <1>2. step \in [Nat \X Nat -> Nat]
    <2>1. ASSUME NEW q \in Nat \X Nat PROVE step[q] \in Nat
      BY <1>1
    <2>2. QED
      BY <2>1
  <1>3. PICK g : IsRecursion(g, Nat, 0, step, n)
    <2> HIDE DEF step
    <2> QED BY <1>2, Recursion
  <1>4. ASSUME NEW i \in 1..n
        PROVE  g[i] = IF g[i - 1] > 1 THEN g[i - 1] - 1 ELSE RunLength(cats, i)
    <2>1. i - 1 \in 0..n /\ i \in Nat
      OBVIOUS
    <2>2. <<g[i - 1], i>> \in Nat \X Nat
      BY <1>3, <2>1 DEF IsRecursion
    <2>3. g[i] = step[<<g[i - 1], i>>]
      <3> HIDE DEF step
      <3> QED BY <1>3 DEF IsRecursion
    <2> HIDE DEF n
    <2>4. QED
      BY <2>2, <2>3 DEF n
  <1> DEFINE f == [i \in 1..n |-> g[i]]
  <1>5. ASSUME NEW i \in 1..n
        PROVE  f[i] = IF i > 1 /\ f[i - 1] > 1 THEN f[i - 1] - 1
                      ELSE RunLength(cats, i)
    <2>1. CASE i = 1
      <3>1. g[i - 1] = 0
        <4> HIDE DEF step
        <4> QED BY <2>1, <1>3 DEF IsRecursion
      <3>2. QED
        BY <2>1, <3>1, <1>4
    <2>2. CASE i # 1
      <3>1. i > 1 /\ i - 1 \in 1..n
        BY <2>2
      <3>2. f[i - 1] = g[i - 1] /\ f[i] = g[i]
        BY <3>1
      <3> HIDE DEF f
      <3>3. QED
        BY <3>1, <3>2, <1>4
    <2>3. QED
      BY <2>1, <2>2
  <1>6. f = [i \in 1..n |-> f[i]]
    OBVIOUS
  <1>7. IsContinuity(f, cats)
    <2> HIDE DEF f
    <2> QED BY <1>5, <1>6 DEF IsContinuity
  <1>8. QED
    BY <1>7

\* cat_continuous_len never reaches over the end of the text.
LEMMA ContinuityRange ==
    ASSUME NEW cats, Len(cats) \in Nat, NEW i \in 1..Len(cats)
    PROVE  ContinuityOf(cats)[i] \in 1..Len(cats) - i + 1
  <1> DEFINE n == Len(cats)
             f == CHOOSE f : IsContinuity(f, cats)
             T == {k \in 1..n : f[k] \notin 1..n - k + 1}
  <1>1. IsContinuity(f, cats)
    BY ContinuityExists
  <1>2. ContinuityOf(cats) = [k \in 1..n |-> f[k]]
    BY DEF ContinuityOf, IsContinuity
  <1> HIDE DEF f
  <1>3. CASE T = {}
    BY <1>2, <1>3
  <1>4. CASE T # {}
    <2>1. PICK k \in T : \A j \in T : k =< j
      <3>1. T \in SUBSET Nat
        OBVIOUS
      <3> HIDE DEF T
      <3> QED BY <1>4, <3>1, MinNat
    <2>2. k \in 1..n /\ f[k] \notin 1..n - k + 1
      OBVIOUS
    <2>3. f[k] = IF k > 1 /\ f[k - 1] > 1 THEN f[k - 1] - 1 ELSE RunLength(cats, k)
      BY <1>1, <2>2 DEF IsContinuity
    <2>4. RunLength(cats, k) \in 1..n - k + 1
      BY <2>2, RunLengthRange
    <2>5. k > 1 => f[k - 1] \in 1..n - (k - 1) + 1
      <3>1. k > 1 => k - 1 \in 1..n /\ ~(k =< k - 1)
        BY <2>2
      <3>2. QED
        BY <2>1, <3>1
    <2>6. QED
      BY <2>2, <2>3, <2>4, <2>5
  <1>5. QED
    BY <1>3, <1>4

----------------------------------------------------------------------------
(* OOV providers.                                                          *)

\* The lengths of the words of a category.
LEMMA MecabLengthsRange ==
    ASSUME NEW cats, NEW off \in Nat, Len(cats) \in Nat, off < Len(cats),
           NEW info, info.length \in Nat
    PROVE  MecabLengths(cats, off, info) \in Seq(1..Len(cats) - off)
  <1> DEFINE X == 1..Len(cats) - off
             run == ContinuityOf(cats)[off + 1]
             limit == IF info.group THEN run - 1 ELSE run
             group == IF info.group THEN <<run>> ELSE <<>>
             ss == [i \in 1..info.length |->
                       IF CharDistance(cats, off, i) =< limit
                       THEN <<CharDistance(cats, off, i)>> ELSE <<>>]
  <1>1. run \in X
    <2>1. off + 1 \in 1..Len(cats)
      OBVIOUS
    <2>2. ContinuityOf(cats)[off + 1] \in 1..Len(cats) - (off + 1) + 1
      BY <2>1, ContinuityRange
    <2>3. QED
      BY <2>2
  <1>2. group \in Seq(X)
    <2> HIDE DEF run, X
    <2> QED BY <1>1
  <1>3. \A i \in 1..info.length : CharDistance(cats, off, i) \in X
    BY DEF CharDistance
  <1>4. ss \in Seq(Seq(X))
    <2>1. ss \in [1..info.length -> Seq(X)]
      <3> HIDE DEF X, limit
      <3> QED BY <1>3
    <2> HIDE DEF ss, X
    <2>2. QED
      BY <2>1, FunctionIsSeq
  <1>5. FlattenSeq(ss) \in Seq(X)
    <2> HIDE DEF ss, X
    <2> QED BY <1>4, FlattenRange
  <1>6. MecabLengths(cats, off, info) = group \o FlattenSeq(ss)
    BY DEF MecabLengths
  <1> HIDE DEF ss, X, group
  <1>7. MecabLengths(cats, off, info) \in Seq(X)
    BY <1>2, <1>5, <1>6
  <1>8. QED
    BY <1>7 DEF X

\* The nodes of id that a text of the length len may have at the offset off.
OovsAt(id, off, len) ==
    {n \in Nodes : n.begin = off /\ n.end \in off + 1..len /\ n.word = id}

LEMMA OovNodeRange ==
    ASSUME NEW off \in Nat, NEW len \in Nat, len =< MaxLen,
           NEW length \in 1..len - off, NEW entry, NEW id,
           NodesOf(entry, id) \subseteq Nodes
    PROVE  OovNode(off, length, entry, id) \in OovsAt(id, off, len)
  <1> DEFINE s == <<off, off + length>>
  <1>1. MaxLen \in Nat
    BY BoundsAssumption
  <1>2. /\ s \in (0..MaxLen) \X (0..MaxLen) /\ s[1] < s[2]
        /\ s[1] = off /\ s[2] - s[1] = length
    BY <1>1
  <1>3. OovNode(s[1], s[2] - s[1], entry, id) \in NodesOf(entry, id)
    <2> HIDE DEF s
    <2> QED BY <1>2 DEF NodesOf
  <1>4. OovNode(off, length, entry, id) \in Nodes
    BY <1>2, <1>3
  <1>5. QED
    BY <1>4 DEF OovsAt, OovNode

LEMMA MecabNodesRange ==
    ASSUME NEW cats, NEW off \in Nat, Len(cats) \in Nat, off < Len(cats),
           Len(cats) =< MaxLen, NEW p, NEW info,
           info.length \in Nat, IsSequence(info.oovs),
           \A o \in Range(info.oovs) : NodesOf(o, p.id) \subseteq Nodes
    PROVE  MecabNodes(p, cats, off, info) \in Seq(OovsAt(p.id, off, Len(cats)))
  <1> DEFINE X == OovsAt(p.id, off, Len(cats))
             lengths == MecabLengths(cats, off, info)
             oovs == info.oovs
             Row(k) == [j \in DOMAIN oovs |-> OovNode(off, lengths[k], oovs[j], p.id)]
             ss == [k \in DOMAIN lengths |-> Row(k)]
  <1>1. lengths \in Seq(1..Len(cats) - off)
    BY MecabLengthsRange
  <1>2. Len(oovs) \in Nat /\ DOMAIN oovs = 1..Len(oovs)
    BY DEF IsSequence
  <1>3. ASSUME NEW k \in DOMAIN lengths PROVE Row(k) \in Seq(X)
    <2>1. lengths[k] \in 1..Len(cats) - off
      <3> HIDE DEF lengths
      <3> QED BY <1>1
    <2>2. ASSUME NEW j \in DOMAIN oovs
          PROVE  OovNode(off, lengths[k], oovs[j], p.id) \in X
      <3>1. oovs[j] \in Range(oovs)
        BY DEF Range
      <3> HIDE DEF lengths, oovs
      <3>2. NodesOf(oovs[j], p.id) \subseteq Nodes
        BY <3>1 DEF oovs
      <3>3. QED
        BY <2>1, <3>2, OovNodeRange
    <2> HIDE DEF lengths, oovs, X
    <2>3. Row(k) \in [1..Len(oovs) -> X]
      BY <1>2, <2>2
    <2> HIDE DEF Row
    <2>4. QED
      BY <1>2, <2>3, FunctionIsSeq
  <1>4. ss \in Seq(Seq(X))
    <2> HIDE DEF lengths, Row, X
    <2>1. Len(lengths) \in Nat /\ DOMAIN lengths = 1..Len(lengths)
      BY <1>1
    <2>2. ss \in [1..Len(lengths) -> Seq(X)]
      BY <1>3, <2>1
    <2> HIDE DEF ss
    <2>3. QED
      BY <2>1, <2>2, FunctionIsSeq
  <1>5. MecabNodes(p, cats, off, info) = FlattenSeq(ss)
    BY DEF MecabNodes
  <1>6. FlattenSeq(ss) \in Seq(X)
    <2> HIDE DEF ss, X
    <2> QED BY <1>4, FlattenRange
  <1>7. QED
    BY <1>5, <1>6

LEMMA ProvideMecabRange ==
    ASSUME NEW d \in Dictionaries, NEW j \in DOMAIN d.providers,
           d.providers[j].kind = "mecab",
           NEW cats, NEW off \in Nat, Len(cats) \in Nat, off < Len(cats),
           Len(cats) =< MaxLen, NEW words
    PROVE  ProvideMecab(d.providers[j], cats, off, words)
               \in Seq(OovsAt(d.providers[j].id, off, Len(cats)))
  <1> DEFINE p == d.providers[j]
             X == OovsAt(p.id, off, Len(cats))
             n == Len(CategoryOrder)
             Invoked(c) == /\ c \in cats[off + 1] /\ c \in DOMAIN p.categories
                           /\ p.categories[c].invoke \/ words = {}
             Nodes_(c) == MecabNodes(p, cats, off, p.categories[c])
             ss == [k \in 1..n |-> IF Invoked(CategoryOrder[k])
                                   THEN Nodes_(CategoryOrder[k]) ELSE <<>>]
  <1>1. n \in Nat /\ DOMAIN CategoryOrder = 1..n
    BY DictionariesAssumption DEF IsSequence
  <1>2. ASSUME NEW c, Invoked(c) PROVE Nodes_(c) \in Seq(X)
    <2>1. IsProvider(p) /\ p.kind = "mecab" /\ c \in DOMAIN p.categories
      BY <1>2, DictionariesAssumption
    <2>2. /\ p.categories[c].length \in Nat /\ IsSequence(p.categories[c].oovs)
      BY <2>1 DEF IsProvider
    <2>3. \A o \in Range(p.categories[c].oovs) : NodesOf(o, p.id) \subseteq Nodes
      BY <2>1, BuilderNodesAssumption
    <2> HIDE DEF p
    <2>4. QED
      BY <2>2, <2>3, MecabNodesRange
  <1>3. ss \in Seq(Seq(X))
    <2>1. ss \in [1..n -> Seq(X)]
      <3> HIDE DEF n, X, Invoked, Nodes_
      <3> QED BY <1>2
    <2> HIDE DEF ss, n, X
    <2>2. QED
      BY <1>1, <2>1, FunctionIsSeq
  <1>4. ProvideMecab(p, cats, off, words) = FlattenSeq(ss)
    BY <1>1 DEF ProvideMecab
  <1>5. FlattenSeq(ss) \in Seq(X)
    <2> HIDE DEF ss, X
    <2> QED BY <1>3, FlattenRange
  <1>6. QED
    BY <1>4, <1>5

LEMMA PrefixLengthRange ==
    ASSUME NEW w, Len(w) \in Nat, NEW chars
    PROVE  PrefixLength(w, chars) \in 0..Len(w)
  <1> DEFINE T == {n \in 0..Len(w) : n < Len(w) => w[n + 1] \notin chars}
             All(n) == \A i \in 1..n : w[i] \in chars
             Stops(n) == n < Len(w) => w[n + 1] \notin chars
  <1>1. T \in SUBSET Nat /\ Len(w) \in T
    OBVIOUS
  <1>2. PICK n \in T : \A k \in T : n =< k
    <2> HIDE DEF T
    <2> QED BY <1>1, MinNat
  <1>3. n \in 0..Len(w) /\ Stops(n)
    OBVIOUS
  <1>4. ASSUME NEW i \in 1..n PROVE w[i] \in chars
    <2>1. i - 1 \in 0..Len(w) /\ i - 1 < Len(w) /\ ~(n =< i - 1) /\ (i - 1) + 1 = i
      BY <1>3
    <2>2. i - 1 \notin T
      <3> HIDE DEF T
      <3> QED BY <1>2, <2>1
    <2>3. QED
      BY <2>1, <2>2
  <1>5. PrefixLength(w, chars) = CHOOSE k \in 0..Len(w) : All(k) /\ Stops(k)
    BY DEF PrefixLength
  <1>6. All(n)
    BY <1>4
  <1> HIDE DEF All, Stops
  <1>7. QED
    BY <1>3, <1>5, <1>6

\* A match has a character where the regex does not match the empty text.
LEMMA FindRange ==
    ASSUME NEW p, p.min \in Nat, p.min > 0, NEW X, NEW w \in Seq(X)
    PROVE  \A m \in Find(p, w) : m.length \in 1..Len(w)
  <1> DEFINE n == PrefixLength(w, p.chars)
             strays == {i \in DOMAIN w : w[i] \in p.stray}
             first == CHOOSE i \in strays : \A j \in strays : i =< j
  <1>1. Len(w) \in Nat /\ n \in 0..Len(w)
    BY PrefixLengthRange
  <1>2. Find(p, w) = IF n >= p.min THEN {[start |-> 0, length |-> n]}
                     ELSE IF strays # {} THEN {[start |-> first - 1, length |-> 1]}
                     ELSE {}
    BY DEF Find
  <1>3. strays # {} => 1 \in 1..Len(w)
    OBVIOUS
  <1>4. n >= p.min => n \in 1..Len(w)
    <2> HIDE DEF n
    <2> QED BY <1>1
  <1>5. QED
    <2> HIDE DEF n, strays, first
    <2> QED BY <1>2, <1>3, <1>4

\* The regex sees a part of what is left of the text.
LEMMA WindowRange ==
    ASSUME NEW p, p.maxLength \in Nat, NEW text \in Sentences,
           NEW off \in Nat, off < Len(text)
    PROVE  /\ Window(p, text, off) \in Seq(DOMAIN Cat)
           /\ Len(Window(p, text, off)) =< Len(text) - off
  <1> DEFINE e == Least(Len(text), off + p.maxLength)
             w == Window(p, text, off)
  <1>1. text \in Seq(DOMAIN Cat) /\ Len(text) \in Nat
    BY SentencesAssumption
  <1>2. e \in off..Len(text)
    BY <1>1 DEF Least
  <1>3. w = SubSeq(text, off + 1, e)
    BY DEF Window
  <1> HIDE DEF e, w
  <1>4. /\ SubSeq(text, off + 1, e) \in Seq(DOMAIN Cat)
        /\ Len(SubSeq(text, off + 1, e)) = e - off
    BY <1>1, <1>2
  <1>5. w \in Seq(DOMAIN Cat) /\ Len(w) =< Len(text) - off
    BY <1>1, <1>2, <1>3, <1>4
  <1>6. QED
    BY <1>5 DEF w

LEMMA ProvideRegexRange ==
    ASSUME NEW d \in Dictionaries, NEW j \in DOMAIN d.providers,
           d.providers[j].kind = "regex", NEW text \in Sentences,
           NEW cats, NEW off \in Nat, off < Len(text), NEW words, NEW buffer
    PROVE  ProvideRegex(d.providers[j], text, cats, off, words, buffer)
               \in Seq(OovsAt(d.providers[j].id, off, Len(text)))
  <1> DEFINE p == d.providers[j]
             w == Window(p, text, off)
             m == CHOOSE m \in Find(p, w) : TRUE
             X == OovsAt(p.id, off, Len(text))
  <1>1. IsProvider(p) /\ p.min > 0 /\ p.kind = "regex"
    BY DictionariesAssumption
  <1>2. p.min \in Nat /\ p.maxLength \in Nat
    BY <1>1 DEF IsProvider
  <1>3. text \in Seq(DOMAIN Cat) /\ Len(text) \in 1..MaxLen /\ MaxLen \in Nat
    BY SentencesAssumption, BoundsAssumption
  <1>4. w \in Seq(DOMAIN Cat) /\ Len(w) =< Len(text) - off
    <2> HIDE DEF p
    <2> QED BY <1>2, WindowRange
  <1>5. CASE \E k \in Find(p, w) : TRUE
    <2>1. m \in Find(p, w)
      BY <1>5
    <2>2. m.length \in 1..Len(w)
      <3> HIDE DEF p, w, m
      <3> QED BY <1>1, <1>2, <1>4, <2>1, FindRange
    <2> HIDE DEF w, m
    <2>3. m.length \in 1..Len(text) - off
      BY <1>3, <1>4, <2>2
    <2>4. NodesOf(p, p.id) \subseteq Nodes
      BY <1>1, BuilderNodesAssumption
    <2>5. OovNode(off, m.length, p, p.id) \in X
      <3> HIDE DEF p
      <3> QED BY <1>3, <2>3, <2>4, OovNodeRange
    <2> HIDE DEF X
    <2>6. <<>> \in Seq(X) /\ <<OovNode(off, m.length, p, p.id)>> \in Seq(X)
      BY <2>5
    <2>7. \/ ProvideRegex(p, text, cats, off, words, buffer) = <<>>
          \/ ProvideRegex(p, text, cats, off, words, buffer)
                 = <<OovNode(off, m.length, p, p.id)>>
      BY DEF ProvideRegex, m, w
    <2>8. QED
      BY <2>6, <2>7 DEF X
  <1>6. CASE ~ \E k \in Find(p, w) : TRUE
    <2>1. ProvideRegex(p, text, cats, off, words, buffer) = <<>>
      BY <1>6 DEF ProvideRegex
    <2>2. QED
      BY <2>1
  <1>7. QED
    BY <1>5, <1>6

\* Whatever is asked of a provider, its nodes begin at the boundary, have a
\* character and end in the text.
LEMMA ProvideRange ==
    ASSUME NEW d \in Dictionaries, NEW j \in DOMAIN d.providers,
           NEW text \in Sentences, NEW cats, Len(cats) = Len(text),
           NEW off \in Nat, off < Len(text), NEW words, NEW buffer
    PROVE  Provide(d.providers[j], text, cats, off, words, buffer)
               \in Seq(OovsAt(d.providers[j].id, off, Len(text)))
  <1> DEFINE p == d.providers[j]
             X == OovsAt(p.id, off, Len(text))
  <1>1. Len(text) \in Nat /\ Len(text) =< MaxLen
    BY SentencesAssumption, BoundsAssumption
  <1>2. p.kind \in {"simple", "mecab", "regex"}
    BY DictionariesAssumption DEF IsProvider
  <1>3. CASE p.kind = "mecab"
    BY <1>1, <1>3, ProvideMecabRange DEF Provide
  <1>4. CASE p.kind = "regex"
    BY <1>4, ProvideRegexRange DEF Provide
  <1>5. CASE p.kind = "simple"
    <2> DEFINE length == WordCandidateLength(cats, off)
    <2>1. length \in 1..Len(text) - off
      BY <1>1, CandidateLength
    <2>2. NodesOf(p, p.id) \subseteq Nodes
      BY <1>5, BuilderNodesAssumption
    <2> HIDE DEF length
    <2>3. OovNode(off, length, p, p.id) \in X
      <3> HIDE DEF p
      <3> QED BY <1>1, <2>1, <2>2, OovNodeRange
    <2>4. Provide(p, text, cats, off, words, buffer)
              = IF words # {} THEN <<>> ELSE <<OovNode(off, length, p, p.id)>>
      BY <1>5 DEF Provide, ProvideSimple, length
    <2> HIDE DEF X
    <2>5. Provide(p, text, cats, off, words, buffer) \in Seq(X)
      BY <2>3, <2>4
    <2>6. QED
      BY <2>5 DEF X
  <1>6. QED
    BY <1>2, <1>3, <1>4, <1>5

\* The simple provider gives a word wherever there is none.
LEMMA SimpleProvides ==
    ASSUME NEW p, p.kind = "simple", NEW text, NEW cats, NEW off, NEW buffer
    PROVE  Provide(p, text, cats, off, {}, buffer) # <<>>
  BY DEF Provide, ProvideSimple

----------------------------------------------------------------------------
(* The inductive invariant.                                                *)

AtBoundary == {"words", "providers", "provided"}

BuilderTypeOK ==
    /\ dict \in Dictionaries /\ ch_off \in Nat /\ provider \in Nat
    /\ pipelined \in BOOLEAN
    /\ pc \in {"idle", "boundary", "path"} \cup AtBoundary

\* While a text is analysed, the lattice is the one of this text, and its nodes
\* begin at the boundary or before it.
Running ==
    pc # "idle" =>
        /\ sentence \in Sentences /\ size = Length + 1
        /\ ch_off =< Length
        /\ pc # "path" => frontier =< ch_off /\ eos = {}
        /\ pc \in AtBoundary => ch_off < Length /\ HasPreviousNode(ch_off)

\* match_cache has what the scalar lookup would find.
CacheOK ==
    pc # "idle" /\ pipelined =>
        \A b \in 0..Length - 1 : match_cache[b] = Lookup(dict.lexicon, sentence, b)

\* The nodes of a provider at the boundary.
OovsHere ==
    {n \in Nodes : /\ n.begin = ch_off /\ n.end \in ch_off + 1..Length
                   /\ n.word \in Int /\ n.word < 0}

TodoOK ==
    /\ pc = "words" => todo \in Seq(WordsAt(dict.lexicon, sentence, ch_off))
    /\ pc = "provided" => todo \in Seq(OovsHere)

\* A boundary that was counted as having words leads on to a later one.
LeadsOn ==
    /\ pc = "boundary" => \E b \in ch_off..Length : HasPreviousNode(b)
    /\ pc \in AtBoundary /\ created # {} =>
           \E b \in ch_off + 1..Length : HasPreviousNode(b)

HasLastResort == Last(Providers).kind = "simple"

\* The last resort is asked once, and gives a word if it is the simple provider.
LastResortOK ==
    pc \in AtBoundary \ {"words"} =>
        /\ provider =< Len(Providers) + 1
        /\ pc = "provided" => provider > 0
        /\ HasLastResort /\ provider = Len(Providers) + 1 =>
               created # {} \/ (pc = "provided" /\ todo # <<>>)

BInv == /\ BuilderTypeOK /\ Running /\ CacheOK /\ TodoOK /\ LeadsOn /\ LastResortOK
        /\ WordsMatchText /\ NeverDisconnected

\* With the invariants of the lattice.
AllInv == IInv /\ TotalsFit /\ BInv

LEMMA BuilderInitInv == BuilderInit => BInv
  <1>1. SUFFICES ASSUME BuilderInit PROVE BInv
    OBVIOUS
  <1>2. pc = "idle" /\ result = "Ok"
    BY <1>1 DEF BuilderInit
  <1>3. BuilderTypeOK
    BY <1>1 DEF BuilderInit, BuilderTypeOK
  <1>4. Running /\ CacheOK /\ WordsMatchText /\ NeverDisconnected
    BY <1>2 DEF Running, CacheOK, WordsMatchText, NeverDisconnected
  <1>5. TodoOK /\ LeadsOn /\ LastResortOK
    BY <1>2 DEF TodoOK, LeadsOn, LastResortOK, AtBoundary
  <1>6. QED
    BY <1>3, <1>4, <1>5 DEF BInv

----------------------------------------------------------------------------
(* The text and the providers.                                             *)

LEMMA TextFacts ==
    ASSUME BInv, pc # "idle"
    PROVE  /\ Length \in Nat /\ Length =< MaxLen /\ Len(Cats) = Length
           /\ sentence \in Sentences /\ size = Length + 1
  <1>1. sentence \in Sentences /\ size = Length + 1
    BY DEF BInv, Running
  <1>2. sentence \in Seq(DOMAIN Cat) /\ Len(sentence) \in 1..MaxLen /\ MaxLen \in Nat
    BY <1>1, SentencesAssumption, BoundsAssumption
  <1>3. QED
    BY <1>1, <1>2 DEF Length, Cats

LEMMA ProviderFacts ==
    ASSUME BInv
    PROVE  /\ Len(Providers) \in Nat \ {0} /\ DOMAIN Providers = 1..Len(Providers)
           /\ Last(Providers) = Providers[Len(Providers)]
           /\ \A j \in DOMAIN Providers : Providers[j].id < 0 /\ Providers[j].id \in Int
  <1>1. dict \in Dictionaries
    BY DEF BInv, BuilderTypeOK
  <1>2. IsSequence(Providers) /\ Providers # <<>>
    BY <1>1, DictionariesAssumption DEF Providers
  <1>3. \A j \in DOMAIN Providers : Providers[j].id = -j
    BY <1>1, DictionariesAssumption DEF Providers
  <1>4. Len(Providers) # 0
    BY <1>2 DEF IsSequence
  <1>5. QED
    BY <1>2, <1>3, <1>4 DEF IsSequence, Last

\* Whatever provider is asked, it is one of the dictionary's.
LEMMA AskedFacts ==
    ASSUME BInv, NEW p \in Asked
    PROVE  \E j \in DOMAIN Providers :
               /\ p = Providers[j] /\ provider + 1 =< Len(Providers) + 1
               /\ provider + 1 = Len(Providers) + 1 =>
                      p = Last(Providers) /\ created = {}
  <1>1. Len(Providers) \in Nat \ {0} /\ DOMAIN Providers = 1..Len(Providers)
        /\ Last(Providers) = Providers[Len(Providers)]
    BY ProviderFacts
  <1>2. provider \in Nat
    BY DEF BInv, BuilderTypeOK
  <1>3. CASE provider + 1 =< Len(Providers)
    <2>1. p = Providers[provider + 1] /\ provider + 1 \in DOMAIN Providers
      BY <1>1, <1>2, <1>3 DEF Asked
    <2>2. QED
      BY <1>1, <1>2, <1>3, <2>1
  <1>4. CASE ~(provider + 1 =< Len(Providers))
    <2>1. provider + 1 = Len(Providers) + 1 /\ created = {} /\ p = Last(Providers)
      BY <1>4 DEF Asked
    <2>2. Len(Providers) \in DOMAIN Providers
      BY <1>1
    <2>3. QED
      BY <1>1, <1>2, <2>1, <2>2
  <1>5. QED
    BY <1>3, <1>4

\* What it gives belongs to the boundary.
LEMMA ProvideHere ==
    ASSUME BInv, pc \in AtBoundary, NEW p \in Asked
    PROVE  Provide(p, sentence, Cats, ch_off, created, node_buffer) \in Seq(OovsHere)
  <1>1. /\ Length \in Nat /\ Len(Cats) = Length /\ sentence \in Sentences
        /\ ch_off \in Nat /\ ch_off < Length /\ dict \in Dictionaries
    BY TextFacts DEF AtBoundary, BInv, Running, BuilderTypeOK
  <1>2. PICK j \in DOMAIN Providers : p = Providers[j]
    BY AskedFacts
  <1> DEFINE X == OovsAt(p.id, ch_off, Length)
             nodes == Provide(p, sentence, Cats, ch_off, created, node_buffer)
  <1>3. nodes \in Seq(X)
    BY <1>1, <1>2, ProvideRange DEF Providers, Length
  <1>4. X \subseteq OovsHere
    BY <1>2, ProviderFacts DEF OovsAt, OovsHere
  <1> HIDE DEF X, nodes
  <1>5. nodes \in Seq(OovsHere)
    BY <1>3, <1>4
  <1>6. QED
    BY <1>5 DEF nodes

----------------------------------------------------------------------------
(* Steps that leave the lattice alone.                                     *)

\* What those steps keep.
Kept == UNCHANGED <<lattice_vars, dict, sentence, pipelined, match_cache>>

LEMMA KeptFacts ==
    ASSUME BInv, Kept, pc # "idle", pc' # "path"
    PROVE  /\ CacheOK' /\ WordsMatchText'
           /\ \A b : HasPreviousNode(b)' <=> HasPreviousNode(b)
           /\ OovsHere' = {n \in Nodes : /\ n.begin = ch_off'
                                         /\ n.end \in ch_off' + 1..Length
                                         /\ n.word \in Int /\ n.word < 0}
  <1>1. CacheOK'
    BY DEF BInv, CacheOK, Kept, Length
  <1>2. WordsMatchText'
    BY DEF BInv, WordsMatchText, Kept, Length, lattice_vars, vecs
  <1>3. \A b : HasPreviousNode(b)' <=> HasPreviousNode(b)
    BY DEF Kept, HasPreviousNode, lattice_vars, vecs
  <1>4. QED
    BY <1>1, <1>2, <1>3 DEF OovsHere, Kept, Length

LEMMA SkipInv ==
    ASSUME AllInv, Skip
    PROVE  BInv'
  <1>1. /\ pc = "boundary" /\ pc' = pc /\ ch_off' = ch_off + 1 /\ ch_off < Length
        /\ ~HasPreviousNode(ch_off) /\ Kept /\ result' = result
        /\ provider' = provider
    BY DEF Skip, Kept
  <1>2. /\ CacheOK' /\ WordsMatchText'
        /\ \A b : HasPreviousNode(b)' <=> HasPreviousNode(b)
    BY <1>1, KeptFacts DEF AllInv
  <1>3. /\ Length \in Nat /\ Length' = Length /\ ch_off \in Nat /\ frontier \in Nat
        /\ sentence \in Sentences /\ size = Length + 1
    BY <1>1, TextFacts DEF Kept, Length, AllInv, BInv, BuilderTypeOK, IInv, TypeOK
  <1>4. BuilderTypeOK'
    BY <1>1, <1>3 DEF AllInv, BInv, BuilderTypeOK, Kept
  <1>5. Running'
    BY <1>1, <1>3 DEF AllInv, BInv, Running, Kept, AtBoundary, lattice_vars, vecs
  <1>6. TodoOK' /\ LastResortOK'
    BY <1>1 DEF TodoOK, LastResortOK, AtBoundary
  <1>7. LeadsOn'
    <2>1. PICK b \in ch_off..Length : HasPreviousNode(b)
      BY <1>1 DEF AllInv, BInv, LeadsOn
    <2>2. b # ch_off
      BY <1>1, <2>1
    <2>3. b \in ch_off'..Length
      BY <1>1, <1>3, <2>1, <2>2
    <2>4. QED
      BY <1>1, <1>2, <1>3, <2>1, <2>3 DEF LeadsOn, AtBoundary
  <1>8. NeverDisconnected'
    BY <1>1 DEF AllInv, BInv, NeverDisconnected, Kept, Providers
  <1>9. QED
    BY <1>2, <1>4, <1>5, <1>6, <1>7, <1>8 DEF BInv

LEMMA EnterInv ==
    ASSUME AllInv, Enter
    PROVE  BInv'
  <1>1. /\ pc = "boundary" /\ pc' = "words" /\ ch_off' = ch_off /\ ch_off < Length
        /\ HasPreviousNode(ch_off) /\ Kept /\ result' = result
        /\ provider' = provider /\ created' = {}
        /\ todo' = IF pipelined THEN match_cache[ch_off]
                   ELSE Lookup(dict.lexicon, sentence, ch_off)
    BY DEF Enter, Kept
  <1>2. /\ CacheOK' /\ WordsMatchText'
        /\ \A b : HasPreviousNode(b)' <=> HasPreviousNode(b)
    BY <1>1, KeptFacts DEF AllInv
  <1>3. /\ Length \in Nat /\ Length' = Length /\ ch_off \in Nat /\ dict \in Dictionaries
        /\ sentence \in Sentences /\ size = Length + 1 /\ sentence' = sentence
        /\ dict' = dict /\ ch_off \in 0..Length - 1
    BY <1>1, TextFacts DEF Kept, Length, AllInv, BInv, BuilderTypeOK
  <1>4. BuilderTypeOK'
    BY <1>1, <1>3 DEF AllInv, BInv, BuilderTypeOK, Kept, AtBoundary
  <1>5. Running'
    BY <1>1, <1>2, <1>3
       DEF AllInv, BInv, Running, Kept, AtBoundary, lattice_vars, vecs
  <1>6. TodoOK'
    <2>1. todo' = Lookup(dict.lexicon, sentence, ch_off)
      BY <1>1, <1>3 DEF AllInv, BInv, CacheOK
    <2>2. todo' \in Seq(WordsAt(dict.lexicon, sentence, ch_off))
      BY <1>3, <2>1, LookupRange
    <2>3. QED
      BY <1>1, <1>3, <2>2 DEF TodoOK
  <1>7. LeadsOn' /\ LastResortOK'
    BY <1>1 DEF LeadsOn, LastResortOK, AtBoundary
  <1>8. NeverDisconnected'
    BY <1>1 DEF AllInv, BInv, NeverDisconnected, Kept, Providers
  <1>9. QED
    BY <1>2, <1>4, <1>5, <1>6, <1>7, <1>8 DEF BInv

\* The steps that stay at the boundary.
LEMMA StayInv ==
    ASSUME AllInv, pc \in AtBoundary, pc' \in AtBoundary, Kept, ch_off' = ch_off,
           created' = created, result' = result, provider' \in Nat, TodoOK',
           LastResortOK'
    PROVE  BInv'
  <1>1. /\ CacheOK' /\ WordsMatchText'
        /\ \A b : HasPreviousNode(b)' <=> HasPreviousNode(b)
    BY KeptFacts DEF AllInv, AtBoundary
  <1>2. /\ Length \in Nat /\ Length' = Length /\ sentence \in Sentences
        /\ size = Length + 1
    BY TextFacts DEF Kept, Length, AllInv, AtBoundary
  <1>3. BuilderTypeOK'
    BY DEF AllInv, BInv, BuilderTypeOK, Kept
  <1>4. Running'
    BY <1>1, <1>2 DEF AllInv, BInv, Running, Kept, AtBoundary, lattice_vars, vecs
  <1>5. LeadsOn'
    BY <1>1, <1>2 DEF AllInv, BInv, LeadsOn, AtBoundary
  <1>6. NeverDisconnected'
    BY DEF AllInv, BInv, NeverDisconnected, Kept, Providers
  <1>7. QED
    BY <1>1, <1>3, <1>4, <1>5, <1>6 DEF BInv

LEMMA DropWordInv ==
    ASSUME AllInv, DropWord
    PROVE  BInv'
  <1>1. /\ pc = "words" /\ pc' = pc /\ ch_off' = ch_off /\ Kept /\ result' = result
        /\ provider' = provider /\ created' = created /\ todo' = Tail(todo)
        /\ todo # <<>>
    BY DEF DropWord, Kept
  <1> DEFINE X == WordsAt(dict.lexicon, sentence, ch_off)
  <1>2. todo \in Seq(X)
    BY <1>1 DEF AllInv, BInv, TodoOK
  <1>3. todo' \in Seq(X)
    <2> HIDE DEF X
    <2> QED BY <1>1, <1>2
  <1>4. TodoOK' /\ LastResortOK'
    BY <1>1, <1>3 DEF TodoOK, LastResortOK, AtBoundary, Kept
  <1>5. QED
    BY <1>1, <1>4, StayInv DEF AllInv, BInv, BuilderTypeOK, AtBoundary

LEMMA BeginOovsInv ==
    ASSUME AllInv, BeginOovs
    PROVE  BInv'
  <1>1. /\ pc = "words" /\ pc' = "providers" /\ ch_off' = ch_off /\ Kept
        /\ result' = result /\ created' = created
        /\ provider' \in {0, Len(Providers)} /\ Providers' = Providers
    BY DEF BeginOovs, Kept, Providers
  <1>2. Len(Providers) \in Nat \ {0}
    BY ProviderFacts DEF AllInv
  <1>3. TodoOK' /\ LastResortOK'
    BY <1>1, <1>2 DEF TodoOK, LastResortOK, AtBoundary
  <1>4. QED
    BY <1>1, <1>2, <1>3, StayInv DEF AtBoundary

LEMMA EndProviderInv ==
    ASSUME AllInv, EndProvider
    PROVE  BInv'
  <1>1. /\ pc = "provided" /\ pc' = "providers" /\ ch_off' = ch_off /\ Kept
        /\ result' = result /\ created' = created /\ provider' = provider
        /\ todo = <<>> /\ Providers' = Providers
    BY DEF EndProvider, Kept, Providers, locals
  <1>2. TodoOK' /\ LastResortOK'
    BY <1>1 DEF AllInv, BInv, TodoOK, LastResortOK, AtBoundary, HasLastResort
  <1>3. QED
    BY <1>1, <1>2, StayInv DEF AtBoundary, AllInv, BInv, BuilderTypeOK

\* The last resort is asked with nothing created: the simple provider answers.
LEMMA AskProviderInv ==
    ASSUME AllInv, AskProvider
    PROVE  BInv'
  <1>1. PICK p \in Asked :
            todo' = Provide(p, sentence, Cats, ch_off, created, node_buffer)
    BY DEF AskProvider
  <1>2. /\ pc = "providers" /\ pc' = "provided" /\ ch_off' = ch_off /\ Kept
        /\ result' = result /\ created' = created /\ provider' = provider + 1
        /\ Providers' = Providers /\ provider \in Nat
    BY DEF AskProvider, Kept, Providers, AllInv, BInv, BuilderTypeOK
  <1>3. OovsHere' = OovsHere
    BY <1>2 DEF OovsHere, Kept, Length
  <1>4. todo' \in Seq(OovsHere)
    BY <1>1, <1>2, ProvideHere DEF AllInv, AtBoundary
  <1>5. TodoOK'
    BY <1>2, <1>3, <1>4 DEF TodoOK
  <1>6. PICK j \in DOMAIN Providers :
            /\ p = Providers[j] /\ provider + 1 =< Len(Providers) + 1
            /\ provider + 1 = Len(Providers) + 1 =>
                   p = Last(Providers) /\ created = {}
    BY AskedFacts DEF AllInv
  <1>7. HasLastResort /\ provider + 1 = Len(Providers) + 1 => todo' # <<>>
    BY <1>1, <1>6, SimpleProvides DEF HasLastResort
  <1>8. LastResortOK'
    BY <1>2, <1>6, <1>7 DEF LastResortOK, HasLastResort, AtBoundary
  <1>9. QED
    BY <1>2, <1>5, <1>8, StayInv DEF AtBoundary

\* The steps that give up.
LEMMA StopInv ==
    ASSUME AllInv, Kept, pc' = "idle", ch_off' = ch_off, provider' = provider,
           NeverDisconnected'
    PROVE  BInv'
  <1>1. BuilderTypeOK'
    BY DEF AllInv, BInv, BuilderTypeOK, Kept
  <1>2. QED
    BY <1>1
       DEF BInv, Running, CacheOK, TodoOK, LeadsOn, LastResortOK, WordsMatchText,
           AtBoundary

LEMMA ProviderFailsInv ==
    ASSUME AllInv, ProviderFails
    PROVE  BInv'
  <1>1. /\ Kept /\ pc' = "idle" /\ ch_off' = ch_off /\ provider' = provider
        /\ result' = "PluginError"
    BY DEF ProviderFails, Kept, locals
  <1>2. QED
    BY <1>1, StopInv DEF NeverDisconnected

LEMMA PathFilledInv ==
    ASSUME AllInv, PathFilled
    PROVE  BInv'
  <1>1. /\ Kept /\ pc' = "idle" /\ ch_off' = ch_off /\ provider' = provider
        /\ result' = result
    BY DEF PathFilled, Kept, locals
  <1>2. NeverDisconnected'
    BY <1>1 DEF NeverDisconnected, Kept, Providers, AllInv, BInv
  <1>3. QED
    BY <1>1, <1>2, StopInv

\* Where the last provider is the simple one, the last resort has been asked.
LEMMA DeadEndInv ==
    ASSUME AllInv, DeadEnd
    PROVE  BInv'
  <1>1. /\ Kept /\ pc' = "idle" /\ ch_off' = ch_off /\ provider' = provider
        /\ pc = "providers" /\ Asked = {} /\ created = {}
    BY DEF DeadEnd, Kept, locals
  <1>2. ASSUME HasLastResort PROVE FALSE
    <2>1. Len(Providers) \in Nat /\ provider \in Nat
          /\ provider =< Len(Providers) + 1
      BY <1>1, ProviderFacts
         DEF AllInv, BInv, BuilderTypeOK, LastResortOK, AtBoundary
    <2>2. provider # Len(Providers) + 1
      BY <1>1, <1>2 DEF AllInv, BInv, LastResortOK, AtBoundary
    <2>3. ~(provider + 1 =< Len(Providers))
      BY <1>1 DEF Asked
    <2>4. provider + 1 # Len(Providers) + 1
      BY <1>1, <2>3 DEF Asked
    <2>5. QED
      BY <2>1, <2>2, <2>3, <2>4
  <1>3. NeverDisconnected'
    BY <1>1, <1>2 DEF NeverDisconnected, HasLastResort, Kept, Providers
  <1>4. QED
    BY <1>1, <1>3, StopInv

LEMMA NextBoundaryInv ==
    ASSUME AllInv, NextBoundary
    PROVE  BInv'
  <1>1. /\ pc = "providers" /\ pc' = "boundary" /\ ch_off' = ch_off + 1 /\ Kept
        /\ result' = result /\ provider' = provider /\ created # {}
    BY DEF NextBoundary, Kept
  <1>2. /\ CacheOK' /\ WordsMatchText'
        /\ \A b : HasPreviousNode(b)' <=> HasPreviousNode(b)
    BY <1>1, KeptFacts DEF AllInv
  <1>3. /\ Length \in Nat /\ Length' = Length /\ ch_off \in Nat /\ frontier \in Nat
        /\ sentence \in Sentences /\ size = Length + 1
    BY <1>1, TextFacts DEF Kept, Length, AllInv, BInv, BuilderTypeOK, IInv, TypeOK
  <1>4. BuilderTypeOK'
    BY <1>1, <1>3 DEF AllInv, BInv, BuilderTypeOK, Kept
  <1>5. Running'
    BY <1>1, <1>3 DEF AllInv, BInv, Running, Kept, AtBoundary, lattice_vars, vecs
  <1>6. TodoOK' /\ LastResortOK'
    BY <1>1 DEF TodoOK, LastResortOK, AtBoundary
  <1>7. LeadsOn'
    BY <1>1, <1>2, <1>3 DEF AllInv, BInv, LeadsOn, AtBoundary
  <1>8. NeverDisconnected'
    BY <1>1 DEF AllInv, BInv, NeverDisconnected, Kept, Providers
  <1>9. QED
    BY <1>2, <1>4, <1>5, <1>6, <1>7, <1>8 DEF BInv

----------------------------------------------------------------------------
(* Steps of the lattice.                                                   *)

\* What an insertion changes.
LEMMA InsertFacts ==
    ASSUME IInv, NEW node \in Nodes, InsertAllowed(node), Insert(node)
    PROVE  /\ eos' = eos /\ size' = size /\ frontier' = node.begin
           /\ HasPreviousNode(node.end)'
           /\ \A b : HasPreviousNode(b) => HasPreviousNode(b)'
           /\ node.end \in DOMAIN ends_full /\ ends_full[node.end] \in Seq(Nodes)
           /\ ends_full' = [ends_full EXCEPT
                               ![node.end] = Append(ends_full[node.end], node)]
  <1> DEFINE e == node.end
             v == [right |-> node.right, total |-> ConnectNode(node).cost]
  <1>1. e \in DOMAIN ends /\ DOMAIN ends_full = DOMAIN ends
    BY NodesAssumption DEF InsertAllowed, IInv, TypeOK, Aligned
  <1>2. ends_full[e] \in Seq(Nodes) /\ ends[e] \in Seq(VNode)
    BY <1>1 DEF IInv, TypeOK
  <1>3. /\ eos' = eos /\ size' = size /\ frontier' = node.begin
        /\ ends' = [ends EXCEPT ![e] = Append(ends[e], v)]
        /\ ends_full' = [ends_full EXCEPT ![e] = Append(ends_full[e], node)]
    BY DEF Insert
  <1>4. Append(ends[e], v) # <<>>
    <2>1. /\ node.left \in ConnId /\ node.right \in ConnId /\ node.cost \in Int
          /\ node.begin \in Nat /\ ends[node.begin] \in Seq(VNode)
      BY NodesAssumption DEF InsertAllowed, HasPreviousNode, IInv, TypeOK
    <2>2. ConnectNode(node).cost \in Int
      BY <2>1, ConnectNodeBest
    <2>3. v \in VNode
      BY <2>1, <2>2 DEF VNode
    <2> HIDE DEF v
    <2>4. QED
      BY <1>2, <2>3, AppendProperties
  <1> HIDE DEF v
  <1>5. HasPreviousNode(e)' /\ \A b : HasPreviousNode(b) => HasPreviousNode(b)'
    BY <1>1, <1>3, <1>4 DEF HasPreviousNode
  <1>6. QED
    BY <1>1, <1>2, <1>3, <1>5

\* The nodes the lattice had are still there.
LEMMA WordsAfterInsert ==
    ASSUME IInv, BInv, pc # "idle", pc' # "idle",
           NEW node \in Nodes, InsertAllowed(node), Insert(node),
           UNCHANGED <<dict, sentence>>,
           node.word > 0 => SubSeq(sentence, node.begin + 1, node.end)
                                = dict.lexicon[node.word].surface
    PROVE  WordsMatchText'
  <1> DEFINE e == node.end
             Matches(n) == n.word > 0 => SubSeq(sentence, n.begin + 1, n.end)
                                             = dict.lexicon[n.word].surface
  <1>1. /\ e \in DOMAIN ends_full /\ ends_full[e] \in Seq(Nodes)
        /\ ends_full' = [ends_full EXCEPT ![e] = Append(ends_full[e], node)]
    BY InsertFacts
  <1>2. \A b \in 1..Length : \A i \in 1..Len(ends_full[b]) : Matches(ends_full[b][i])
    BY DEF BInv, WordsMatchText
  <1>3. Matches(node)
    OBVIOUS
  <1> HIDE DEF Matches
  <1>4. ASSUME NEW b \in 1..Length, NEW i \in 1..Len(ends_full'[b])
        PROVE  Matches(ends_full'[b][i])
    <2>1. CASE b # e
      BY <2>1, <1>1, <1>2
    <2>2. CASE b = e
      <3>1. /\ ends_full'[b] = Append(ends_full[e], node)
            /\ Len(ends_full[e]) \in Nat
        BY <2>2, <1>1
      <3>2. /\ Len(ends_full'[b]) = Len(ends_full[e]) + 1
            /\ ends_full'[b][Len(ends_full[e]) + 1] = node
            /\ \A k \in 1..Len(ends_full[e]) : ends_full'[b][k] = ends_full[e][k]
        BY <3>1, <1>1, AppendFacts
      <3>3. i = Len(ends_full[e]) + 1 \/ i \in 1..Len(ends_full[e])
        BY <3>1, <3>2
      <3>4. QED
        BY <2>2, <3>2, <3>3, <1>2, <1>3
    <2>3. QED
      BY <2>1, <2>2
  <1>5. QED
    BY <1>4 DEF WordsMatchText, Matches, Length

\* Insertion at the boundary, of a word or of an OOV word.
LEMMA InsertHere ==
    ASSUME AllInv, pc \in AtBoundary \ {"providers"}, pc' = pc, todo # <<>>,
           NEW node \in Nodes, node.begin = ch_off, node.end \in ch_off + 1..Length,
           node.word > 0 => SubSeq(sentence, node.begin + 1, node.end)
                                = dict.lexicon[node.word].surface,
           Insert(node), NEW length, created' = created \cup Single(length),
           todo' = Tail(todo),
           UNCHANGED <<dict, sentence, pipelined, match_cache, ch_off, provider, result>>
    PROVE  InsertAllowed(node) /\ BInv'
  <1>1. /\ Length \in Nat /\ Length' = Length /\ sentence \in Sentences
        /\ size = Length + 1 /\ ch_off \in Nat /\ pc # "idle" /\ pc # "path"
        /\ frontier =< ch_off /\ eos = {} /\ ch_off < Length
        /\ HasPreviousNode(ch_off)
    BY TextFacts DEF AllInv, BInv, BuilderTypeOK, Running, AtBoundary, Length
  <1>2. InsertAllowed(node)
    BY <1>1 DEF InsertAllowed
  <1>3. /\ eos' = eos /\ size' = size /\ frontier' = ch_off
        /\ HasPreviousNode(node.end)'
        /\ \A b : HasPreviousNode(b) => HasPreviousNode(b)'
    BY <1>2, InsertFacts DEF AllInv
  <1>4. WordsMatchText'
    BY <1>1, <1>2, WordsAfterInsert DEF AllInv
  <1>5. BuilderTypeOK'
    BY DEF AllInv, BInv, BuilderTypeOK
  <1>6. Running'
    BY <1>1, <1>3 DEF AllInv, BInv, Running, AtBoundary
  <1>7. CacheOK'
    BY <1>1 DEF AllInv, BInv, CacheOK
  <1>8. TodoOK'
    <2>1. \A X : todo \in Seq(X) => Tail(todo) \in Seq(X)
      BY TailSeq
    <2>2. OovsHere' = OovsHere
      BY <1>1 DEF OovsHere
    <2>3. QED
      BY <1>1, <2>1, <2>2 DEF AllInv, BInv, TodoOK
  <1>9. created' # {} /\ Providers' = Providers
    BY DEF Single, Providers
  <1>10. LeadsOn'
    BY <1>1, <1>3 DEF LeadsOn, AtBoundary
  <1>11. LastResortOK'
    BY <1>9 DEF AllInv, BInv, LastResortOK, AtBoundary, HasLastResort
  <1>12. NeverDisconnected'
    BY <1>9 DEF AllInv, BInv, NeverDisconnected
  <1>13. QED
    BY <1>2, <1>4, <1>5, <1>6, <1>7, <1>8, <1>10, <1>11, <1>12 DEF BInv

LEMMA InsertWordInv ==
    ASSUME AllInv, InsertWord
    PROVE  LET node == WordNode(Head(todo))
           IN  /\ node \in Nodes /\ node.begin = ch_off /\ node.word \in Nat \ {0}
               /\ InsertNode(node) /\ BInv'
  <1> DEFINE e == Head(todo)
             node == WordNode(e)
             X == WordsAt(dict.lexicon, sentence, ch_off)
  <1>1. /\ pc = "words" /\ pc' = pc /\ todo # <<>> /\ Insert(node)
        /\ created' = created \cup Single(e.end - ch_off) /\ todo' = Tail(todo)
        /\ UNCHANGED <<dict, sentence, pipelined, match_cache, ch_off, provider, result>>
    BY DEF InsertWord
  <1>2. /\ Length \in Nat /\ Length =< MaxLen /\ MaxLen \in Nat /\ ch_off \in Nat
        /\ dict \in Dictionaries
    BY <1>1, TextFacts, BoundsAssumption DEF AllInv, BInv, BuilderTypeOK
  <1>3. e \in X
    <2>1. todo \in Seq(X)
      BY <1>1 DEF AllInv, BInv, TodoOK
    <2> HIDE DEF X
    <2>2. QED
      BY <1>1, <2>1
  <1>4. /\ e.word \in DOMAIN dict.lexicon /\ e.end \in ch_off + 1..Length
        /\ SubSeq(sentence, ch_off + 1, e.end) = dict.lexicon[e.word].surface
    BY <1>3 DEF WordsAt, Length
  <1>5. /\ node.begin = ch_off /\ node.end = e.end /\ node.word = e.word
        /\ node = OovNode(ch_off, e.end - ch_off, dict.lexicon[e.word], e.word)
    <2>1. ch_off + (e.end - ch_off) = e.end
      BY <1>2, <1>4
    <2>2. QED
      BY <2>1 DEF WordNode, OovNode
  <1>6. node \in Nodes
    <2>1. NodesOf(dict.lexicon[e.word], e.word) \subseteq Nodes
      BY <1>2, <1>4, BuilderNodesAssumption
    <2>2. e.end - ch_off \in 1..Length - ch_off
      BY <1>2, <1>4
    <2> HIDE DEF e, node
    <2>3. node \in OovsAt(e.word, ch_off, Length)
      BY <1>2, <1>5, <2>1, <2>2, OovNodeRange
    <2>4. QED
      BY <2>3 DEF OovsAt
  <1>7. InsertAllowed(node) /\ BInv'
    <2> HIDE DEF e, node
    <2> QED BY <1>1, <1>4, <1>5, <1>6, InsertHere DEF AtBoundary
  <1>8. node.word \in Nat \ {0}
    <2>1. DOMAIN dict.lexicon = 1..Len(dict.lexicon) /\ Len(dict.lexicon) \in Nat
      BY <1>2, DictionariesAssumption DEF IsSequence
    <2> HIDE DEF e, node
    <2>2. QED
      BY <1>4, <1>5, <2>1
  <1>9. QED
    BY <1>1, <1>5, <1>6, <1>7, <1>8 DEF InsertNode

LEMMA InsertOovInv ==
    ASSUME AllInv, InsertOov
    PROVE  LET node == Head(todo)
           IN  /\ node \in Nodes /\ node.begin = ch_off
               /\ InsertNode(node) /\ BInv'
  <1> DEFINE node == Head(todo)
  <1>1. /\ pc = "provided" /\ pc' = pc /\ todo # <<>> /\ Insert(node)
        /\ created' = created \cup Single(node.end - node.begin) /\ todo' = Tail(todo)
        /\ UNCHANGED <<dict, sentence, pipelined, match_cache, ch_off, provider, result>>
    BY DEF InsertOov
  <1>2. node \in OovsHere
    <2>1. todo \in Seq(OovsHere)
      BY <1>1 DEF AllInv, BInv, TodoOK
    <2>2. QED
      BY <1>1, <2>1
  <1>3. /\ node \in Nodes /\ node.begin = ch_off /\ node.end \in ch_off + 1..Length
        /\ ~(node.word > 0)
    BY <1>2 DEF OovsHere
  <1>4. InsertAllowed(node) /\ BInv'
    <2> HIDE DEF node
    <2> QED BY <1>1, <1>3, InsertHere DEF AtBoundary
  <1>5. QED
    BY <1>1, <1>3, <1>4 DEF InsertNode

\* A lattice that was reset has no words of an earlier text.
LEMMA StartInv ==
    ASSUME AllInv, NEW s \in Sentences, NEW p \in BOOLEAN, Start(s, p)
    PROVE  LatticeNext /\ BInv'
  <1>1. /\ sentence' = s /\ pipelined' = p /\ Reset(Len(s)) /\ pc' = "boundary"
        /\ match_cache' = IF p THEN Batch(match_cache, dict.lexicon, s) ELSE match_cache
        /\ ch_off' = 0 /\ provider' = 0 /\ result' = "Ok" /\ dict' = dict
    BY DEF Start
  <1>2. s \in Seq(DOMAIN Cat) /\ Len(s) \in 1..MaxLen /\ MaxLen \in Nat
        /\ Length' = Len(s)
    BY <1>1, SentencesAssumption, BoundsAssumption DEF Length
  <1>3. LatticeNext
    BY <1>1, <1>2 DEF LatticeNext
  <1>4. IInv'
    BY <1>1, <1>2, ResetInv DEF AllInv
  <1>5. size' = Len(s) + 1 /\ eos' = {} /\ frontier' = 0
    BY <1>1 DEF Reset
  <1>6. HasPreviousNode(0)'
    <2>1. 0 \in DOMAIN ends' /\ ends'[0] = <<BOS>>
      BY <1>2, <1>4, <1>5 DEF IInv, Aligned
    <2>2. QED
      BY <2>1 DEF HasPreviousNode
  <1>7. BuilderTypeOK'
    BY <1>1 DEF AllInv, BInv, BuilderTypeOK
  <1>8. Running'
    BY <1>1, <1>2, <1>5 DEF Running, AtBoundary
  <1>9. CacheOK'
    <2>1. SUFFICES ASSUME p, NEW b \in 0..Len(s) - 1
                   PROVE  match_cache'[b] = Lookup(dict.lexicon, s, b)
      BY <1>1, <1>2 DEF CacheOK
    <2>2. b < Len(s)
      BY <1>2
    <2>3. QED
      BY <1>1, <2>1, <2>2 DEF Batch
  <1>10. LeadsOn'
    <2>1. 0 \in 0..Len(s)
      BY <1>2
    <2>2. QED
      BY <1>1, <1>2, <1>6, <2>1 DEF LeadsOn, AtBoundary
  <1>11. TodoOK' /\ LastResortOK' /\ NeverDisconnected'
    BY <1>1 DEF TodoOK, LastResortOK, NeverDisconnected, AtBoundary
  <1>12. WordsMatchText'
    <2>1. ASSUME NEW b \in 1..Len(s) PROVE Len(ends_full'[b]) = 0
      <3>1. ends_full' = Cleared(ends_full, Len(s) + 1)
        BY <1>1 DEF Reset
      <3>2. b \in 0..(Len(s) + 1) - 1
        BY <1>2
      <3>3. ends_full'[b] = <<>>
        BY <3>1, <3>2 DEF Cleared
      <3>4. QED
        BY <3>3
    <2>2. QED
      BY <1>2, <2>1 DEF WordsMatchText
  <1>13. QED
    BY <1>3, <1>7, <1>8, <1>9, <1>10, <1>11, <1>12 DEF BInv

\* All the boundaries that had words led on, so that the end has been reached.
LEMMA EndOfSentenceInv ==
    ASSUME AllInv, EndOfSentence
    PROVE  [LatticeNext]_lattice_vars /\ BInv'
  <1>1. /\ pc = "boundary" /\ ch_off = Length
        /\ UNCHANGED <<dict, sentence, pipelined, match_cache, ch_off, provider>>
    BY DEF EndOfSentence, locals
  <1>2. /\ Length \in Nat /\ size = Length + 1 /\ sentence \in Sentences
        /\ Length' = Length
    BY <1>1, TextFacts DEF AllInv, Length
  <1>3. ~EosDisconnected
    <2>1. PICK b \in Length..Length : HasPreviousNode(b)
      BY <1>1 DEF AllInv, BInv, LeadsOn
    <2>2. b = size - 1 /\ size > 0
      BY <1>2
    <2>3. QED
      BY <2>1, <2>2, EosConnects DEF AllInv, HasPreviousNode
  <1>4. pc' = "path" /\ result' = result /\ ConnectEos
    BY <1>3 DEF EndOfSentence
  <1>5. /\ UNCHANGED vecs /\ size' = size /\ LatticeNext
    BY <1>4 DEF ConnectEos, LatticeNext
  <1>6. BuilderTypeOK'
    BY <1>1, <1>4 DEF AllInv, BInv, BuilderTypeOK
  <1>7. Running' /\ CacheOK'
    BY <1>1, <1>2, <1>4, <1>5 DEF AllInv, BInv, Running, CacheOK, AtBoundary
  <1>8. TodoOK' /\ LeadsOn' /\ LastResortOK'
    BY <1>4 DEF TodoOK, LeadsOn, LastResortOK, AtBoundary
  <1>9. WordsMatchText'
    BY <1>1, <1>2, <1>5 DEF AllInv, BInv, WordsMatchText, vecs
  <1>10. NeverDisconnected'
    BY <1>1, <1>4 DEF AllInv, BInv, NeverDisconnected, Providers
  <1>11. QED
    BY <1>5, <1>6, <1>7, <1>8, <1>9, <1>10 DEF BInv

LEMMA FillPathInv ==
    ASSUME AllInv, FillPath
    PROVE  LatticeNext /\ BInv'
  <1>1. /\ pc = "path" /\ pc' = pc /\ result' = result
        /\ UNCHANGED <<dict, sentence, pipelined, match_cache, ch_off, provider>>
    BY DEF FillPath, locals
  <1>2. /\ LatticeNext /\ UNCHANGED vecs /\ size' = size
    BY DEF FillPath, FillStart, FillStep, LatticeNext
  <1>3. Length' = Length
    BY <1>1 DEF Length
  <1>4. BuilderTypeOK'
    BY <1>1 DEF AllInv, BInv, BuilderTypeOK
  <1>5. Running' /\ CacheOK'
    BY <1>1, <1>2, <1>3 DEF AllInv, BInv, Running, CacheOK, AtBoundary
  <1>6. TodoOK' /\ LeadsOn' /\ LastResortOK'
    BY <1>1 DEF TodoOK, LeadsOn, LastResortOK, AtBoundary
  <1>7. WordsMatchText'
    BY <1>1, <1>2, <1>3 DEF AllInv, BInv, WordsMatchText, vecs
  <1>8. NeverDisconnected'
    BY <1>1 DEF AllInv, BInv, NeverDisconnected, Providers
  <1>9. QED
    BY <1>2, <1>4, <1>5, <1>6, <1>7, <1>8 DEF BInv

----------------------------------------------------------------------------
(* Every step of the builder is one of the lattice or leaves it alone.     *)

LEMMA BuilderStep ==
    AllInv /\ [BuilderNext]_builder_vars => [LatticeNext]_lattice_vars /\ BInv'
  <1>1. SUFFICES ASSUME AllInv, [BuilderNext]_builder_vars
                 PROVE  [LatticeNext]_lattice_vars /\ BInv'
    OBVIOUS
  <1>2. CASE \E s \in Sentences, p \in BOOLEAN : Start(s, p)
    BY <1>1, <1>2, StartInv
  <1>3. CASE Skip
    BY <1>1, <1>3, SkipInv DEF Skip
  <1>4. CASE Enter
    BY <1>1, <1>4, EnterInv DEF Enter
  <1>5. CASE DropWord
    BY <1>1, <1>5, DropWordInv DEF DropWord
  <1>6. CASE InsertWord
    BY <1>1, <1>6, InsertWordInv DEF LatticeNext
  <1>7. CASE BeginOovs
    BY <1>1, <1>7, BeginOovsInv DEF BeginOovs
  <1>8. CASE AskProvider
    BY <1>1, <1>8, AskProviderInv DEF AskProvider
  <1>9. CASE ProviderFails
    BY <1>1, <1>9, ProviderFailsInv DEF ProviderFails
  <1>10. CASE InsertOov
    BY <1>1, <1>10, InsertOovInv DEF LatticeNext
  <1>11. CASE EndProvider
    BY <1>1, <1>11, EndProviderInv DEF EndProvider
  <1>12. CASE DeadEnd
    BY <1>1, <1>12, DeadEndInv DEF DeadEnd
  <1>13. CASE NextBoundary
    BY <1>1, <1>13, NextBoundaryInv DEF NextBoundary
  <1>14. CASE EndOfSentence
    BY <1>1, <1>14, EndOfSentenceInv
  <1>15. CASE FillPath
    BY <1>1, <1>15, FillPathInv
  <1>16. CASE PathFilled
    BY <1>1, <1>16, PathFilledInv DEF PathFilled
  <1>17. CASE UNCHANGED builder_vars
    <2>1. UNCHANGED <<lattice_vars, dict, sentence, pipelined, match_cache, ch_off,
                      created, provider, todo, pc, result>>
      BY <1>17 DEF builder_vars, locals
    <2>2. /\ HasLastResort' <=> HasLastResort
          /\ \A b : HasPreviousNode(b)' <=> HasPreviousNode(b)
          /\ OovsHere' = OovsHere /\ Length' = Length /\ Providers' = Providers
      BY <2>1 DEF HasLastResort, HasPreviousNode, OovsHere, Length, Providers,
                  lattice_vars, vecs
    <2>3. BuilderTypeOK' /\ Running' /\ CacheOK'
      BY <1>1, <2>1, <2>2
         DEF AllInv, BInv, BuilderTypeOK, Running, CacheOK, lattice_vars, vecs
    <2>4. TodoOK' /\ LeadsOn' /\ LastResortOK'
      BY <1>1, <2>1, <2>2 DEF AllInv, BInv, TodoOK, LeadsOn, LastResortOK
    <2>5. WordsMatchText' /\ NeverDisconnected'
      BY <1>1, <2>1, <2>2
         DEF AllInv, BInv, WordsMatchText, NeverDisconnected, lattice_vars, vecs
    <2>6. QED
      BY <2>1, <2>3, <2>4, <2>5 DEF BInv
  <1>18. QED
    BY <1>1, <1>2, <1>3, <1>4, <1>5, <1>6, <1>7, <1>8, <1>9, <1>10, <1>11, <1>12,
       <1>13, <1>14, <1>15, <1>16, <1>17 DEF BuilderNext, Step

LEMMA AllInvStep == AllInv /\ [BuilderNext]_builder_vars => AllInv'
  <1>1. SUFFICES ASSUME AllInv, [BuilderNext]_builder_vars PROVE AllInv'
    OBVIOUS
  <1>2. [LatticeNext]_lattice_vars /\ BInv'
    BY <1>1, BuilderStep
  <1>3. QED
    BY <1>1, <1>2, StepInv, TotalsStep DEF AllInv

LEMMA AllInvInit == BuilderInit => AllInv
  BY BuilderInitInv, InitInv, TotalsInit DEF AllInv, BuilderInit

LEMMA BuilderInvariance == BuilderSpec => []AllInv
  BY AllInvInit, AllInvStep, PTL DEF BuilderSpec

----------------------------------------------------------------------------
(* What a provider sees: the words that were inserted at the boundary.     *)

Here == {q \in Places : NodeOf(q).begin = ch_off}

\* The provider that was asked last.
AskedLast == Least(provider, Len(Providers))

\* The words at the boundary are counted in CreatedWords and are in the buffer.
NodesSeen ==
    /\ pc \in {"boundary"} \cup AtBoundary =>
           \A q \in Places : NodeOf(q).begin =< ch_off
    /\ pc = "boundary" => Here = {}
    /\ pc \in AtBoundary =>
           /\ node_buffer \in Seq(Nodes)
           /\ \A q \in Here :
                  /\ Single(NodeOf(q).end - ch_off) \subseteq created
                  /\ \E k \in DOMAIN node_buffer : node_buffer[k].end = NodeOf(q).end
    /\ pc = "words" => \A q \in Here : NodeOf(q).word > 0

\* What a provider gave is in the buffer; what a regex gave is new, and what the
\* simple provider gave is alone.
TodoSeen ==
    pc = "provided" =>
        /\ \A i \in DOMAIN todo :
               /\ todo[i].word = -AskedLast
               /\ \E k \in DOMAIN node_buffer : node_buffer[k].end = todo[i].end
        /\ Providers[AskedLast].kind = "regex" /\ todo # <<>> =>
               Len(todo) = 1 /\ \A q \in Here : NodeOf(q).end # Head(todo).end
        /\ Providers[AskedLast].kind = "simple" /\ todo # <<>> =>
               Len(todo) = 1 /\ Here = {}

\* Nothing comes after a word of the last resort.
FallbackLast ==
    pc \in AtBoundary /\ HasLastResort =>
        \A q \in Here : NodeOf(q).word = Last(Providers).id =>
            pc # "words" /\ todo = <<>> /\ provider >= Len(Providers)

SeesInv == NodesSeen /\ TodoSeen /\ FallbackLast /\ ProvidersSeeWords

\* A place is a place in a vector.
LEMMA PlaceFacts ==
    ASSUME IInv
    PROVE  \A q : q \in Places <=>
               /\ q = <<q[1], q[2]>> /\ q[1] \in DOMAIN ends_full
               /\ q[2] \in 1..Len(ends_full[q[1]])
  BY DEF Places

LEMMA PlacesNodes ==
    ASSUME IInv, NEW q \in Places
    PROVE  /\ NodeOf(q) \in Nodes /\ NodeOf(q).begin \in Nat /\ NodeOf(q).end \in Nat
           /\ size > 0 => NodeOf(q).end = q[1]
  <1>1. q[1] \in DOMAIN ends_full /\ q[2] \in 1..Len(ends_full[q[1]])
    BY PlaceFacts
  <1>2. ends_full[q[1]] \in Seq(Nodes)
    BY <1>1 DEF IInv, TypeOK
  <1>3. NodeOf(q) \in Nodes
    BY <1>1, <1>2 DEF NodeOf
  <1>4. ASSUME size > 0 PROVE NodeOf(q).end = q[1]
    <2>1. q[1] # 0 /\ q[1] \in DOMAIN ends
      BY <1>1, <1>2, <1>4 DEF IInv, Aligned, TypeOK
    <2>2. Len(ends[q[1]]) = Len(ends_full[q[1]])
      BY <1>4, <2>1 DEF IInv, Aligned
    <2>3. QED
      BY <1>1, <1>4, <2>1, <2>2 DEF IInv, BackPointers, NodeOf
  <1>5. QED
    BY <1>3, <1>4, NodesAssumption

\* An insertion adds one place, behind the others of its boundary.
LEMMA PlacesInsert ==
    ASSUME IInv, NEW node \in Nodes, InsertAllowed(node), Insert(node)
    PROVE  \E r : /\ r \notin Places /\ Places' = Places \cup {r}
                  /\ \A q \in Places : /\ NodeOf(q)' = NodeOf(q)
                                       /\ q[1] = r[1] => ~(r[2] < q[2])
                  /\ NodeOf(r)' = node /\ r[1] = node.end /\ ~(r[2] < r[2])
  <1> DEFINE e == node.end
             n == Len(ends_full[e])
  <1>0. PICK r : r = <<e, n + 1>>
    OBVIOUS
  <1>1. /\ e \in DOMAIN ends_full /\ ends_full[e] \in Seq(Nodes)
        /\ ends_full' = [ends_full EXCEPT ![e] = Append(ends_full[e], node)]
    BY InsertFacts
  <1>2. /\ n \in Nat /\ Len(ends_full'[e]) = n + 1 /\ ends_full'[e][n + 1] = node
        /\ \A k \in 1..n : ends_full'[e][k] = ends_full[e][k]
        /\ DOMAIN ends_full' = DOMAIN ends_full
    <2>1. /\ Len(Append(ends_full[e], node)) = n + 1
          /\ Append(ends_full[e], node)[n + 1] = node
          /\ \A k \in 1..n : Append(ends_full[e], node)[k] = ends_full[e][k]
      BY <1>1, AppendFacts
    <2>2. QED
      BY <1>1, <2>1
  <1>3. \A b \in DOMAIN ends_full : b # e => ends_full'[b] = ends_full[b]
    BY <1>1
  <1>4. \A q : q \in Places <=> /\ q = <<q[1], q[2]>> /\ q[1] \in DOMAIN ends_full
                                /\ q[2] \in 1..Len(ends_full[q[1]])
    BY PlaceFacts
  <1>5. \A q : q \in Places' <=> /\ q = <<q[1], q[2]>> /\ q[1] \in DOMAIN ends_full
                                 /\ q[2] \in 1..Len(ends_full'[q[1]])
    BY <1>2 DEF Places
  <1>6. r \notin Places
    BY <1>0, <1>2, <1>4
  <1>7. r \in Places'
    <2>1. /\ r = <<r[1], r[2]>> /\ r[1] = e /\ r[2] = n + 1
          /\ n + 1 \in 1..n + 1
      BY <1>0, <1>2
    <2>2. QED
      BY <1>1, <1>2, <1>5, <2>1
  <1>8. \A q \in Places : /\ NodeOf(q)' = NodeOf(q) /\ q \in Places'
                          /\ q[1] = e => ~(n + 1 < q[2])
    <2> TAKE q \in Places
    <2>1. /\ q = <<q[1], q[2]>> /\ q[1] \in DOMAIN ends_full
          /\ q[2] \in 1..Len(ends_full[q[1]])
      BY <1>4
    <2>2. CASE q[1] = e
      <3>1. q[2] \in 1..n /\ q[2] \in 1..n + 1 /\ ~(n + 1 < q[2])
        BY <1>2, <2>1, <2>2
      <3>2. QED
        BY <1>2, <1>5, <2>1, <2>2, <3>1 DEF NodeOf
    <2>3. CASE q[1] # e
      BY <1>3, <1>5, <2>1, <2>3 DEF NodeOf
    <2>4. QED
      BY <2>2, <2>3
  <1>9. \A q \in Places' : q \in Places \/ q = r
    <2> TAKE q \in Places'
    <2>1. /\ q = <<q[1], q[2]>> /\ q[1] \in DOMAIN ends_full
          /\ q[2] \in 1..Len(ends_full'[q[1]])
      BY <1>5
    <2>2. CASE q[1] = e
      <3>1. q[2] = n + 1 \/ q[2] \in 1..n
        BY <1>2, <2>1, <2>2
      <3>2. CASE q[2] = n + 1
        BY <1>0, <2>1, <2>2, <3>2
      <3>3. CASE q[2] \in 1..n
        BY <1>4, <2>1, <2>2, <3>3
      <3>4. QED
        BY <3>1, <3>2, <3>3
    <2>3. CASE q[1] # e
      BY <1>3, <1>4, <2>1, <2>3
    <2>4. QED
      BY <2>2, <2>3
  <1>10. NodeOf(r)' = node
    BY <1>0, <1>2 DEF NodeOf
  <1>11. Places' = Places \cup {r}
    BY <1>7, <1>8, <1>9
  <1>12. QED
    <2>1. r[1] = e /\ r[2] = n + 1 /\ ~(n + 1 < n + 1)
      BY <1>0, <1>2
    <2>2. QED
      BY <1>6, <1>8, <1>10, <1>11, <2>1

----------------------------------------------------------------------------
(* What providers give, of what they see.                                  *)

LEMMA SimpleIsAlone ==
    ASSUME NEW p, p.kind = "simple", NEW text, NEW cats, NEW off, NEW words,
           NEW buffer, Provide(p, text, cats, off, words, buffer) # <<>>
    PROVE  words = {} /\ Len(Provide(p, text, cats, off, words, buffer)) = 1
  BY DEF Provide, ProvideSimple

OneNewWord(given, off, words, buffer) ==
    \E n \in Nat :
        /\ Len(given) = 1 /\ given[1].end = off + n
        /\ \/ Single(n) \cap words = {}
           \/ \A i \in DOMAIN buffer : buffer[i].end # off + n

\* A regex gives one word, whose length CreatedWords does not have or, where it
\* cannot tell, no node of the buffer has.
LEMMA RegexIsNew ==
    ASSUME NEW d \in Dictionaries, NEW j \in DOMAIN d.providers,
           d.providers[j].kind = "regex", NEW text \in Sentences, NEW cats,
           NEW off \in Nat, off < Len(text), NEW words, NEW buffer,
           NEW given, given # <<>>,
           given = Provide(d.providers[j], text, cats, off, words, buffer)
    PROVE  OneNewWord(given, off, words, buffer)
  <1> DEFINE p == d.providers[j]
             w == Window(p, text, off)
             m == CHOOSE m \in Find(p, w) : TRUE
             Taken(n) ==
                 CASE HasWord(words, n) = "Yes" -> TRUE
                   [] HasWord(words, n) = "No" -> FALSE
                   [] OTHER -> \E i \in DOMAIN buffer : buffer[i].end = off + n
  <1>0. p.kind = "regex" /\ p.min \in Nat /\ p.min > 0 /\ p.maxLength \in Nat
    BY DictionariesAssumption DEF IsProvider
  <1>1. given = ProvideRegex(p, text, cats, off, words, buffer)
    BY <1>0 DEF Provide
  <1> HIDE DEF p
  <1>2. /\ \E k \in Find(p, w) : k.start = 0 /\ ~Taken(k.length)
        /\ given = <<OovNode(off, m.length, p, p.id)>>
    BY <1>1 DEF ProvideRegex
  <1>3. \A k, l \in Find(p, w) : k = l
    BY DEF Find
  <1>4. m \in Find(p, w) /\ ~Taken(m.length)
    <2> HIDE DEF Taken, w
    <2> QED BY <1>2, <1>3
  <1>5. m.length \in Nat
    <2>1. w \in Seq(DOMAIN Cat)
      BY <1>0, WindowRange
    <2> HIDE DEF w, m
    <2>2. m.length \in 1..Len(w)
      BY <1>0, <1>4, <2>1, FindRange
    <2>3. QED
      BY <2>2
  <1>6. \/ Single(m.length) \cap words = {}
        \/ \A i \in DOMAIN buffer : buffer[i].end # off + m.length
    <2> HIDE DEF m
    <2> QED BY <1>4 DEF HasWord
  <1>7. Len(given) = 1 /\ given[1].end = off + m.length
    <2> HIDE DEF m
    <2> QED BY <1>2 DEF OovNode
  <1>8. QED
    <2> HIDE DEF m
    <2> QED BY <1>5, <1>6, <1>7 DEF OneNewWord

----------------------------------------------------------------------------
(* The steps.                                                              *)

LEMMA KeptSees ==
    ASSUME UNCHANGED <<ends_full, dict>>
    PROVE  /\ Places' = Places /\ \A q : NodeOf(q)' = NodeOf(q)
           /\ Providers' = Providers /\ (HasLastResort' <=> HasLastResort)
           /\ ProvidersSeeWords => ProvidersSeeWords'
  <1>1. Places' = Places /\ Providers' = Providers
    BY DEF Places, Providers
  <1>2. \A q : NodeOf(q)' = NodeOf(q)
    BY DEF NodeOf
  <1>3. \A n, kind : ByKind(n, kind)' <=> ByKind(n, kind)
    BY <1>1 DEF ByKind
  <1>4. RegexAddsNewLength => RegexAddsNewLength'
    BY <1>1, <1>2, <1>3 DEF RegexAddsNewLength
  <1>5. SimpleOnlyAlone => SimpleOnlyAlone'
    BY <1>1, <1>2 DEF SimpleOnlyAlone
  <1>6. QED
    BY <1>1, <1>2, <1>4, <1>5 DEF ProvidersSeeWords, HasLastResort

\* The steps that go on to the next boundary.
LEMMA AdvanceSees ==
    ASSUME AllInv, SeesInv, pc \in {"boundary"} \cup AtBoundary, pc' = "boundary",
           ch_off' = ch_off + 1, UNCHANGED <<ends_full, dict>>
    PROVE  SeesInv'
  <1>1. /\ Places' = Places /\ \A q : NodeOf(q)' = NodeOf(q)
        /\ ProvidersSeeWords'
    BY KeptSees DEF SeesInv
  <1>2. ch_off \in Nat
    BY DEF AllInv, BInv, BuilderTypeOK
  <1>3. ASSUME NEW q \in Places PROVE NodeOf(q).begin =< ch_off /\ NodeOf(q).begin \in Nat
    BY PlacesNodes DEF AllInv, SeesInv, NodesSeen
  <1>4. \A q \in Places : NodeOf(q).begin =< ch_off + 1 /\ NodeOf(q).begin # ch_off + 1
    BY <1>2, <1>3
  <1>5. Here' = {}
    BY <1>1, <1>4 DEF Here
  <1>6. NodesSeen'
    BY <1>1, <1>4, <1>5 DEF NodesSeen, AtBoundary
  <1>7. TodoSeen' /\ FallbackLast'
    BY DEF TodoSeen, FallbackLast, AtBoundary
  <1>8. QED
    BY <1>1, <1>6, <1>7 DEF SeesInv

\* The steps that end the search for words.
LEMMA StopSees ==
    ASSUME SeesInv, pc' \in {"idle", "path"}, UNCHANGED <<ends_full, dict>>
    PROVE  SeesInv'
  <1>1. ProvidersSeeWords'
    BY KeptSees DEF SeesInv
  <1>2. QED
    BY <1>1 DEF SeesInv, NodesSeen, TodoSeen, FallbackLast, AtBoundary

LEMMA EnterSees ==
    ASSUME AllInv, SeesInv, Enter
    PROVE  SeesInv'
  <1>1. /\ pc = "boundary" /\ pc' = "words" /\ ch_off' = ch_off
        /\ node_buffer' = <<>> /\ UNCHANGED <<ends_full, dict>>
    BY DEF Enter, lattice_vars, vecs
  <1>2. /\ Places' = Places /\ \A q : NodeOf(q)' = NodeOf(q)
        /\ ProvidersSeeWords'
    BY <1>1, KeptSees DEF SeesInv
  <1>3. Here' = {}
    BY <1>1, <1>2 DEF SeesInv, NodesSeen, Here
  <1>4. \A q \in Places' : NodeOf(q)'.begin =< ch_off'
    BY <1>1, <1>2 DEF SeesInv, NodesSeen
  <1>5. NodesSeen'
    BY <1>1, <1>3, <1>4 DEF NodesSeen, AtBoundary
  <1>6. TodoSeen' /\ FallbackLast'
    BY <1>1, <1>3 DEF TodoSeen, FallbackLast
  <1>7. QED
    BY <1>2, <1>5, <1>6 DEF SeesInv

\* The steps that stay at the boundary and insert nothing, but AskProvider.
LEMMA StaySees ==
    ASSUME SeesInv, pc \in AtBoundary, pc' \in AtBoundary \ {"provided"},
           pc' = "words" => pc = "words",
           UNCHANGED <<ends_full, dict, ch_off, created, node_buffer>>,
           FallbackLast'
    PROVE  SeesInv'
  <1>1. /\ Places' = Places /\ \A q : NodeOf(q)' = NodeOf(q)
        /\ ProvidersSeeWords'
    BY KeptSees DEF SeesInv
  <1>2. Here' = Here
    BY <1>1 DEF Here
  <1>3. NodesSeen'
    BY <1>1, <1>2 DEF SeesInv, NodesSeen, AtBoundary
  <1>4. TodoSeen'
    BY DEF TodoSeen
  <1>5. QED
    BY <1>1, <1>3, <1>4 DEF SeesInv

\* Among the words of the lexicon there is none of a provider.
LEMMA WordsAreNoFallback ==
    ASSUME BInv, SeesInv, pc = "words", NEW q \in Here
    PROVE  NodeOf(q).word # Last(Providers).id
  <1>1. NodeOf(q).word > 0
    BY DEF SeesInv, NodesSeen
  <1>2. Last(Providers).id < 0 /\ Last(Providers).id \in Int
    BY ProviderFacts
  <1>3. QED
    BY <1>1, <1>2

LEMMA DropWordSees ==
    ASSUME AllInv, SeesInv, DropWord
    PROVE  SeesInv'
  <1>1. /\ pc = "words" /\ pc' = pc
        /\ UNCHANGED <<ends_full, dict, ch_off, created, node_buffer>>
    BY DEF DropWord, lattice_vars, vecs
  <1>2. /\ Here' = Here /\ \A q : NodeOf(q)' = NodeOf(q) /\ Providers' = Providers
    BY <1>1, KeptSees DEF Here
  <1>3. FallbackLast'
    BY <1>1, <1>2, WordsAreNoFallback DEF FallbackLast, AllInv
  <1>4. QED
    BY <1>1, <1>3, StaySees DEF AtBoundary

LEMMA BeginOovsSees ==
    ASSUME AllInv, SeesInv, BeginOovs
    PROVE  SeesInv'
  <1>1. /\ pc = "words" /\ pc' = "providers"
        /\ UNCHANGED <<ends_full, dict, ch_off, created, node_buffer>>
    BY DEF BeginOovs, lattice_vars, vecs
  <1>2. /\ Here' = Here /\ \A q : NodeOf(q)' = NodeOf(q) /\ Providers' = Providers
    BY <1>1, KeptSees DEF Here
  <1>3. FallbackLast'
    BY <1>1, <1>2, WordsAreNoFallback DEF FallbackLast, AllInv
  <1>4. QED
    BY <1>1, <1>3, StaySees DEF AtBoundary

LEMMA EndProviderSees ==
    ASSUME AllInv, SeesInv, EndProvider
    PROVE  SeesInv'
  <1>1. /\ pc = "provided" /\ pc' = "providers" /\ todo' = todo
        /\ provider' = provider
        /\ UNCHANGED <<ends_full, dict, ch_off, created, node_buffer>>
    BY DEF EndProvider, lattice_vars, vecs, locals
  <1>2. /\ Here' = Here /\ \A q : NodeOf(q)' = NodeOf(q) /\ Providers' = Providers
    BY <1>1, KeptSees DEF Here
  <1>3. FallbackLast'
    BY <1>1, <1>2 DEF SeesInv, FallbackLast, HasLastResort, AtBoundary
  <1>4. QED
    BY <1>1, <1>3, StaySees DEF AtBoundary

LEMMA JoinFacts ==
    ASSUME NEW X, NEW s \in Seq(X), NEW t \in Seq(X)
    PROVE  /\ s \o t \in Seq(X) /\ DOMAIN (s \o t) = 1..Len(s) + Len(t)
           /\ \A k \in 1..Len(s) : (s \o t)[k] = s[k]
           /\ \A k \in 1..Len(t) : (s \o t)[Len(s) + k] = t[k]
           /\ DOMAIN s = 1..Len(s) /\ Len(s) \in Nat
  OBVIOUS

\* Which provider is asked: the next one, or the last one again.
LEMMA AskedIs ==
    ASSUME BInv, NEW p \in Asked, provider' = provider + 1, dict' = dict
    PROVE  /\ AskedLast' \in DOMAIN Providers /\ p = Providers[AskedLast']
           /\ p.id = -AskedLast'
           /\ provider + 1 =< Len(Providers) \/ created = {}
  <1>1. Len(Providers) \in Nat \ {0} /\ DOMAIN Providers = 1..Len(Providers)
        /\ Last(Providers) = Providers[Len(Providers)] /\ Providers' = Providers
    BY ProviderFacts DEF Providers
  <1>2. provider \in Nat /\ dict \in Dictionaries
    BY DEF BInv, BuilderTypeOK
  <1>3. AskedLast' = IF provider + 1 =< Len(Providers) THEN provider + 1
                     ELSE Len(Providers)
    BY <1>1 DEF AskedLast, Least
  <1>4. AskedLast' \in DOMAIN Providers /\ p = Providers[AskedLast']
        /\ (provider + 1 =< Len(Providers) \/ created = {})
    BY <1>1, <1>2, <1>3 DEF Asked
  <1>5. \A j \in DOMAIN Providers : Providers[j].id = -j
    BY <1>2, DictionariesAssumption DEF Providers
  <1>6. QED
    BY <1>4, <1>5

\* A word at the boundary has a bit of CreatedWords.
LEMMA CreatedHere ==
    ASSUME SeesInv, pc \in AtBoundary, NEW q \in Here
    PROVE  created # {}
  <1>1. Single(NodeOf(q).end - ch_off) \subseteq created
    BY DEF SeesInv, NodesSeen
  <1>2. QED
    BY <1>1 DEF Single

LEMMA AskProviderSees ==
    ASSUME AllInv, SeesInv, AskProvider
    PROVE  SeesInv'
  <1>1. PICK p \in Asked :
            /\ todo' = Provide(p, sentence, Cats, ch_off, created, node_buffer)
            /\ node_buffer' = node_buffer \o todo'
    BY DEF AskProvider
  <1>2. /\ pc = "providers" /\ pc' = "provided" /\ provider' = provider + 1
        /\ UNCHANGED <<ends_full, dict, ch_off, created>>
    BY DEF AskProvider, lattice_vars, vecs
  <1>3. /\ Places' = Places /\ \A q : NodeOf(q)' = NodeOf(q)
        /\ Providers' = Providers /\ ProvidersSeeWords'
    BY <1>2, KeptSees DEF SeesInv
  <1>4. Here' = Here
    BY <1>2, <1>3 DEF Here
  <1>5. /\ AskedLast' \in DOMAIN Providers /\ p = Providers[AskedLast']
        /\ p.id = -AskedLast'
        /\ provider + 1 =< Len(Providers) \/ created = {}
    BY <1>2, AskedIs DEF AllInv
  <1>6. /\ Length \in Nat /\ Len(Cats) = Length /\ sentence \in Sentences
        /\ ch_off \in Nat /\ ch_off < Length /\ dict \in Dictionaries
    BY <1>2, TextFacts DEF AtBoundary, AllInv, BInv, Running, BuilderTypeOK
  <1> DEFINE X == OovsAt(p.id, ch_off, Length)
  <1>7. todo' \in Seq(X)
    BY <1>1, <1>5, <1>6, ProvideRange DEF Providers, Length
  <1>8. X \subseteq Nodes /\ \A n \in X : n.word = -AskedLast'
    BY <1>5 DEF OovsAt
  <1>9. node_buffer \in Seq(Nodes)
    BY <1>2 DEF SeesInv, NodesSeen, AtBoundary
  <1>10. /\ todo' \in Seq(Nodes) /\ DOMAIN todo' = 1..Len(todo')
         /\ Len(todo') \in Nat
         /\ \A i \in DOMAIN todo' : todo'[i].word = -AskedLast'
    <2> HIDE DEF X
    <2>1. todo' \in Seq(Nodes) /\ DOMAIN todo' = 1..Len(todo') /\ Len(todo') \in Nat
      BY <1>7, <1>8
    <2>2. \A i \in DOMAIN todo' : todo'[i] \in X
      BY <1>7
    <2>3. QED
      BY <1>8, <2>1, <2>2
  <1>11. /\ node_buffer' \in Seq(Nodes)
         /\ \A k \in DOMAIN node_buffer :
                k \in DOMAIN node_buffer' /\ node_buffer'[k] = node_buffer[k]
         /\ \A i \in DOMAIN todo' :
                \E k \in DOMAIN node_buffer' : node_buffer'[k] = todo'[i]
    <2>1. /\ node_buffer' \in Seq(Nodes)
          /\ DOMAIN node_buffer' = 1..Len(node_buffer) + Len(todo')
          /\ \A k \in 1..Len(node_buffer) : node_buffer'[k] = node_buffer[k]
          /\ \A i \in 1..Len(todo') : node_buffer'[Len(node_buffer) + i] = todo'[i]
          /\ DOMAIN node_buffer = 1..Len(node_buffer) /\ Len(node_buffer) \in Nat
      BY <1>1, <1>9, <1>10, JoinFacts
    <2>2. \A i \in 1..Len(todo') : Len(node_buffer) + i \in DOMAIN node_buffer'
      BY <1>10, <2>1
    <2>3. QED
      BY <1>10, <2>1, <2>2
  <1> HIDE DEF X
  <1>12. NodesSeen'
    <2>1. \A q \in Here : \E k \in DOMAIN node_buffer' :
                              node_buffer'[k].end = NodeOf(q).end
      BY <1>2, <1>11 DEF SeesInv, NodesSeen, AtBoundary
    <2>2. QED
      BY <1>2, <1>3, <1>4, <1>11, <2>1 DEF SeesInv, NodesSeen, AtBoundary
  <1>13. TodoSeen'
    <2>1. \A i \in DOMAIN todo' : \E k \in DOMAIN node_buffer' :
                                      node_buffer'[k].end = todo'[i].end
      BY <1>11
    <2>2. ASSUME p.kind = "regex", todo' # <<>>
          PROVE  Len(todo') = 1 /\ \A q \in Here : NodeOf(q).end # Head(todo').end
      <3>1. PICK n \in Nat :
                /\ Len(todo') = 1 /\ todo'[1].end = ch_off + n
                /\ \/ Single(n) \cap created = {}
                   \/ \A i \in DOMAIN node_buffer : node_buffer[i].end # ch_off + n
        <4>1. PICK j \in DOMAIN dict.providers : p = dict.providers[j]
          BY <1>5 DEF Providers
        <4>2. ch_off < Len(sentence)
          BY <1>6 DEF Length
        <4>3. /\ dict.providers[j].kind = "regex"
              /\ todo' = Provide(dict.providers[j], sentence, Cats, ch_off, created,
                                 node_buffer)
          BY <1>1, <2>2, <4>1
        <4>4. OneNewWord(todo', ch_off, created, node_buffer)
          BY <1>6, <2>2, <4>2, <4>3, RegexIsNew
        <4>5. QED
          BY <4>4 DEF OneNewWord
      <3>2. Head(todo') = todo'[1]
        BY <1>10, <2>2
      <3>3. ASSUME NEW q \in Here, NodeOf(q).end = ch_off + n PROVE FALSE
        <4>1. /\ Single(NodeOf(q).end - ch_off) \subseteq created
              /\ \E k \in DOMAIN node_buffer : node_buffer[k].end = NodeOf(q).end
          BY <1>2 DEF SeesInv, NodesSeen, AtBoundary
        <4>2. Single(n) \cap created = {}
          BY <3>1, <3>3, <4>1
        <4>3. NodeOf(q).end - ch_off = n
          BY <1>6, <3>1, <3>3
        <4>4. QED
          BY <4>1, <4>2, <4>3 DEF Single
      <3>4. QED
        BY <3>1, <3>2, <3>3
    <2>3. ASSUME p.kind = "simple", todo' # <<>>
          PROVE  Len(todo') = 1 /\ Here = {}
      <3>1. created = {} /\ Len(todo') = 1
        BY <1>1, <2>3, SimpleIsAlone
      <3>2. QED
        BY <1>2, <3>1, CreatedHere DEF AtBoundary
    <2>4. QED
      BY <1>3, <1>4, <1>5, <1>10, <2>1, <2>2, <2>3 DEF TodoSeen
  <1>14. FallbackLast'
    <2>1. ASSUME HasLastResort, NEW q \in Here, NodeOf(q).word = Last(Providers).id
          PROVE  FALSE
      <3>1. provider >= Len(Providers)
        BY <1>2, <2>1 DEF SeesInv, FallbackLast, AtBoundary
      <3>2. created # {}
        BY <1>2, CreatedHere DEF AtBoundary
      <3>3. provider \in Nat /\ Len(Providers) \in Nat
        BY ProviderFacts DEF AllInv, BInv, BuilderTypeOK
      <3>4. QED
        BY <1>5, <3>1, <3>2, <3>3
    <2>2. QED
      BY <1>3, <1>4, <2>1 DEF FallbackLast, HasLastResort
  <1>15. QED
    BY <1>3, <1>12, <1>13, <1>14 DEF SeesInv

\* An insertion at the boundary: the node is behind those that are there, and it
\* has a length of its own if it is a regex's and is alone if it is the last
\* resort's.
LEMMA InsertSees ==
    ASSUME AllInv, SeesInv, pc \in AtBoundary \ {"providers"}, pc' = pc, todo # <<>>,
           NEW node \in Nodes, node.begin = ch_off, InsertAllowed(node), Insert(node),
           UNCHANGED <<dict, ch_off>>,
           created' = created \cup Single(node.end - ch_off),
           node_buffer' \in Seq(Nodes),
           \A k \in DOMAIN node_buffer :
               k \in DOMAIN node_buffer' /\ node_buffer'[k] = node_buffer[k],
           \E k \in DOMAIN node_buffer' : node_buffer'[k].end = node.end,
           pc = "words" => node.word > 0,
           ByKind(node, "regex") => \A q \in Here : NodeOf(q).end # node.end,
           HasLastResort /\ node.word = Last(Providers).id => Here = {}
    PROVE  /\ NodesSeen' /\ ProvidersSeeWords'
           /\ \E r : /\ Here' = Here \cup {r} /\ NodeOf(r)' = node
                     /\ \A q \in Here : NodeOf(q)' = NodeOf(q)
  <1>1. PICK r : /\ r \notin Places /\ Places' = Places \cup {r}
                 /\ \A q \in Places : /\ NodeOf(q)' = NodeOf(q)
                                      /\ q[1] = r[1] => ~(r[2] < q[2])
                 /\ NodeOf(r)' = node /\ r[1] = node.end /\ ~(r[2] < r[2])
    BY PlacesInsert DEF AllInv
  <1>2. Here' = Here \cup {r} /\ \A q \in Here : NodeOf(q)' = NodeOf(q)
    BY <1>1 DEF Here
  <1>3. ch_off \in Nat
    BY DEF AllInv, BInv, BuilderTypeOK
  <1>4. NodesSeen'
    <2>1. \A q \in Places' : NodeOf(q)'.begin =< ch_off
      BY <1>1, <1>3 DEF SeesInv, NodesSeen
    <2>2. \A q \in Here' :
              /\ Single(NodeOf(q)'.end - ch_off) \subseteq created'
              /\ \E k \in DOMAIN node_buffer' : node_buffer'[k].end = NodeOf(q)'.end
      <3> TAKE q \in Here'
      <3>1. CASE q \in Here
        <4>1. /\ Single(NodeOf(q).end - ch_off) \subseteq created
              /\ \E k \in DOMAIN node_buffer : node_buffer[k].end = NodeOf(q).end
          BY <3>1 DEF SeesInv, NodesSeen
        <4>2. QED
          BY <1>2, <3>1, <4>1
      <3>2. CASE q = r
        BY <1>1, <3>2
      <3>3. QED
        BY <1>2, <3>1, <3>2
    <2>3. pc = "words" => \A q \in Here' : NodeOf(q)'.word > 0
      BY <1>1, <1>2 DEF SeesInv, NodesSeen
    <2>4. QED
      BY <2>1, <2>2, <2>3 DEF NodesSeen, AtBoundary
  <1>5. Providers' = Providers /\ \A n, kind : ByKind(n, kind)' <=> ByKind(n, kind)
    BY DEF Providers, ByKind
  <1>6. RegexAddsNewLength'
    <2>1. SUFFICES ASSUME NEW p \in Places', NEW q \in Places', p[1] = q[1],
                          p[2] < q[2], ByKind(NodeOf(q)', "regex")
                   PROVE  NodeOf(p)'.begin # NodeOf(q)'.begin
      BY <1>5 DEF RegexAddsNewLength
    <2>2. p \in Places
      <3>1. SUFFICES ASSUME p = r PROVE FALSE
        BY <1>1
      <3>2. q = r \/ q \in Places
        BY <1>1
      <3>3. QED
        BY <1>1, <2>1, <3>1, <3>2
    <2>3. CASE q \in Places
      BY <1>1, <2>1, <2>2, <2>3 DEF SeesInv, ProvidersSeeWords, RegexAddsNewLength
    <2>4. CASE q = r
      <3>1. p \notin Here \/ NodeOf(p).end # node.end
        BY <1>1, <2>1, <2>4
      <3>2. NodeOf(p).end = p[1]
        BY <2>2, PlacesNodes DEF AllInv, InsertAllowed
      <3>3. QED
        BY <1>1, <2>1, <2>2, <2>4, <3>1, <3>2 DEF Here
    <2>5. QED
      BY <1>1, <2>3, <2>4
  <1>7. SimpleOnlyAlone'
    <2>1. SUFFICES ASSUME HasLastResort, NEW p \in Places', NEW q \in Places', p # q,
                          NodeOf(p)'.begin = NodeOf(q)'.begin,
                          NodeOf(p)'.word = Last(Providers).id
                   PROVE  FALSE
      BY <1>5 DEF SimpleOnlyAlone, HasLastResort
    <2>2. ASSUME NEW x \in Here PROVE NodeOf(x).word # Last(Providers).id
      BY <2>1, <2>2 DEF SeesInv, FallbackLast, AtBoundary
    <2>3. CASE p \in Places /\ q \in Places
      BY <1>1, <2>1, <2>3 DEF SeesInv, ProvidersSeeWords, SimpleOnlyAlone, HasLastResort
    <2>4. CASE p = r
      <3>1. q \in Here
        BY <1>1, <2>1, <2>4 DEF Here
      <3>2. QED
        BY <1>1, <2>1, <2>4, <3>1
    <2>5. CASE q = r
      <3>1. p \in Here
        BY <1>1, <2>1, <2>5 DEF Here
      <3>2. QED
        BY <1>1, <2>1, <2>2, <3>1
    <2>6. QED
      BY <1>1, <2>3, <2>4, <2>5
  <1>8. QED
    BY <1>1, <1>2, <1>4, <1>6, <1>7 DEF ProvidersSeeWords

LEMMA InsertWordSees ==
    ASSUME AllInv, SeesInv, InsertWord
    PROVE  SeesInv'
  <1> DEFINE node == WordNode(Head(todo))
  <1>1. /\ node \in Nodes /\ node.begin = ch_off /\ node.word \in Nat \ {0}
        /\ InsertAllowed(node) /\ Insert(node)
    BY InsertWordInv DEF InsertNode
  <1>2. /\ pc = "words" /\ pc' = pc /\ todo # <<>> /\ UNCHANGED <<dict, ch_off>>
        /\ created' = created \cup Single(node.end - ch_off)
        /\ node_buffer' = Append(node_buffer, node)
    BY DEF InsertWord, WordNode
  <1> HIDE DEF node
  <1>3. node_buffer \in Seq(Nodes)
    BY <1>2 DEF SeesInv, NodesSeen, AtBoundary
  <1>4. /\ node_buffer' \in Seq(Nodes)
        /\ \A k \in DOMAIN node_buffer :
               k \in DOMAIN node_buffer' /\ node_buffer'[k] = node_buffer[k]
        /\ \E k \in DOMAIN node_buffer' : node_buffer'[k].end = node.end
    BY <1>1, <1>2, <1>3
  <1>5. /\ Last(Providers).id < 0 /\ Last(Providers).id \in Int
        /\ Providers' = Providers
    BY <1>2, ProviderFacts DEF AllInv, Providers
  <1>6. ~ByKind(node, "regex") /\ node.word # Last(Providers).id
    BY <1>1, <1>5 DEF ByKind
  <1>7. NodesSeen' /\ ProvidersSeeWords'
    BY <1>1, <1>2, <1>4, <1>6, InsertSees DEF AtBoundary
  <1>8. TodoSeen' /\ FallbackLast'
    <2>1. \A q \in Here' : NodeOf(q)'.word > 0
      BY <1>2, <1>7 DEF NodesSeen
    <2>2. \A q \in Here' : NodeOf(q)'.word # Last(Providers).id
      BY <1>5, <2>1
    <2>3. QED
      BY <1>2, <1>5, <2>2 DEF TodoSeen, FallbackLast
  <1>9. QED
    BY <1>7, <1>8 DEF SeesInv

LEMMA InsertOovSees ==
    ASSUME AllInv, SeesInv, InsertOov
    PROVE  SeesInv'
  <1> DEFINE node == Head(todo)
  <1>1. /\ node \in Nodes /\ node.begin = ch_off
        /\ InsertAllowed(node) /\ Insert(node)
    BY InsertOovInv DEF InsertNode
  <1>2. /\ pc = "provided" /\ pc' = pc /\ todo # <<>>
        /\ UNCHANGED <<dict, ch_off, provider, node_buffer>>
        /\ created' = created \cup Single(node.end - ch_off)
        /\ todo' = Tail(todo)
    BY <1>1 DEF InsertOov
  <1>3. /\ node = todo[1] /\ DOMAIN todo = 1..Len(todo) /\ Len(todo) \in Nat
        /\ 1 \in DOMAIN todo /\ Len(todo') = Len(todo) - 1
        /\ DOMAIN todo' = 1..Len(todo')
        /\ \A i \in DOMAIN todo' : i + 1 \in DOMAIN todo /\ todo'[i] = todo[i + 1]
        /\ Len(todo) = 1 => todo' = <<>>
    <2>1. todo \in Seq(OovsHere)
      BY <1>2 DEF AllInv, BInv, TodoOK
    <2>2. QED
      BY <1>2, <2>1
  <1> HIDE DEF node
  <1>4. /\ node_buffer' \in Seq(Nodes)
        /\ \A k \in DOMAIN node_buffer :
               k \in DOMAIN node_buffer' /\ node_buffer'[k] = node_buffer[k]
        /\ \E k \in DOMAIN node_buffer' : node_buffer'[k].end = node.end
    BY <1>2, <1>3 DEF SeesInv, NodesSeen, TodoSeen, AtBoundary
  <1>5. /\ AskedLast \in Nat /\ node.word = -AskedLast /\ -node.word = AskedLast
        /\ Providers' = Providers /\ AskedLast' = AskedLast
        /\ Len(Providers) \in Nat /\ provider \in Nat
        /\ Last(Providers).id = -Len(Providers)
        /\ Last(Providers) = Providers[Len(Providers)]
    <2>1. /\ Len(Providers) \in Nat \ {0} /\ DOMAIN Providers = 1..Len(Providers)
          /\ Last(Providers) = Providers[Len(Providers)]
      BY ProviderFacts DEF AllInv
    <2>2. provider \in Nat /\ dict \in Dictionaries
      BY DEF AllInv, BInv, BuilderTypeOK
    <2>3. AskedLast \in Nat
      BY <2>1, <2>2 DEF AskedLast, Least
    <2>4. node.word = -AskedLast
      BY <1>2, <1>3 DEF SeesInv, TodoSeen
    <2>5. Providers' = Providers /\ AskedLast' = AskedLast
      BY <1>2 DEF Providers, AskedLast
    <2>6. \A j \in DOMAIN Providers : Providers[j].id = -j
      BY <2>2, DictionariesAssumption DEF Providers
    <2>7. Last(Providers).id = -Len(Providers)
      BY <2>1, <2>6
    <2>8. -node.word = AskedLast
      BY <2>3, <2>4
    <2>9. QED
      BY <2>1, <2>2, <2>3, <2>4, <2>5, <2>7, <2>8
  <1>6. ByKind(node, "regex") => \A q \in Here : NodeOf(q).end # node.end
    BY <1>2, <1>3, <1>5 DEF ByKind, SeesInv, TodoSeen, node
  <1>7. HasLastResort /\ node.word = Last(Providers).id =>
            /\ Here = {} /\ todo' = <<>> /\ provider >= Len(Providers)
    <2>1. SUFFICES ASSUME HasLastResort, node.word = Last(Providers).id
                   PROVE  Here = {} /\ todo' = <<>> /\ provider >= Len(Providers)
      OBVIOUS
    <2>2. AskedLast = Len(Providers)
      BY <1>5, <2>1
    <2>3. provider >= Len(Providers)
      BY <1>5, <2>2 DEF AskedLast, Least
    <2>4. Here = {} /\ Len(todo) = 1
      BY <1>2, <1>5, <2>1, <2>2 DEF HasLastResort, SeesInv, TodoSeen
    <2>5. QED
      BY <1>3, <2>3, <2>4
  <1>8. /\ NodesSeen' /\ ProvidersSeeWords'
        /\ \E r : /\ Here' = Here \cup {r} /\ NodeOf(r)' = node
                  /\ \A q \in Here : NodeOf(q)' = NodeOf(q)
    BY <1>1, <1>2, <1>4, <1>6, <1>7, InsertSees DEF AtBoundary
  <1>9. TodoSeen'
    <2>1. \A i \in DOMAIN todo' :
              /\ todo'[i].word = -AskedLast
              /\ \E k \in DOMAIN node_buffer' : node_buffer'[k].end = todo'[i].end
      <3>1. \A i \in DOMAIN todo :
                /\ todo[i].word = -AskedLast
                /\ \E k \in DOMAIN node_buffer : node_buffer[k].end = todo[i].end
        BY <1>2 DEF SeesInv, TodoSeen
      <3>2. QED
        BY <1>2, <1>3, <3>1
    <2>2. Providers[AskedLast].kind \in {"regex", "simple"} => todo' = <<>>
      BY <1>2, <1>3 DEF SeesInv, TodoSeen
    <2>3. QED
      BY <1>5, <2>1, <2>2 DEF TodoSeen
  <1>10. FallbackLast'
    <2>1. HasLastResort => \A q \in Here : NodeOf(q).word # Last(Providers).id
      BY <1>2 DEF SeesInv, FallbackLast, AtBoundary
    <2>2. HasLastResort => \A q \in Here' : NodeOf(q)'.word = Last(Providers).id =>
                               todo' = <<>> /\ provider >= Len(Providers)
      BY <1>7, <1>8, <2>1
    <2>3. QED
      BY <1>2, <1>5, <2>2 DEF FallbackLast, HasLastResort
  <1>11. QED
    BY <1>8, <1>9, <1>10 DEF SeesInv

LEMMA StartSees ==
    ASSUME NEW s, NEW p, Start(s, p)
    PROVE  SeesInv'
  <1>1. pc' = "boundary" /\ ends_full' = Cleared(ends_full, Len(s) + 1)
    BY DEF Start, Reset
  <1>2. Places' = {}
    <2>1. \A b \in DOMAIN ends_full' : ends_full'[b] = <<>>
      BY <1>1 DEF Cleared
    <2>2. \A b \in DOMAIN ends_full' : 1..Len(ends_full'[b]) = {}
      BY <2>1
    <2>3. QED
      BY <2>2 DEF Places
  <1>3. Here' = {}
    BY <1>2 DEF Here
  <1>4. NodesSeen' /\ TodoSeen' /\ FallbackLast'
    BY <1>1, <1>2, <1>3 DEF NodesSeen, TodoSeen, FallbackLast, AtBoundary
  <1>5. ProvidersSeeWords'
    BY <1>2 DEF ProvidersSeeWords, RegexAddsNewLength, SimpleOnlyAlone
  <1>6. QED
    BY <1>4, <1>5 DEF SeesInv

LEMMA SeesInit == BuilderInit => SeesInv
  <1>1. SUFFICES ASSUME BuilderInit PROVE SeesInv
    OBVIOUS
  <1>2. pc = "idle" /\ ends_full = <<>>
    BY <1>1 DEF BuilderInit, LatticeInit
  <1>3. Places = {}
    BY <1>2 DEF Places
  <1>4. NodesSeen /\ TodoSeen /\ FallbackLast
    BY <1>2 DEF NodesSeen, TodoSeen, FallbackLast, AtBoundary
  <1>5. ProvidersSeeWords
    BY <1>3 DEF ProvidersSeeWords, RegexAddsNewLength, SimpleOnlyAlone
  <1>6. QED
    BY <1>4, <1>5 DEF SeesInv

LEMMA SeesStep == AllInv /\ SeesInv /\ [BuilderNext]_builder_vars => SeesInv'
  <1>1. SUFFICES ASSUME AllInv, SeesInv, [BuilderNext]_builder_vars PROVE SeesInv'
    OBVIOUS
  <1>2. CASE \E s \in Sentences, p \in BOOLEAN : Start(s, p)
    BY <1>2, StartSees
  <1>3. CASE Skip
    BY <1>1, <1>3, AdvanceSees DEF Skip, lattice_vars, vecs
  <1>4. CASE Enter
    BY <1>1, <1>4, EnterSees
  <1>5. CASE DropWord
    BY <1>1, <1>5, DropWordSees
  <1>6. CASE InsertWord
    BY <1>1, <1>6, InsertWordSees
  <1>7. CASE BeginOovs
    BY <1>1, <1>7, BeginOovsSees
  <1>8. CASE AskProvider
    BY <1>1, <1>8, AskProviderSees
  <1>9. CASE ProviderFails
    BY <1>1, <1>9, StopSees DEF ProviderFails, lattice_vars, vecs
  <1>10. CASE InsertOov
    BY <1>1, <1>10, InsertOovSees
  <1>11. CASE EndProvider
    BY <1>1, <1>11, EndProviderSees
  <1>12. CASE DeadEnd
    BY <1>1, <1>12, StopSees DEF DeadEnd, lattice_vars, vecs
  <1>13. CASE NextBoundary
    BY <1>1, <1>13, AdvanceSees DEF NextBoundary, AtBoundary, lattice_vars, vecs
  <1>14. CASE EndOfSentence
    BY <1>1, <1>14, StopSees DEF EndOfSentence, ConnectEos, lattice_vars, vecs
  <1>15. CASE FillPath
    <2>1. /\ UNCHANGED <<ends_full, dict>> /\ pc' = "path"
      BY <1>15 DEF FillPath, FillStart, FillStep, vecs
    <2>2. QED
      BY <1>1, <2>1, StopSees
  <1>16. CASE PathFilled
    BY <1>1, <1>16, StopSees DEF PathFilled, lattice_vars, vecs
  <1>17. CASE UNCHANGED builder_vars
    <2>1. UNCHANGED <<ends_full, dict, ch_off, created, node_buffer, provider, todo, pc>>
      BY <1>17 DEF builder_vars, locals, lattice_vars, vecs
    <2>2. /\ Places' = Places /\ \A q : NodeOf(q)' = NodeOf(q)
          /\ Providers' = Providers /\ (HasLastResort' <=> HasLastResort)
          /\ ProvidersSeeWords'
      BY <1>1, <2>1, KeptSees DEF SeesInv
    <2>3. Here' = Here /\ AskedLast' = AskedLast
      BY <2>1, <2>2 DEF Here, AskedLast
    <2>4. NodesSeen' /\ TodoSeen' /\ FallbackLast'
      BY <1>1, <2>1, <2>2, <2>3 DEF SeesInv, NodesSeen, TodoSeen, FallbackLast
    <2>5. QED
      BY <2>2, <2>4 DEF SeesInv
  <1>18. QED
    BY <1>1, <1>2, <1>3, <1>4, <1>5, <1>6, <1>7, <1>8, <1>9, <1>10, <1>11, <1>12,
       <1>13, <1>14, <1>15, <1>16, <1>17 DEF BuilderNext, Step

----------------------------------------------------------------------------
(* Theorems.                                                               *)

\* The builder keeps the contract of the lattice: every node it inserts comes
\* boundary by boundary, begins where a node ends and ends later in the text.
THEOREM BuilderRefinesLattice == BuilderSpec => LatticeSpec
  <1>1. BuilderInit => LatticeInit
    BY DEF BuilderInit
  <1>2. QED
    BY <1>1, BuilderInvariance, BuilderStep, PTL DEF BuilderSpec, LatticeSpec

\* So what the lattice promises holds of every analysis: its vectors are those
\* of this text, and the path found tiles the text and is a cheapest one.
THEOREM AnalysisIsCorrect ==
    BuilderSpec => [](Aligned /\ BackPointers /\ PathTiles /\ SearchCorrect)
  BY BuilderRefinesLattice, AlignedCorrect, BackPointersCorrect,
     PathTilesCorrect, SearchIsCorrect, PTL

\* With the simple provider as the last one, analysis reaches the end of every
\* text, whatever the dictionary has and whatever the other providers give.
THEOREM NeverDisconnectedCorrect == BuilderSpec => []NeverDisconnected
  <1>1. AllInv => NeverDisconnected
    BY DEF AllInv, BInv
  <1>2. QED
    BY <1>1, BuilderInvariance, PTL

\* No word of an earlier text comes back, in either mode of the lookup.
THEOREM WordsMatchTextCorrect == BuilderSpec => []WordsMatchText
  <1>1. AllInv => WordsMatchText
    BY DEF AllInv, BInv
  <1>2. QED
    BY <1>1, BuilderInvariance, PTL

\* A provider sees which words there are at its boundary: a regex never adds one
\* of a length that is taken, however long, and the simple provider as the last
\* resort answers only where there is no word, and nothing is added to its own.
THEOREM ProvidersSeeWordsCorrect == BuilderSpec => []ProvidersSeeWords
  <1>1. SeesInv => ProvidersSeeWords
    BY DEF SeesInv
  <1>2. QED
    BY <1>1, SeesInit, SeesStep, BuilderInvariance, PTL DEF BuilderSpec
=============================================================================
