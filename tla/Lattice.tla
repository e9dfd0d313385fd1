------------------------------ MODULE Lattice ------------------------------
(***************************************************************************)
(* The lattice of the Viterbi search (sudachi/src/analysis/lattice.rs).    *)
(*                                                                         *)
(* Three vectors indexed by word end boundary run in parallel: ends (the   *)
(* right id and the total cost of each node), ends_full (the node itself)  *)
(* and indices (the best predecessor).  A lattice is reused: the inner     *)
(* vectors are cleared and never dropped, so there may be more of them     *)
(* than the sentence has boundaries.                                       *)
(*                                                                         *)
(* Insert states the assumption the code documents ("lattice for all       *)
(* previous boundaries is already constructed") as its guard.              *)
(* LatticeBuilder extends this module and is checked to respect it.        *)
(*                                                                         *)
(* An outer vector is a function on its offsets 0..n-1.  An inner one is a *)
(* sequence, and a stored index is the code's: i stands for element i + 1. *)
(***************************************************************************)
EXTENDS Integers, Sequences

CONSTANTS
    ConnId,    \* connection ids; that of BOS and EOS is 0
    Conn,      \* connection matrix: <<right id, left id>> -> cost
    Nodes,     \* nodes of the dictionaries and the OOV providers
    MaxLen,    \* bound: length of a sentence, in characters
    MaxCost,   \* the greatest cost of a word or a connection: that of an i16
    MaxI32     \* i32::MAX, the cost of a node that is not connected to BOS

VARIABLES
    ends,      \* boundary -> <<[right, total], ...>>
    ends_full, \* boundary -> <<node, ...>>
    indices,   \* boundary -> <<NodeIdx of the best predecessor, ...>>
    eos,       \* {} or {[idx, cost]}: Option<(NodeIdx, i32)>
    size,      \* boundaries of the sentence, 0 before the first reset
    path,      \* result of fill_top_path, from the end to the beginning
    frontier   \* history: the greatest beginning of a node inserted so far

vecs == <<ends, ends_full, indices>>
lattice_vars == <<vecs, eos, size, path, frontier>>

ASSUME MatrixAssumption ==
    /\ ConnId \subseteq Nat /\ 0 \in ConnId
    /\ Conn \in [ConnId \X ConnId -> Int]

ASSUME NodesAssumption ==
    \A n \in Nodes : /\ n.begin \in Nat /\ n.end \in Nat
                     /\ n.left \in ConnId /\ n.right \in ConnId
                     /\ n.cost \in Int

ASSUME BoundsAssumption == MaxLen \in Nat /\ MaxI32 \in Nat

\* The costs of a sentence add up to an i32, which the code does not check: it
\* holds for an i32 and an i16 up to 32766 characters.
ASSUME CostsAssumption ==
    /\ MaxCost \in Nat
    /\ \A c \in ConnId \X ConnId : Conn[c] \in -MaxCost..MaxCost
    /\ \A n \in Nodes : n.cost \in -MaxCost..MaxCost
    /\ (2 * MaxLen + 1) * MaxCost < MaxI32

EmptyIdx == [end |-> -1, index |-> -1]

BOS == [right |-> 0, total |-> 0]

\* Arithmetic of i32 in a release build.
Wrap(x) == ((x + MaxI32 + 1) % (2 * MaxI32 + 2)) - (MaxI32 + 1)

----------------------------------------------------------------------------
\* Mutant: only the vectors in use are cleared.
ClearedInUse(vec, target) ==
    [b \in DOMAIN vec \cup 0..target - 1 |-> IF b < target THEN <<>> ELSE vec[b]]

\* reset_vec: every vector is cleared, and there are at least target of them.
Cleared(vec, target) == [b \in DOMAIN vec \cup 0..target - 1 |-> <<>>]

\* is_connected_to_bos
IsConnected(v) == v.total # MaxI32

\* The total cost of node after the predecessor v.
NewCost(v, node) == Wrap(v.total + Conn[<<v.right, node.left>>] + node.cost)

\* The elements of prevs, the nodes that end where node begins, connect_node may
\* choose: a cost of i32::MAX is never less than the initial min_cost.
Candidates(prevs, node) ==
    {i \in 1..Len(prevs) :
        IsConnected(prevs[i]) /\ NewCost(prevs[i], node) < MaxI32}

\* Mutant: the first connected predecessor is taken.
ConnectFirst(node) ==
    LET prevs == ends[node.begin]
        S == Candidates(prevs, node)
        first == CHOOSE i \in S : \A j \in S : i =< j
    IN  IF S = {} THEN [idx |-> EmptyIdx, cost |-> MaxI32]
        ELSE [idx  |-> [end |-> node.begin, index |-> first - 1],
              cost |-> NewCost(prevs[first], node)]

\* Mutant: the index of BOS is skipped, as in ends_full.
ConnectShifted(node) ==
    LET prevs == ends[node.begin]
        S == Candidates(prevs, node)
        Cost(i) == NewCost(prevs[i], node)
        best == CHOOSE i \in S : \A j \in S : Cost(i) =< Cost(j)
    IN  IF S = {} THEN [idx |-> EmptyIdx, cost |-> MaxI32]
        ELSE [idx  |-> [end |-> node.begin, index |-> best],
              cost |-> Cost(best)]

\* connect_node: the first predecessor of minimal cost.
ConnectNode(node) ==
    LET prevs == ends[node.begin]
        S == Candidates(prevs, node)
        Cost(i) == NewCost(prevs[i], node)
        best == CHOOSE i \in S :
                    \A j \in S : Cost(i) < Cost(j) \/ (Cost(i) = Cost(j) /\ i =< j)
    IN  IF S = {} THEN [idx |-> EmptyIdx, cost |-> MaxI32]
        ELSE [idx  |-> [end |-> node.begin, index |-> best - 1],
              cost |-> Cost(best)]

\* Mutant: the EOS node has the place of the last character.
EosNodeEarly == [begin |-> size - 2, end |-> size - 1, left |-> 0, right |-> 0,
                 cost |-> 0]

EosNode == [begin |-> size - 1, end |-> size - 1, left |-> 0, right |-> 0,
            cost |-> 0]

\* node
NodeAt(idx) == ends_full[idx.end][idx.index + 1]
TotalAt(idx) == ends[idx.end][idx.index + 1].total
PrevOf(idx) == indices[idx.end][idx.index + 1]

----------------------------------------------------------------------------
LatticeInit ==
    /\ ends = <<>> /\ ends_full = <<>> /\ indices = <<>>
    /\ eos = {} /\ size = 0 /\ path = <<>> /\ frontier = 0

\* reset and connect_bos: BOS is in ends only.
Reset(length) ==
    /\ ends' = [Cleared(ends, length + 1) EXCEPT ![0] = Append(@, BOS)]
    /\ ends_full' = Cleared(ends_full, length + 1)
    /\ indices' = Cleared(indices, length + 1)
    /\ eos' = {}
    /\ size' = length + 1
    /\ path' = <<>> /\ frontier' = 0

\* has_previous_node
HasPreviousNode(b) == b \in DOMAIN ends /\ ends[b] # <<>>

\* insert
Insert(node) ==
    /\ LET c == ConnectNode(node)
           e == node.end
       IN  /\ ends' = [ends EXCEPT ![e] =
                           Append(@, [right |-> node.right, total |-> c.cost])]
           /\ indices' = [indices EXCEPT ![e] = Append(@, c.idx)]
           /\ ends_full' = [ends_full EXCEPT ![e] = Append(@, node)]
    /\ frontier' = node.begin
    /\ UNCHANGED <<eos, size, path>>

\* What an insertion may assume: the nodes come boundary by boundary, each
\* begins where a node ends and ends later, inside the sentence.
InsertAllowed(node) ==
    /\ eos = {} /\ size > 0
    /\ frontier =< node.begin /\ node.begin < node.end /\ node.end < size
    /\ HasPreviousNode(node.begin)

\* connect_eos when the end of the sentence can be reached ...
ConnectEos ==
    /\ size > 0 /\ eos = {}
    /\ ConnectNode(EosNode).cost # MaxI32
    /\ eos' = {ConnectNode(EosNode)}
    /\ UNCHANGED <<vecs, size, path, frontier>>

\* ... and when it cannot: EosBosDisconnect.
EosDisconnected == size > 0 /\ eos = {} /\ ConnectNode(EosNode).cost = MaxI32

\* fill_top_path: the first node of the result is the predecessor of EOS ...
FillStart ==
    /\ path = <<>>
    /\ \E e \in eos : path' = <<e.idx>>
    /\ UNCHANGED <<vecs, eos, size, frontier>>

\* ... and the others are followed until BOS, which is not added.
FillDone == path # <<>> /\ PrevOf(path[Len(path)]).end = 0

FillStep ==
    /\ path # <<>> /\ ~FillDone
    /\ path' = Append(path, PrevOf(path[Len(path)]))
    /\ UNCHANGED <<vecs, eos, size, frontier>>

InsertNode(node) == InsertAllowed(node) /\ Insert(node)

LatticeNext ==
    \/ \E length \in 1..MaxLen : Reset(length)
    \/ \E node \in Nodes : InsertNode(node)
    \/ ConnectEos
    \/ FillStart
    \/ FillStep

LatticeSpec == LatticeInit /\ [][LatticeNext]_lattice_vars

----------------------------------------------------------------------------
(* Properties.                                                             *)

NodeIdx == [end : Nat, index : Nat] \cup {EmptyIdx}

VNode == [right : ConnId, total : Int]

TypeOK ==
    /\ size \in Nat /\ frontier \in Nat
    /\ DOMAIN ends \in SUBSET Nat
    /\ DOMAIN ends_full = DOMAIN ends /\ DOMAIN indices = DOMAIN ends
    /\ \A b \in DOMAIN ends : /\ ends[b] \in Seq(VNode)
                              /\ ends_full[b] \in Seq(Nodes)
                              /\ indices[b] \in Seq(NodeIdx)
    /\ eos \in SUBSET [idx : NodeIdx, cost : Int]
    /\ path \in Seq(NodeIdx)

\* The three vectors stay parallel, but for BOS, which only ends has; and no
\* node of an earlier, longer sentence is left over the size.
Aligned ==
    size > 0 =>
        /\ 0..size - 1 \subseteq DOMAIN ends
        /\ ends[0] = <<BOS>> /\ ends_full[0] = <<>> /\ indices[0] = <<>>
        /\ \A b \in DOMAIN ends \ {0} :
               /\ Len(ends[b]) = Len(ends_full[b])
               /\ Len(ends[b]) = Len(indices[b])
               /\ b >= size => ends[b] = <<>>

\* p points at one of prevs, the nodes that end where node begins, and this
\* one is connected.
PointsBack(p, node, prevs) ==
    /\ p.end = node.begin
    /\ p.index \in 0..Len(prevs) - 1
    /\ IsConnected(prevs[p.index + 1])

\* The total cost of a node is that of its predecessor and its own, and no
\* node of the boundary where it begins, as that boundary is now, would have
\* been a better predecessor: nothing was inserted behind its back.
BestPredecessor(p, total, node, prevs) ==
    /\ total = NewCost(prevs[p.index + 1], node)
    /\ \A i \in Candidates(prevs, node) : total =< NewCost(prevs[i], node)

Linked(p, v, node, prevs) ==
    /\ v.right = node.right
    /\ IsConnected(v) => /\ PointsBack(p, node, prevs)
                         /\ BestPredecessor(p, v.total, node, prevs)

\* Every node either cannot be reached from BOS or points at its best
\* predecessor, which can: what fill_top_path indexes the vectors with.
BackPointers ==
    size > 0 =>
        \A b \in DOMAIN ends \ {0} : \A i \in 1..Len(ends[b]) :
            LET node == ends_full[b][i]
            IN  /\ node.end = b /\ node.begin < b
                /\ Linked(indices[b][i], ends[b][i], node, ends[node.begin])

\* The result of fill_top_path, read backwards, tiles the sentence: it starts
\* at the end, each node begins where the next one ends, and the last one
\* begins at 0 when the loop stops.
PathTiles ==
    path # <<>> =>
        /\ path[1].end = size - 1
        /\ \A k \in 1..Len(path) :
               /\ path[k].end \in 1..size - 1
               /\ path[k].index \in 0..Len(ends_full[path[k].end]) - 1
        /\ \A k \in 1..Len(path) - 1 : NodeAt(path[k]).begin = path[k + 1].end
        /\ FillDone => NodeAt(path[Len(path)]).begin = 0

\* Reference: every way from BOS to the boundary b, forwards.
PathsTo(b) ==
    LET paths[c \in 0..b] ==
            IF c = 0 THEN {<<>>}
            ELSE UNION {{Append(p, ends_full[c][i]) :
                            p \in paths[ends_full[c][i].begin]} :
                        i \in 1..Len(ends_full[c])}
    IN  paths[b]

\* Reference: the cost of a way, with the connections to BOS and to EOS.
CostOf(p) ==
    LET Right(k) == IF k = 0 THEN 0 ELSE p[k].right
        cost[k \in 0..Len(p)] ==
            IF k = 0 THEN 0
            ELSE cost[k - 1] + Conn[<<Right(k - 1), p[k].left>>] + p[k].cost
    IN  cost[Len(p)] + Conn[<<Right(Len(p)), 0>>]

\* The Viterbi search finds a cheapest of all the ways from BOS to EOS
\* through the nodes that were inserted: the cost of EOS is the minimum, and
\* the path that fill_top_path returns has this cost.
OptimalPath ==
    \A e \in eos :
        /\ \A p \in PathsTo(size - 1) : e.cost =< CostOf(p)
        /\ FillDone =>
               CostOf([k \in 1..Len(path) |-> NodeAt(path[Len(path) + 1 - k])])
                   = e.cost

\* The end of the sentence is refused only if no way leads to it.
DisconnectedOnlyIfUnreachable == EosDisconnected => PathsTo(size - 1) = {}

\* What connect_eos and fill_top_path answer is right, whichever it is.
SearchCorrect == OptimalPath /\ DisconnectedOnlyIfUnreachable
=============================================================================
