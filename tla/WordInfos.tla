----------------------------- MODULE WordInfos -----------------------------
(***************************************************************************)
(* What LexiconSet::get_word_info_subset returns for a word: the parsed    *)
(* fields (sudachi/src/dic/word_info/parse.rs) whose references are then   *)
(* resolved (data.rs, word_id.rs), and what a result node does with it     *)
(* (sudachi/src/analysis/node.rs, stateless_tokenizer.rs).                 *)
(*                                                                         *)
(* A word id is <<dictionary, entry>>: 0 is the system dictionary, 1..14   *)
(* are user dictionaries, 15 marks an OOV word.  A reference of a stored   *)
(* entry looks the same, but there 1 means "the dictionary of this entry". *)
(***************************************************************************)
EXTENDS Integers, SequencesExt

CONSTANTS
    Info  \* word id -> [length, a, b] as stored: length of the index form,
          \* and the references of its A and B units

WordId == DOMAIN Info

OovDict == 15
IsOov(w) == w[1] = OovDict

Mode == {"A", "B", "C"}

\* "POS" stands for every field the splits do not depend on.
Field == {"POS", "LENGTH", "SPLIT_A", "SPLIT_B", "SPLIT_C", "WORD_STRUCTURE"}

\* The fields a mode cannot do without.
ModeSubset(m) ==
    CASE m = "A" -> {"SPLIT_A"} [] m = "B" -> {"SPLIT_B"} [] m = "C" -> {}

\* InfoSubset::normalize
Normalize(subset) ==
    IF subset \cap {"SPLIT_A", "SPLIT_B", "SPLIT_C"} # {}
    THEN subset \cup {"LENGTH"} ELSE subset

\* WordInfoParser: the A units may be stored as "the same as the B units", so
\* these are read for them, and stay in the result.
Parse(w, subset) ==
    [length |-> IF "LENGTH" \in Normalize(subset) THEN Info[w].length ELSE 0,
     a |-> IF subset \cap {"SPLIT_A", "WORD_STRUCTURE"} # {} THEN Info[w].a
           ELSE <<>>,
     b |-> IF subset \cap {"SPLIT_B", "SPLIT_A", "WORD_STRUCTURE"} # {}
           THEN Info[w].b ELSE <<>>]

\* WordRef::resolve
ResolveRef(ref, dict) == IF ref[1] = 0 THEN ref ELSE <<dict, ref[2]>>

ResolveAll(refs, dict) == [k \in DOMAIN refs |-> ResolveRef(refs[k], dict)]

Ref == (0..OovDict) \X Nat

\* The units of a stored word are words of its dictionary or the system one:
\* the dictionary builder resolves them (DictBuilder).
ASSUME InfoAssumption ==
    \A w \in WordId :
        /\ w \in Ref
        /\ Info[w].length \in Nat
        /\ Info[w].a \in Seq(Ref) /\ Info[w].b \in Seq(Ref)
        /\ \A r \in Range(Info[w].a) \cup Range(Info[w].b) :
               ResolveRef(r, w[1]) \in WordId

\* What a dictionary should be: the index forms of the units of a word make up
\* its own.  The builder does not look at it.
UnitsFit ==
    \A w \in WordId : \A units \in {Info[w].a, Info[w].b} \ {<<>>} :
        ~IsOov(w) =>
            \E e \in [0..Len(units) -> 0..Info[w].length] :
                /\ e[0] = 0 /\ e[Len(units)] = Info[w].length
                /\ \A k \in 1..Len(units) :
                       e[k] = e[k - 1] + Info[ResolveRef(units[k], w[1])].length

\* WordInfoRefData::resolve: only what was asked for is resolved.
Resolve(raw, dict, subset) ==
    [raw EXCEPT
        !.a = IF "SPLIT_A" \in subset THEN ResolveAll(raw.a, dict) ELSE raw.a,
        !.b = IF "SPLIT_B" \in subset THEN ResolveAll(raw.b, dict) ELSE raw.b]

GetWordInfoSubset(w, subset) == Resolve(Parse(w, subset), w[1], subset)

\* The info of a node of the best path (resolve_best_path).
NodeInfo(w, subset) ==
    IF IsOov(w) THEN [length |-> Info[w].length, a |-> <<>>, b |-> <<>>]
    ELSE GetWordInfoSubset(w, subset)

----------------------------------------------------------------------------
(* Result nodes: [word, begin, end, info, text].  text is a history: the   *)
(* text the node was made for.                                             *)

\* The words ResultNode::split goes through, as many as num_splits.
Units(n, m) ==
    CASE m = "A" -> n.info.a [] m = "B" -> n.info.b [] m = "C" -> <<>>

UnitInfo(n, m, k, subset) == GetWordInfoSubset(Units(n, m)[k], subset)

\* Mutant: every unit ends where the node does.
UnitEndOfNode(n, m, k, subset) == n.end

\* NodeSplitIterator: a unit is as long as its index form, and the last one
\* ends where the node does.
UnitEnd(n, m, k, subset) ==
    LET end[i \in 0..k] ==
            IF i = 0 THEN n.begin ELSE end[i - 1] + UnitInfo(n, m, i, subset).length
    IN  IF k = Len(Units(n, m)) THEN n.end ELSE end[k]

UnitNode(n, m, k, subset) ==
    [word |-> Units(n, m)[k],
     begin |-> IF k = 1 THEN n.begin ELSE UnitEnd(n, m, k - 1, subset),
     end |-> UnitEnd(n, m, k, subset),
     info |-> UnitInfo(n, m, k, subset),
     text |-> n.text]

SplitNode(n, m, subset) ==
    [k \in DOMAIN Units(n, m) |-> UnitNode(n, m, k, subset)]

\* split_path: a node with a single unit is kept.
SplitPath(path, m, subset) ==
    IF m = "C" THEN path
    ELSE FlattenSeq([k \in DOMAIN path |->
            IF Len(Units(path[k], m)) =< 1 THEN <<path[k]>>
            ELSE SplitNode(path[k], m, subset)])
=============================================================================
