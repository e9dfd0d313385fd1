----------------------------- MODULE BestPaths -----------------------------
(***************************************************************************)
(* Texts as the callers of a tokenizer see them: each has a best path, in  *)
(* mode C, and words that are all of it.  How they are found is the matter *)
(* of LatticeBuilder and of the trie lookup.                               *)
(***************************************************************************)
EXTENDS WordInfos

CONSTANTS
    Text,      \* texts
    TooLong,   \* those over MAX_LENGTH
    BestPath,  \* text -> words of its best path; <<>> for an empty text
    Found      \* text -> words that are exactly the normalised text

ASSUME TextAssumption ==
    /\ TooLong \subseteq Text
    /\ BestPath \in [Text -> Seq(WordId)]

IsEmpty(t) == BestPath[t] = <<>>

ASSUME EmptyTextAssumption == \E t \in Text \ TooLong : IsEmpty(t)

EmptyText == CHOOSE t \in Text \ TooLong : IsEmpty(t)

\* The boundary after the k-th word of the best path.
BestEnd(t, k) ==
    LET end[i \in 0..k] ==
            IF i = 0 THEN 0 ELSE end[i - 1] + Info[BestPath[t][i]].length
    IN  end[k]

Length(t) == BestEnd(t, Len(BestPath[t]))

\* They are words of the dictionaries, and the key of one in the trie is its
\* index form.
ASSUME FoundAssumption ==
    /\ Found \in [Text -> Seq(WordId)]
    /\ \A t \in Text : \A w \in Range(Found[t]) :
           ~IsOov(w) /\ Info[w].length = Length(t)

\* resolve_best_path
BestNodes(t, s) ==
    [k \in DOMAIN BestPath[t] |->
        [word |-> BestPath[t][k], begin |-> BestEnd(t, k - 1),
         end |-> BestEnd(t, k), info |-> NodeInfo(BestPath[t][k], s), text |-> t]]

\* The nodes lookup adds: the words that are the whole text.
FoundNodes(t, s) ==
    [k \in DOMAIN Found[t] |->
        [word |-> Found[t][k], begin |-> 0, end |-> Length(t),
         info |-> GetWordInfoSubset(Found[t][k], s), text |-> t]]
=============================================================================
