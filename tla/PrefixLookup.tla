--------------------------- MODULE PrefixLookup ---------------------------
(***************************************************************************)
(* What the lookup of many start positions promises, whatever way it takes *)
(* (dic/lexicon/trie.rs, common_prefix_batch: "grouping by bucket          *)
(* reproduces the scalar result"): for every bucket, the list of words     *)
(* reported so far is a beginning of the list the lookup of its position   *)
(* alone gives, it only grows, and in the end it is the whole list.        *)
(***************************************************************************)
EXTENDS Integers, Sequences, SequencesExt

VARIABLES
  scalar,   \* bucket -> the result of the lookup of its position
  found     \* bucket -> the words reported so far

vars == <<scalar, found>>
Buckets == DOMAIN scalar

Init == found = [b \in Buckets |-> <<>>]

Report(b) ==
  /\ \E n \in (Len(found[b]) + 1)..Len(scalar[b]) :
       found' = [found EXCEPT ![b] = SubSeq(scalar[b], 1, n)]
  /\ UNCHANGED scalar

Next == \E b \in Buckets : Report(b)

Complete == <>[](found = scalar)

Spec == Init /\ [][Next]_vars /\ Complete
===========================================================================
