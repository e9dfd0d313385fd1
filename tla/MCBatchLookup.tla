--------------------------- MODULE MCBatchLookup --------------------------
(* Instances of BatchLookup: two characters, texts of up to TextLength of  *)
(* them, a few sets of lexicons that have forms which are prefixes of one  *)
(* another, homographs, ids wider than one byte, entries not indexed and a *)
(* lexicon without entries.                                                *)
EXTENDS BatchLookup

CONSTANT TextLength

Row(form, id) == [form |-> form, id |-> id, indexed |-> TRUE]
Hidden(form, id) == [form |-> form, id |-> id, indexed |-> FALSE]

System ==
  <<Row(<<"a">>, 4), Row(<<"a", "b">>, 9), Row(<<"a">>, 13), Hidden(<<"b">>, 18),
    Row(<<"a", "b", "a">>, 22), Hidden(<<"a">>, 30)>>
NoPrefix == <<Row(<<"b", "b">>, 4), Row(<<"a", "b">>, 40)>>
User == <<Row(<<"b">>, 4), Row(<<"b">>, 8), Row(<<"b", "a">>, 21), Row(<<"b">>, 25)>>
OnlyHidden == <<Hidden(<<"a">>, 4)>>

Lexicons == {<<System>>, <<System, User>>, <<NoPrefix, <<>>, User>>, <<OnlyHidden, System>>}
Texts == UNION {[1..n -> {"a", "b"}] : n \in 0..TextLength}
Positions ==
  {<<>>, <<0>>, <<0, 1, 2>>, <<2, 0, 0>>, <<0, 1, 2, 3>>, <<3, 1, 1, 0, 2>>}
Widths == {1, 2, 4}

VARIABLE scalar    \* the lookups of the positions, one by one

MCInit == InitFor(Lexicons, Texts, Positions, Widths) /\ scalar = ScalarResult
MCNext == Next /\ UNCHANGED scalar

Spec == MCInit /\ [][MCNext]_<<vars, scalar>> /\ Fairness

---------------------------------------------------------------------------
(* The batch lookup implements the promise of PrefixLookup: the lanes      *)
(* never mix up the buckets, each bucket keeps the order of the scalar     *)
(* lookup and gets the whole of its result (trie.rs, common_prefix_batch). *)
Promise == INSTANCE PrefixLookup WITH scalar <- scalar, found <- found
ImplementsScalar == Promise!Spec
===========================================================================
