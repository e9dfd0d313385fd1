-------------------------- MODULE MCMorphemeLists --------------------------
(***************************************************************************)
(* Tokenizer and MorphemeLists with a system dictionary and two user       *)
(* dictionaries.  The word <<0, 1>> has A units, <<0, 4>> A and B units,   *)
(* <<2, 1>>, of the second user dictionary, refers to a word of its own;   *)
(* the entry with the same number in the first one has another length.     *)
(***************************************************************************)
EXTENDS MorphemeLists, TLC

CONSTANTS l1, l2

Stored(length, a, b) == [length |-> length, a |-> a, b |-> b]

MCInfo ==
    [w \in {<<0, 1>>, <<0, 2>>, <<0, 3>>, <<0, 4>>, <<1, 2>>, <<2, 1>>, <<2, 2>>,
            <<OovDict, 0>>} |->
       CASE w = <<0, 1>> -> Stored(3, <<<<0, 2>>, <<0, 3>>>>, <<<<0, 1>>>>)
         [] w = <<0, 2>> -> Stored(2, <<>>, <<>>)
         [] w = <<0, 3>> -> Stored(1, <<>>, <<>>)
         [] w = <<0, 4>> -> Stored(4, <<<<0, 2>>, <<0, 3>>, <<0, 3>>>>,
                                      <<<<0, 1>>, <<0, 3>>>>)
         [] w = <<1, 2>> -> Stored(1, <<>>, <<>>)
         [] w = <<2, 1>> -> Stored(3, <<<<1, 2>>, <<0, 3>>>>, <<<<1, 2>>, <<0, 3>>>>)
         [] w = <<2, 2>> -> Stored(2, <<>>, <<>>)
         [] w = <<OovDict, 0>> -> Stored(2, <<>>, <<>>)]

ASSUME UnitsFit

MCText == {"empty", "long", "user", "mixed"}

MCBestPath ==
    [t \in MCText |->
       CASE t = "empty" -> <<>>
         [] t = "long" -> <<>>
         [] t = "user" -> <<<<2, 1>>>>
         [] t = "mixed" -> <<<<0, 4>>, <<OovDict, 0>>, <<2, 1>>>>]

MCSubsets == {{"POS"}, {"LENGTH", "SPLIT_B"}, Field}

MCFound == [t \in MCText |-> IF t = "user" THEN <<<<2, 1>>>> ELSE <<>>]

MCSymmetry == Permutations(List)

\* A list that nothing was put into yet.
Unused(l) ==
    sharing[l] = {l} /\ part[l] = DefaultPart /\ nodes[l] = <<>> /\ l \notin held

MCLookupSubsets == {Field, {"POS"}}

AllFields ==
    lacking = {} /\ \A l \in List : read[l] = Field /\ part[l].subset = Field

\* The bound: a tokenizer that is used with every text, mode and set of fields,
\* and what is collected from it; the lists with two of the texts, in mode C
\* with all fields, and with three nodes in all; or the lists with one analysis
\* and lookups with any fields, while every word can be read and none is held.
MCBound ==
    \/ \A l \in List : Unused(l)
    \/ /\ \A l \in List : InputOf(l).text \in {"empty", "user"}
       /\ Len(nodes[l1]) + Len(nodes[l2]) =< 3
       /\ \/ /\ mode = "C" /\ subset = Field /\ analyzed = [mode |-> "C", subset |-> Field]
             /\ input.text \in {"empty", "user"} /\ AllFields
          \/ /\ phase = "none" /\ result = "Ok" /\ mode = analyzed.mode
             /\ held = {} /\ stale = {} /\ top_path = {<<>>} /\ input.text = "empty"
             /\ \E l \in List : part[l].subset = subset /\ InputOf(l).state = "RO"
=============================================================================
