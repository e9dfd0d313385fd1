-------------------------- MODULE MCPythonBindings --------------------------
(***************************************************************************)
(* PythonBindings with two threads and two lists.  The text "xy" is one    *)
(* word with two A units, which refers to a form with units of its own.    *)
(* What the program holds is looked at while no call is running, and one   *)
(* thread uses the pre-tokenizer.                                          *)
(***************************************************************************)
EXTENDS PythonBindings, TLC

CONSTANTS t1, t2

Stored(length, a, b) == [length |-> length, a |-> a, b |-> b]

MCInfo ==
    [w \in {<<0, 1>>, <<0, 2>>, <<0, 3>>, <<0, 4>>, <<OovDict, 0>>} |->
       CASE w = <<0, 1>> -> Stored(2, <<<<0, 2>>, <<0, 3>>>>, <<<<0, 1>>>>)
         [] w = <<0, 2>> -> Stored(1, <<>>, <<>>)
         [] w = <<0, 3>> -> Stored(1, <<>>, <<>>)
         [] w = <<0, 4>> -> Stored(2, <<<<0, 2>>, <<0, 3>>>>, <<>>)
         [] w = <<OovDict, 0>> -> Stored(1, <<>>, <<>>)]

MCForm == [w \in DOMAIN MCInfo |-> IF w = <<0, 1>> THEN {<<0, 4>>} ELSE {}]

ASSUME SplitsResolved

MCText == {"empty", "xy"}

MCBestPath ==
    [t \in MCText |-> IF t = "xy" THEN <<<<0, 1>>>> ELSE <<>>]

MCFound == [t \in MCText |-> IF t = "xy" THEN <<<<0, 1>>>> ELSE <<>>]
MCSame == [t \in MCText |-> IF t = "xy" THEN {<<0, 1>>, <<0, 3>>} ELSE {}]
MCEntries == <<<<0, 1>>, <<0, 2>>, <<0, 3>>>>
MCSubsets == {{"POS"}}
MCOov == {<<OovDict, 0>>}

MCPre == {th \in Thread : \/ cell[th].list # {}
                            \/ \E k \in DOMAIN calls[th] : calls[th][k].op = "pre"}

MCIdle == \A th \in Thread : calls[th] = <<>> /\ cell[th].list = {}

MCBound ==
    /\ iterator # {} \/ closed => MCIdle /\ Cardinality(DOMAIN heap) =< 1
    /\ object # {} => MCIdle
    /\ MCPre # {} =>
           /\ Cardinality(MCPre) = 1
           /\ tokenizer.mode = Default /\ tokenizer.subset \in Subsets
           /\ \A l \in DOMAIN heap : heap[l].backing = "List"

MCSymmetry == Permutations(Thread)
=============================================================================
