--------------------------- MODULE MorphemeLists ---------------------------
(***************************************************************************)
(* MorphemeList (sudachi/src/analysis/mlist.rs): the lists that take the   *)
(* results of one Tokenizer, are split, copied and looked up into, and     *)
(* share their input.                                                      *)
(*                                                                         *)
(* The input of a list is an Rc<RefCell<InputPart>>.  Lists that were      *)
(* cloned or split from each other have the same one, and an operation     *)
(* that changes it through one of them changes it under the nodes of the   *)
(* others.                                                                 *)
(***************************************************************************)
EXTENDS Tokenizer, FiniteSets

CONSTANTS
    List,      \* variables of the program that hold a list
    LookupSubsets,  \* fields callers of lookup ask for
    MaxNodes   \* bound: nodes of a list

VARIABLES
    sharing,  \* list -> the lists whose Rc points to the same input
    part,     \* list -> the InputPart [input, subset] its Rc points to
    nodes,    \* list -> its nodes
    held,     \* lists whose surface() is borrowed by a caller
    stale,    \* history: lists whose nodes a caller was told not to read
    read,     \* history: list -> the fields that all its nodes were read with
    lacking   \* history: lists with nodes of a split that lacked its fields

history_vars == <<stale, read, lacking>>
list_vars == <<sharing, part, nodes, held, history_vars>>
all_vars == <<tokenizer_vars, list_vars>>

\* InputPart::default
DefaultPart == [input |-> [text |-> EmptyText, state |-> "RW"], subset |-> Field]

InputOf(l) == part[l].input

\* The InputPart of l, and of the lists that share it, becomes p.
PartBecomes(l, p) == [k \in List |-> IF k \in sharing[l] THEN p ELSE part[k]]

\* l gets an input of its own ...
Alone(l) == [k \in List |-> IF k = l THEN {l} ELSE sharing[k] \ {l}]

\* ... or that of another list.
Joined(l, out) ==
    [k \in List |-> IF k \in sharing[l] \cup {out} THEN sharing[l] \cup {out}
                    ELSE sharing[k] \ {out}]

\* The lists a change of the input of l takes the text away from.
Invalidated(l) == {k \in sharing[l] \ {l} : nodes[k] # <<>>}

\* A list in use may be changed only when no text of it is borrowed.
Mutable(l) == l \notin held

Stale(l, yes) == IF yes THEN stale \cup {l} ELSE stale \ {l}

\* l, whose nodes are new, was read with the fields s, or with all of them when
\* it has none.
ReadWith(l, s) == read' = [read EXCEPT ![l] = IF nodes'[l] = <<>> THEN Field ELSE s]

\* The nodes of l are replaced by some that were read with the fields s ...
ReadAnew(l, s) == ReadWith(l, s) /\ lacking' = lacking \ {l}

\* ... or l gets more of them, which may come from a split that lacked some.
ReadMore(l, s, lack) ==
    /\ ReadWith(l, IF nodes[l] = <<>> THEN s ELSE read[l] \cap s)
    /\ lacking' = IF lack THEN lacking \cup {l} ELSE lacking

----------------------------------------------------------------------------
ListInit ==
    /\ sharing = [l \in List |-> {l}]
    /\ part = [l \in List |-> DefaultPart]
    /\ nodes = [l \in List |-> <<>>]
    /\ held = {} /\ stale = {}
    /\ read = [l \in List |-> Field] /\ lacking = {}

\* Morpheme::surface: the caller borrows the text of a word of the list, and
\* gives it back.
Hold(l) ==
    /\ l \notin held \cup stale /\ nodes[l] # <<>>
    /\ held' = held \cup {l}
    /\ UNCHANGED <<tokenizer_vars, sharing, part, nodes, history_vars>>

Release(l) ==
    /\ held' = held \ {l}
    /\ l \in held
    /\ UNCHANGED <<tokenizer_vars, sharing, part, nodes, history_vars>>

\* empty: a new list replaces l.
NewList(l) ==
    /\ Mutable(l)
    /\ sharing' = Alone(l)
    /\ part' = [part EXCEPT ![l] = DefaultPart]
    /\ nodes' = [nodes EXCEPT ![l] = <<>>]
    /\ stale' = stale \ {l}
    /\ ReadAnew(l, Field)
    /\ UNCHANGED <<tokenizer_vars, held>>

\* empty_clone.  The deprecated split is this and split_into, or copy_slice.
EmptyClone(l, out) ==
    /\ Mutable(out) /\ l # out
    /\ sharing' = Joined(l, out)
    /\ part' = [part EXCEPT ![out] = part[l]]
    /\ nodes' = [nodes EXCEPT ![out] = <<>>]
    /\ stale' = stale \ {out}
    /\ ReadAnew(out, Field)
    /\ UNCHANGED <<tokenizer_vars, held>>

\* clear
Clear(l) ==
    /\ Mutable(l)
    /\ nodes' = [nodes EXCEPT ![l] = <<>>]
    /\ stale' = stale \ {l}
    /\ ReadAnew(l, Field)
    /\ UNCHANGED <<tokenizer_vars, sharing, part, held>>

\* StatelessTokenizer::tokenize: a tokenizer of its own, whose components
\* become a list (into_morpheme_list).
StatelessTokenize(t, m, out) ==
    /\ Mutable(out)
    /\ t \notin TooLong
    /\ sharing' = Alone(out)
    /\ part' = [part EXCEPT ![out] =
                   [input |-> [text |-> t, state |-> "RO"], subset |-> Field]]
    /\ nodes' = [nodes EXCEPT ![out] = SplitPath(BestNodes(t, Field), m, Field)]
    /\ stale' = stale \ {out}
    /\ ReadAnew(out, Field)
    /\ UNCHANGED <<tokenizer_vars, held>>

----------------------------------------------------------------------------
(* collect_results, called once after do_tokenize.                         *)

Borrowed(l) == sharing[l] \cap held # {}

\* swap_result swaps the inputs ...
SwapInput(l) ==
    /\ part' = PartBecomes(l, [input |-> input, subset |-> subset])
    /\ input' = InputOf(l)

\* Mutant: the input of the list is not swapped.
CollectNodesOnly(l) ==
    /\ Mutable(l) /\ phase = "done"
    /\ ~Borrowed(l) /\ top_path # {}
    /\ nodes' = [nodes EXCEPT ![l] = Taken]
    /\ top_path' = {nodes[l]}
    /\ stale' = (stale \ {l}) \cup Invalidated(l)
    /\ ReadAnew(l, analyzed.subset)
    /\ phase' = "none"
    /\ UNCHANGED <<mode, subset, analyzed, result, sharing, held, input, part>>

\* Mutant: the borrow is not respected.
CollectAnyway(l) ==
    /\ Mutable(l) /\ phase = "done"
    /\ top_path # {}
    /\ SwapInput(l)
    /\ nodes' = [nodes EXCEPT ![l] = Taken]
    /\ top_path' = {nodes[l]}
    /\ stale' = (stale \ {l}) \cup Invalidated(l)
    /\ ReadAnew(l, analyzed.subset)
    /\ phase' = "none"
    /\ UNCHANGED <<mode, subset, analyzed, result, sharing, held>>

\* ... and then the nodes.  When the input is borrowed MorphemeListBorrowed is
\* returned and nothing changes.
Collect(l) ==
    /\ Mutable(l) /\ phase = "done"
    /\ ~Borrowed(l) /\ top_path # {}
    /\ SwapInput(l)
    /\ nodes' = [nodes EXCEPT ![l] = Taken]
    /\ top_path' = {nodes[l]}
    /\ stale' = (stale \ {l}) \cup Invalidated(l)
    /\ ReadAnew(l, analyzed.subset)
    /\ phase' = "none"
    /\ UNCHANGED <<mode, subset, analyzed, result, sharing, held>>

\* Without a path the unwrap comes too late: the inputs have been swapped.
CollectPanics(l) ==
    /\ Mutable(l) /\ phase = "done"
    /\ ~Borrowed(l) /\ top_path = {}
    /\ part' = PartBecomes(l, [part[l] EXCEPT !.input = input])
    /\ input' = InputOf(l)
    /\ stale' = stale \cup {k \in sharing[l] : nodes[k] # <<>>}
    /\ phase' = "none"
    /\ UNCHANGED <<mode, subset, top_path, analyzed, result, sharing, nodes, held, read,
                   lacking>>

----------------------------------------------------------------------------
(* split_into, copy_slice and lookup.                                      *)

\* What is pushed behind nodes an out list already has is documented to be
\* the caller's concern: with another input they are not to be read.
Mixed(l, out) == nodes[out] # <<>> /\ (out \notin sharing[l] \/ out \in stale)

\* The text of a unit must be inside the current text (ch_idx) and its word
\* in the dictionaries, or the iterator panics.
Splittable(l, i, m) ==
    LET n == nodes[l][i]
        s == part[l].subset
    IN  \A k \in DOMAIN Units(n, m) :
            /\ Units(n, m)[k] \in WordId
            /\ UnitEnd(n, m, k, s) =< Length(InputOf(l).text) \/ k = Len(Units(n, m))

\* What a split in the mode m reads: units of the node that were asked for when
\* it was read, and their lengths, with the fields the list has now.
HasFields(l, m) == ModeSubset(m) \subseteq read[l] /\ "LENGTH" \in Normalize(part[l].subset)

\* split_into; a node without units of the mode gives FALSE and no change.
SplitInto(l, i, m, out) ==
    /\ Mutable(out) /\ l # out
    /\ i \in DOMAIN nodes[l] /\ Units(nodes[l][i], m) # <<>>
    /\ InputOf(l).state = "RO" /\ Splittable(l, i, m)
    /\ Len(nodes[out]) + Len(Units(nodes[l][i], m)) =< MaxNodes
    /\ sharing' = Joined(l, out)
    /\ part' = [part EXCEPT ![out] = part[l]]
    /\ nodes' = [nodes EXCEPT ![out] =
                    @ \o SplitNode(nodes[l][i], m, part[l].subset)]
    /\ stale' = Stale(out, l \in stale \/ Mixed(l, out))
    /\ ReadMore(out, part[l].subset, l \in lacking \/ ~HasFields(l, m))
    /\ UNCHANGED <<tokenizer_vars, held>>

\* copy_slice of one node; a list with another input cannot read it.
CopySlice(l, i, out) ==
    /\ Mutable(out) /\ l # out
    /\ i \in DOMAIN nodes[l]
    /\ Len(nodes[out]) < MaxNodes
    /\ nodes' = [nodes EXCEPT ![out] = Append(@, nodes[l][i])]
    /\ stale' = Stale(out, l \in stale \/ out \notin sharing[l]
                               \/ (nodes[out] # <<>> /\ out \in stale))
    /\ ReadMore(out, read[l], l \in lacking)
    /\ UNCHANGED <<tokenizer_vars, sharing, part, held>>

\* lookup: the query becomes the input, the fields of which stay what they
\* were, and the words are added to the nodes that are there.  It panics, and
\* changes nothing, when the input is borrowed.
Lookup(l, t, s) ==
    /\ Mutable(l) /\ ~Borrowed(l)
    /\ t \notin TooLong
    /\ Len(nodes[l]) + Len(Found[t]) =< MaxNodes
    /\ part' = PartBecomes(l, [part[l] EXCEPT !.input = [text |-> t, state |-> "RO"]])
    /\ nodes' = [nodes EXCEPT ![l] = @ \o FoundNodes(t, s)]
    /\ stale' = Stale(l, nodes[l] # <<>>) \cup Invalidated(l)
    /\ ReadMore(l, s, FALSE)
    /\ UNCHANGED <<tokenizer_vars, sharing, held>>

\* lookup fails in a plugin or for a query that is too long: the input is gone.
LookupFails(l, t) ==
    /\ Mutable(l) /\ ~Borrowed(l)
    /\ part' = PartBecomes(l, [part[l] EXCEPT !.input =
                   [text |-> t, state |-> IF t \in TooLong THEN "Clean" ELSE "RW"]])
    /\ stale' = stale \cup {k \in sharing[l] : nodes[k] # <<>>}
    /\ UNCHANGED <<tokenizer_vars, sharing, nodes, held, read, lacking>>

----------------------------------------------------------------------------
\* What one list does.
ListStep(l) ==
    \/ Hold(l) \/ Release(l)
    \/ NewList(l) \/ Clear(l)
    \/ Collect(l) \/ CollectPanics(l)
    \/ \E t \in Text, m \in Modes : StatelessTokenize(t, m, l)
    \/ \E t \in Text, s \in LookupSubsets : Lookup(l, t, s)
    \/ \E t \in Text : LookupFails(l, t)

\* What goes from one list to another.
ListPairStep(l, out) ==
    \/ EmptyClone(l, out)
    \/ \E i \in DOMAIN nodes[l] :
           \/ CopySlice(l, i, out)
           \/ \E m \in {"A", "B"} : SplitInto(l, i, m, out)

ListsInit == TokenizerInit /\ ListInit

ListsNext ==
    \/ TokenizerNext /\ UNCHANGED list_vars
    \/ \E l \in List : ListStep(l)
    \/ \E l, out \in List : ListPairStep(l, out)

ListsSpec == ListsInit /\ [][ListsNext]_all_vars

----------------------------------------------------------------------------
(* Properties.                                                             *)

\* Lists that share an Rc see the same input through it.
SharersAgree ==
    \A l \in List : \A k \in sharing[l] : sharing[k] = sharing[l] /\ part[k] = part[l]

\* The nodes of a list were made for the text its input has now.
NodesHaveText ==
    \A l \in List \ stale : \A k \in DOMAIN nodes[l] :
        nodes[l][k].text = InputOf(l).text /\ InputOf(l).state = "RO"

\* The nodes of a list belong to the text of its input, however many lists
\* share it and whichever of them was analysed, split or cloned into; only
\* the lists a caller was told about have lost their text.
NodesMatchInput == SharersAgree /\ NodesHaveText

\* The text under a word a caller holds does not change: analyses into another
\* list that shares it are refused.
HeldTextStays ==
    [][\A l \in held \cap held' : InputOf(l)' = InputOf(l)]_all_vars

\* subset.rs: "Split requests need the index form length because split
\* consumers use it when materializing the higher-level WordInfo view".  Every
\* word lies in the text of its list and is as long as its own index form: the
\* words of an analysis whatever fields the tokenizer was asked for, and the
\* units of a split when the word was read with the units of the mode and the
\* list has the lengths (HasFields), also of the words it was split from.  A
\* split goes by the fields the list has now, not by those its words were read
\* with (mlist.rs:119).
SplitSurfaces ==
    \A l \in List \ (stale \cup lacking) : \A k \in DOMAIN nodes[l] :
        LET n == nodes[l][k]
        IN  /\ 0 =< n.begin /\ n.begin =< n.end
            /\ n.end =< Length(InputOf(l).text)
            /\ n.end - n.begin = Info[n.word].length
=============================================================================
