--------------------------- MODULE PythonBindings ---------------------------
(***************************************************************************)
(* The Python objects of python/src: Tokenizer, MorphemeList, Morpheme,    *)
(* their iterators, Dictionary and the pre-tokenizer, used by the threads  *)
(* of a program.                                                           *)
(*                                                                         *)
(* A call runs with the GIL and is one step, but for the places where it   *)
(* gives the GIL away: the analysis of a text (py.detach) and the handler  *)
(* of a pre-tokenizer, which is Python code and may make calls of its own. *)
(* A call that is refused raises an exception and changes nothing; it is   *)
(* an action only where something does change.                             *)
(***************************************************************************)
EXTENDS BestPaths, SingleMorphemes, FiniteSets

CONSTANTS
    Thread,
    List,      \* MorphemeList objects
    Modes,     \* modes callers ask for
    Default,   \* the mode the Tokenizer was created with
    Subsets,   \* fields it may have been created with
    PreFields, \* fields the pre-tokenizer was created with
    Oov,       \* words oov_morpheme may be called for
    Entries,   \* the words of the dictionaries, in the order of the scan
    Same,      \* text -> words with a headword the plugins rewrite alike
    MaxDepth   \* bound: calls of a thread within each other

ASSUME BindingAssumption ==
    /\ Default \in Modes /\ Modes \subseteq Mode
    /\ Subsets \subseteq SUBSET Field /\ PreFields \subseteq Field
    /\ Entries \in Seq(WordId) /\ Same \in [Text -> SUBSET WordId]
    /\ Oov \subseteq WordId
    /\ IsFiniteSet(List)

VARIABLES
    tokenizer,  \* [mode, subset, text, path] of the StatefulTokenizer
    owner,      \* {} or the thread that has borrowed it
    cell,       \* thread -> [text, path, list]: its PerThreadPreTokenizer
    heap,       \* MorphemeList -> its backing; the lists that exist
    part,       \* input -> its InputPart [text, subset]; Rc's in use
    calls,      \* thread -> the calls it is in, the innermost last
    object,     \* {} or a Morpheme the program holds
    iterator,   \* {} or an iterator it holds
    closed,     \* Dictionary.close was called
    shown       \* history: list -> what the last call into it was to put there

python_vars == <<tokenizer, owner, cell, heap, part, calls, object, iterator,
                 closed, shown>>

\* Lists have at most one input each.
Address == 1..Cardinality(List)

DefaultPart == [text |-> EmptyText, subset |-> Field]

\* PyMorphemeListBacking
OfNodes(a, nodes) == [backing |-> "List", input |-> a, items |-> nodes]
OfSingles(singles) == [backing |-> "Singles", items |-> singles]

Used(h) == {h[k].input : k \in {l \in DOMAIN h : h[l].backing = "List"}}

\* A new input, for a list that takes the place of l.
NewInput(l) ==
    CHOOSE a \in Address : a \notin Used([k \in DOMAIN heap \ {l} |-> heap[k]])

\* l becomes x; p is the input of a list of nodes.
Install(l, x, p) ==
    /\ heap' = [k \in DOMAIN heap \cup {l} |-> IF k = l THEN x ELSE heap[k]]
    /\ part' = [a \in Used(heap') |->
                   IF x.backing = "List" /\ a = x.input THEN p ELSE part[a]]

\* A call was to put these words of text t in l.
Show(l, by, t, words) ==
    shown' = [k \in DOMAIN shown \cup {l} |->
                 IF k = l THEN [by |-> by, text |-> t, words |-> words]
                 ELSE shown[k]]

\* The parameter out: a list that exists, or a new one.
Unborn == List \ DOMAIN heap
NewList == IF Unborn = {} THEN {} ELSE {CHOOSE l \in List : l \in Unborn}
Out == {{}} \cup {{l} : l \in DOMAIN heap}
ListOf(out) == IF out = {} THEN NewList ELSE out

\* References threads have to lists, apart from those of the program.
Pending == {th \in Thread :
               \E k \in DOMAIN calls[th] :
                   \/ calls[th][k].op = "tokenize" /\ calls[th][k].out = {}
                   \/ calls[th][k].op = "pre" /\ cell[th].list = {}}
InUse(l) ==
    \/ \E th \in Thread :
           \/ cell[th].list = {l}
           \/ \E k \in DOMAIN calls[th] :
                  calls[th][k].op = "tokenize" /\ calls[th][k].out = {l}
    \/ \E x \in object \cup iterator : x.list = {l}

\* There are lists left for the calls that will return a new one.
Room == Cardinality(Unborn) > Cardinality(Pending)

Top(th) == calls[th][Len(calls[th])]
At(th, op, stage) ==
    calls[th] # <<>> /\ Top(th).op = op /\ Top(th).stage = stage
Stage(th, stage) ==
    calls' = [calls EXCEPT ![th][Len(calls[th])].stage = stage]
Return(th) == calls' = [calls EXCEPT ![th] = Front(@)]
Call(th, frame) == calls' = [calls EXCEPT ![th] = Append(@, frame)]

\* Python code runs in th: at its top, or in a handler.
Runs(th) ==
    /\ calls[th] = <<>> \/ At(th, "pre", "handler")
    /\ Len(calls[th]) < MaxDepth

AnyRuns == \E th \in Thread : Runs(th)

----------------------------------------------------------------------------
(* What the calls are to give.                                             *)

\* The units of w, none when it has no splits in this mode.
Parts(w, m) ==
    IF IsOov(w) \/ m = "C" THEN <<>>
    ELSE ResolveAll(IF m = "A" THEN Info[w].a ELSE Info[w].b, w[1])

WordsOf(t, m) ==
    FlattenSeq([k \in DOMAIN BestPath[t] |->
        IF Len(Parts(BestPath[t][k], m)) =< 1 THEN <<BestPath[t][k]>>
        ELSE Parts(BestPath[t][k], m)])

Words(items) == [k \in DOMAIN items |-> items[k].word]

\* What callers must see to: units that are read along with those of another
\* mode are not resolved (WordInfos, Resolve).  It does not matter to a tokenizer
\* created with both kinds, which is the default, and as long as there is at most
\* one user dictionary.
SplitsResolved ==
    \/ \A s \in Subsets \cup {PreFields} : {"SPLIT_A", "SPLIT_B"} \subseteq s
    \/ \A w \in WordId : ~IsOov(w) =>
           \A r \in Range(Info[w].a) \cup Range(Info[w].b) : ResolveRef(r, w[1]) = r

----------------------------------------------------------------------------
(* Tokenizer.tokenize                                                      *)

SetMode(tok, m) == [tok EXCEPT !.mode = m, !.subset = @ \cup ModeSubset(m)]

AsAnalysed(t, m, s) == SplitPath(BestNodes(t, s), m, s)

\* set_subset, of a tokenizer just made.
Created(s) == Normalize(s \cup ModeSubset(Default))

\* The tokenizer is borrowed, or "Tokenizer is already in use" is raised, and
\* the mode of the call is set for the time of the call.
BeginTokenize(th, t, m, out) ==
    /\ Runs(th)
    /\ owner = {}
    /\ out = {} => Room
    /\ owner' = {th}
    /\ tokenizer' = IF m = {} THEN tokenizer
                    ELSE SetMode(tokenizer, CHOOSE x \in m : TRUE)
    /\ Call(th, [op |-> "tokenize", stage |-> "detached", text |-> t, mode |-> m,
                 saved |-> IF m = {} THEN {} ELSE {tokenizer.mode}, out |-> out])
    /\ UNCHANGED <<cell, heap, part, object, iterator, closed, shown>>

\* Without the GIL: reset, push_str and do_tokenize.  What a failure leaves in
\* the tokenizer is Tokenizer's; it is overwritten by the next reset.
Analyse(th) ==
    /\ At(th, "tokenize", "detached")
    /\ LET t == Top(th).text
       IN  \/ /\ t \notin TooLong
              /\ tokenizer' = [tokenizer EXCEPT !.text = t, !.path =
                     AsAnalysed(t, tokenizer.mode, tokenizer.subset)]
              /\ Stage(th, "done")
           \/ tokenizer' = tokenizer /\ Stage(th, "failed")
    /\ UNCHANGED <<owner, cell, heap, part, object, iterator, closed, shown>>

\* The guard of the call puts the mode back, however it ends.
Restored(th, tok) ==
    IF Top(th).saved = {} THEN tok
    ELSE SetMode(tok, CHOOSE m \in Top(th).saved : TRUE)

\* Mutant: the mode is put back at the end of a call that succeeds.
RaiseTokenizeInMode(th) ==
    /\ At(th, "tokenize", "failed")
    /\ owner' = {}
    /\ Return(th)
    /\ UNCHANGED <<tokenizer, cell, heap, part, object, iterator, closed, shown>>

\* The error is raised before out is looked at.
RaiseTokenize(th) ==
    /\ At(th, "tokenize", "failed")
    /\ tokenizer' = Restored(th, tokenizer)
    /\ owner' = {}
    /\ Return(th)
    /\ UNCHANGED <<cell, heap, part, object, iterator, closed, shown>>

\* Mutant: the result is swapped into the list as it is.
CollectIntoOld(th) ==
    /\ At(th, "tokenize", "done")
    /\ \E l \in ListOf(Top(th).out) :
           /\ LET a == IF l \in DOMAIN heap /\ heap[l].backing = "List"
                       THEN heap[l].input ELSE NewInput(l)
              IN  Install(l, OfNodes(a, tokenizer.path),
                          [text |-> tokenizer.text, subset |-> tokenizer.subset])
           /\ Show(l, "call", Top(th).text,
                   WordsOf(Top(th).text, IF Top(th).mode = {} THEN Default
                                         ELSE CHOOSE m \in Top(th).mode : TRUE))
    /\ tokenizer' = Restored(th, [tokenizer EXCEPT !.text = EmptyText, !.path = <<>>])
    /\ owner' = {}
    /\ Return(th)
    /\ UNCHANGED <<cell, object, iterator, closed>>

\* out becomes an empty list with an input of its own (replace_with_empty_list),
\* which the result is swapped into (collect_results).
Collect(th) ==
    /\ At(th, "tokenize", "done")
    /\ \E l \in ListOf(Top(th).out) :
           /\ Install(l, OfNodes(NewInput(l), tokenizer.path),
                      [text |-> tokenizer.text, subset |-> tokenizer.subset])
           /\ Show(l, "call", Top(th).text,
                   WordsOf(Top(th).text, IF Top(th).mode = {} THEN Default
                                         ELSE CHOOSE m \in Top(th).mode : TRUE))
    /\ tokenizer' = Restored(th, [tokenizer EXCEPT !.text = EmptyText, !.path = <<>>])
    /\ owner' = {}
    /\ Return(th)
    /\ UNCHANGED <<cell, object, iterator, closed>>

----------------------------------------------------------------------------
(* The pre-tokenizer, with a handler.  Without one the result is made at   *)
(* once, of a list nobody else sees.                                       *)

\* Mutant: the cell may be borrowed again.
BeginPreAgain(th, t) ==
    /\ Runs(th)
    /\ cell[th].list = {} => Room
    /\ Call(th, [op |-> "pre", stage |-> "detached", text |-> t])
    /\ UNCHANGED <<tokenizer, owner, cell, heap, part, object, iterator, closed, shown>>

\* A thread has a cell of its own.  It is borrowed while its handler runs: a
\* call from there panics.
BeginPre(th, t) ==
    /\ Runs(th)
    /\ \A k \in DOMAIN calls[th] : calls[th][k].op # "pre"
    /\ cell[th].list = {} => Room
    /\ Call(th, [op |-> "pre", stage |-> "detached", text |-> t])
    /\ UNCHANGED <<tokenizer, owner, cell, heap, part, object, iterator, closed, shown>>

\* Without the GIL.
AnalysePre(th) ==
    /\ At(th, "pre", "detached")
    /\ LET t == Top(th).text
       IN  \/ /\ t \notin TooLong
              /\ cell' = [cell EXCEPT ![th].text = t,
                                      ![th].path = AsAnalysed(t, Default, Created(PreFields))]
              /\ Stage(th, "done")
           \/ cell' = cell /\ Stage(th, "failed")
    /\ UNCHANGED <<tokenizer, owner, heap, part, object, iterator, closed, shown>>

RaisePre(th) ==
    /\ At(th, "pre", "failed")
    /\ Return(th)
    /\ UNCHANGED <<tokenizer, owner, cell, heap, part, object, iterator, closed, shown>>

\* collect_results, into the list of the thread, and the handler is called.
CollectPre(th) ==
    /\ At(th, "pre", "done")
    /\ \E l \in ListOf(cell[th].list) :
           /\ Install(l, OfNodes(NewInput(l), cell[th].path),
                      [text |-> cell[th].text, subset |-> Created(PreFields)])
           /\ Show(l, "pre", Top(th).text, WordsOf(Top(th).text, Default))
           /\ cell' = [cell EXCEPT ![th] =
                          [text |-> EmptyText, path |-> <<>>, list |-> {l}]]
    /\ Stage(th, "handler")
    /\ UNCHANGED <<tokenizer, owner, object, iterator, closed>>

EndHandler(th) ==
    /\ At(th, "pre", "handler")
    /\ Return(th)
    /\ UNCHANGED <<tokenizer, owner, cell, heap, part, object, iterator, closed, shown>>

----------------------------------------------------------------------------
(* Morpheme.split.  Any Python code that runs may call it, and what follows. *)

ListsChange ==
    /\ AnyRuns
    /\ UNCHANGED <<tokenizer, owner, cell, calls, object, iterator, closed>>

Item(l, i) == [kind |-> "item", list |-> {l}, index |-> i]
Single(x) == [kind |-> "single", list |-> {}, morpheme |-> x]

\* split_list_backed: the list must have nodes (as_list), and out is another
\* one (try_borrow_mut).
MaySplit(l, out) ==
    /\ heap[l].backing = "List"
    /\ out # {l}
    /\ out = {} => Room

\* The units share the input of the list.
SplitItem(l, i, m, out) ==
    /\ MaySplit(l, out) /\ i \in DOMAIN heap[l].items
    /\ Units(heap[l].items[i], m) # <<>>
    /\ \E o \in ListOf(out) :
           /\ Install(o, OfNodes(heap[l].input,
                                 SplitNode(heap[l].items[i], m, part[heap[l].input].subset)),
                      part[heap[l].input])
           /\ Show(o, IF shown[l].by = "single" THEN "single" ELSE "call",
                   heap[l].items[i].text, Parts(heap[l].items[i].word, m))
    /\ ListsChange

\* There are no units: the node is copied when the caller asked for it, but out
\* has been given an input of its own.
KeepItem(l, i, m, out, add_single) ==
    /\ MaySplit(l, out) /\ i \in DOMAIN heap[l].items
    /\ Units(heap[l].items[i], m) = <<>>
    /\ \E o \in ListOf(out) :
           LET kept == IF add_single THEN <<heap[l].items[i]>> ELSE <<>>
           IN  /\ Install(o, OfNodes(NewInput(o), kept), DefaultPart)
               /\ Show(o, IF add_single THEN "single" ELSE "call",
                       heap[l].items[i].text, Words(kept))
    /\ ListsChange

\* The list was used as out and has become shorter: this panics, when the list
\* to split into is empty already.
SplitGone(l, i, out) ==
    /\ MaySplit(l, out) /\ i \notin DOMAIN heap[l].items
    /\ \E o \in out :
           /\ Install(o, OfNodes(NewInput(o), <<>>), DefaultPart)
           /\ Show(o, "call", EmptyText, <<>>)
    /\ ListsChange

\* split_single_backed
SplitMorpheme(x, m, out, add_single) ==
    LET parts == SplitSingle(x, m)
        no_split == Len(parts) = 1 /\ parts[1].word = x.word
        units == IF Parts(x.word, m) = <<>> THEN <<x.word>> ELSE Parts(x.word, m)
    IN  /\ out = {} => Room
        /\ \E o \in ListOf(out) :
               /\ Install(o, OfSingles(IF add_single \/ ~no_split THEN parts ELSE <<>>),
                          DefaultPart)
               /\ Show(o, "call", EmptyText,
                       IF add_single \/ units # <<x.word>> THEN units ELSE <<>>)
        /\ ListsChange

Split(m, out, add_single) ==
    \/ \E x \in object :
           /\ x.kind = "item"
           /\ \E l \in x.list :
                  \/ SplitItem(l, x.index, m, out)
                  \/ KeepItem(l, x.index, m, out, add_single)
                  \/ SplitGone(l, x.index, out)
    \/ \E x \in object : x.kind = "single" /\ SplitMorpheme(x.morpheme, m, out, add_single)

----------------------------------------------------------------------------
(* Dictionary: a call after close panics.  Tokenizers and lists keep the   *)
(* data of the dictionary alive.                                           *)

Close ==
    /\ AnyRuns /\ ~closed
    /\ closed' = TRUE
    /\ UNCHANGED <<tokenizer, owner, cell, heap, part, calls, object, iterator, shown>>

\* MorphemeList.empty
Empty ==
    /\ ~closed /\ Room
    /\ \E l \in NewList : /\ Install(l, OfNodes(NewInput(l), <<>>), DefaultPart)
                          /\ Show(l, "call", EmptyText, <<>>)
    /\ ListsChange

Lookup(t, out) ==
    /\ ~closed /\ t \notin TooLong
    /\ out = {} => Room
    /\ \E l \in ListOf(out) :
           /\ Install(l, OfNodes(NewInput(l), FoundNodes(t, Field)),
                      [text |-> t, subset |-> Field])
           /\ Show(l, "call", t, Found[t])
    /\ ListsChange

\* out is empty already when the query cannot be normalised.
LookupFails(t, out) ==
    /\ ~closed
    /\ \E l \in out : /\ Install(l, OfNodes(NewInput(l), <<>>), [text |-> t, subset |-> Field])
                      /\ Show(l, "call", t, <<>>)
    /\ ListsChange

\* lookup_all_dictionary_entries, which goes over all words.
AllMatches(t) ==
    FlattenSeq([k \in DOMAIN Entries |->
        IF Entries[k] \in Same[t] THEN <<Entries[k]>> ELSE <<>>])

\* lookup_all_entries: out is changed when all has been found.
LookupAll(t, out) ==
    /\ ~closed /\ t \notin TooLong
    /\ out = {} => Room
    /\ \E l \in ListOf(out) :
           /\ Install(l, OfSingles([k \in DOMAIN AllMatches(t) |->
                                       FromWordId(AllMatches(t)[k], Field)]), DefaultPart)
           /\ Show(l, "call", EmptyText, AllMatches(t))
    /\ ListsChange

----------------------------------------------------------------------------
(* What the program holds.                                                 *)

ObjectIs(x) ==
    /\ AnyRuns
    /\ object' = x
    /\ UNCHANGED <<tokenizer, owner, cell, heap, part, calls, closed, shown>>

\* An item of a list is a reference into it, or a copy.
TakeItem(l, i) ==
    ObjectIs({IF heap[l].backing = "List" THEN Item(l, i) ELSE Single(heap[l].items[i])})

\* __getitem__
GetItem(l, i) == i \in DOMAIN heap[l].items /\ TakeItem(l, i) /\ UNCHANGED iterator

\* dictionary_form_morpheme and normalized_form_morpheme
GetForm ==
    /\ \E x \in object :
           \/ /\ x.kind = "single"
              /\ \E f \in FormMorpheme(x.morpheme.word, x.morpheme.subset) :
                     ObjectIs({Single(f)})
           \/ /\ x.kind = "item"
              /\ \E l \in x.list :
                     /\ heap[l].backing = "List" /\ x.index \in DOMAIN heap[l].items
                     /\ \E f \in FormMorpheme(heap[l].items[x.index].word,
                                              part[heap[l].input].subset) :
                            ObjectIs({Single(f)})
    /\ UNCHANGED iterator

\* Dictionary.oov_morpheme
GetOov(w) == ~closed /\ ObjectIs({Single(OovMorpheme(w))}) /\ UNCHANGED iterator

\* __iter__, and Dictionary.entries.
Iterate(x) ==
    /\ AnyRuns
    /\ iterator' = {x}
    /\ UNCHANGED <<tokenizer, owner, cell, heap, part, calls, object, closed, shown>>
IterateList(l) == Iterate([kind |-> "list", list |-> {l}, index |-> 0])
IterateEntries == ~closed /\ Iterate([kind |-> "entries", list |-> {}, index |-> 0])

\* __next__, of the list as it is now.
NextItem ==
    \E x \in iterator :
        /\ x.kind = "list"
        /\ \E l \in x.list : x.index < Len(heap[l].items) /\ TakeItem(l, x.index + 1)
        /\ iterator' = {[x EXCEPT !.index = @ + 1]}

NextEntry ==
    \E x \in iterator :
        /\ x.kind = "entries" /\ x.index < Len(Entries)
        /\ ObjectIs({Single(FromWordId(Entries[x.index + 1], Field))})
        /\ iterator' = {[x EXCEPT !.index = @ + 1]}

\* The program forgets what it holds, and a list.
Forget ==
    /\ object \cup iterator # {}
    /\ ObjectIs({}) /\ iterator' = {}

Drop(l) ==
    /\ ~InUse(l)
    /\ heap' = [k \in DOMAIN heap \ {l} |-> heap[k]]
    /\ part' = [a \in Used(heap') |-> part[a]]
    /\ shown' = [k \in DOMAIN shown \ {l} |-> shown[k]]
    /\ ListsChange

----------------------------------------------------------------------------
PythonInit ==
    /\ tokenizer \in {[mode |-> Default, subset |-> Created(s), text |-> EmptyText,
                       path |-> <<>>] : s \in Subsets}
    /\ owner = {}
    /\ cell = [th \in Thread |-> [text |-> EmptyText, path |-> <<>>, list |-> {}]]
    /\ heap = <<>> /\ part = <<>> /\ shown = <<>>
    /\ calls = [th \in Thread |-> <<>>]
    /\ object = {} /\ iterator = {}
    /\ closed = FALSE

ThreadStep(th) ==
    \/ \E t \in Text, m \in {{}} \cup {{x} : x \in Modes}, out \in Out :
           BeginTokenize(th, t, m, out)
    \/ Analyse(th) \/ RaiseTokenize(th) \/ Collect(th)
    \/ \E t \in Text : BeginPre(th, t)
    \/ AnalysePre(th) \/ RaisePre(th) \/ CollectPre(th) \/ EndHandler(th)

ProgramStep ==
    \/ \E m \in Modes, out \in Out, add_single \in BOOLEAN : Split(m, out, add_single)
    \/ Close \/ Empty
    \/ \E t \in Text, out \in Out : Lookup(t, out) \/ LookupFails(t, out) \/ LookupAll(t, out)
    \/ \E l \in DOMAIN heap : \E i \in DOMAIN heap[l].items : GetItem(l, i)
    \/ GetForm \/ \E w \in Oov : GetOov(w)
    \/ \E l \in DOMAIN heap : IterateList(l) \/ Drop(l)
    \/ IterateEntries \/ NextItem \/ NextEntry \/ Forget

PythonNext == (\E th \in Thread : ThreadStep(th)) \/ ProgramStep

PythonSpec == PythonInit /\ [][PythonNext]_python_vars

----------------------------------------------------------------------------
(* Properties.                                                             *)

\* What the words of l are read as: their ids, and the text of their input.
Reads(l, text, words) ==
    /\ Words(heap[l].items) = words
    /\ heap[l].backing = "List" /\ words # <<>> => part[heap[l].input].text = text

\* A list shows exactly what the last call that got it as out, or returned it,
\* was asked for: the words of its text in its mode.  Nothing other threads do
\* with the tokenizer in the meantime, and no call that is given another list
\* or fails before it has a result, shows in it (morpheme.rs,
\* replace_with_empty_list, and tokenizer.rs, tokenize).
ListsShowTheirResult ==
    \A l \in DOMAIN heap :
        shown[l].by # "single" => Reads(l, shown[l].text, shown[l].words)

\* While a handler runs the list it was given shows the text it was called for,
\* unless Python code has used that list as out (pretokenizer.rs, __call__).
HandlersSeeTheirText ==
    \A th \in Thread : \A k \in DOMAIN calls[th] :
        calls[th][k].op = "pre" /\ calls[th][k].stage = "handler" =>
            \A l \in cell[th].list :
                shown[l].by = "pre" => Reads(l, calls[th][k].text,
                                             WordsOf(calls[th][k].text, Default))

Tokenizing(th) == \E k \in DOMAIN calls[th] : calls[th][k].op = "tokenize"

\* A tokenizer no call is using can be borrowed, and is in the mode it was
\* created with, also after calls with another mode that failed (tokenizer.rs,
\* the scope guard).
ModeRestored ==
    (\A th \in Thread : ~Tokenizing(th)) => owner = {} /\ tokenizer.mode = Default
=============================================================================
