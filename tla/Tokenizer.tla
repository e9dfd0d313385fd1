----------------------------- MODULE Tokenizer -----------------------------
(***************************************************************************)
(* StatefulTokenizer (sudachi/src/analysis/stateful_tokenizer.rs): the     *)
(* state one tokenizer carries from a text to the next one.  The stages of *)
(* an analysis are InputBuffer and LatticeBuilder; here a text has its     *)
(* best path, and every stage may fail.                                    *)
(***************************************************************************)
EXTENDS BestPaths

CONSTANTS
    Modes,     \* modes callers ask for
    Subsets    \* field subsets they ask for

ASSUME CallerAssumption == Modes \subseteq Mode /\ Subsets \subseteq SUBSET Field

VARIABLES
    mode, subset,
    input,     \* [text, state]: the text and its BufferState
    top_path,  \* {} or {path}: Option<Vec<ResultNode>>
    phase,     \* the protocol of the caller: none, text (after reset), done
    analyzed,  \* history: [mode, subset] of the last analysis
    result     \* of the last do_tokenize

tokenizer_vars == <<mode, subset, input, top_path, phase, analyzed, result>>

\* top_path.take().unwrap_or_default(): the vector is reused as it is.
Taken == IF top_path = {} THEN <<>> ELSE CHOOSE p \in top_path : TRUE

Analysis(t, m, s) == SplitPath(Taken \o BestNodes(t, s), m, s)

----------------------------------------------------------------------------
\* create
TokenizerInit ==
    /\ mode \in Modes /\ subset = Field
    /\ input \in [text : {t \in Text \ TooLong : IsEmpty(t)}, state : {"Clean"}]
    /\ top_path = {<<>>}
    /\ phase = "none"
    /\ analyzed = [mode |-> mode, subset |-> subset]
    /\ result = "Ok"

\* Mutant: the fields are those of the caller.
SetModeOnly(m) ==
    /\ mode' = m
    /\ UNCHANGED <<subset, input, top_path, phase, analyzed, result>>

\* set_mode: the fields of a mode are added, never taken away.
SetMode(m) ==
    /\ mode' = m
    /\ subset' = subset \cup ModeSubset(m)
    /\ UNCHANGED <<input, top_path, phase, analyzed, result>>

\* set_subset
SetSubset(s) ==
    /\ subset' = Normalize(s \cup ModeSubset(mode))
    /\ UNCHANGED <<mode, input, top_path, phase, analyzed, result>>

\* reset, and the caller writing the next text.
Reset(t) ==
    /\ top_path' = {<<>> : p \in top_path}
    /\ input' = [text |-> t, state |-> "Clean"]
    /\ phase' = "text"
    /\ UNCHANGED <<mode, subset, analyzed, result>>

\* do_tokenize fails before it touches the path: the text is too long, an
\* input text plugin fails, or the lattice cannot be built.
FailEarly ==
    /\ phase = "text"
    /\ \E state \in IF input.text \in TooLong THEN {"Clean"}
                    ELSE IF IsEmpty(input.text) THEN {"RW"} ELSE {"RW", "RO"} :
           input' = [input EXCEPT !.state = state]
    /\ phase' = "done" /\ result' = "Err"
    /\ UNCHANGED <<mode, subset, top_path, analyzed>>

\* do_tokenize returns before the lattice.
TokenizeEmpty ==
    /\ phase = "text"
    /\ input.text \notin TooLong /\ IsEmpty(input.text)
    /\ input' = [input EXCEPT !.state = "RO"]
    /\ analyzed' = [mode |-> mode, subset |-> subset]
    /\ phase' = "done" /\ result' = "Ok"
    /\ UNCHANGED <<mode, subset, top_path>>

\* The path has been taken when a word cannot be read, or a path rewrite
\* plugin fails: it is lost.
FailLate ==
    /\ phase = "text"
    /\ input.text \notin TooLong /\ ~IsEmpty(input.text)
    /\ input' = [input EXCEPT !.state = "RO"]
    /\ top_path' = {}
    /\ phase' = "done" /\ result' = "Err"
    /\ UNCHANGED <<mode, subset, analyzed>>

Tokenize ==
    /\ phase = "text"
    /\ input.text \notin TooLong /\ ~IsEmpty(input.text)
    /\ input' = [input EXCEPT !.state = "RO"]
    /\ top_path' = {Analysis(input.text, mode, subset)}
    /\ analyzed' = [mode |-> mode, subset |-> subset]
    /\ phase' = "done" /\ result' = "Ok"
    /\ UNCHANGED <<mode, subset>>

DoTokenize == FailEarly \/ TokenizeEmpty \/ FailLate \/ Tokenize

TokenizerNext ==
    \/ \E m \in Modes : SetMode(m)
    \/ \E s \in Subsets : SetSubset(s)
    \/ \E t \in Text : Reset(t)
    \/ DoTokenize

TokenizerSpec == TokenizerInit /\ [][TokenizerNext]_tokenizer_vars

----------------------------------------------------------------------------
(* Properties.                                                             *)

\* p covers t from its beginning to its end, each node begins where the one
\* before ends, and has exactly the length of its word.
Tiles(p, t) ==
    /\ IF p = <<>> THEN Length(t) = 0
       ELSE p[1].begin = 0 /\ p[Len(p)].end = Length(t)
    /\ \A k \in DOMAIN p :
           /\ k > 1 => p[k].begin = p[k - 1].end
           /\ p[k].end - p[k].begin = Info[p[k].word].length
           /\ p[k].text = t

Analyzed == phase = "done" /\ result = "Ok"

\* The units of a word of the best path in the mode of the analysis.
UnitsInMode(w) ==
    LET units == IF analyzed.mode = "A" THEN Info[w].a ELSE Info[w].b
    IN  IF analyzed.mode = "C" \/ IsOov(w) \/ Len(units) =< 1 THEN <<w>>
        ELSE ResolveAll(units, w[1])

\* The result of an analysis is that of its text, mode and fields alone,
\* whatever came before: nothing of an earlier or a failed analysis is in front
\* of it, the words cover the text, and they are the units of the mode although
\* the caller did not ask for the splits, whatever the order of set_mode and
\* set_subset (stateful_tokenizer.rs, do_tokenize).
ResultStandsAlone ==
    Analyzed =>
        LET best == BestPath[input.text]
        IN  \A p \in top_path :
                /\ Tiles(p, input.text)
                /\ [k \in DOMAIN p |-> p[k].word]
                     = FlattenSeq([k \in DOMAIN best |-> UnitsInMode(best[k])])
=============================================================================
