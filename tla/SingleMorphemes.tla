-------------------------- MODULE SingleMorphemes --------------------------
(***************************************************************************)
(* SingleMorpheme (sudachi/src/analysis/morpheme.rs): a word of the        *)
(* dictionary without a text around it.  It comes from an entry, from the  *)
(* form another word refers to, or from splitting one, and is a record     *)
(* [word, subset, begin, end]; its surface is the headword, taken to be as *)
(* long as the index form.                                                 *)
(***************************************************************************)
EXTENDS WordInfos

CONSTANTS
    Form  \* word -> {} or {the reference of its dictionary or normalised form}

ASSUME FormAssumption ==
    \A w \in WordId : \A r \in Form[w] : r \in Ref /\ ResolveRef(r, w[1]) \in WordId

\* from_word_id, after validate_dictionary_word_id.
FromWordId(w, subset) ==
    [word |-> w, subset |-> Normalize(subset), begin |-> 0, end |-> Info[w].length]

\* oov: a word that is not in a dictionary, with all its fields.
OovMorpheme(w) ==
    [word |-> w, subset |-> Field, begin |-> 0, end |-> Info[w].length]

\* resolve_referenced_form_morpheme: {} when the word stands for its form.
FormMorpheme(w, subset) ==
    IF IsOov(w) THEN {}
    ELSE {FromWordId(f, subset) :
             f \in {ResolveRef(r, w[1]) : r \in Form[w]} \ {w}}

\* Mutant: the units are those the word was read with.
SingleUnitsAsRead(x, m) ==
    LET info == NodeInfo(x.word, x.subset)
    IN  CASE m = "A" -> info.a [] m = "B" -> info.b [] m = "C" -> <<>>

\* The units of a mode, read again when they were not asked for.
SingleUnits(x, m) ==
    LET info == NodeInfo(x.word,
                         IF ModeSubset(m) \subseteq x.subset THEN x.subset
                         ELSE Normalize(x.subset \cup ModeSubset(m)))
    IN  CASE m = "A" -> info.a [] m = "B" -> info.b [] m = "C" -> <<>>

\* split: a single other unit takes the span of the word, several follow each
\* other by their own lengths.
SplitSingle(x, m) ==
    LET units == SingleUnits(x, m)
        end[k \in 0..Len(units)] ==
            IF k = 0 THEN x.begin ELSE end[k - 1] + Info[units[k]].length
        part(k) == FromWordId(units[k], x.subset)
    IN  IF units \in {<<>>, <<x.word>>} THEN <<x>>
        ELSE IF Len(units) = 1
        THEN <<[part(1) EXCEPT !.begin = x.begin, !.end = x.end]>>
        ELSE [k \in DOMAIN units |->
                 [part(k) EXCEPT !.begin = end[k - 1], !.end = end[k]]]
=============================================================================
