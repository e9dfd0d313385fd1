----------------------------- MODULE CharIndex -----------------------------
(***************************************************************************)
(* What InputBuffer derives from the categories of the characters of the   *)
(* normalised text, and what the lattice and the OOV providers ask of it   *)
(* (sudachi/src/input_text/buffer.rs).                                     *)
(*                                                                         *)
(* cats is the sequence of the category sets char.def gives to the         *)
(* characters.  The character at the offset i of the code is cats[i + 1].  *)
(***************************************************************************)
EXTENDS Integers, Sequences

\* Scripts whose runs suppress the beginning of a word inside them.
NonStarting == {"ALPHA", "GREEK", "CYRILLIC"}

\* Whether the k-th character (from 1) can begin a word.
CanBowChar(cats, k) ==
    \/ cats[k] \cap NonStarting = {}
    \/ k = 1
    \/ cats[k] \cap cats[k - 1] = {}

Common(cats, i, j) == {c \in cats[i] : \A k \in i..j : c \in cats[k]}

\* The longest run from i on whose characters have a category in common;
\* the character i alone is always one.
RunLength(cats, i) ==
    CHOOSE n \in 1..(Len(cats) - i + 1) :
        /\ n = 1 \/ Common(cats, i, i + n - 1) # {}
        /\ i + n =< Len(cats) => Common(cats, i, i + n) = {}

\* fill_cat_continuity: a new run is measured only where the last one ends.
ContinuityOf(cats) ==
    LET f[i \in 1..Len(cats)] ==
            IF i > 1 /\ f[i - 1] > 1 THEN f[i - 1] - 1 ELSE RunLength(cats, i)
    IN  [i \in 1..Len(cats) |-> f[i]]

\* can_oov_bow: whether an OOV word may begin at the offset off.
CanOovBow(cats, off) ==
    /\ "NOOOVBOW" \notin cats[off + 1]
    /\ off > 0 => "NOOOVEOW" \notin cats[off]

\* get_word_candidate_length: the distance from off to the next character that
\* can begin a word, or to the end of the text.
WordCandidateLength(cats, off) ==
    LET Ends == {i \in off + 1..Len(cats) : i < Len(cats) => CanBowChar(cats, i + 1)}
    IN  (CHOOSE e \in Ends : \A i \in Ends : e =< i) - off

\* char_distance: n characters on from off, but not over the end.
CharDistance(cats, off, n) ==
    IF off + n > Len(cats) THEN Len(cats) - off ELSE n
=============================================================================
