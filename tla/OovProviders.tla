---------------------------- MODULE OovProviders ----------------------------
(***************************************************************************)
(* The providers of out-of-vocabulary words, as functions of the text, the *)
(* offset and the words the lattice builder has created there              *)
(* (sudachi/src/plugin/oov/{mecab,regex,simple}_oov.rs), and CreatedWords  *)
(* (sudachi/src/analysis/created.rs).                                      *)
(*                                                                         *)
(* A provider is a record with a kind:                                     *)
(*   simple  left, right, cost                                             *)
(*   mecab   category -> [invoke, group, length, oovs], where it has both a*)
(*           definition and OOV entries                                    *)
(*   regex   left, right, cost, maxLength, strict, debug and the regex,    *)
(*           which is ^[chars]{min,}|[stray] : the alternative that the    *)
(*           anchor set_up inserts does not reach matches anywhere         *)
(* id is what the nodes of a provider have for a word.                     *)
(***************************************************************************)
EXTENDS CharIndex, SequencesExt

CONSTANTS
    CategoryOrder,  \* the categories, in the order of their bits
    MaxValue        \* CreatedWords::MAX_VALUE: longest length told apart

Least(x, y) == IF x =< y THEN x ELSE y

----------------------------------------------------------------------------
(* CreatedWords.  A set of the lengths 1..MaxValue stands for the bits.    *)

\* single: lengths over MaxValue share its bit, and in a release build 0 has
\* the bit of 1.
Single(length) == {IF length = 0 THEN 1 ELSE Least(length, MaxValue)}

\* Mutant: a shared bit says nothing.
HasWordUnlessShared(created, length) ==
    IF length >= MaxValue \/ Single(length) \cap created = {} THEN "No" ELSE "Yes"

HasWord(created, length) ==
    IF Single(length) \cap created = {} THEN "No"
    ELSE IF length >= MaxValue THEN "Maybe" ELSE "Yes"

----------------------------------------------------------------------------
OovNode(off, length, entry, id) ==
    [begin |-> off, end |-> off + length, left |-> entry.left,
     right |-> entry.right, cost |-> entry.cost, word |-> id]

\* SimpleOovPlugin::provide_oov
ProvideSimple(p, cats, off, created) ==
    IF created # {} THEN <<>>
    ELSE <<OovNode(off, WordCandidateLength(cats, off), p, p.id)>>

\* The lengths a category gives to its words: the run of the category as a
\* group, then 1, 2, ... characters up to the run, which is one less if it is
\* a group already.
MecabLengths(cats, off, info) ==
    LET run == ContinuityOf(cats)[off + 1]
        limit == IF info.group THEN run - 1 ELSE run
    IN  (IF info.group THEN <<run>> ELSE <<>>)
            \o FlattenSeq([i \in 1..info.length |->
                   IF CharDistance(cats, off, i) =< limit
                   THEN <<CharDistance(cats, off, i)>> ELSE <<>>])

MecabNodes(p, cats, off, info) ==
    LET lengths == MecabLengths(cats, off, info)
    IN  FlattenSeq([k \in DOMAIN lengths |->
            [j \in DOMAIN info.oovs |->
                OovNode(off, lengths[k], info.oovs[j], p.id)]])

\* MeCabOovPlugin::provide_oov_gen: the categories that are not invoked always
\* are invoked only where no word was created.
ProvideMecab(p, cats, off, created) ==
    LET Invoked(c) == /\ c \in cats[off + 1] /\ c \in DOMAIN p.categories
                      /\ p.categories[c].invoke \/ created = {}
    IN  FlattenSeq([k \in DOMAIN CategoryOrder |->
            IF Invoked(CategoryOrder[k])
            THEN MecabNodes(p, cats, off, p.categories[CategoryOrder[k]])
            ELSE <<>>])

\* Inside a run of characters of one category.
NoBoundary(cats, off) ==
    off > 0 /\ ContinuityOf(cats)[off + 1] + 1 = ContinuityOf(cats)[off]

\* What the regex sees: at most maxLength characters.
Window(p, text, off) == SubSeq(text, off + 1, Least(Len(text), off + p.maxLength))

\* The length of the longest prefix of w made of chars.
PrefixLength(w, chars) ==
    CHOOSE n \in 0..Len(w) : /\ \A i \in 1..n : w[i] \in chars
                             /\ n < Len(w) => w[n + 1] \notin chars

\* Regex::find: the offset and the length of the leftmost match, or {}.
Find(p, w) ==
    LET n == PrefixLength(w, p.chars)
        strays == {i \in DOMAIN w : w[i] \in p.stray}
        first == CHOOSE i \in strays : \A j \in strays : i =< j
    IN  IF n >= p.min THEN {[start |-> 0, length |-> n]}
        ELSE IF strays # {} THEN {[start |-> first - 1, length |-> 1]}
        ELSE {}

\* RegexOovProvider::provide_oov.  buffer holds the nodes that begin at off.
ProvideRegex(p, text, cats, off, created, buffer) ==
    LET Taken(n) ==
            CASE HasWord(created, n) = "Yes" -> TRUE
              [] HasWord(created, n) = "No" -> FALSE
              [] OTHER -> \E i \in DOMAIN buffer : buffer[i].end = off + n
    IN  IF p.strict /\ NoBoundary(cats, off) THEN <<>>
        ELSE IF \E m \in Find(p, Window(p, text, off)) :
                    m.start = 0 /\ ~Taken(m.length)
        THEN LET m == CHOOSE m \in Find(p, Window(p, text, off)) : TRUE
             IN  <<OovNode(off, m.length, p, p.id)>>
        ELSE <<>>

\* In the debug mode of a provider a match that starts elsewhere is an error.
Fails(p, text, cats, off) ==
    /\ p.kind = "regex" /\ p.debug
    /\ ~(p.strict /\ NoBoundary(cats, off))
    /\ \E m \in Find(p, Window(p, text, off)) : m.start # 0

\* provide_oov: the nodes the provider adds to the buffer.
Provide(p, text, cats, off, created, buffer) ==
    CASE p.kind = "simple" -> ProvideSimple(p, cats, off, created)
      [] p.kind = "mecab" -> ProvideMecab(p, cats, off, created)
      [] p.kind = "regex" -> ProvideRegex(p, text, cats, off, created, buffer)
=============================================================================
