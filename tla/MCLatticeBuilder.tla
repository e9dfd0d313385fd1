--------------------------- MODULE MCLatticeBuilder ---------------------------
(***************************************************************************)
(* LatticeBuilder on every text of up to three of the characters a (a      *)
(* letter), k (a kanji) and o (a kanji that begins no OOV word), with four *)
(* dictionaries.  Texts follow each other on one builder, in both modes.   *)
(***************************************************************************)
EXTENDS LatticeBuilder

MCChar == {"a", "k", "o"}
MCCat == [c \in MCChar |-> CASE c = "a" -> {"ALPHA"}
                             [] c = "k" -> {"KANJI"}
                             [] c = "o" -> {"KANJI", "NOOOVBOW"}]
MCCategoryOrder == <<"KANJI", "ALPHA">>

MCSentences == UNION {[1..n -> MCChar] : n \in 1..3}

MCConnId == {0, 1}
MCConn == [c \in MCConnId \X MCConnId |->
             CASE c = <<1, 1>> -> 4 [] c = <<0, 1>> -> -1 [] OTHER -> 0]

Entry(surface, id, cost) ==
    [surface |-> surface, left |-> id, right |-> id, cost |-> cost]

MCLexicon == <<Entry(<<"a">>, 1, 2), Entry(<<"a", "a">>, 1, 9),
               Entry(<<"k">>, 1, 1), Entry(<<"k", "a">>, 1, 2),
               Entry(<<"a", "k", "o">>, 1, -2)>>

Simple(id) == [kind |-> "simple", left |-> 0, right |-> 0, cost |-> 9, id |-> id]

Oov(cost) == [left |-> 0, right |-> 1, cost |-> cost]

Mecab(id) ==
    [kind |-> "mecab", id |-> id,
     categories |->
        [c \in {"KANJI", "ALPHA"} |->
            IF c = "KANJI"
            THEN [invoke |-> FALSE, group |-> FALSE, length |-> 2,
                  oovs |-> <<Oov(5)>>]
            ELSE [invoke |-> TRUE, group |-> TRUE, length |-> 2,
                  oovs |-> <<Oov(6)>>]]]

Letters(id) ==
    [kind |-> "mecab", id |-> id,
     categories |-> [c \in {"ALPHA"} |->
        [invoke |-> FALSE, group |-> TRUE, length |-> 0, oovs |-> <<Oov(6)>>]]]

Regex(id, min, maxLength, strict, debug) ==
    [kind |-> "regex", id |-> id, left |-> 1, right |-> 0, cost |-> 3,
     chars |-> {"a", "k"}, stray |-> {"o"}, min |-> min,
     maxLength |-> maxLength, strict |-> strict, debug |-> debug]

MCDictionaries ==
    {[lexicon |-> MCLexicon, providers |-> <<Mecab(-1), Simple(-2)>>],
     [lexicon |-> MCLexicon,
      providers |-> <<Regex(-1, 1, 1, TRUE, FALSE), Simple(-2)>>],
     [lexicon |-> <<Entry(<<"a", "a", "k">>, 1, 2)>>,
      providers |-> <<Mecab(-1), Regex(-2, 1, 3, FALSE, FALSE), Simple(-3)>>],
     [lexicon |-> MCLexicon,
      providers |-> <<[Regex(-1, 1, 2, FALSE, TRUE) EXCEPT !.chars = {"a"}],
                      Letters(-2)>>]}

MCSpans == {s \in (0..2) \X (1..3) : s[1] < s[2]}

Spanned(e, w) ==
    {[begin |-> s[1], end |-> s[2], left |-> e.left, right |-> e.right,
      cost |-> e.cost, word |-> w] : s \in MCSpans}

MCNodes ==
    UNION ({Spanned(d.lexicon[w], w) : d \in MCDictionaries, w \in {1}}
           \cup {Spanned(MCLexicon[w], w) : w \in DOMAIN MCLexicon}
           \cup {Spanned(Simple(0), w) : w \in {-2, -3}}
           \cup {Spanned(Oov(c), w) : c \in {5, 6}, w \in {-1, -2}}
           \cup {Spanned(Regex(0, 0, 0, TRUE, TRUE), w) : w \in {-1, -2}})
=============================================================================
