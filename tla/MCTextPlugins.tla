---------------------------- MODULE MCTextPlugins ----------------------------
(***************************************************************************)
(* Texts of up to six characters of one and two bytes.  "A" has a lower    *)
(* case, "W" is a wide bracket that NFKC makes "(", "R" a Roman numeral    *)
(* with a lower case whose NFKC form is ignored; "k" is a kanji that is    *)
(* also a numeral, "t" a kana and "-" a prolonged sound mark.  The code    *)
(* points of "(", ")", "k" and "t" follow each other.                      *)
(***************************************************************************)
EXTENDS TextPlugins

MCChar == {"a", "A", "k", "t", "(", ")", "W", "-", "R", "r"}

MCCode == [c \in MCChar |->
    CASE c = "-" -> 0 [] c = "(" -> 1 [] c = "k" -> 2 [] c = "t" -> 3
      [] c = ")" -> 4 [] c = "A" -> 5 [] c = "a" -> 6 [] c = "W" -> 7
      [] c = "R" -> 8 [] c = "r" -> 9]

MCWidth == [c \in MCChar |-> IF c \in {"k", "t", "W"} THEN 2 ELSE 1]

MCLower == [c \in MCChar |->
    CASE c = "A" -> <<"a">> [] c = "R" -> <<"r">> [] OTHER -> <<c>>]
MCNfkc == [c \in MCChar |->
    CASE c = "W" -> <<"(">> [] c = "R" -> <<"A", "A">> [] OTHER -> <<c>>]

MCRewriteDef ==
    << << <<"R">> >>,
       << <<"a", "k">>, <<"t", "-">> >>,
       << <<"t", "-", "t">>, <<"k">> >>,
       << <<"t", "-">>, <<"t", "-", "-">> >> >>

MCSymbol == <<"-">>

Line(first, last, types) == [first |-> first, last |-> last, types |-> types]

\* The shipped kind of char.def, and every pair of lines on the code points of
\* the brackets, the kanji and the kana.
MCLines == <<Line(1, 3, {"KATAKANA"}), Line(2, 2, {"KANJI", "NUMERIC"}),
             Line(5, 6, {"ALPHA"})>>

\* The categories the index of the text takes.
MCCat == [c \in MCChar |-> GetCategoryTypes(Compile(ReadDefinition(MCLines)), MCCode[c])]

MCShortLines ==
    {Line(f, l, types) : f \in 1..3, l \in 2..3, types \in {{}, {"KANJI"}, {"KATAKANA"}}}
MCAllLines == {<<x, y>> : x, y \in {l \in MCShortLines : l.first =< l.last}}

\* Some of the definitions give the yomigana plugin nothing to search for.
CategoriesMeet(d) ==
    \A t \in {"KANJI", "KATAKANA"} : \E k \in DOMAIN d : t \in d[k].types

MCSetups ==
    [plugins : {<<"default", "prolonged", "yomigana">>, <<"yomigana", "default">>,
                <<"other", "other">>, <<"other", "default">>},
     lines : {MCLines}]
    \cup [plugins : {<<"yomigana">>}, lines : {d \in MCAllLines : CategoriesMeet(d)}]

EncodeAll(S) == {Utf8(s) : s \in S}

\* The last two grow over the limit in the default plugin, one is too long.
MCTexts == EncodeAll({<<>>, <<"a", "k", "A">>, <<"k", "(", "t", ")">>,
                      <<"k", "W", "t", ")">>, <<"t", "-", "-", "t">>,
                      <<"t", "-", "t", "R">>, <<"a", "k", "-", "-">>,
                      <<"k", "(", "t", ")", "(", "t", ")">>,
                      <<"k", "k", "k", "k", "k", "k">>,
                      <<"t", "-", "t", "A", "a", "a", "k">>,
                      <<"t", "-", "A", "t", "-", "t", "-">>})

MCOtherTexts == EncodeAll({<<>>, <<"a", "k">>})

MCReplacements ==
    MCOtherTexts \cup EncodeAll({<<"a">>, <<"r">>, <<"(">>, <<"k">>, <<"t", "-">>,
                                 <<"t", "-", "-">>, <<"-">>})

\* The bound: one text for the other plugins, and one for every definition.
MCBound ==
    /\ lines # MCLines => original \in EncodeAll({<<>>, <<"k", "(", "t", ")">>})
    /\ "other" \in ToSet(plugins) => original \in EncodeAll({<<>>, <<"a", "k", "A">>})
=============================================================================
