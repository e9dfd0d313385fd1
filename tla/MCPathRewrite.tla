--------------------------- MODULE MCPathRewrite ---------------------------
(***************************************************************************)
(* PathRewrite on every short text of four families: units and points,     *)
(* commas and points, numerals among other words, and katakana.            *)
(***************************************************************************)
EXTENDS PathRewrite

Word(norm, cats, is_numeral_pos, oov) ==
    [norm |-> norm, length |-> Len(norm), cats |-> cats,
     is_numeral_pos |-> is_numeral_pos, oov |-> oov]

Numeral(c) ==
    Word(<<c>>, IF c \in ArabicDigits THEN {"NUMERIC"} ELSE {"KANJINUMERIC"},
         TRUE, FALSE)
Mark(c) == Word(<<c>>, {"SYMBOL"}, FALSE, FALSE)
Other == Word(<<"x">>, {"ALPHA"}, FALSE, TRUE)

\* A word of two numerals, and one that is not a numeral by its part of speech.
Twenty == Word(<<"ni", "juu">>, {"KANJINUMERIC"}, TRUE, FALSE)
One == Word(<<"ichi">>, {"KANJINUMERIC"}, FALSE, FALSE)

Katakana(norm, cats, oov) == Word(norm, {"KATAKANA"} \cup cats, FALSE, oov)
KatakanaWords ==
    {Katakana(<<"a">>, {}, TRUE), Katakana(<<"a">>, {}, FALSE),
     Katakana(<<"a", "i">>, {}, FALSE), Katakana(<<"xa">>, {"NOOOVBOW"}, TRUE), Other}

WithUnits == {Numeral(c) : c \in {"0", "1", "juu", "hyaku", "man"}} \cup {Mark(".")}
WithCommas == {Numeral("0"), Numeral("1"), Mark(","), Mark("."),
               Word(<<"0", "0", "0">>, {"NUMERIC"}, TRUE, FALSE)}
Mixed == {One, Numeral("1"), Twenty, Mark(","), Mark("."), Other}

WithPoints == {Numeral("1"), Mark("."), Other}

UpTo(S, n) == UNION {[1..k -> S] : k \in 1..n}

CasesOf(texts, normalize, found) ==
    [text : texts, reused : found,
     setting : [enable_normalize : normalize, min_length : {2}]]

MCWords == WithUnits \cup WithCommas \cup Mixed \cup KatakanaWords
MCCases ==
    CasesOf(UpTo(WithUnits, 5) \cup UpTo(WithCommas, 5) \cup UpTo(WithPoints, 5), {TRUE}, {"nothing"})
    \cup CasesOf(UpTo(Mixed, 4), BOOLEAN, {"nothing"})
    \cup CasesOf(UpTo(KatakanaWords, 4), {TRUE}, {"nothing", "oov", "word"})

\* A word that is written with numerals only, but normalised with a point.
March11 == Word(<<"3", ".", "1", "1">>, {"KANJINUMERIC"}, FALSE, FALSE)
OddWords == {March11, Numeral("1"), Mark("."), Other}
OddCases == CasesOf(UpTo(OddWords, 4), {TRUE}, {"nothing"})

MCPlugins == <<"numeric", "katakana">>
=============================================================================
