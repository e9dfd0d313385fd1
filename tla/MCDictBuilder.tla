--------------------------- MODULE MCDictBuilder ---------------------------
(***************************************************************************)
(* Instances of DictBuilder and DictionaryDump.  The lexicons hold what    *)
(* the builder has to tell apart: homonyms with and without reference ids, *)
(* units by line and by key, one row that spells its units in two ways,    *)
(* normalised forms that are headwords or make phantoms, hidden rows, a    *)
(* row that fails after it named a new POS, files with and without header, *)
(* one of them with the ids of the POS, rows for a user dictionary.        *)
(***************************************************************************)
EXTENDS DictionaryDump

Line(n) == [by |-> "line", user |-> FALSE, n |-> n]
UserLine(n) == [by |-> "line", user |-> TRUE, n |-> n]
OfHead(h) == [by |-> "headword", headword |-> h]
Key(h, p, r, id) == [by |-> "key", headword |-> h, pos |-> p, reading |-> r, refid |-> id]

IdKey(h, p, r) == [by |-> "idkey", headword |-> h, pos |-> p, reading |-> r, refid |-> ""]

Word(form, p) ==
  [form |-> form, headword |-> form, reading |-> form, refid |-> "",
   left |-> 0, right |-> 0, cost |-> 0,
   mode |-> "C", pos |-> p, posId |-> -1, norm |-> SelfRef, dic |-> SelfRef,
   a |-> <<>>, b |-> <<>>, c |-> <<>>, ws |-> <<>>, syn |-> 0, user |-> 0]

East == [Word("east", "noun") EXCEPT !.refid = "e1"]
Twin == [Word("east", "noun") EXCEPT !.refid = "e2"]
Sunrise == [Word("east", "name") EXCEPT !.right = 1, !.user = 3, !.norm = OfHead("dawn")]
Both == [Word("eastcap", "noun") EXCEPT
           !.a = <<Key("east", "noun", "east", ""), Line(0)>>, !.b = <<Line(0), Line(0)>>,
           !.dic = Key("east", "noun", "east", "e1")]
Shared == [Word("eastcap", "noun") EXCEPT
             !.a = <<Line(0), Line(0)>>, !.b = <<Line(0), Line(0)>>, !.ws = <<Line(0)>>,
             !.norm = OfHead("dawn"), !.syn = 1]
Hidden == [Word("cap", "noun") EXCEPT !.headword = "Cap", !.left = -1, !.norm = OfHead("dawn")]
Large == [Word("large", "noun") EXCEPT !.left = 2]
NewPosThenBad == [Word("", "verb") EXCEPT !.a = <<Key("east", "verb", "east", "")>>]
Mine == [Word("mine", "verb") EXCEPT
           !.a = <<Line(0), UserLine(0)>>, !.norm = OfHead("dusk"),
           !.dic = Key("east", "noun", "east", "e1")]
ById == [Word("dawn", "") EXCEPT
           !.posId = 1, !.dic = IdKey("east", 1, "east"), !.norm = OfHead("east")]
Dawn == [Word("dawn", "name") EXCEPT !.norm = Key("dawn", "name", "dawn", "")]

MCConnFiles ==
  {[left |-> 2, right |-> 2, lines |-> "ok"], [left |-> 3, right |-> 2, lines |-> "ok"],
   [left |-> 3, right |-> 3, lines |-> "bad"]}

Ided(n, i) == [name |-> n, id |-> i]
Parts == <<"POS1", "POS2", "POS3", "POS4", "POS5", "POS6">>
MCPosTables ==
  {[header |-> <<>>, ids |-> FALSE, rows |-> <<Ided("name", 0), Ided("name", 0)>>],
   [header |-> Parts \o <<"POS_ID">>, ids |-> TRUE, rows |-> <<Ided("noun", 1), Ided("name", 0)>>],
   [header |-> <<>>, ids |-> TRUE, rows |-> <<Ided("noun", 0), Ided("noun", 1)>>],
   [header |-> Parts, ids |-> FALSE, rows |-> <<Ided("noun", 1), Ided("name", 0)>>],
   [header |-> <<>>, ids |-> TRUE, rows |-> <<Ided("noun", 2), Ided("name", 0)>>]}

V0(rows) == [header |-> <<>>, rows |-> rows]

\* The columns of a dump, with or without parts of the POS.
WithHeader(rows) == [header |-> WordInfoHeader("names"), rows |-> rows]
WithIds(rows) == [header |-> WordInfoHeader("ids"), rows |-> rows]
WithBoth(rows) == [header |-> Append(WordInfoHeader("names"), "POS_ID"), rows |-> rows]
Incomplete(rows) == [header |-> Tail(WordInfoHeader("names")), rows |-> rows]

MCLexicons ==
  {WithHeader(<<East, Sunrise>>), V0(<<East, Both, Hidden>>), V0(<<Shared>>),
   WithHeader(<<Dawn, Shared>>), V0(<<Dawn, NewPosThenBad>>), V0(<<Large>>),
   WithIds(<<ById>>), Incomplete(<<Dawn>>)}
MCUserLexicons ==
  {V0(<<Hidden, Mine>>), WithHeader(<<Twin>>), WithBoth(<<[Twin EXCEPT !.posId = 1]>>)}

\* Text is normalised to small letters.
MCNormalizedText ==
  [h \in {"Cap", "east", "eastcap", "large", "wide", "mine", "dawn", "dusk"} |->
     IF h = "Cap" THEN "cap" ELSE h]
=============================================================================
