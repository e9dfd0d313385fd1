---------------------------- MODULE PathRewrite ----------------------------
(***************************************************************************)
(* The plugins that rewrite the best path (sudachi/src/plugin/path_rewrite),*)
(* one after the other: JoinNumericPlugin, an iteration of whose loop is   *)
(* an action, and JoinKatakanaOovPlugin, likewise.                         *)
(*                                                                         *)
(* A word of a text is [norm, length, cats, is_numeral_pos, oov]: its      *)
(* normalised form as characters, its length, the categories of every one  *)
(* of its characters, and whether its part of speech is the numeral's.     *)
(* The plugins cut no word, so a node of the path spans the words           *)
(* begin..end-1 of the best path; characters are counted where they matter.*)
(***************************************************************************)
EXTENDS NumericParser, SequencesExt

CONSTANTS
    Words,     \* words that texts are made of
    Cases,     \* [text, setting, reused]: the words of the best path, the
               \* settings of the two plugins, and what the lattice has for a
               \* span of several nodes ("nothing", "oov" or "word")
    Plugins    \* the order of the plugins, of "numeric" and "katakana"

Setting == [enable_normalize : BOOLEAN, min_length : Nat]

ASSUME CasesAssumption ==
    \A c \in Cases : /\ c.text \in Seq(Words) \ {<<>>}
                     /\ c.setting \in Setting
                     /\ c.reused \in {"nothing", "oov", "word"}

VARIABLES
    text,             \* the words of the sentence, which do not change
    setting,          \* the settings of the plugins
    reused,           \* what get_minimum_node finds for a span
    plugin,           \* the plugin that runs; one behind the last at the end
    path,             \* the path
    i,                \* nodes the loop has passed
    begin_idx,        \* first node of the numeral that is read, or 0
    comma_as_digit, period_as_digit,
    parser            \* NumericParser

config == <<text, setting, reused>>
numeric == <<begin_idx, comma_as_digit, period_as_digit, parser>>
vars == <<text, setting, reused, plugin, path, i, numeric>>

----------------------------------------------------------------------------
(* Nodes                                                                   *)

\* The path before the plugins.
BestPath ==
    [k \in DOMAIN text |->
        [begin |-> k, end |-> k + 1, norm |-> text[k].norm,
         is_numeral_pos |-> text[k].is_numeral_pos, oov |-> text[k].oov]]

\* The words inside of a node.
PartsOf(node) == node.begin..(node.end - 1)

NumCodepts(node) == MapThenSumSet(LAMBDA k : text[k].length, PartsOf(node))

\* cat_of_range and cat_at_char
CatOfRange(node) ==
    {c \in text[node.begin].cats : \A k \in PartsOf(node) : c \in text[k].cats}
CatAtChar(node) == text[node.begin].cats

\* Nodes b..e become one, and the rest moves up.
ReplaceRange(p, b, e, node) == SubSeq(p, 1, b - 1) \o <<node>> \o SubSeq(p, e + 1, Len(p))

NormsOf(p, b, e) == FlattenSeq([k \in 1..(e - b + 1) |-> p[b + k - 1].norm])

\* Mutant: the node ends where its last but one part does.
ConcatNodesShort(p, b, e, norm) ==
    ReplaceRange(p, b, e,
        [begin |-> p[b].begin, end |-> p[IF e > b THEN e - 1 ELSE e].end,
         norm |-> norm, is_numeral_pos |-> p[b].is_numeral_pos, oov |-> TRUE])

\* concat_nodes: the part of speech is that of the first node.
ConcatNodes(p, b, e, norm) ==
    ReplaceRange(p, b, e,
        [begin |-> p[b].begin, end |-> p[e].end, norm |-> norm,
         is_numeral_pos |-> p[b].is_numeral_pos, oov |-> TRUE])

\* concat_oov_nodes: a node of the lattice with the span is used if there is one.
\* The headwords are joined; nodes have none here, and their normalised forms stand
\* for them.
ConcatOovNodes(p, b, e) ==
    ReplaceRange(p, b, e,
        [begin |-> p[b].begin, end |-> p[e].end, norm |-> NormsOf(p, b, e),
         is_numeral_pos |-> FALSE, oov |-> reused # "word"])

----------------------------------------------------------------------------
(* JoinNumericPlugin                                                       *)

Running(name) == plugin <= Len(Plugins) /\ Plugins[plugin] = name
Next1 == path[i + 1]

IsNumeric(node) ==
    \/ CatOfRange(node) \cap {"NUMERIC", "KANJINUMERIC"} # {}
    \/ comma_as_digit /\ node.norm = <<",">>
    \/ period_as_digit /\ node.norm = <<".">>

\* concat, of the nodes b..e that the parser has read
Concat(p, b, e, read) ==
    LET normalized == Normalized(read.total)
    IN IF ~ p[b].is_numeral_pos THEN p
       ELSE IF setting.enable_normalize
       THEN IF e > b \/ normalized # p[b].norm THEN ConcatNodes(p, b, e, normalized) ELSE p
       ELSE IF e > b THEN ConcatNodes(p, b, e, NormsOf(p, b, e)) ELSE p

\* The parser stopped at a comma or a point, and that is the node e.
StoppedAt(p, e, error) ==
    \/ error = "comma" /\ p[e].norm = <<",">>
    \/ error = "point" /\ p[e].norm = <<".">>

Begin == IF begin_idx = 0 THEN i + 1 ELSE begin_idx
ReadNext == AppendAll(IF begin_idx = 0 THEN NewParser ELSE parser, Next1.norm)

\* A node that continues or begins a numeral.
ReadNode ==
    /\ Running("numeric") /\ i < Len(path) /\ IsNumeric(Next1)
    /\ ReadNext.ok
    /\ i' = i + 1
    /\ begin_idx' = Begin
    /\ parser' = ReadNext.parser
    /\ UNCHANGED <<config, plugin, path, comma_as_digit, period_as_digit>>

\* Mutant: the comma is still a digit when the nodes are read again.
RefuseNodeForgetting ==
    /\ Running("numeric") /\ i < Len(path) /\ IsNumeric(Next1)
    /\ ~ ReadNext.ok
    /\ LET error == ReadNext.parser.error_state
       IN /\ period_as_digit' = (period_as_digit /\ error # "point")
          /\ i' = IF error = "none" THEN i + 1 ELSE Begin - 1
    /\ begin_idx' = 0
    /\ parser' = ReadNext.parser
    /\ UNCHANGED <<config, plugin, path, comma_as_digit>>

\* A node the parser refuses.  After a wrong comma or point the nodes are read
\* again from the beginning, with these as something else than digits.
RefuseNode ==
    /\ Running("numeric") /\ i < Len(path) /\ IsNumeric(Next1)
    /\ ~ ReadNext.ok
    /\ LET error == ReadNext.parser.error_state
       IN /\ comma_as_digit' = (comma_as_digit /\ error # "comma")
          /\ period_as_digit' = (period_as_digit /\ error # "point")
          /\ i' = IF error = "none" THEN i + 1 ELSE Begin - 1
    /\ begin_idx' = 0
    /\ parser' = ReadNext.parser
    /\ UNCHANGED <<config, plugin, path>>

\* A node that belongs to no numeral: one that was read before it ends here.
EndNumeral ==
    LET done == Done(parser)
        stopped == StoppedAt(path, i, done.parser.error_state)
    IN /\ Running("numeric") /\ i < Len(path) /\ ~ IsNumeric(Next1)
       /\ begin_idx > 0
       /\ \/ /\ done.ok
             /\ path' = Concat(path, begin_idx, i, done.parser)
             /\ i' = begin_idx + 1
          \/ /\ ~ done.ok /\ stopped
             /\ path' = Concat(path, begin_idx, i - 1, done.parser)
             /\ i' = begin_idx + 2
          \/ /\ ~ done.ok /\ ~ stopped
             /\ i' = i + 1
             /\ UNCHANGED path
       /\ begin_idx' = 0
       /\ comma_as_digit' = (comma_as_digit \/ Next1.norm # <<",">>)
       /\ period_as_digit' = (period_as_digit \/ Next1.norm # <<".">>)
       /\ parser' = done.parser
       /\ UNCHANGED <<config, plugin>>

\* Mutant: a comma or point that was wrong once stays wrong.
PassNodeKeepingFlags ==
    /\ Running("numeric") /\ i < Len(path) /\ ~ IsNumeric(Next1)
    /\ begin_idx = 0
    /\ i' = i + 1
    /\ UNCHANGED <<config, plugin, path, numeric>>

\* A node outside of numerals: commas and points behind it may be digits again.
PassNode ==
    /\ Running("numeric") /\ i < Len(path) /\ ~ IsNumeric(Next1)
    /\ begin_idx = 0
    /\ i' = i + 1
    /\ comma_as_digit' = (comma_as_digit \/ Next1.norm # <<",">>)
    /\ period_as_digit' = (period_as_digit \/ Next1.norm # <<".">>)
    /\ UNCHANGED <<config, plugin, path, begin_idx, parser>>

\* The next plugin starts over; the locals of the last one are gone.
NextPlugin ==
    /\ plugin' = plugin + 1
    /\ i' = 0
    /\ begin_idx' = 0
    /\ comma_as_digit' = TRUE /\ period_as_digit' = TRUE
    /\ parser' = NewParser
    /\ UNCHANGED config

\* "process last part"
LastPart ==
    LET last == Len(path)
        done == Done(parser)
    IN /\ Running("numeric") /\ i >= last
       /\ path' = IF begin_idx = 0 THEN path
                  ELSE IF done.ok THEN Concat(path, begin_idx, last, done.parser)
                  ELSE IF StoppedAt(path, last, done.parser.error_state)
                  THEN Concat(path, begin_idx, last - 1, done.parser)
                  ELSE path
       /\ NextPlugin

----------------------------------------------------------------------------
(* JoinKatakanaOovPlugin                                                   *)

IsKatakana(node) == "KATAKANA" \in CatOfRange(node)
CanOovBow(node) == "NOOOVBOW" \notin CatAtChar(node)
IsShorter(node) == NumCodepts(node) < setting.min_length
StartsJoin(node) == (node.oov \/ IsShorter(node)) /\ IsKatakana(node)

\* The katakana nodes around the k-th, without those at the beginning that
\* no OOV may begin with.
RunOf(p, k) ==
    {m \in DOMAIN p :
        \A n \in DOMAIN p : (k <= n /\ n <= m) \/ (m <= n /\ n <= k) => IsKatakana(p[n])}

\* Mutant: only the nodes behind the k-th.
RangeToJoinBehind(p, k) == {m \in RunOf(p, k) : m >= k}

RangeToJoin(p, k) ==
    {m \in RunOf(p, k) : \E n \in RunOf(p, k) : n <= m /\ CanOovBow(p[n])}

PassKatakana ==
    /\ Running("katakana") /\ i < Len(path)
    /\ StartsJoin(Next1) => Cardinality(RangeToJoin(path, i + 1)) <= 1
    /\ i' = i + 1
    /\ UNCHANGED <<config, plugin, path, numeric>>

\* "skip next node, as we already know it is not a joinable katakana"
JoinKatakana ==
    LET range == RangeToJoin(path, i + 1)
        b == FirstOf(range, 0)
    IN /\ Running("katakana") /\ i < Len(path) /\ StartsJoin(Next1)
       /\ Cardinality(range) > 1
       /\ path' = ConcatOovNodes(path, b, b + Cardinality(range) - 1)
       /\ i' = b + 1
       /\ UNCHANGED <<config, plugin, numeric>>

EndKatakana ==
    /\ Running("katakana") /\ i >= Len(path)
    /\ NextPlugin
    /\ UNCHANGED path

----------------------------------------------------------------------------
Init ==
    /\ \E c \in Cases : text = c.text /\ setting = c.setting /\ reused = c.reused
    /\ plugin = 1
    /\ path = BestPath
    /\ i = 0
    /\ begin_idx = 0
    /\ comma_as_digit = TRUE
    /\ period_as_digit = TRUE
    /\ parser = NewParser

Next ==
    \/ ReadNode \/ RefuseNode \/ EndNumeral \/ PassNode \/ LastPart
    \/ PassKatakana \/ JoinKatakana \/ EndKatakana

\* The plugins run to their ends on the thread that called them.
Spec == Init /\ [][Next]_vars /\ WF_vars(Next)

----------------------------------------------------------------------------
(* Properties                                                              *)

TextOf(node) == NormsOf(BestPath, node.begin, node.end - 1)

\* Whatever the plugins join, the nodes of the path follow each other from the
\* beginning of the text to its end (the ranges that concat_nodes and
\* concat_oov_nodes replace, and the indices the loops go on with after it).
PathTiles ==
    /\ path[1].begin = 1
    /\ \A k \in DOMAIN path :
        path[k].end = IF k = Len(path) THEN Len(text) + 1 ELSE path[k + 1].begin

\* The numerals of the text are read as they are written: a sequence of
\* characters is accepted by NumericParser (append to every one, then done) if
\* and only if it is a numeral, as said by the places of its digits.
AcceptsExactly ==
    plugin = 1 /\ i = 0 =>
        LET t == NormsOf(BestPath, 1, Len(text))
        IN IsSettled(t) => (Accepts(t) <=> IsNumeral(t))

JoinedNumeral(node) == ~ IsKatakana(node) /\ node \notin ToSet(BestPath)

\* The normalised form of a joined numeral is worth what its characters are
\* (get_normalized), whatever units, points and commas it is written with, and
\* however often it was read again; without normalisation it is what they are.
NumeralsKeepValue ==
    \A k \in DOMAIN path :
        LET t == WithoutCommas(TextOf(path[k]))
        IN JoinedNumeral(path[k]) =>
              IF setting.enable_normalize
              THEN WellFormed(t) => Value(path[k].norm) = Value(t)
              ELSE path[k].norm = TextOf(path[k])

\* A number that NumericParser refuses is not joined (test use_small_unit and
\* float_with_unit in numeric_parser.rs, test kanji_numeric of the plugin).
OnlyNumeralsJoined ==
    \A k \in DOMAIN path :
        JoinedNumeral(path[k]) => WellFormed(WithoutCommas(TextOf(path[k])))

IsPunctuation(k) == text[k].norm \in {<<",">>, <<".">>}
IsOther(k) ==
    k \notin DOMAIN text \/
    ~ (IsPunctuation(k) \/ text[k].cats \cap {"NUMERIC", "KANJINUMERIC"} # {})

\* Nodes b..e stand alone, or before one comma or point that ends a clause.
StandsAlone(b, e) ==
    /\ IsOther(b - 1)
    /\ \/ IsOther(e + 1)
       \/ /\ IsPunctuation(e + 1) /\ IsOther(e + 2)
          /\ text[e + 1].norm = <<".">> =>
                \A k \in b..e : text[k].norm # <<".">>

\* A numeral that stands alone and begins with a node of the numeral's part of
\* speech is one node when the plugin has run ("Concatenates numeric nodes as
\* one"): no state that the numerals and the punctuation before it leave in the
\* loop keeps it apart.
NumeralsJoined ==
    plugin > 1 =>
        \A b \in DOMAIN text : \A e \in b..Len(text) :
            /\ text[b].is_numeral_pos
            /\ StandsAlone(b, e)
            /\ IsNumeral(NormsOf(BestPath, b, e))
            => \E k \in DOMAIN path :
                  path[k].begin = b /\ path[k].end = e + 1

\* Numerals are recognised as they are written, joined, and into what they are.
NumeralsRight == AcceptsExactly /\ NumeralsKeepValue /\ NumeralsJoined

\* A run of katakana nodes of the best path with an OOV or a short word in it
\* is one node, from the first that an OOV may begin with; every other katakana
\* node is as it was.  So it does not matter from which node of the run the
\* plugin started, nor what it joined before.
KatakanaRunsJoined ==
    plugin > Len(Plugins) =>
        \A k \in DOMAIN text :
            LET run == RunOf(BestPath, k)
                later == {m \in run : \A n \in run : n <= m => ~ CanOovBow(BestPath[n])}
                joined == run \ later
            IN IsKatakana(BestPath[k]) =>
                IF Cardinality(joined) > 1 /\ \E m \in run : StartsJoin(BestPath[m])
                THEN /\ \E n \in DOMAIN path : PartsOf(path[n]) = joined
                     /\ \A m \in later : BestPath[m] \in ToSet(path)
                ELSE \A m \in run : BestPath[m] \in ToSet(path)

\* Every plugin comes to its end, however often numerals are read again.
Terminates == <>(plugin > Len(Plugins))
=============================================================================
