----------------------------- MODULE TextPlugins -----------------------------
(***************************************************************************)
(* The input text plugins of a dictionary, run one after the other on an   *)
(* InputBuffer: DefaultInputTextPlugin, ProlongedSoundMarkPlugin and       *)
(* IgnoreYomiganaPlugin (sudachi/src/plugin/input_text/), and plugins of   *)
(* other crates, which replace what they like.                             *)
(*                                                                         *)
(* A bundled plugin searches the text from left to right.  Its matches are *)
(* [start, from, to, with]: the match begins at the character start and    *)
(* ends before to, and the characters from..to - 1 become the text with.   *)
(* What the regex and aho-corasick crates find is leftmost first.          *)
(***************************************************************************)
EXTENDS InputBuffer, CharCategory

CONSTANTS
    Code,           \* character -> code point
    Width,          \* character -> length of its UTF-8 encoding
    Lower, Nfkc,    \* character -> its lower case, its NFKC form
    RewriteDef,     \* lines of rewrite.def: sequences of columns
    Marks, Symbol,  \* prolongedSoundMarks, replacementSymbol
    LeftBrackets, RightBrackets, MaxYomiganaLength,
    Setups,         \* [plugins, lines]: configurations with their char.def
    OtherTexts,     \* texts a plugin of another crate substitutes
    MaxOther        \* bound on its replacements between two resets

VARIABLES
    plugins, lines,  \* the configuration, and its char.def
    table,           \* what the grammar was set up with
    next,            \* the plugin that runs, or is the next to run
    at               \* where the search of the running plugin goes on

plugin_vars == <<plugins, lines, table, next, at>>
text_vars == <<vars, plugin_vars>>

Plugin == plugins[next]

Utf8(chars) ==
    FlattenSeq([k \in DOMAIN chars |->
                   [i \in 1..Width[chars[k]] |-> [ch |-> chars[k], nth |-> i]]])

----------------------------------------------------------------------------
(* set_up                                                                  *)

\* read_rewrite_lists refuses a line of one column that is not one character,
\* a key that was given before, and lines of more columns.
ListsRead ==
    \A k \in DOMAIN RewriteDef :
        LET cols == RewriteDef[k]
        IN  \/ Len(cols) = 1 /\ Len(cols[1]) = 1
            \/ /\ Len(cols) = 2
               /\ \A j \in 1..k - 1 : Len(RewriteDef[j]) = 2 => RewriteDef[j][1] # cols[1]

LinesOf(n) == {k \in DOMAIN RewriteDef : Len(RewriteDef[k]) = n}

IgnoreNormalize == {RewriteDef[k][1][1] : k \in LinesOf(1)}

ReplaceCharMap ==
    [key \in {RewriteDef[k][1] : k \in LinesOf(2)} |->
        RewriteDef[CHOOSE k \in LinesOf(2) : RewriteDef[k][1] = key][2]]

\* append_class: the characters of the ranges whose categories meet types.
ClassOf(types) ==
    LET ranges == Iterate(table)
    IN  {c \in Char : \E k \in DOMAIN ranges :
            /\ ranges[k].begin =< Code[c] /\ Code[c] < ranges[k].end
            /\ ranges[k].categories \cap types # {}}

Kanji == ClassOf({"KANJI"})
Reading == ClassOf({"HIRAGANA", "KATAKANA"})

\* A regex with an empty class is refused.
SetsUp(plugin) ==
    CASE plugin = "default" -> ListsRead
      [] plugin = "prolonged" -> Marks # {}
      [] plugin = "yomigana" ->
             /\ table.boundaries # <<>>
             /\ Kanji # {} /\ Reading # {}
             /\ LeftBrackets # {} /\ RightBrackets # {}
      [] OTHER -> TRUE

----------------------------------------------------------------------------
(* What each plugin finds in the characters of a text.                     *)

Match(from, to, with) == [start |-> from, from |-> from, to |-> to, with |-> with]

Span(chars, from, to) == SubSeq(chars, from + 1, to)

Spans(chars) == {r \in (0..Len(chars)) \X (0..Len(chars)) : r[1] < r[2]}

\* A run of two marks or more.
ProlongedMatches(chars) ==
    {Match(r[1], r[2], Symbol) :
        r \in {r \in Spans(chars) : /\ r[2] - r[1] >= 2
                                    /\ ToSet(Span(chars, r[1], r[2])) \subseteq Marks}}

IsYomigana(span, kanji, reading) ==
    LET n == Len(span)
    IN  /\ n >= 4 /\ n - 3 =< MaxYomiganaLength
        /\ span[1] \in kanji /\ span[2] \in LeftBrackets
        /\ \A k \in 3..n - 1 : span[k] \in reading
        /\ span[n] \in RightBrackets

\* Only the group, the brackets and what they enclose, is replaced.
YomiganaMatches(chars) ==
    {[start |-> r[1], from |-> r[1] + 1, to |-> r[2], with |-> <<>>] :
        r \in {r \in Spans(chars) : IsYomigana(Span(chars, r[1], r[2]), Kanji, Reading)}}

KeyMatches(chars) ==
    {Match(r[1], r[2], ReplaceCharMap[Span(chars, r[1], r[2])]) :
        r \in {r \in Spans(chars) : Span(chars, r[1], r[2]) \in DOMAIN ReplaceCharMap}}

IsUpper(c) == Lower[c] # <<c>>
NeedsNfkc(c) == c \notin IgnoreNormalize /\ Nfkc[c] # <<c>>

Normalized(c) ==
    LET lower == IF IsUpper(c) THEN Lower[c] ELSE <<c>>
    IN  IF NeedsNfkc(c) THEN FlattenSeq([k \in DOMAIN lower |-> Nfkc[lower[k]]])
        ELSE lower

\* replace_slow: the search for a key at a character stops at the first end of
\* a key (earliest); a character that begins none is normalised.
SlowMatches(chars) ==
    LET keys == KeyMatches(chars)
    IN  {m \in keys : \A n \in keys : n.start = m.start => m.to =< n.to}
          \cup {Match(k - 1, k, Normalized(chars[k])) :
                   k \in {k \in DOMAIN chars : /\ Normalized(chars[k])[1] # chars[k]
                                               /\ \A n \in keys : n.start # k - 1}}

\* Mutant: both have to be needed.
DefaultMatchesBoth(chars) ==
    IF /\ \E c \in ToSet(CharsOf(mod_chars)) : IsUpper(c)
       /\ \E c \in ToSet(CharsOf(mod_chars)) : Nfkc[c] # <<c>>
    THEN SlowMatches(chars)
    ELSE KeyMatches(chars)

\* rewrite_impl of the default plugin decides by the decoded characters; an
\* ignored character is not in NFKC either.
DefaultMatches(chars) ==
    IF \E c \in ToSet(CharsOf(mod_chars)) : IsUpper(c) \/ Nfkc[c] # <<c>>
    THEN SlowMatches(chars)
    ELSE KeyMatches(chars)

\* What the plugins may put into a text is in the buffer's set of texts.
ASSUME RewriteAssumption ==
    /\ OtherTexts \cup {Utf8(<<>>), Utf8(Symbol)} \subseteq Replacements
    /\ \A key \in DOMAIN ReplaceCharMap : Utf8(ReplaceCharMap[key]) \in Replacements
    /\ \A c \in Char : Normalized(c)[1] # c => Utf8(Normalized(c)) \in Replacements

Matches(plugin, chars) ==
    CASE plugin = "default" -> DefaultMatches(chars)
      [] plugin = "prolonged" -> ProlongedMatches(chars)
      [] plugin = "yomigana" -> YomiganaMatches(chars)
      [] OTHER -> {}

\* The matches from where the search goes on.
Remaining == {m \in Matches(Plugin, CharsOf(modified)) : m.start >= at}

Leftmost(matches) ==
    CHOOSE m \in matches :
        \A n \in matches : m.start < n.start \/ (m.start = n.start /\ m.to >= n.to)

\* Mutant: the search goes on at the character after the one it matched at.
ResumeOverlapping(m) == m.start + 1

\* find_iter, captures_iter and min_offset.
Resume(m) == m.to

----------------------------------------------------------------------------
TextInit ==
    /\ Init
    /\ \E setup \in Setups : plugins = setup.plugins /\ lines = setup.lines
    /\ \A k \in DOMAIN lines : Reads(lines[k])
    /\ table = Compile(ReadDefinition(lines))
    /\ \A k \in DOMAIN plugins : SetsUp(plugins[k])
    /\ next = 1 /\ at = 0

NextText(t) ==
    /\ Reset(t)
    /\ next' = 1
    /\ UNCHANGED <<plugins, lines, table, at>>

Start == (StartBuildTooLong \/ StartBuild) /\ UNCHANGED plugin_vars

\* rewrite_input: the next plugin, if those before succeeded.
RunPlugin ==
    /\ next =< Len(plugins) /\ result = "Ok"
    /\ \/ Plugin # "other" /\ Rewrite(Plugin = "default")
       \/ Plugin = "other" /\ \E usesChars \in BOOLEAN : Rewrite(usesChars)
    /\ at' = 0
    /\ UNCHANGED <<plugins, lines, table, next>>

\* One iteration of the loop of a bundled plugin: replace_ref or
\* replace_char_iter for the next match.
Ask ==
    /\ pc = "editing" /\ Remaining # {} /\ edits < MaxEdits
    /\ LET m == Leftmost(Remaining)
           offset == CharToByte(modified)
       IN  /\ replaces' = Append(replaces, [from |-> offset[m.from + 1],
                                            to |-> offset[m.to + 1],
                                            with |-> Utf8(m.with)])
           /\ at' = Resume(m)
    /\ edits' = edits + 1
    /\ UNCHANGED <<state, texts, targets, mod_chars, index, pc, locals, result>>
    /\ UNCHANGED <<plugins, lines, table, next>>

AskOther(from, to, with) ==
    /\ pc = "editing" /\ Plugin = "other" /\ edits < MaxOther
    /\ Replace(from, to, with)
    /\ UNCHANGED plugin_vars

OtherFails ==
    /\ pc = "editing" /\ Plugin = "other"
    /\ PluginFails
    /\ UNCHANGED plugin_vars

\* commit, when the plugin has found all there is.
Commit ==
    /\ pc = "editing" /\ Remaining = {}
    /\ \/ CommitNothing /\ next' = next + 1
       \/ CommitStart /\ next' = next
    /\ UNCHANGED <<plugins, lines, table, at>>

Resolve ==
    /\ \/ ResolveEdit /\ next' = next
       \/ ResolveEnd /\ next' = next + 1
    /\ UNCHANGED <<plugins, lines, table, at>>

\* TextNormalizer::normalize returns the text as it is now; do_tokenize goes on.
BuildText ==
    /\ next > Len(plugins) /\ result = "Ok"
    /\ Build
    /\ UNCHANGED plugin_vars

TextNext ==
    \/ \E t \in Texts : NextText(t)
    \/ Start
    \/ RunPlugin
    \/ Ask
    \/ \E from, to \in 0..Len(modified), with \in OtherTexts : AskOther(from, to, with)
    \/ OtherFails
    \/ Commit
    \/ Resolve
    \/ BuildText

TextSpec == TextInit /\ [][TextNext]_text_vars

----------------------------------------------------------------------------
(* Properties.                                                             *)

\* What a plugin is there to remove, by the configuration: char.def as it is
\* written and not as it was compiled.
Unwanted(plugin, chars) ==
    LET Has(c, types) == DefinedCategories(lines, Code[c]) \cap types # {}
    IN  CASE plugin = "default" ->
               {r \in Spans(chars) :
                   \/ Span(chars, r[1], r[2]) \in DOMAIN ReplaceCharMap
                   \/ /\ r[2] = r[1] + 1
                      /\ IsUpper(chars[r[2]]) \/ NeedsNfkc(chars[r[2]])}
          [] plugin = "prolonged" ->
               {r \in Spans(chars) : r[2] = r[1] + 2
                                       /\ ToSet(Span(chars, r[1], r[2])) \subseteq Marks}
          [] plugin = "yomigana" ->
               {r \in Spans(chars) :
                   IsYomigana(Span(chars, r[1], r[2]),
                              {c \in Char : Has(c, {"KANJI"})},
                              {c \in Char : Has(c, {"HIRAGANA", "KATAKANA"})})}
          [] OTHER -> {}

\* The characters of r are as the caller wrote them, next to each other.
Untouched(r) ==
    LET offset == CharToByte(modified)
        first == origin[offset[r[1] + 1] + 1]
    IN  /\ first # NoOrigin
        /\ \A b \in offset[r[1] + 1]..offset[r[2] + 1] - 1 :
               origin[b + 1] = first + (b - offset[r[1] + 1])

\* Nothing that a bundled plugin is configured to remove is left of what the
\* caller wrote, whatever the plugins before and after it did.
PatternsGone ==
    pc = "idle" /\ state # "Clean" /\ result = "Ok" =>
        \A i \in 1..next - 1 :
            \A r \in Unwanted(plugins[i], CharsOf(modified)) : ~Untouched(r)

CategoriesAsDefined ==
    \A code \in 0..MaxCode :
        GetCategoryTypes(table, code) = DefinedCategories(lines, code)

\* The text is rewritten as the configuration says: the search of a plugin
\* misses no match, it reads the characters of the current text (rewrite_impl),
\* and the compiled char.def gives every character, and the classes of a
\* plugin's regex, the categories of its lines (CharacterCategory::compile).
RewrittenAsConfigured == PatternsGone /\ CategoriesAsDefined

\* The plugins keep the contract the buffer's editor rests on: replacements of
\* non-empty ranges between characters, from left to right, all of them before
\* the commit (InputEditor, edit.rs).
BufferSpec == Spec
=============================================================================
