# A TLA+ model of sudachi.rs

sudachi.rs is a Japanese morphological analyser. It builds dictionaries from
lexicons, loads them with plugins, and analyses texts: it splits a text into
sentences, normalises it, looks up the words of its dictionaries at every
position, adds out-of-vocabulary (OOV) words, finds the cheapest way through the
lattice of all these words, rewrites and splits the path, and hands it out as a
list of morphemes that point into the original text.

The modules here model both halves, the analysis and the dictionaries, as the
code in `sudachi/src`, `sudachi-cli/src` and `python/src` implements them. TLC
checks them on small instances; TLAPS proves the central properties of the input
buffer, of the lattice and its builder, of the tokenizer and the lists, and of
dictionary loading for every value of the constants.

## 1. Inventory

| Component | State | Operations | What makes it correct |
|---|---|---|---|
| Input buffer (`input_text/buffer.rs`, `buffer/edit.rs`) | original and normalised text, byte mapping between them, a spare pair of both, queued edits, decoded characters, indices, life cycle Clean, RW, RO | `reset`, `start_build`, `with_editor` (commit or rollback), `refresh_chars`, `build`, accessors | tokens cut the original text without gap or overlap, on character boundaries; a failed edit changes nothing; indices agree with the text |
| Input text plugins (`plugin/input_text/*`), text normaliser | none per text; tables from the configuration | `set_up`, `rewrite` | edits are sorted, disjoint, not empty; what is configured to go is gone |
| Character categories (`character_category.rs`) | a compiled table of ranges | `compile`, lookup, iteration | every character has the categories of its lines |
| Lattice (`analysis/lattice.rs`) | three parallel vectors of vectors, EOS, size; reused | `reset`, `insert`, `connect_eos`, `fill_top_path` | the path tiles the sentence and is a cheapest one; nothing of an earlier sentence is left |
| OOV providers (`plugin/oov/*`), `CreatedWords` | none per text | `provide_oov` | every position that is reached gets a word; no duplicates |
| Lattice builder (`stateful_tokenizer.rs`) | `node_buffer`, `match_cache`, position | scalar and pipelined `build_lattice`, `insert_oovs` | respects the lattice's contract; ends; both variants find the same words |
| Stateful tokenizer | mode, subset, input, `top_path`, the builder's buffers | `set_mode`, `set_subset`, `reset`, `do_tokenize`, `swap_result`, `into_morpheme_list` | the result is that of this text, in this mode, whatever came before |
| Word info (`dic/word_info`, `dic/subset.rs`, `lexicon_set.rs`, `analysis/node.rs`) | none | `get_word_info_subset`, `ResultNode::split`, `split_path` | the fields an operation needs are read and their references resolved |
| Morpheme lists (`analysis/mlist.rs`, `morpheme.rs`) | nodes, and an `Rc<RefCell>` of input and subset that lists share | `collect_results`, `split_into`, `copy_slice`, `lookup`, `clear`, `empty_clone`, `surface` | nodes belong to the text of the list; a borrowed text is not changed |
| Path rewrite plugins (`plugin/path_rewrite/*`) | none per text (the numeric parser has a state machine) | `rewrite` | the path still tiles the text, numerals are normalised |
| Trie lookup (`dic/lexicon/trie.rs`, `word_id_table.rs`) | the array, the table of word ids, the lanes of a batch | single and batch lookup, enumeration | both lookups report the same, and every word |
| Dictionary loading (`dic/dictionary.rs`, `lexicon_set.rs`, `grammar.rs`, `plugin.rs`) | lexicons, parts of speech with offsets, matrix, plugins, costs | load system, set up plugins, merge user | ids of parts of speech and references keep their meaning |
| Dictionary builder (`dic/build/*`) | stage, rows, parts of speech, matrix, entries | read, resolve, compile | references lead to the entries they name, ids are those of the written entries |
| Binary formats (`dic/word_info`, `dic/read`, `dic/header.rs`) | none | read, write, scan | what is read is what was written |
| Sentence splitter (`sentence_detector.rs`, `sentence_splitter.rs`) | position in the text | `next` | sentences end where breaks are, tile the text, and it ends |
| Command line (`sudachi-cli/src`) | line buffer, output buffer | read, analyse, print; build, dump | every sentence is printed once; a dump can be built again |
| Python bindings (`python/src`), single morphemes (`morpheme.rs`) | objects, their backing, a tokenizer several threads borrow, a cell per thread for the pre-tokenizer | `tokenize`, `split`, `lookup`, `lookup_all_entries`, iteration, `close`, pre-tokenizer | a list shows what the last call was to put there, whatever other threads do; the mode of a call ends with it |
| Configuration, dynamic libraries | | | not modelled (section 6) |

Interaction: a `DictBuilder` writes files; `JapaneseDictionary` loads a system
dictionary, sets up plugins against its grammar and merges user dictionaries.
`StatefulTokenizer` owns an `InputBuffer` and a `Lattice` and drives both;
plugins are called back with the buffer (input text plugins through an editor,
OOV providers with read access and the nodes so far).
`MorphemeList::collect_results` swaps the buffer and the path of the tokenizer
with those of the list, so that allocations go back and forth. Lists share
their input through an `Rc`. A `StatefulTokenizer` is used by one thread; the
dictionary is shared and immutable. Only the Python bindings share a tokenizer
between threads, behind a borrow that is refused while it is taken.

So threads are the difficulty of the bindings alone. Elsewhere it is in state that is *reused*
(buffers, lattice, `match_cache`, `top_path`, lists), in calls that *fail half
way*, in long *sequences of calls* (edit after edit, mode, subset, split, lookup,
stages of a build), in *aliasing* (lists with one input, unit arrays that share
their place), in *interleaved walks* (the lanes of the batch lookup) and in *ids*
that are computed at one time and used at another (entries while a dictionary is
built, parts of speech while it is put together). `PROJECT.json` lists the
hazards with their lines.

## 2. Modules

| Module | Models | Built on |
|---|---|---|
| `CharIndex` | what follows from the categories of the characters: word starts, runs, candidate lengths | |
| `InputBuffer` | the buffer, edits and indices | `CharIndex` |
| `CharCategory` | `char.def`, compiled | |
| `TextPlugins` | the bundled input text plugins on the buffer | `InputBuffer`, `CharCategory` |
| `Lattice` | the lattice and the Viterbi step | |
| `OovProviders` | the three providers, `CreatedWords` | `CharIndex` |
| `LatticeBuilder` | both builders, with errors | `Lattice`, `OovProviders` |
| `WordInfos` | fields, references and units of words, and splits of nodes | |
| `BestPaths` | texts as a caller sees them: a best path, its boundaries, and what a lookup finds | `WordInfos` |
| `Tokenizer` | a tokenizer over many texts | `BestPaths` |
| `MorphemeLists` | lists on top of one tokenizer | `Tokenizer` |
| `SingleMorphemes` | a morpheme without a text: entries, forms, splits | `WordInfos` |
| `PythonBindings` | the Python objects, used by threads | `BestPaths`, `SingleMorphemes` |
| `NumericParser` | the parser of numerals and its numbers, as operators | |
| `PathRewrite` | the two path rewrite plugins, one after the other | `NumericParser` |
| `SentenceSplitter` | the detector and the iterator over sentences | |
| `CommandLine` | the loop of the command line over lines | `SentenceSplitter` |
| `LexiconIndex` | the index of a lexicon: built, read back, walked | |
| `PrefixLookup` | the promise of a lookup of many positions | |
| `BatchLookup` | the lookup by lanes | `LexiconIndex` |
| `LexiconEntries` | sizes and ids of entries, resolution of references | |
| `DictBuilder` | the stages of a build, with failures | `LexiconEntries` |
| `DictionaryDump` | dump, and build from a dump | `DictBuilder` |
| `EntryLayout` | the block of entries: written, scanned, parsed | `LexiconEntries` |
| `DictionaryLoad` | a dictionary put together from files and plugins | `EntryLayout` |

| Proofs | About | Built on |
|---|---|---|
| `SequenceFacts` | lemmas about minima, recursive functions, sequences, their concatenation and flattening | |
| `InputBufferProofs` | `InputBuffer`, and that `TextPlugins` implements it | `SequenceFacts` |
| `LatticeBuilderProofs` | `Lattice`: vectors, back pointers, totals, the search finds a cheapest path; `LatticeBuilder`: it implements `Lattice`, its words, its dead ends | `SequenceFacts` |
| `MorphemeListsProofs` | `Tokenizer` and `MorphemeLists`: sharing, results, where words lie | `SequenceFacts` |
| `PathRewriteProofs` | `PathRewrite`: the path stays a path, runs of katakana end up joined | `SequenceFacts` |
| `PythonBindingsProofs` | `PythonBindings`: a shared tokenizer comes back as it was, lists show their results | `SequenceFacts` |
| `BatchLookupProofs` | `BatchLookup`: it implements `PrefixLookup` | `SequenceFacts` |
| `DictionaryLoadProofs` | `DictionaryLoad`: parts of speech, costs, and what is read of a dictionary | `SequenceFacts` |

Each `MC` module gives the constants of a module the values of a run.

**InputBuffer.** A text is a sequence of bytes `[ch, nth]`, so character
boundaries are visible and values are not. `Reset`, `StartBuild`,
`StartBuildTooLong` and `Build` are the functions of those names. A plugin run
is `Rewrite` (enter, `refresh_chars`), any number of `Replace`, and then
`PluginFails` (rollback), `CommitNothing` or `CommitStart`. The loop of
`resolve_edits` is `ResolveEdit` per iteration and `ResolveEnd`, so that the
early return in the middle of it is a state. `origin` is a history variable: for
each byte of the normalised text, the byte it was copied from.

**TextPlugins, CharCategory.** A configuration is a list of plugins and the lines
of a `char.def`. `RunPlugin` enters a plugin, `Ask` is one iteration of its loop
(the leftmost match from `at` on, and where the search goes on), `Commit` and
`Resolve` are those of the buffer. A plugin of another crate (`AskOther`,
`OtherFails`) may ask for anything the editor accepts. `BufferSpec` is the
refinement: every step of the plugins is a step of `InputBuffer`, whose `Replace`
states the contract of the editor.

**Lattice.** A vector of vectors is a function from boundaries to sequences;
`Reset` keeps the vectors over the new size, as the code does. `Insert` is
guarded by the assumption its doc comment states ("lattice for all previous
boundaries is already constructed"). `fill_top_path` is `FillStart` and a
`FillStep` per iteration. `frontier` is a history variable. Costs are 32 bit
sums (`Wrap`), and `i32::MAX` means "not connected". `CostsAssumption` says that the
sums of a sentence stay below it, which the code does not check: with costs of 16
bits it holds for sentences of up to 32,766 characters.

**LatticeBuilder** extends `Lattice`, so its actions *are* the lattice's
operations with the builder's state around them; `LatticeSpec` is the abstract
specification it is checked and proved to implement (the mapping is the identity
on the lattice's variables): the builder inserts only nodes that the contract of
`insert` allows. Its assumptions are what the code and the dictionary builder
see to (a surface has a character, there is a provider) and one that is up to the
configuration: a regex does not match the empty text. The steps of one boundary are `Enter` (or `Skip`),
`DropWord`/`InsertWord` per word, `BeginOovs`, `AskProvider` and `InsertOov`
per provider, `NextBoundary`. The failure of `connect_eos` is a branch of
`EndOfSentence` that the runs never take: words of at least one character lead on
from every boundary that is left, so an analysis without a path ends in `DeadEnd`.

**WordInfos, BestPaths, Tokenizer.** A word is `<<dictionary, entry>>` with the units it
stores; a text is what its best path in mode C is. A node keeps the text it was
made for as a history. `UnitsFit` says of a dictionary that the index forms of the
units of a word make up its own. The three ways an analysis
can fail differ in what they leave behind: before the text is built, after,
and after the last path has been taken (`FailLate`).

**MorphemeLists.** `sharing[l]` is the set of lists whose `Rc` is the same.
`held` are the lists with a surface that is borrowed. `stale` is a history of
what callers are documented to know: nodes that are kept in a list whose input
changes through a sibling, or behind which nodes of another input were pushed,
are not to be read. `read` is a history of the fields that all nodes of a list were
read with, which the code does not keep: the subset under a list (`part`) is that of
the last collect or clone, not that of its nodes. `lacking` are the lists with words of
a split that lacked its fields (`HasFields`).

**SingleMorphemes, PythonBindings.** A call is a step, as the GIL makes it, but
where it gives the GIL away: `tokenize` is `BeginTokenize` (borrow, set the mode),
`Analyse` without the GIL, and `Collect` or `RaiseTokenize`; the pre-tokenizer is
`BeginPre`, `AnalysePre`, `CollectPre` and then the handler, Python code that may
make any call (`calls` is a stack per thread), until `EndHandler`. `heap` is
what a list object is backed by (nodes on an input, or single morphemes), `part`
the inputs that are in use. `shown` is a history: what the last call with the
list as `out` was asked for. A call that is refused changes nothing and is no
action; where a call fails *after* it has changed something (`RaiseTokenize`,
`LookupFails`, `SplitGone`) it is one.

**NumericParser, PathRewrite.** A number is a string of digits with a scale and
a point, as in the code; a function that changes the parser and returns a
`bool` is an operator that returns both. An iteration of the plugins' loops is
an action: `ReadNode` and `RefuseNode` (a node of a numeral, taken or not, and
then the index goes back), `EndNumeral`, `PassNode` and `LastPart`;
`PassKatakana`, `JoinKatakana` and `EndKatakana`. The indices that the code
goes on with after the path shrank are kept as they are. `Place`, `Value` and
`WellFormed` say what a numeral is and what it is worth without the parser:
the places of the digits that are written fall strictly, from the first digit
to the last.

**SentenceSplitter, CommandLine.** A character stands for the class the
detector's rules tell apart. An iteration of `find_sentence_boundary` is an
action (`PassCharacter`, `OpenParenthesis`, `CloseParenthesis`,
`RefuseBoundary`, `FindBoundary`, `NoBoundary`). `CommandLine` reads lines,
strips their ends, splits and prints in the three modes, and flushes; a text that
the tokenizer refuses ends the program. `SentenceOf` says where a sentence ends
without scanning.

**LexiconIndex, PrefixLookup, BatchLookup.** The double array is the tree of
prefixes it encodes, a table cell is one byte of a varint, with `Radix` in the
place of 128. `BatchLookup` is `batch_impl`: lanes are filled, visited in turn
(`Continue`, `Match`), refilled (`Refill`) or retired, lexicon by lexicon.
`PrefixLookup` is the promise: what a bucket has got is a beginning of what the
single lookup of its position gives, and in the end all of it; `ImplementsScalar`
is the refinement.

**LexiconEntries, DictBuilder.** A reference names an entry by its line, its
headword, or a key of headword, part of speech, reading and perhaps a reference
id. A size is what `expected_entry_size` gives before or after resolution, and
ids follow from sizes; that the code computes them at three times
(`resolution.rs:69`, `writer.rs:58`, `build.rs:593`) is kept. `DictBuilder` has one
action per call, and its error paths leave behind what the code does: rows and
parts of speech of a file that failed, a line buffer that is not cleared.
Files have a column layout (without a header, with parts of the part of speech,
with its id, or both); a column that is missing gets the default of the parser.

**DictionaryDump.** What `sudachi dump` prints of the words, with names or ids of
parts of speech, and `build`/`ubuild` of what was dumped, as operators on the
dictionaries that `DictBuilder` wrote.

**EntryLayout, DictionaryLoad.** `Stored` is what the writer leaves in the block
for an entry: unit arrays that equal the next mode's are shared (length -1).
`ParseInfo` reads them for a subset of fields; `Scanned` enumerates entries by their
sizes. `DictionaryLoad` has an action per stage of `from_cfg_storage`:
`LoadSystem`, the set-up of one plugin at a time (in the order in which
`Plugins::load` calls them), the estimate of costs, the merge of a user
dictionary, and then a question for a word with any subset, or a scan. The
names of parts of speech are looked up in one list that plugins and
dictionaries extend. A file carries two history fields, the entries the builder wrote
and what the rows of the lexicon say; `BuiltAssumption` says how they belong together
in files that can be loaded, which is what the run `dict_builder` checks of files that
are built: entries at their ids, parts of speech and references as the row named them.

Every operator that comes right before a definition and is marked
`Mutant` is a plausible mistake in it. It is not used by the model: with it in
place of the definition, the property it is listed with in `PROJECT.json` fails.

## 3. Runs

| Run | Config | Bounds | Result |
|---|---|---|---|
| input_buffer | `MCTextPlugins.cfg` | 12 texts of up to 7 characters of one and two bytes (empty, too long, growing over the limit in a plugin); three orders of the bundled plugins, alone and behind a plugin of another crate that asks for up to two replacements or fails; every pair of lines of `char.def` over three code points. `MCBound`: other plugins on one text, odd `char.def`s on one text | holds; 19,176 states |
| lattice_builder | `MCLatticeBuilder.cfg` | all 39 texts of up to 3 of 3 characters, 4 dictionaries with every kind of provider, both lookup modes, texts in sequence, connection costs of both signs; a regex matches at least one character | holds; 123,445 states |
| morpheme_lists | `MCMorphemeLists.cfg` | one tokenizer with 4 texts (empty, too long, words of a user dictionary, mixed), every mode and 3 field subsets; 2 lists (symmetric); lookups with all fields or without those of the splits. `MCBound`: the lists take part with two of the texts and with three nodes in all, either in mode C with all fields, or after one analysis in any mode and with any fields while every word can be read and none is held | holds; 144,719 states |
| python_bindings | `MCPythonBindings.cfg` | 2 threads (symmetric), 2 lists, a text of one word with units and a form of its own, and the empty one; two modes, a pre-tokenizer without the fields of the splits, calls within handlers (`MaxDepth` 2). `MCBound`: a single morpheme is held while no call runs, an iterator or a closed dictionary with one list at most and no call; one thread at a time has a pre-tokenizer, and the tokenizer has then its first mode and fields | holds; 238,672 states |
| path_rewrite | `MCPathRewrite.cfg` | every text of up to 5 words of digits, three units and a point; of digits, commas and a point; of digits and a point among other words; of up to 4 words of a mix with a word that is not a numeral by its part of speech, with and without normalisation; of katakana with three kinds of lattices | holds; 218,748 states |
| command_line | `MCCommandLine.cfg` | every line of up to 4 or 5 characters of four families (periods, quotes, repeated marks, itemised headers), windows of 2 and 3 characters on lines of 5, files of up to 4 characters with line ends in all three modes, flushed or not, a limit of 0 | holds; 209,981 states |
| batch_lookup | `MCBatchLookup.cfg` | 4 sets of lexicons (prefixes of one another, homographs, ids wider than a byte, hidden rows, an empty lexicon), texts of up to 3 characters, up to 5 positions (repeated, out of order), 1, 2 and 4 lanes | holds; 12,007 states |
| dict_builder | `MCDictBuilder.cfg` | three matrix files, five tables of parts of speech (one names a part of speech twice), eight lexicons and three user lexicons in all orders, up to 4 rows in a builder; homonyms, reference ids, phantoms, hidden rows, failures in the middle of a file | holds; 208,893 states |
| dictionary_load | `MCDictionaryLoad.cfg` | two system dictionaries, three user dictionaries in every pair, over the limit, cut and of another system dictionary; five sets of plugins with parts of speech they register, may register or may not; every set of units with other fields | holds; 17,971 states |
| refused_numerals | `MCOnlyNumerals.cfg` | as path_rewrite | violated (finding 1) |
| rewrite_returns | `MCRewriteReturns.cfg` | up to 4 words, with one that is normalised with a point | violated (finding 2) |
| build_ids | `MCBuildIdsMatch.cfg` | as dict_builder, up to 3 rows | violated (finding 3) |

The run `lattice_builder` checks the lattice through the builder, which inserts
what the contract allows; that the builder does so is `LatticeSpec`.

Why the bounds are enough. Two edits are the least that compose mappings, and
the bundled plugins make up to five in one batch; the limit is reached half way
through a batch. Sentences of three characters have nodes that skip, cross
and meet; two nodes per span with different connection ids make the locally
cheapest word globally wrong. `MaxValue = 2` in place of 64 brings the
lengths that share a bit of `CreatedWords` within reach. The second user
dictionary is needed because references into "this dictionary" are stored as
references to dictionary 1. Two lists are the least that share an input;
sharing is a property of pairs. Five words are the least that hold a number with
a wrong comma or point, what ends it, and a second number that is read with what
the first left behind. A window shorter than the line makes the detector decide
without seeing what follows. More positions than lanes make lanes be refilled,
and more lanes than positions leave some empty. Three dictionaries at most
(`MaxDictionaries`, 15 in the code) bring the limit within reach of three user
dictionaries; two user dictionaries are the least whose parts of speech are
shifted by another one's. `PosIds = 7` stands for 2^16. Two rows are the least
that make an id depend on the size of an earlier entry, three the least with a
phantom behind them.

Two threads are the least that can meet in a tokenizer; a call within a handler is the
deepest that a thread can get, as its cell is borrowed.

Deadlock is checked in every run but those of `PathRewrite`, `CommandLine`,
`DictBuilder` and `DictionaryLoad`, which are programs that stop: the plugins
have returned, the input has ended, `MaxRows` is reached, a
dictionary could not be loaded. There `Terminates`, where it is stated, says that
they get so far. `BatchLookup` stutters when it is done. The caller of the others
can always start over.

What each property says is written above it. The ones that carry most:
`SurfacesTile` and `TokensCovered` (the byte mapping under any composition of
edits), `EditAtomic` (failure in the middle of a batch), `RewrittenAsConfigured`
(what a search that skips must not miss), `BackPointers` and `SearchCorrect`
(Viterbi against the enumeration of all ways), `NeverDisconnected` (the last
resort covers every dead end), `WordsMatchText` and `ResultStandsAlone` (nothing of
an earlier text, any order of `set_mode` and `set_subset`), `NodesMatchInput` and
`HeldTextStays` (aliasing), `ListsShowTheirResult` and `ModeRestored` (threads, and
calls that fail half way), `NumeralsRight` (the parser takes exactly the numerals
there are, and reads again what it must), `SentencesAsDefined` (the scan against the definition), `ImplementsScalar`
(lanes), `RefsLeadToNamed`, `TableAsWritten` and `DumpRebuilds` (ids and references
of a build), `ReadsAsBuilt` and `PosResolved` (what a reader gets from what a
builder wrote, through every shift of ids).

### Refinements

Three, each a `PROPERTY` of a run: `BufferSpec` (the plugins implement
`InputBuffer`), `LatticeSpec` (the builder implements `Lattice`) and
`ImplementsScalar` (`BatchLookup` implements `PrefixLookup`, with its fairness; the
variable `scalar` holds what the single lookups give). `BufferSpec` and `LatticeSpec` are
theorems too. `ReadsAsBuilt` is close to
one: the abstract dictionary is the rows it was built from (`means`).

### Fairness

`PathRewrite`, `CommandLine` and `BatchLookup` have a liveness property. Each is a
function that, once called, runs to its end on the caller's thread, so weak fairness
of its steps is what the code gives. The other specifications assume none: a caller
may never call again, and a thread may wait for the GIL. That the builder ends is no
property of a run: its loops go over finite lists, boundary after boundary.

### Findings

1. `NumericParser::done` adds its numbers up before it looks at a point or comma
   at the end, and its caller joins the nodes before that point without asking
   whether the sums fitted: ten, 1, 0 and a point become one node that is
   normalised to 0.
2. `JoinNumericPlugin` reads nodes again after a wrong point, as something else
   than digits; but a word whose characters are numerals and whose normalised
   form has a point is taken for a numeral all the same. Two of them in a row
   are refused and read again without end.
3. The builder sizes an entry before its references are resolved, where two lists
   of units share their place when they are *spelled* alike; the writer lets them
   share when they *are* alike. One row that writes the same units by line in one
   list and by word in the other shifts the ids of all entries behind it, in the
   word id table, in references and of phantoms. The properties of the run
   `dict_builder` are stated for lexicons that do not do so (`OneSpelling`).

### Observations

Met while modelling; the models do what the code does, or leave the case out where
it is said so. No run is made of them.

Analysis:

- `RegexOovProvider::provide_oov` makes a node of no characters when the regex
  matches the empty text (`regex_oov.rs:155`); `created.rs:48` asserts the contrary.
  The runs give the regex at least one character.
- An error after `resolve_best_path` has taken `top_path` leaves `None`. After a
  reset, `do_tokenize` of an empty text returns `Ok` and `swap_result` unwraps
  `None` (`stateful_tokenizer.rs:141`, `:219-228`); `CollectPanics` is that step.
- `split_into` reads units with the subset of the list's input, which need not
  have the fields that units are made with (`mlist.rs:119`, `subset.rs:53-54`).
  After a lookup that asked for other fields than the list has, or a `set_subset`
  between `do_tokenize` and `collect_results`, it reads lengths as 0, or goes by the
  references of a user dictionary that were not resolved when the word was read, and
  the units lie where these words of another dictionary would. `HasFields` says what a
  split needs: that the word was read with the units of the mode, and that the list has
  the lengths. The run makes splits that lack either; `SplitSurfaces` leaves out the
  words of these and of what is split or copied from them (`lacking`), and no others,
  whatever was asked for.
- The builder does not check that the index forms of units make up that of the word.
  Where they do not, the end of the last unit is the end of the word all the same,
  and the others lie where their lengths lead (`UnitsFit`).
- Units that are read along with others are resolved only if they were asked for,
  while the comments at `data.rs:158` and `lexicon_set.rs:178` say more. In Python: of a
  tokenizer created with `fields={"pos"}`, a call in mode A makes the mode's field stay
  (`set_mode` only adds); the list of a later call in mode C then has B units that were
  read and not resolved, and `split` in mode B of a word of a second user dictionary
  gives words of the first. `SplitsResolved` leaves such tokenizers out.
- `MorphemeList::lookup` pushes what it finds behind the nodes the list has,
  although its comment says that it resets the list (`mlist.rs:195`).
- When the first node of a numeral is not a numeral by its part of speech, `concat`
  declines, and the loop goes on in the middle of the numeral; `NumeralsJoined` is
  stated for numerals that begin with the right part of speech. A comma before a
  unit is not checked at all, so what `NumeralsRight` says of the parser leaves such
  texts out (`IsSettled`).
- The slow path of the default input text plugin stops at the shortest key
  (`earliest(true)`, `default_input_text.rs:186-191`), the fast path takes the
  longest; the shipped `rewrite.def` has no key that begins another.
  `handle_normalization_slow` compares the first character only. Removing a
  yomigana may leave or make a new pattern; `PatternsGone` is about what the caller
  wrote.
- A `char.def` range that ends at U+D7FF or U+10FFFF is refused; the iterator
  panics on an empty `char.def`, and an empty class makes the yomigana regex
  invalid.
- With a limit of 0 the splitter hands out empty sentences for ever
  (`Terminates` is stated for other limits). A sentence may be longer than the
  limit (`sentence_splitter.rs:41`, against the comment at
  `sentence_detector.rs:74`). The command line keeps the end of a line of one character
  (`main.rs:211`, against the comment at `main.rs:207`), and prints sentences without separators when it only splits.

Python bindings:

- `Morpheme.split` with `add_single` and no units copies the node with `copy_slice`
  into `out`, which has just got an empty input of its own
  (`python/src/morpheme.rs:573`, `:583-585`): `surface()` and `begin()` of what it
  returns panic, although `morpheme.rs:731` and `CHANGELOG.md:195-196` promise a list
  with the morpheme. `ListsShowTheirResult` leaves these lists out (`shown.by`).
- The stub says that `add_single` defaults to `True` (`sudachipy.pyi:364`); the
  signature says `false`.
- The documentation of `out` says that lists split from one that is used as `out`
  are invalidated. They are not: `out` gets an input of its own.
- `lookup` empties `out` before it can fail; a split of a morpheme whose list has
  become shorter empties `out` and then panics.
- The comment at the `unsafe impl Sync` (`morpheme.rs:51-54`) takes the GIL for
  granted, while the module declares `gil_used = false`. Builds without a GIL are not
  modelled.

Dictionaries:

- Connection ids of a row have no lower bound, and the left id is compared with
  `num_left` though a word's *right* id is the left index of the matrix
  (`parser.rs:198`, `:206`, `connect.rs:80-82`). `check_params.rs:36,54` and
  `mecab_oov.rs:153,166` compare with `>` and accept an id equal to the size.
  Inhibited pairs are not checked.
- A table of parts of speech with two ids for one part of speech keeps the place of
  the first and the id of the second; the assertion at `build/lexicon.rs:151` then
  fails (`IdsAreIndexes`), and words are written with parts of speech that are others' or
  nobody's in the table. The run has such a table: `PosKept` leaves the dictionaries
  out that it spoils, the other properties hold of them too (but for `DumpRebuilds`
  where a part of speech is not in the table: `Dumpable`).
- A failed `read_lexicon` keeps the rows and parts of speech it has read, and the stage. A
  failed `read_conn` leaves its line in the buffer, which the next call takes for a
  part of the header (`conn.rs:95`): that is refused, but for a line of two numbers that
  is followed by an empty one. Files begin with their header here, so that the model
  always refuses. An empty matrix file reaches a `todo!()`.
  `read_conn` is allowed for a user dictionary.
- The signature of a system dictionary depends on the second of its compilation and
  the description.
- A part of speech beyond 2^16 wraps; the properties are stated below that. Costs are
  estimated only for entries of the table with the marker, and not at all by
  `LoadedDictionary`. `WordParameter::with_cost` extends the sign of a negative
  cost into the bits of the part of speech, in a copy that is used for the cost only.
- `dump`: only public entries are enumerated, so the test for phantoms
  (`sudachi-cli/src/build.rs:404`) can only drop hidden rows that look like one.
  Homonyms without a reference id are lost behind others of the same key, and the
  index form is computed again from the headword; `Dumpable` says for which
  dictionaries a dump loses nothing. Backslashes are not escaped, fields with line
  ends are not quoted, and a normalised form with several commas may be read again as a
  key. A user dictionary with parts of speech of its own can not be built again from
  a dump with ids.

## 4. Proofs

The theorems hold for every value of the constants that satisfies the `ASSUME`s of
the modules, which TLC evaluates on the runs' values. Each property was checked by
TLC first. None of the proofs needs more of `Len` than its definition gives (they
also pass without the prover's axiom that every value has a length that is a natural).

**InputBuffer** (`InputBufferProofs`): `TypeOK`, `SurfacesTile`, `LengthBounded`,
`CharsFresh`, `TokensCovered` and `EditAtomic`, for all texts, replacements and limits (texts are valid UTF-8,
the limits are naturals and ordered). `SurfacesTile` is not inductive: between
two iterations of `resolve_edits` the mapping is in the spare vector and the rest
of the edits in the queue. The invariant `IInv` adds `QueueOK` (queued edits are
sorted, disjoint, not empty and inside the text), `LoopOK` (the spare mapping is
monotone, starts at 0 and ends no later than what `start` maps to, and `cur_len`
is the length the text would have if the loop stopped here), `CleanOK` and
`HistoryOK`. The proof rests on lemmas about sequences alone (`MonotoneConcat`,
`EditMapping`, `CopyRest`), so the steps only instantiate them.

`TokensCovered` is an argument about the history variable `origin`. `CoverInv` adds
that edits are at boundaries of characters and that between two iterations what is
already written covers its own bytes, and its copied bytes come from before
everything still to be copied (`CoversSoFar`). A copied stretch keeps its mapping; a
replacement maps its first byte to where the replaced range began and the others to
its end, and has no origin (`StandsFor`). `EditAtomic` is proved step by step, without
an invariant.

`IndicesAgree` needs `IndexOK` (in a built buffer the indices are those of the text as
it is) and `LeadOK`: the text begins with a character, and so does what
`resolve_edits` has written, unless it has written nothing yet. An offset is
translated to a character by counting the bytes that begin one before it, and back
by the offsets of the characters (`AreOffsets`); that the two undo each other is
`BackToChar`, and that the lengths of runs go down by one per character is
`ContinuityIs`.

`BufferSpec` is a theorem (`PluginsRefineBuffer`), for all configurations of the
plugins, so what is proved of the buffer holds of them (`PluginsKeepMapping`). A step
of a plugin that edits must be one the editor allows: `TextInv` says that what it asked
for last ends where its search goes on, and that the offsets it translates
characters with are those of the text, in order; the least place of a match exists
(`LeftmostIsMatch`) and is not before the end of the last one. What is
assumed is that the texts of the plugins are among the replacements of the buffer
(`RewriteAssumption`). `MaxEdits` is a guard of `Ask` and of `Replace` for TLC alone.

**Lattice** (`LatticeBuilderProofs`): `TypeOK`, `Aligned`, `BackPointers`,
`PathTiles` and `SearchCorrect`, for every connection matrix, set of nodes
and bound. `IInv` adds `FrontierOK` (a boundary before which nodes have begun gets no
further ones: this is why the best predecessor stays the best), `SizeOK`, `EosOK`
and `PathOK` (every element of the path under construction is a node that is there
and is connected to BOS). The existence of a cheapest predecessor is a lemma about
minima of finite sets of integers (`FirstMinimum`).

That the search is optimal is an argument by induction over the boundaries, done
as an argument about a least boundary where it fails (`MinNat`). `TotalsFit` says that
a total at boundary `b` is at most `b` times the greatest cost of a word and
a connection, so that no sum wraps and every connected predecessor is a candidate.
`Reached(p, b)` says of a way `p` to `b` that a node that ends it is in the lattice
with a total of at most its cost; `ReachedStep` carries it over one word, by
`BackPointers`, and `WaysReached` to all ways that `PathsTo` enumerates.
`SearchInv` adds what EOS is connected to and that the path follows back pointers;
so the total at EOS is the cost of the path, and of no way greater.

**LatticeBuilder** (`LatticeBuilderProofs`), for all dictionaries, texts and providers:
`LatticeSpec` (`BuilderRefinesLattice`: each step of the builder is a step of the
lattice or leaves it alone), hence everything above, and `NeverDisconnected` and
`WordsMatchText`. The inductive invariant `AllInv` is that of the lattice and
`BInv`: what `match_cache` holds for the boundaries ahead are the words of this text
(`CacheOK`), what is still to be inserted begins here, where a node ends, and ends
later inside the text (`TodoOK`), a boundary after one that was left has a
node ahead (`LeadsOn`), and when no provider is left to ask and nothing was created the
last one is not the simple one (`LastResortOK`). What the providers give at a position is
the subject of a lemma each (`ProvideMecabRange`, `ProvideRegexRange`,
`SimpleProvides`).

`ProvidersSeeWords` has an invariant of its own, `SeesInv`: every word inserted at
the boundary has its bit in `created` and a node of its end in `node_buffer`
(`NodesSeen`); what a regex gave is one word of a length that no node there has,
and what the simple provider gave is alone (`TodoSeen`); and after a word of
the last resort nothing is left to insert or to ask (`FallbackLast`). A shared bit
of `CreatedWords` is settled by the buffer (`RegexIsNew`).

**Tokenizer, MorphemeLists** (`MorphemeListsProofs`), for all
dictionaries, best paths and any number of lists:

- `NodesMatchInput` and `HeldTextStays`. `ListsInv` adds `TokenizerInv`: the subset
  has the fields of the mode; the path is empty while a text is written, and that of
  the text when the analysis is over. It says of each list that its nodes have the
  text of its input unless a caller was told (`ListOK`), and that sharing is
  an equivalence (`SharingOK`), with a lemma for each way an `Rc` moves
  (`AloneOK`, `JoinedOK`, `PartBecomesOK`).
- `ResultStandsAlone`, of dictionaries whose units make up their words (`UnitsFit`).
  `ResultInv` says that when an analysis is over the path is the one of this text
  in the mode and with the fields of the analysis, whatever happened to the tokenizer
  and the lists before. That such a path tiles the text is an argument about rows of
  nodes (`Chain`): the units of a node make a row from its begin to its end
  (`SplitNodeChain`), and rows that follow each other make one (`FlattenChain`).
- `SplitSurfaces`, of such dictionaries and of every caller, whatever fields it asks
  for. The invariant says of every node that it is good in the fields it was read with
  (`Good`): it is as long as its word, ends inside its text, and in each mode whose
  fields are among them its units are those of its word. It holds of the result of an
  analysis until a list takes it (`ResultsGood`) and of the lists without words of
  splits that lacked their fields (`ListsGood`). A split with `HasFields` gives nodes
  that are good in the fields of its list (`SplitNodeGood`), in which they can be split
  again; nodes pushed behind others leave what both were read with (`GoodMore`).

**PathRewrite** (`PathRewriteProofs`), for every text, setting and order of the
plugins: `PathTiles`. Joining `begin..end` keeps the path together when both are
places of the path and in order (`ReplaceTiles`). For katakana this follows from the
search for the run (`RangeInPath`). For numerals it needs `ReadingOK`: while a numeral
is read it began at a node that was passed and that is no comma or point. Only for
that reason is there a node left when the reading stops at such a mark and joins
everything before it; that no numeral begins with one is a fact about the parser
(`PunctuationRefused`).

Also `KatakanaRunsJoined`, whenever `JoinKatakanaOovPlugin` is one of the plugins and
no word with a katakana category has a numeral's too or is normalised to a comma or
point (`KatakanaApart`; the ranges of `resources/char.def` are apart, and a
`JoinNumericPlugin` that ran first would join such a word into a number). `RunsInv`
says of every node that it has no katakana, or is a word of the best path, or is all
that is to be joined in its run (`NodeKept`), and of the nodes the loop has passed
that none of them calls for a join that was not made (`SettledTo`). So a run of nodes
of the path is a run of words of the text (`RunsMatch`). A run with a joined node has
nothing left to join (`JoinedIsAll`); in any other the nodes to be joined are the
words to be joined, one by one (`RangeOfPlain`), and neighbours (`NeighboursAre`).
The node the loop skips after a join would have been in the run had it been katakana.

**PythonBindings** (`PythonBindingsProofs`), for any number of threads, texts and lists
and any depth of calls: `ModeRestored`. The property speaks of states in which no
thread is in `tokenize`; what has to be carried through the others is `BorrowOK`: at
most one frame of all stacks is a `tokenize`, it is the innermost of the thread that
has the tokenizer, and either it has changed no mode or it has saved the mode the
tokenizer was created with.

`ListsShowTheirResult` and `HandlersSeeTheirText` are about the lists, of programs
whose units are resolved (`SplitsResolved`; without it the first is false, see
"Observations"). `ShowInv` says what every list holds (`Holds`: nodes of the text of
its input, or words, that are what the last call was to put there), what is in the
tokenizer and in the cell of a thread between the analysis and `Collect`
(`TokenizerOK`, `CellsOK`), that no two threads have one list for their handlers, and
that a thread makes calls only from a handler (`NestingOK`). All calls that fill a
list are instances of one lemma (`Installs`): the list gets an input nobody else has,
which exists because there are as many addresses as lists (`NewInputIsNew`, by the
pigeonhole principle), or one that another list shows already. What the calls are to
give is computed from the dictionary alone (`WordsOf`, `Parts`), and `AnalysedWords`,
`SplitNodeWords` and `SplitSingleWords` say that reading fields, resolving
references and flattening come to the same.

**BatchLookup** (`BatchLookupProofs`), for all lexicons, texts, start positions and
numbers of lanes: `BatchImplementsScalar`, the initial state and every step of `PrefixLookup`
and, when the lexicons are searched, `found = ScalarResult`. The invariant `ReportsOK` says
of every bucket that what it has got and what is to come are its result, and where what
is to come is: in all lexicons left for a start not handed out, else in those
before this one, and before them in the rest of the walk of its lane (`Pending`).
`LanesOK` keeps the buckets of active lanes apart and says that no lane is idle while there are
starts, so that a lexicon is not left too early. The scalar lookup is a recursive
function over nodes and positions; that there is one is proved (`WalkExists`), and a lane
unfolds it step by step (`WordsUnfold`). Assumed is that the list of ids a leaf points
at can be read (`ListsReadable`).

**DictionaryLoad** (`DictionaryLoadProofs`), for every set of configurations, number
of dictionaries and number of parts of speech: the types, `PluginPosKept` (the id
a plugin was given at its set-up stays the place of its part of speech) and
`PosResolved` (the stored id of every entry's part of speech is resolved to the
part of speech it was built with, in any order of dictionaries and plugins). `IInv`
adds `LoadedByPhase` (there is a dictionary exactly between the first load and an
error) and `PosPlaced` (the parts of speech of every merged dictionary stand at
its offset, those of the system dictionary first). The lists only grow, so the
steps rest on two lemmas: what is placed in a list is placed in an extension of it
(`Extends`, `PlacedAt`), and what is appended is placed at the old length.

`CostsEstimated` and `ReadsAsBuilt` rest on a second invariant, `ReadInv`: every
merged file could be loaded (`FilesLoaded`), open costs were estimated with the
dictionaries before (`CostsKept`), the answer given is the one that would be given
now (`AnswerGiven`), and the cursor is where the next entry begins, the ids given being
the first ones of each dictionary (`ScanKept`). The assumption is `BuiltAssumption`.
What the step from it to the properties takes is about the operators: entries begin at
increasing multiples of the alignment, so that an id is the place of one entry
(`RunningIncreases`, `OffsetsAre`, `BlockIs`); what is read of an entry, with any subset of
fields, is what was written, though units are shared between modes
(`FiveParts`, `PayloadIs`, `UnitsRead`, `ParsedAsWritten`); the size the scan computes
from lengths alone is the size that the writer gave the entry (`SameSize`), so that the scan
made at the load goes from entry to entry (`ScanExists`, `EntriesFit`); and a
resolved reference leads in the dictionary that was put together to where it leads in
its file (`ReferencesLead`).

Only model-checked: the liveness of `PathRewrite`, `CommandLine` and `BatchLookup` (and
with it the end of `ImplementsScalar`, that every bucket gets the whole), out of this prover's reach; and, within
reach and open, `RewrittenAsConfigured` of the plugins, the numerals `PathRewrite` joins
(`NumeralsRight`), that the index answers what the rows say (`IndexComplete`), and the
properties of `CommandLine`, `DictBuilder` and `DictionaryDump`. `NumericParser` and the definitions some of these
properties compare with are recursive over data, and what they compute for every
input cannot be proved here.

## 5. What is external

The regex and aho-corasick crates (leftmost-first matches), NFKC and lower
case tables (functions of a character), the double array of the trie (the tree of
prefixes it encodes). Of the regexes of OOV providers there is one family of patterns
(`^[chars]{min,}|[stray]`), which, because `set_up` anchors only the first
alternative, has matches that do not begin at the offset.

## 6. Not modelled

- Of the Python bindings: the conversion of what morphemes return, projections and
  part-of-speech matchers, the caches of Python strings, and builds without a GIL.
- Configuration files, paths and dynamic libraries: I/O without state of its own.
  The order of plugin set-up is in `DictionaryLoad`.
- The bytes of headers, descriptions and strings (a string is a value, its packing
  and its pointer are one), the CSV reader, escapes and numbers as text.
- Of the command line, the arguments, the columns printed for a morpheme and the
  dump of the description.
- In `WordInfos` the length of a word is counted in characters; the code adds
  bytes and translates them, which is `InputBuffer`'s `IndicesAgree`.
- In `PathRewrite`, the strings of a node other than its normalised form, and that
  the entry of a reused word cannot be read. `concat_oov_nodes` joins headwords, and the
  normalised form of the new node is its headword (`node.rs:403-414`); the model has no
  headwords and joins the normalised forms. No property depends on which.
- `do_tokenize` twice without `reset` (a misuse the debug build asserts); more than
  2^16 nodes that end at one boundary.
- The canonical-ordering part of `is_nfkc_quick`, prefetching, and the two
  orders in which buckets of a batch are drained.
- Benchmarks and the fuzz target.

## 7. What is open

`PathRewrite` is not composed with `Tokenizer`: an analysis takes the rewritten path
as it is. Proofs worth having next: for `DictBuilder`,
that stages and rows never disagree.
