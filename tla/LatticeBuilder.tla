--------------------------- MODULE LatticeBuilder ---------------------------
(***************************************************************************)
(* LatticeBuilder of sudachi/src/analysis/stateful_tokenizer.rs: it looks  *)
(* up the words of the dictionaries at every boundary that can be reached, *)
(* inserts them in the lattice, asks the OOV providers for more and        *)
(* extracts the best path.  Both variants are modelled: the scalar one,    *)
(* which looks up a boundary when it gets there, and the pipelined one,    *)
(* which fills match_cache for all the boundaries first.                   *)
(*                                                                         *)
(* Positions are character offsets: the translation from the byte offsets  *)
(* of the trie is InputBuffer's.                                           *)
(***************************************************************************)
EXTENDS Lattice, OovProviders

CONSTANTS
    Cat,          \* character -> categories of char.def
    Sentences,    \* normalised texts: non-empty sequences of characters
    Dictionaries  \* [lexicon, providers]

ASSUME SentencesAssumption ==
    \A s \in Sentences : s \in Seq(DOMAIN Cat) /\ Len(s) \in 1..MaxLen

IsSequence(s) == Len(s) \in Nat /\ DOMAIN s = 1..Len(s)

IsProvider(p) ==
    \/ p.kind = "simple"
    \/ /\ p.kind = "mecab"
       /\ \A c \in DOMAIN p.categories : /\ p.categories[c].length \in Nat
                                         /\ IsSequence(p.categories[c].oovs)
    \/ /\ p.kind = "regex"
       /\ p.min \in Nat /\ p.maxLength \in Nat

\* A surface has a character (EmptyIndexForm), there is a provider
\* (NoOOVPluginProvided), and a regex does not match the empty text, which is
\* up to the configuration.  The id of a provider is its place in the list.
ASSUME DictionariesAssumption ==
    /\ IsSequence(CategoryOrder)
    /\ \A d \in Dictionaries :
           /\ IsSequence(d.lexicon)
           /\ \A w \in DOMAIN d.lexicon :
                  d.lexicon[w].surface \in Seq(DOMAIN Cat) \ {<<>>}
           /\ IsSequence(d.providers) /\ d.providers # <<>>
           /\ \A k \in DOMAIN d.providers :
                  /\ IsProvider(d.providers[k]) /\ d.providers[k].id = -k
                  /\ d.providers[k].kind = "regex" => d.providers[k].min > 0

\* The nodes of an entry at all the places of a text.
NodesOf(entry, id) ==
    {OovNode(s[1], s[2] - s[1], entry, id) :
        s \in {r \in (0..MaxLen) \X (0..MaxLen) : r[1] < r[2]}}

\* Nodes has those of the words and of the providers.
ASSUME BuilderNodesAssumption ==
    \A d \in Dictionaries :
        /\ \A w \in DOMAIN d.lexicon : NodesOf(d.lexicon[w], w) \subseteq Nodes
        /\ \A k \in DOMAIN d.providers :
               LET p == d.providers[k]
               IN  IF p.kind = "mecab"
                   THEN \A c \in DOMAIN p.categories :
                            \A o \in Range(p.categories[c].oovs) :
                                NodesOf(o, p.id) \subseteq Nodes
                   ELSE NodesOf(p, p.id) \subseteq Nodes

VARIABLES
    dict,         \* the dictionary of the tokenizer
    sentence,     \* the normalised text
    pipelined,    \* whether match_cache is used
    match_cache,  \* boundary -> words found there, from 0; never shrinks
    ch_off,       \* boundary being processed
    created,      \* CreatedWords of the boundary
    node_buffer,  \* nodes that begin at the boundary
    provider,     \* OOV providers called at the boundary
    todo,         \* words or nodes of the running loop
    pc, result

locals == <<ch_off, created, node_buffer, provider, todo>>
builder_vars == <<lattice_vars, dict, sentence, pipelined, match_cache, locals,
                  pc, result>>

Length == Len(sentence)
Cats == [i \in DOMAIN sentence |-> Cat[sentence[i]]]
Providers == dict.providers

\* can_bow, and the end of the text
CanEndWord(e) == e < Length => CanBowChar(Cats, e + 1)

\* LexiconSet::lookup: the words that begin at the offset off of s, in the
\* order of the lexicon, as [word, end].
Lookup(lexicon, s, off) ==
    LET Begins(w) ==
            LET surface == lexicon[w].surface
            IN  /\ off + Len(surface) =< Len(s)
                /\ SubSeq(s, off + 1, off + Len(surface)) = surface
    IN  FlattenSeq([w \in DOMAIN lexicon |->
            IF Begins(w)
            THEN <<[word |-> w, end |-> off + Len(lexicon[w].surface)]>>
            ELSE <<>>])

WordNode(e) ==
    LET w == dict.lexicon[e.word]
    IN  [begin |-> ch_off, end |-> e.end, left |-> w.left, right |-> w.right,
         cost |-> w.cost, word |-> e.word]

\* Mutant: the buckets keep what they hold.
BatchOnTop(cache, lexicon, s) ==
    [b \in DOMAIN cache \cup 0..Len(s) - 1 |->
        (IF b \in DOMAIN cache THEN cache[b] ELSE <<>>)
            \o (IF b < Len(s) THEN Lookup(lexicon, s, b) ELSE <<>>)]

\* The start of build_lattice_pipelined: every bucket is cleared, those of the
\* boundaries of s are filled by lookup_batch.
Batch(cache, lexicon, s) ==
    [b \in DOMAIN cache \cup 0..Len(s) - 1 |->
        IF b < Len(s) THEN Lookup(lexicon, s, b) ELSE <<>>]

----------------------------------------------------------------------------
BuilderInit ==
    /\ LatticeInit
    /\ dict \in Dictionaries
    /\ sentence = <<>> /\ pipelined = FALSE /\ match_cache = <<>>
    /\ ch_off = 0 /\ created = {} /\ node_buffer = <<>>
    /\ provider = 0 /\ todo = <<>>
    /\ pc = "idle" /\ result = "Ok"

\* build_lattice is called for a text that is not empty.
Start(s, p) ==
    /\ pc = "idle"
    /\ sentence' = s /\ pipelined' = p
    /\ Reset(Len(s))
    /\ match_cache' = IF p THEN Batch(match_cache, dict.lexicon, s)
                      ELSE match_cache
    /\ ch_off' = 0 /\ created' = {} /\ node_buffer' = <<>>
    /\ provider' = 0 /\ todo' = <<>>
    /\ pc' = "boundary" /\ result' = "Ok"
    /\ UNCHANGED dict

\* A boundary where no node ends.
Skip ==
    /\ pc = "boundary" /\ ch_off < Length
    /\ ~HasPreviousNode(ch_off)
    /\ ch_off' = ch_off + 1
    /\ UNCHANGED <<lattice_vars, dict, sentence, pipelined, match_cache, created,
                   node_buffer, provider, todo, pc, result>>

\* Mutant: every boundary is entered.
EnterAny ==
    /\ pc = "boundary" /\ ch_off < Length
    /\ created' = {} /\ node_buffer' = <<>>
    /\ todo' = Lookup(dict.lexicon, sentence, ch_off)
    /\ pc' = "words"
    /\ UNCHANGED <<lattice_vars, dict, sentence, pipelined, match_cache, ch_off,
                   provider, result>>

Enter ==
    /\ pc = "boundary" /\ ch_off < Length
    /\ HasPreviousNode(ch_off)
    /\ created' = {} /\ node_buffer' = <<>>
    /\ todo' = IF pipelined THEN match_cache[ch_off]
               ELSE Lookup(dict.lexicon, sentence, ch_off)
    /\ pc' = "words"
    /\ UNCHANGED <<lattice_vars, dict, sentence, pipelined, match_cache, ch_off,
                   provider, result>>

\* Mutant: the word is counted before it is dropped.
DropCounted ==
    /\ pc = "words" /\ todo # <<>>
    /\ ~CanEndWord(Head(todo).end)
    /\ created' = created \cup Single(Head(todo).end - ch_off)
    /\ todo' = Tail(todo)
    /\ UNCHANGED <<lattice_vars, dict, sentence, pipelined, match_cache, ch_off,
                   node_buffer, provider, pc, result>>

\* A word that ends inside a run of letters is dropped.
DropWord ==
    /\ pc = "words" /\ todo # <<>>
    /\ ~CanEndWord(Head(todo).end)
    /\ todo' = Tail(todo)
    /\ UNCHANGED <<lattice_vars, dict, sentence, pipelined, match_cache, ch_off,
                   created, node_buffer, provider, pc, result>>

InsertWord ==
    /\ pc = "words" /\ todo # <<>>
    /\ CanEndWord(Head(todo).end)
    /\ created' = created \cup Single(Head(todo).end - ch_off)
    /\ node_buffer' = Append(node_buffer, WordNode(Head(todo)))
    /\ Insert(WordNode(Head(todo)))
    /\ todo' = Tail(todo)
    /\ UNCHANGED <<dict, sentence, pipelined, match_cache, ch_off, provider, pc,
                   result>>

\* insert_oovs begins: no provider is asked where no OOV word may begin.
BeginOovs ==
    /\ pc = "words" /\ todo = <<>>
    /\ provider' = IF CanOovBow(Cats, ch_off) THEN 0 ELSE Len(Providers)
    /\ pc' = "providers"
    /\ UNCHANGED <<lattice_vars, dict, sentence, pipelined, match_cache, ch_off,
                   created, node_buffer, todo, result>>

\* The provider provide_oovs is called with: the next one, and once more the
\* last one when nothing was created (then provider is Len(Providers) + 1).
Asked ==
    LET k == provider + 1
    IN  IF k =< Len(Providers) THEN {Providers[k]}
        ELSE IF k = Len(Providers) + 1 /\ created = {} THEN {Last(Providers)}
        ELSE {}

AskProvider ==
    /\ pc = "providers"
    /\ \E p \in Asked :
           /\ ~Fails(p, sentence, Cats, ch_off)
           /\ todo' = Provide(p, sentence, Cats, ch_off, created, node_buffer)
           /\ node_buffer' = node_buffer \o todo'
    /\ provider' = provider + 1
    /\ pc' = "provided"
    /\ UNCHANGED <<lattice_vars, dict, sentence, pipelined, match_cache, ch_off,
                   created, result>>

ProviderFails ==
    /\ pc = "providers"
    /\ \E p \in Asked : Fails(p, sentence, Cats, ch_off)
    /\ pc' = "idle" /\ result' = "PluginError"
    /\ UNCHANGED <<lattice_vars, dict, sentence, pipelined, match_cache, locals>>

InsertOov ==
    /\ pc = "provided" /\ todo # <<>>
    /\ created' = created \cup Single(Head(todo).end - Head(todo).begin)
    /\ Insert(Head(todo))
    /\ todo' = Tail(todo)
    /\ UNCHANGED <<dict, sentence, pipelined, match_cache, ch_off, node_buffer,
                   provider, pc, result>>

EndProvider ==
    /\ pc = "provided" /\ todo = <<>>
    /\ pc' = "providers"
    /\ UNCHANGED <<lattice_vars, dict, sentence, pipelined, match_cache, locals,
                   result>>

\* insert_oovs when even the last resort gave nothing.
DeadEnd ==
    /\ pc = "providers" /\ Asked = {} /\ created = {}
    /\ pc' = "idle" /\ result' = "EosBosDisconnect"
    /\ UNCHANGED <<lattice_vars, dict, sentence, pipelined, match_cache, locals>>

NextBoundary ==
    /\ pc = "providers" /\ Asked = {} /\ created # {}
    /\ ch_off' = ch_off + 1
    /\ pc' = "boundary"
    /\ UNCHANGED <<lattice_vars, dict, sentence, pipelined, match_cache, created,
                   node_buffer, provider, todo, result>>

\* connect_eos fails where no node ends at the end of the text.  Words of one
\* character or more end after the boundary they begin at, so that every boundary
\* left by NextBoundary leads on and DeadEnd comes before this failure; only an
\* expression that matches the empty text, which no run has, could lead here.
EndOfSentence ==
    /\ pc = "boundary" /\ ch_off = Length
    /\ IF EosDisconnected
       THEN /\ pc' = "idle" /\ result' = "EosBosDisconnect"
            /\ UNCHANGED lattice_vars
       ELSE /\ pc' = "path" /\ UNCHANGED result
            /\ ConnectEos
    /\ UNCHANGED <<dict, sentence, pipelined, match_cache, locals>>

\* resolve_best_path reads the nodes fill_top_path returns.
FillPath ==
    /\ pc = "path" /\ (FillStart \/ FillStep)
    /\ UNCHANGED <<dict, sentence, pipelined, match_cache, locals, pc, result>>

PathFilled ==
    /\ pc = "path" /\ FillDone
    /\ pc' = "idle"
    /\ UNCHANGED <<lattice_vars, dict, sentence, pipelined, match_cache, locals,
                   result>>

Step ==
    \/ Skip \/ Enter \/ DropWord \/ InsertWord
    \/ BeginOovs \/ AskProvider \/ ProviderFails \/ InsertOov \/ EndProvider
    \/ DeadEnd \/ NextBoundary
    \/ EndOfSentence \/ FillPath \/ PathFilled

BuilderNext ==
    \/ \E s \in Sentences, p \in BOOLEAN : Start(s, p)
    \/ Step

\* The builder is a function that runs to its end once it is called.
BuilderSpec == BuilderInit /\ [][BuilderNext]_builder_vars

----------------------------------------------------------------------------
(* Properties.                                                             *)

\* Analysis of any text succeeds with the documented configuration, whose last
\* provider is the simple one: wherever words, dropped words and the other
\* providers lead, the end of the sentence can be reached.
NeverDisconnected ==
    Last(Providers).kind = "simple" => result # "EosBosDisconnect"

\* The words in the lattice are words of this sentence: nothing of an earlier
\* one comes back from match_cache, from the lattice or from node_buffer.
WordsMatchText ==
    pc # "idle" =>
        \A b \in 1..Length : \A i \in 1..Len(ends_full[b]) :
            LET n == ends_full[b][i]
            IN  n.word > 0 => SubSeq(sentence, n.begin + 1, n.end)
                                  = dict.lexicon[n.word].surface

\* The places of the nodes that were inserted, [boundary, place in its vector].
Places == UNION {{b} \X (1..Len(ends_full[b])) : b \in DOMAIN ends_full}

NodeOf(q) == ends_full[q[1]][q[2]]

ByKind(n, kind) == n.word < 0 /\ Providers[-n.word].kind = kind

\* A regex never adds a word next to one of the same length, however long: the
\* bits that CreatedWords shares are resolved by the scan of the buffer.
RegexAddsNewLength ==
    \A q, r \in Places :
        q[1] = r[1] /\ q[2] < r[2] /\ ByKind(NodeOf(r), "regex") =>
            NodeOf(q).begin # NodeOf(r).begin

\* The simple provider is a fallback: where it is the last one its word is the
\* only one that begins at its boundary.
SimpleOnlyAlone ==
    Last(Providers).kind = "simple" =>
        \A q, r \in Places :
            q # r /\ NodeOf(q).begin = NodeOf(r).begin =>
                NodeOf(q).word # Last(Providers).id

\* A provider sees which words there are already, those of the lexicon and of
\* the providers before it.
ProvidersSeeWords == RegexAddsNewLength /\ SimpleOnlyAlone
=============================================================================
