--------------------------- MODULE DictionaryLoad --------------------------
(***************************************************************************)
(* JapaneseDictionary (sudachi/src/dic/dictionary.rs) and LoadedDictionary *)
(* (binary_loader.rs): a system dictionary is loaded, the plugins are set  *)
(* up, which may add parts of speech, the connection costs are edited, and *)
(* the user dictionaries are added one after the other.  Every error drops *)
(* the whole dictionary.  The dictionary that comes out answers questions  *)
(* about words by their ids (lexicon_set.rs).                              *)
(*                                                                         *)
(* A dictionary file is a record                                           *)
(*   [ok, isUser, key, hasMatrix, pos, block, public, table, unset,        *)
(*    written, means]                                                      *)
(* ok: the description and the blocks can be read; key: the signature of a *)
(* system dictionary or the one a user dictionary refers to; pos: its own  *)
(* POS; block, public: its entries (EntryLayout) and how many of them are  *)
(* public; table: the ids of its table of word ids; unset: those whose     *)
(* cost is to be estimated.  written and means are history: the entries    *)
(* that the builder wrote, and what the rows of the lexicon say of each of *)
(* them, by id.  The plugins are lists by category.                        *)
(***************************************************************************)
EXTENDS EntryLayout, FiniteSets

CONSTANTS
  Configs,          \* what may be loaded: a set of [system, users, plugins, plain]
  MaxDictionaries,  \* MAX_DICTIONARIES
  PosIds,           \* the number of ids of POS, 2^16
  Subsets           \* the sets of fields that are asked for

Plugin == [category : {"connect", "input", "oov", "path"}, pos : STRING,
           userPos : {"allow", "forbid"}]

ASSUME LoadAssumption ==
  /\ MaxDictionaries \in Nat \ {0} /\ PosIds \in Nat \ {0}
  /\ \A c \in Configs :
       /\ c.system.pos \in Seq(STRING)
       /\ Len(c.users) \in Nat
       /\ \A k \in 1..Len(c.users) : c.users[k].pos \in Seq(STRING)
       /\ \A category \in {"connect", "input", "oov", "path"} :
            c.plugins[category] \in Seq(Plugin)

VARIABLES
  config,        \* what is loaded: a Config and the files it names
  phase,         \* "system", "plugins", "users", "ready" or "failed"
  pos,           \* Grammar.pos_list
  numSystemPos,  \* LexiconSet.num_system_pos
  posOffsets,    \* LexiconSet.pos_offsets: one for each lexicon, the system one first
  costs,         \* the costs of the words of each lexicon, by id
  toSetUp,       \* plugins that are not set up yet
  held,          \* POS that plugins hold by their ids: [name, id]
  edited,        \* the connection costs have been edited
  answer,        \* the word info asked for last: [dict, entry, subset, info], or NoAnswer
  cursor,        \* WordIdCursor: [dict, left, offset], or NoCursor
  seen           \* the word ids the cursor has given

questions == <<answer, cursor, seen>>
dictionary == <<config, phase, pos, numSystemPos, posOffsets, costs, toSetUp, held, edited>>
vars == <<config, phase, pos, numSystemPos, posOffsets, costs, toSetUp, held, edited,
          answer, cursor, seen>>

NoAnswer == [dict |-> -1]
NoCursor == [dict |-> -1]

FileOf(k) == IF k = 0 THEN config.system ELSE config.users[k]
Merged == 0..(Len(posOffsets) - 1)

Init ==
  /\ config \in Configs
  /\ phase = "system"
  /\ pos = <<>> /\ numSystemPos = 0 /\ posOffsets = <<>> /\ costs = <<>>
  /\ toSetUp = <<>> /\ held = {} /\ edited = FALSE
  /\ answer = NoAnswer /\ cursor = NoCursor /\ seen = <<>>

---------------------------------------------------------------------------
(* BinaryDictionary::load                                                  *)
Readable(file) == file.ok /\ ValidBoundaries(file.block, file.public)

(* load_system and load_user: what the file is, and the signature of the   *)
(* system dictionary that a user dictionary was built for.                 *)
LoadableSystem(file) == Readable(file) /\ ~file.isUser /\ file.hasMatrix
LoadableUser(file, system) == Readable(file) /\ file.isUser /\ file.key = system.key

WordReference == [dict : {0, 1}, entry : Nat]

(* The reference of an entry of the file leads to a word of this headword. *)
LeadsIn(file, system, ref, headword) ==
  LET words == (IF ref.dict = 1 THEN file ELSE system).written
  IN  \E i \in DOMAIN words : EntryIds(words)[i] = ref.entry /\ words[i].headword = headword

(* The file is what the builder makes of the rows of a lexicon, on the     *)
(* words and POS of the system dictionary: what DictBuilder states of it.  *)
BuiltOn(file, system) ==
  LET ids == EntryIds(file.written)
      table == IF file.isUser THEN system.pos \o file.pos ELSE file.pos
      leads(ref, headword) ==
        ref \in WordReference /\ (ref.dict = 1 => file.isUser)
          /\ LeadsIn(file, system, ref, headword)
  IN  /\ Len(file.written) \in Nat /\ file.written = [i \in 1..Len(file.written) |-> file.written[i]]
      /\ file.block.at = Block(file.written).at
      /\ file.public \in 0..Len(file.written)
      /\ ToSet(file.table) \subseteq {ids[i] : i \in DOMAIN file.written}
      /\ \A i \in DOMAIN file.written :
           LET e == file.written[i]
               says == file.means[ids[i]]
           IN  /\ e.pos \in Nat /\ e.syn \in Nat /\ e.user \in Nat
               /\ e.pos < Len(table) /\ table[e.pos + 1] = says.pos
               /\ leads(e.norm, says.norm) /\ leads(e.dic, says.dic)
               /\ \A f \in UnitFields :
                    /\ e[f] \in Seq(WordReference) /\ Len(e[f]) = Len(says[f])
                    /\ \A k \in DOMAIN e[f] : leads(e[f][k], says[f][k])
               /\ \A f \in {"headword", "reading", "form", "syn", "user"} : e[f] = says[f]

ASSUME BuiltAssumption ==
  \A c \in Configs :
    LoadableSystem(c.system) =>
      /\ BuiltOn(c.system, c.system)
      /\ \A k \in 1..Len(c.users) :
           LoadableUser(c.users[k], c.system) => BuiltOn(c.users[k], c.system)

Given == "given"

(* The costs of a lexicon, which are given but for those to estimate.      *)
OwnCosts(file) ==
  [id \in {EntryId(o) : o \in DOMAIN file.block.at} |->
     IF id \in file.unset THEN "unset" ELSE Given]

(* Plugins::load: one category after the other.                            *)
InLoadOrder(plugins) ==
  plugins.connect \o plugins.input \o plugins.oov \o plugins.path

CanLoadSystem == LoadableSystem(config.system)

LoadSystem ==
  /\ phase = "system" /\ CanLoadSystem
  /\ pos' = config.system.pos
  /\ numSystemPos' = Len(config.system.pos)
  /\ posOffsets' = <<0>> /\ costs' = <<OwnCosts(config.system)>>
  /\ toSetUp' = InLoadOrder(config.plugins)
  /\ phase' = IF config.plain THEN "users" ELSE "plugins"
  /\ UNCHANGED <<config, held, edited, questions>>

---------------------------------------------------------------------------
(* get_part_of_speech_id: the first one of this name, if there is one.     *)
PosIndex(name) ==
  {i - 1 : i \in {i \in DOMAIN pos :
                    pos[i] = name /\ \A j \in 1..(i - 1) : pos[j] # name}}

(* handle_user_pos: only OOV providers may add a POS.                      *)
MayRegister(plugin) ==
  plugin.category = "oov" /\ plugin.userPos = "allow" /\ Len(pos) < PosIds

CanSetUp(plugin) ==
  plugin.category \in {"oov", "path"} => PosIndex(plugin.pos) # {} \/ MayRegister(plugin)

SetUpPlugin ==
  /\ phase = "plugins" /\ toSetUp # <<>>
  /\ LET plugin == Head(toSetUp)
         known == PosIndex(plugin.pos)
         hold(id) == held' = held \cup {[name |-> plugin.pos, id |-> id]}
     IN  /\ CanSetUp(plugin)
         /\ CASE plugin.category \notin {"oov", "path"} -> UNCHANGED <<pos, held>>
              [] plugin.category \in {"oov", "path"} /\ known # {} ->
                   (\E id \in known : hold(id)) /\ UNCHANGED pos
              [] OTHER -> hold(Len(pos)) /\ pos' = Append(pos, plugin.pos)
  /\ toSetUp' = Tail(toSetUp)
  /\ UNCHANGED <<config, phase, numSystemPos, posOffsets, costs, edited, questions>>

HasOov == config.plugins.oov # <<>>

(* The connection costs are edited when all plugins are set up.            *)
EditConnections ==
  /\ phase = "plugins" /\ toSetUp = <<>> /\ HasOov
  /\ edited' = TRUE
  /\ phase' = "users"
  /\ UNCHANGED <<config, pos, numSystemPos, posOffsets, costs, toSetUp, held, questions>>

---------------------------------------------------------------------------
IsFull == Len(posOffsets) >= MaxDictionaries

NextUser == Len(posOffsets)

CanAddUser == LoadableUser(FileOf(NextUser), config.system) /\ ~IsFull

(* update_cost: every word of the table without a cost gets that of the    *)
(* best path of its headword in what has been loaded so far.  The cost     *)
(* stands for what it was estimated with.                                  *)
UpdatedCosts(file) ==
  [id \in DOMAIN OwnCosts(file) |->
     IF ~config.plain /\ id \in ToSet(file.table) /\ OwnCosts(file)[id] = "unset"
     THEN [dicts |-> Merged, edited |-> edited]
     ELSE OwnCosts(file)[id]]

\* Mutant: the POS of a user dictionary go behind those of the system dictionary.
MergePosInFront(file) ==
  SubSeq(pos, 1, numSystemPos) \o file.pos \o SubSeq(pos, numSystemPos + 1, Len(pos))

(* merge_binary                                                            *)
MergePos(file) == pos \o file.pos

\* Mutant: the lexicon is added before its costs are estimated.
AppendCostsFirst(file) ==
  LET own == OwnCosts(file)
  IN  Append(costs, [id \in DOMAIN own |->
        IF ~config.plain /\ id \in ToSet(file.table) /\ own[id] = "unset"
        THEN [dicts |-> 0..Len(costs), edited |-> edited] ELSE own[id]])

AppendCosts(file) == Append(costs, UpdatedCosts(file))

(* merge_user_dictionary and merge_dictionary: the lexicon is appended     *)
(* with the number of POS there are, and then its POS are.                 *)
AddUser ==
  /\ phase = "users" /\ NextUser <= Len(config.users)
  /\ CanAddUser
  /\ costs' = AppendCosts(FileOf(NextUser))
  /\ posOffsets' = Append(posOffsets, Len(pos))
  /\ pos' = MergePos(FileOf(NextUser))
  /\ UNCHANGED <<config, phase, numSystemPos, toSetUp, held, edited, questions>>

Finish ==
  /\ phase = "users" /\ NextUser > Len(config.users)
  /\ phase' = "ready"
  /\ UNCHANGED <<config, pos, numSystemPos, posOffsets, costs, toSetUp, held, edited, questions>>

(* Any error: nothing is kept.                                             *)
Refuse ==
  /\ \/ phase = "system" /\ ~CanLoadSystem
     \/ phase = "plugins" /\ IF toSetUp = <<>> THEN ~HasOov ELSE ~CanSetUp(Head(toSetUp))
     \/ phase = "users" /\ NextUser <= Len(config.users) /\ ~CanAddUser
  /\ phase' = "failed"
  /\ pos' = <<>> /\ numSystemPos' = 0 /\ posOffsets' = <<>> /\ costs' = <<>>
  /\ toSetUp' = <<>> /\ held' = {} /\ edited' = FALSE
  /\ UNCHANGED <<config, questions>>

---------------------------------------------------------------------------
(* WordRef::resolve                                                        *)
ResolveRef(ref, dict) == IF ref.dict = 0 THEN ref ELSE [ref EXCEPT !.dict = dict]

\* Mutant: the POS of a user dictionary are looked for behind all others.
ResolvedPosAtEnd(id, dict) ==
  IF dict # 0 /\ id >= numSystemPos
  THEN Len(pos) - Len(FileOf(dict).pos) + (id - numSystemPos) ELSE id

(* The id of a POS that the dictionary has itself counts from the offset   *)
(* of the dictionary.  It is stored in 16 bits.                            *)
ResolvedPos(id, dict) ==
  IF dict # 0 /\ id >= numSystemPos
  THEN (posOffsets[dict + 1] + (id - numSystemPos)) % PosIds ELSE id

(* WordInfoRefData::resolve: the fields asked for, whatever was parsed.    *)
ResolveInfo(raw, dict, subset) ==
  LET refs(f) == IF f \in subset
                 THEN [k \in DOMAIN raw[f] |-> ResolveRef(raw[f][k], dict)] ELSE raw[f]
      ref(f) == IF f \in subset THEN ResolveRef(raw[f], dict) ELSE raw[f]
  IN  [raw EXCEPT !.pos = IF "pos" \in subset THEN ResolvedPos(@, dict) ELSE @,
                  !.norm = ref("norm"), !.dic = ref("dic"),
                  !.a = refs("a"), !.b = refs("b"), !.c = refs("c"), !.ws = refs("ws")]

(* get_word_info_subset                                                    *)
WordInfo(dict, entry, subset) ==
  ResolveInfo(ParseInfo(FileOf(dict).block.at[entry * Alignment], subset), dict, subset)

EntriesOf(dict) == {EntryId(o) : o \in DOMAIN FileOf(dict).block.at}

(* A question changes nothing of the dictionary (&self), so that one of    *)
(* them, or one scan, is enough: Asked bounds them.                        *)
Asked == answer # NoAnswer \/ cursor # NoCursor

Ask(dict, entry, subset) ==
  /\ phase = "ready" /\ ~Asked
  /\ answer' = [dict |-> dict, entry |-> entry, subset |-> subset,
                info |-> WordInfo(dict, entry, subset)]
  /\ UNCHANGED <<dictionary, cursor, seen>>

CursorOf(dict) ==
  LET scan == ScanFrom(FileOf(dict).public)
  IN  [dict |-> dict, left |-> scan.left, offset |-> scan.offset]

StartScan ==
  /\ phase = "ready" /\ ~Asked
  /\ cursor' = CursorOf(0)
  /\ UNCHANGED <<dictionary, answer, seen>>

(* next_word_id: the next entry, or the first of the next dictionary.      *)
NextWordId ==
  /\ phase = "ready" /\ cursor # NoCursor
  /\ \/ /\ cursor.left > 0
        /\ cursor.offset \in DOMAIN FileOf(cursor.dict).block.at
        /\ LET scanned == Scanned(FileOf(cursor.dict).block,
                                  [left |-> cursor.left, offset |-> cursor.offset])
           IN  cursor' = [cursor EXCEPT !.left = scanned.left, !.offset = scanned.offset]
        /\ seen' = Append(seen, [dict |-> cursor.dict, entry |-> EntryId(cursor.offset)])
     \/ /\ cursor.left = 0 /\ cursor.dict + 1 \in Merged
        /\ cursor' = CursorOf(cursor.dict + 1)
        /\ UNCHANGED seen
  /\ UNCHANGED <<dictionary, answer>>

Next ==
  \/ LoadSystem
  \/ SetUpPlugin
  \/ EditConnections
  \/ AddUser
  \/ Finish
  \/ Refuse
  \/ \E dict \in Merged : \E entry \in EntriesOf(dict) : \E subset \in Subsets :
       Ask(dict, entry, subset)
  \/ StartScan
  \/ NextWordId

Spec == Init /\ [][Next]_vars

---------------------------------------------------------------------------
(* headword of a word id, as StringsCache gets it for the other forms.     *)
HeadwordOf(id) == WordInfo(id.dict, id.entry, {"headword"}).headword

Leads(id) == id.dict \in Merged /\ id.entry \in EntriesOf(id.dict)

(* Whatever dictionaries were loaded with whatever plugins, every field of *)
(* a word that was asked for, and whatever else was, says what the row of  *)
(* the lexicon said when the dictionary of the word was built: its POS has *)
(* that name though the ids of POS are shifted by the plugins and the      *)
(* dictionaries before (data.rs:50-58), its forms and units are the words  *)
(* of its own dictionary or of the system dictionary that the row named,   *)
(* though they are stored once for several modes (parse.rs:110-160).       *)
AnswersAsBuilt ==
  answer # NoAnswer /\ Len(pos) <= PosIds =>
    LET info == answer.info
        means == FileOf(answer.dict).means[answer.entry]
        wanted(f) == f \in answer.subset
    IN  /\ wanted("pos") => info.pos < Len(pos) /\ pos[info.pos + 1] = means.pos
        /\ \A f \in {"norm", "dic"} :
             wanted(f) => Leads(info[f]) /\ HeadwordOf(info[f]) = means[f]
        /\ \A f \in UnitFields :
             wanted(f) => /\ Len(info[f]) = Len(means[f])
                          /\ \A k \in DOMAIN info[f] :
                               Leads(info[f][k]) /\ HeadwordOf(info[f][k]) = means[f][k]
        /\ \A f \in {"headword", "reading", "form", "syn", "user"} :
             wanted(f) => info[f] = means[f]

(* Every id of a POS that a word of a dictionary can have, of the table of *)
(* its system dictionary followed by its own, is resolved to the id that   *)
(* names the same POS in the dictionary that was put together, whatever    *)
(* POS the plugins and the dictionaries before it added (data.rs:50-58).   *)
PosResolved ==
  Len(pos) <= PosIds =>
    \A k \in Merged :
      LET table == IF k = 0 THEN FileOf(0).pos ELSE FileOf(0).pos \o FileOf(k).pos
      IN  \A id \in 0..(Len(table) - 1) :
            /\ ResolvedPos(id, k) \in 0..(Len(pos) - 1)
            /\ pos[ResolvedPos(id, k) + 1] = table[id + 1]

(* A plugin asks for the id of a POS once, when it is set up, and the id   *)
(* goes on to name this POS when user dictionaries bring their own.        *)
PluginPosKept ==
  \A h \in held : h.id < Len(pos) /\ pos[h.id + 1] = h.name

(* Word costs that a user dictionary leaves open are estimated by analysis *)
(* with the dictionaries before it, none after and not itself, and with    *)
(* the connection costs as they will be used (dictionary.rs:131-163).      *)
CostsEstimated ==
  phase = "ready" =>
    \A k \in Merged \ {0} : \A id \in ToSet(FileOf(k).table) :
      id \in FileOf(k).unset =>
        costs[k + 1][id] =
          IF config.plain THEN "unset" ELSE [dicts |-> 0..(k - 1), edited |-> TRUE]

(* The cursor gives every public entry of every dictionary once, in order, *)
(* and no internal one, by the sizes of the entries alone                  *)
(* (lexicon_set.rs:237, infos.rs:92): it passes over none, has given all   *)
(* public ones of the dictionaries before it, and never fails in a         *)
(* dictionary whose entries were scanned when it was loaded.               *)
ScanGivesEntries ==
  LET given(k) == {seen[i].entry : i \in {i \in DOMAIN seen : seen[i].dict = k}}
      due(k) == CASE k < cursor.dict -> FileOf(k).public
                  [] k = cursor.dict -> FileOf(k).public - cursor.left
                  [] OTHER -> 0
  IN  cursor # NoCursor =>
        /\ \A i, j \in DOMAIN seen :
             i < j => \/ seen[i].dict < seen[j].dict
                      \/ seen[i].dict = seen[j].dict /\ seen[i].entry < seen[j].entry
        /\ \A i \in DOMAIN seen : seen[i].dict \in Merged
        /\ \A k \in Merged :
             /\ given(k) \subseteq EntriesOf(k) /\ Cardinality(given(k)) = due(k)
             /\ \A id \in given(k) : \A other \in EntriesOf(k) \ given(k) : id < other
        /\ cursor.left > 0 =>
             CanScan(FileOf(cursor.dict).block,
                     [left |-> cursor.left, offset |-> cursor.offset])

(* A dictionary is read as it was built, by the id of a word and by the     *)
(* cursor over all words (lexicon_set.rs:172-258).                         *)
ReadsAsBuilt == AnswersAsBuilt /\ ScanGivesEntries
=============================================================================
