--------------------------- MODULE DictionaryDump ---------------------------
(***************************************************************************)
(* The commands of sudachi-cli around dictionaries (sudachi-cli/src/       *)
(* build.rs): dump writes the matrix, the table of parts of speech and the *)
(* entries of a dictionary as sources; build and ubuild make a dictionary  *)
(* of sources, all in one go.                                              *)
(*                                                                         *)
(* A dictionary is an output of DictBuilder.  References between entries   *)
(* are dumped as keys: headword, part of speech, reading and, when the     *)
(* entry has one, reference id.  The format says if parts of speech are    *)
(* dumped by their names ("names") or with --pos-id by their ids ("ids").  *)
(***************************************************************************)
EXTENDS DictBuilder

CONSTANT NormalizedText   \* headword -> what TextNormalizer makes of it

PosNames(dic) == dic.base.pos \o dic.pos

WordsOf(dic, ref) == IF ref.system = ~dic.isUser THEN dic.words ELSE dic.base.words

WordAt(dic, ref) ==
  LET words == WordsOf(dic, ref)
  IN  words[CHOOSE i \in DOMAIN words : words[i].id = ref.id]

(* reference_id_for_word_id                                                *)
ReferenceIdOf(dic, ref) ==
  RefIdIn(IF ref.system = ~dic.isUser THEN dic.references ELSE dic.base.references, ref.id)

Me(dic, word) == [by |-> "id", system |-> ~dic.isUser, id |-> word.id]

\* Mutant: a reference is dumped without the reference id of the entry.
EntryKeyWithoutId(dic, format, ref) ==
  LET word == WordAt(dic, ref)
      key == [by |-> "key", headword |-> word.headword, pos |-> PosNames(dic)[word.pos + 1],
              reading |-> word.reading, refid |-> ""]
  IN  IF format = "names" THEN key ELSE [key EXCEPT !.by = "idkey", !.pos = word.pos]

(* entrykey_ref_string                                                     *)
EntryKey(dic, format, ref) ==
  LET word == WordAt(dic, ref)
      key == [by |-> "key", headword |-> word.headword, pos |-> PosNames(dic)[word.pos + 1],
              reading |-> word.reading, refid |-> ReferenceIdOf(dic, ref)]
  IN  IF format = "names" THEN key ELSE [key EXCEPT !.by = "idkey", !.pos = word.pos]

DumpWids(dic, format, refs) == [k \in DOMAIN refs |-> EntryKey(dic, format, refs[k])]

DictionaryForm(dic, format, word) ==
  IF word.dic = Me(dic, word) THEN SelfRef ELSE EntryKey(dic, format, word.dic)

(* The normalised form is dumped as a text, or not at all.                 *)
NormalizedForm(dic, word) ==
  LET text == WordAt(dic, word.norm).headword
  IN  IF text = word.headword THEN SelfRef ELSE [by |-> "headword", headword |-> text]

WordInfoHeader(format) ==
  <<"INDEX_FORM", "LEFT_ID", "RIGHT_ID", "COST", "HEADWORD">>
  \o (IF format = "names" THEN <<"POS1", "POS2", "POS3", "POS4", "POS5", "POS6">>
      ELSE <<"POS_ID">>)
  \o <<"READING_FORM", "NORMALIZED_FORM", "DICTIONARY_FORM", "SPLIT_A", "SPLIT_B", "SPLIT_C",
       "WORD_STRUCTURE", "SYNONYM_GROUPS", "USER_DATA", "REFERENCE_ID">>

(* The columns of the header, of which mode is none.                       *)
DumpedRow(dic, format, word) ==
  LET keys(refs) == DumpWids(dic, format, refs)
  IN  [form |-> NormalizedText[word.headword], headword |-> word.headword,
       reading |-> word.reading, refid |-> ReferenceIdOf(dic, Me(dic, word)),
       left |-> word.left, right |-> word.right, cost |-> word.cost,
       mode |-> "", pos |-> PosNames(dic)[word.pos + 1], posId |-> word.pos,
       norm |-> NormalizedForm(dic, word), dic |-> DictionaryForm(dic, format, word),
       a |-> keys(word.a), b |-> keys(word.b), c |-> keys(word.c), ws |-> keys(word.ws),
       syn |-> word.syn, user |-> word.user]

(* What dump_word_info takes for a phantom, though it only sees the public *)
(* entries.                                                                *)
LooksLikePhantom(word) == word.left = -1 /\ word.right = -1 /\ word.cost = MaxCost

DumpWordInfo(dic, format) ==
  LET words == SelectSeq(SubSeq(dic.words, 1, dic.public), LAMBDA w : ~LooksLikePhantom(w))
  IN  [header |-> WordInfoHeader(format),
       rows |-> [k \in DOMAIN words |-> DumpedRow(dic, format, words[k])]]

(* dump_pos: of a user dictionary it dumps its own parts of speech, which  *)
(* ubuild does not read.                                                   *)
DumpPos(dic) ==
  [header |-> <<"POS_ID", "POS1", "POS2", "POS3", "POS4", "POS5", "POS6">>, ids |-> TRUE,
   rows |-> [k \in DOMAIN dic.pos |-> [name |-> dic.pos[k], id |-> k - 1]]]

(* dump_matrix: the sizes, which are all that the builder knows of it.     *)
DumpMatrix(dic) == dic.matrix

---------------------------------------------------------------------------
(* read_lexicon, resolve and compile of one file; the command panics when  *)
(* one of them fails.                                                      *)
BuiltOf(isUser, base, matrix, read, result) ==
  IF ~read.ok \/ DuplicatedReferenceId(read.parsed) \/ ~result.ok THEN NoDic
  ELSE [isUser |-> isUser, base |-> base, matrix |-> matrix,
        pos |-> PosTable(read.pos, Len(base.pos)),
        words |-> Written(result.entries, isUser),
        public |-> PublicCount(result.entries),
        references |-> ReferenceIds(result.entries)]

BuildRead(isUser, base, matrix, read) ==
  BuiltOf(isUser, base, matrix, read,
          ResolveEntries(read.parsed, SystemCandidates(base), isUser))

BuildFrom(isUser, base, posBefore, matrix, file) ==
  BuildRead(isUser, base, matrix,
            FoldLeft(ParseRecord, StartReading(posBefore, <<>>, matrix, file), file.rows))

BuildSystem(matrix, posTable, file) == BuildFrom(FALSE, NoDic, PosOf(posTable), matrix, file)

BuildUser(system, file) ==
  BuildFrom(TRUE, system, PreloadedPos(system.pos), system.matrix, file)

---------------------------------------------------------------------------
(* A key leads to the first entry it fits.  An entry without a reference   *)
(* id is lost behind another one of its headword, POS and reading.         *)
KeysAreUnique(dic) ==
  LET candidates == [i \in 1..dic.public |->
                       [key |-> <<dic.words[i].headword, dic.words[i].pos, dic.words[i].reading>>,
                        refid |-> RefIdIn(dic.references, dic.words[i].id)]]
                    \o [i \in 1..dic.base.public |->
                          LET w == SystemCandidates(dic.base)[i]
                          IN  [key |-> <<w.headword, w.pos, w.reading>>, refid |-> w.refid]]
  IN  \A i, j \in DOMAIN candidates :
        i < j /\ candidates[i].key = candidates[j].key => candidates[j].refid # ""

(* The dictionaries whose dump loses nothing: keys are unique, the index   *)
(* form is the normalised headword, no row looks like a phantom, every POS *)
(* is in the table, and the rows were read after the matrix.               *)
Dumpable(dic) ==
  /\ dic.checked
  /\ \A w \in ToSet(dic.words \o dic.base.words) : w.pos < Len(PosNames(dic))
  /\ KeysAreUnique(dic)
  /\ \A i \in 1..dic.public : /\ dic.words[i].form = NormalizedText[dic.words[i].headword]
                              /\ ~LooksLikePhantom(dic.words[i])

(* Everything of a public entry that does not depend on where entries are. *)
Contents(dic, i) ==
  LET w == dic.words[i]
      named(ref) ==
        LET t == WordAt(dic, ref)
        IN  <<t.headword, PosNames(dic)[t.pos + 1], t.reading, ReferenceIdOf(dic, ref)>>
      allNamed(refs) == [k \in DOMAIN refs |-> named(refs[k])]
  IN  [form |-> w.form, headword |-> w.headword, reading |-> w.reading,
       pos |-> PosNames(dic)[w.pos + 1], refid |-> ReferenceIdOf(dic, Me(dic, w)),
       left |-> w.left, right |-> w.right, cost |-> w.cost,
       norm |-> WordAt(dic, w.norm).headword, dic |-> named(w.dic),
       a |-> allNamed(w.a), b |-> allNamed(w.b), c |-> allNamed(w.c), ws |-> allNamed(w.ws),
       syn |-> w.syn, user |-> w.user]

Rebuilt(dic, format) ==
  IF dic.isUser THEN BuildUser(dic.base, DumpWordInfo(dic, format))
  ELSE BuildSystem(DumpMatrix(dic), DumpPos(dic), DumpWordInfo(dic, format))

(* The ids of parts of speech that only a user dictionary has mean nothing *)
(* to ubuild.                                                              *)
Formats(dic) == IF dic.isUser /\ dic.pos # <<>> THEN {"names"} ELSE {"names", "ids"}

SameDictionary(again, dic) ==
  /\ again # NoDic /\ again.public = dic.public
  /\ ~dic.isUser => again.pos = dic.pos
  /\ \A i \in 1..dic.public : Contents(again, i) = Contents(dic, i)

(* A dump can be built again and gives the same entries, whose references  *)
(* lead to entries of the same names, and the same parts of speech         *)
(* (dump_word_info_matches_system_csv and the tests after it, build.rs     *)
(* 762-812, compare two dumps with their sources).                         *)
DumpRebuilds ==
  (Built /\ OneSpelling) /\ Dumpable(output) =>
    \A format \in Formats(output) :
      SameDictionary(Rebuilt(output, format), output)
=============================================================================
