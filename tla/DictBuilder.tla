---------------------------- MODULE DictBuilder ----------------------------
(***************************************************************************)
(* DictBuilder (sudachi/src/dic/build.rs): a dictionary is built by calls  *)
(* in stages.  In the stage Grammar the connection matrix, the table of    *)
(* parts of speech and the rows of lexicons are read; the first lexicon    *)
(* that is read without an error leads to the stage Lexicon; resolve()     *)
(* leads to the stage Resolved, in which compile() writes the dictionary.  *)
(* A call that the stage forbids is an error that changes nothing and is   *)
(* no step here.  Every other error is: what it leaves behind counts.      *)
(*                                                                         *)
(* A system dictionary that was written is the base of a user dictionary:  *)
(* NewUser replaces the builder by one for it.                             *)
(***************************************************************************)
EXTENDS LexiconEntries

CONSTANTS
  ConnFiles,   \* matrix files: [left, right, lines]
  PosTables,   \* POS tables: [header, ids, rows], a row is [name, id]
  Lexicons,    \* lexicon files: [header, rows]; without a header it is <<>>
  UserLexicons, \* those given to a builder of a user dictionary
  MaxPosIds,   \* MAX_POS_IDS
  NoLimit,     \* i16::MAX, the bound of connection ids before a matrix is read
  MaxRows      \* bound: rows read by one builder

ASSUME BuilderAssumption ==
  MaxPosIds \in Nat /\ NoLimit \in Nat /\ MaxRows \in Nat

VARIABLES
  user,      \* a user dictionary is built
  stage,     \* "Grammar", "Lexicon" or "Resolved"
  conn,      \* ConnBuffer: [left, right, stale]
  limits,    \* max_left and max_right of the lexicon reader: [left, right]
  checked,   \* history: the limits are those of the matrix, and were for all rows
  pos,       \* POS -> id in the order of insertion: [name, id]
  startPos,  \* POS of the system dictionary come before this index
  parsed,    \* rows read
  resolved,  \* entries after resolve()
  prebuilt,  \* the words of the system dictionary and its POS, or NoDic
  output     \* the dictionary written last, or NoDic

vars == <<user, stage, conn, limits, checked, pos, startPos, parsed, resolved, prebuilt, output>>

NoDic ==
  [words |-> <<>>, pos |-> <<>>, public |-> 0, references |-> {},
   matrix |-> [left |-> 0, right |-> 0]]

Init ==
  /\ user = FALSE /\ stage = "Grammar"
  /\ conn = [left |-> 0, right |-> 0, stale |-> FALSE]
  /\ limits = [left |-> NoLimit, right |-> NoLimit] /\ checked = FALSE
  /\ pos = <<>> /\ startPos = 0
  /\ parsed = <<>> /\ resolved = <<>>
  /\ prebuilt = NoDic /\ output = NoDic

---------------------------------------------------------------------------
(* read_conn.  The line buffer is not cleared before the header is read:   *)
(* what an earlier failure left in it is taken for a part of the header,   *)
(* which then has too many numbers, as a file begins with its own header.  *)
ReadConn(file) ==
  /\ stage = "Grammar"
  /\ IF conn.stale \/ file.left < 0 \/ file.right < 0
     THEN /\ conn' = [conn EXCEPT !.stale = TRUE]
          /\ UNCHANGED <<limits, checked>>
     ELSE IF file.lines = "bad"
     THEN /\ conn' = [left |-> file.left, right |-> file.right, stale |-> TRUE]
          /\ checked' = FALSE
          /\ UNCHANGED limits
     ELSE /\ conn' = [left |-> file.left, right |-> file.right, stale |-> FALSE]
          /\ limits' = [left |-> file.left, right |-> file.right]
          /\ checked' = (parsed = <<>> /\ ~user)
  /\ UNCHANGED <<user, stage, pos, startPos, parsed, resolved, prebuilt, output>>

---------------------------------------------------------------------------
(* Column layouts.                                                         *)
PosParts == {"POS1", "POS2", "POS3", "POS4", "POS5", "POS6"}
RequiredColumns ==
  {"INDEX_FORM", "LEFT_ID", "RIGHT_ID", "COST", "READING_FORM", "NORMALIZED_FORM",
   "DICTIONARY_FORM", "SPLIT_A", "SPLIT_B", "WORD_STRUCTURE"}
Columns ==
  RequiredColumns \cup PosParts \cup
  {"HEADWORD", "MODE", "SPLIT_C", "SYNONYM_GROUPS", "USER_DATA", "POS_ID", "REFERENCE_ID"}

(* parse_header_mapping and validate_required_columns                      *)
ReadsHeader(header, columns, required) ==
  /\ IsInjective(header)
  /\ required \subseteq ToSet(header) /\ ToSet(header) \subseteq columns

(* ColumnLayout::from_record: the POS is there in all its parts, or not in *)
(* parts but by its id.                                                    *)
ReadsLayout(file) ==
  file.header # <<>> =>
    LET parts == PosParts \cap ToSet(file.header)
    IN  /\ ReadsHeader(file.header, Columns, RequiredColumns)
        /\ parts = PosParts \/ (parts = {} /\ "POS_ID" \in ToSet(file.header))

(* The row as the columns of the file give it, with what get_col_or and    *)
(* its like put for a column that is not there.                            *)
Cells(header, row) ==
  LET given(column, value, default) ==
        IF header = <<>> \/ column \in ToSet(header) THEN value ELSE default
  IN  [row EXCEPT !.headword = given("HEADWORD", @, row.form),
                  !.pos = given("POS1", @, ""), !.posId = given("POS_ID", @, -1),
                  !.mode = given("MODE", @, "C"), !.c = given("SPLIT_C", @, <<>>),
                  !.syn = given("SYNONYM_GROUPS", @, 0), !.user = given("USER_DATA", @, 0),
                  !.refid = given("REFERENCE_ID", @, "")]

(* PosColumnLayout: without a header the number of columns tells if there  *)
(* are ids.                                                                *)
ReadsPosLayout(table) ==
  table.header # <<>> => ReadsHeader(table.header, PosParts \cup {"POS_ID"}, PosParts)

HasPosId(table) ==
  IF table.header = <<>> THEN table.ids ELSE "POS_ID" \in ToSet(table.header)

---------------------------------------------------------------------------
HasPos(list, name) == \E i \in DOMAIN list : list[i].name = name
PosId(list, name) == (CHOOSE p \in ToSet(list) : p.name = name).id

(* read_pos without ids: up to the first row that is there already.        *)
PosInOrder(rows) ==
  LET add(st, row) ==
        IF ~st.ok \/ HasPos(st.pos, row.name) \/ Len(st.pos) > MaxPosIds
        THEN [st EXCEPT !.ok = FALSE]
        ELSE [st EXCEPT !.pos = Append(@, [name |-> row.name, id |-> Len(@)])]
  IN  FoldLeft(add, [pos |-> <<>>, ok |-> TRUE], rows)

(* IndexMap::insert: a name that is there keeps its place and gets the id. *)
InsertPos(list, name, id) ==
  IF HasPos(list, name)
  THEN [i \in DOMAIN list |-> IF list[i].name = name THEN [name |-> name, id |-> id] ELSE list[i]]
  ELSE Append(list, [name |-> name, id |-> id])

(* With ids: no id twice or too large, or nothing is inserted; then in the *)
(* order of the ids, up to the first id that is missing.                   *)
PosByIds(rows) ==
  LET ids == {rows[i].id : i \in DOMAIN rows}
      refused == \/ \E i, j \in DOMAIN rows : i < j /\ rows[i].id = rows[j].id
                 \/ \E id \in ids : id < 0 \/ id > MaxPosIds
      nameOf(id) == rows[CHOOSE i \in DOMAIN rows : rows[i].id = id].name
      run == {n \in 0..Len(rows) : \A id \in 0..(n - 1) : id \in ids}
      before == [k \in 1..Max(run) |-> k - 1]
  IN  IF refused THEN <<>>
      ELSE FoldLeft(LAMBDA list, id : InsertPos(list, nameOf(id), id), <<>>, before)

PosOf(table) ==
  CASE ~ReadsPosLayout(table) -> <<>>
    [] ReadsPosLayout(table) /\ HasPosId(table) -> PosByIds(table.rows)
    [] OTHER -> PosInOrder(table.rows).pos

ReadPos(table) ==
  /\ ~user /\ stage = "Grammar"
  /\ parsed = <<>> /\ pos = <<>>
  /\ pos' = PosOf(table)
  /\ UNCHANGED <<user, stage, conn, limits, checked, startPos, parsed, resolved, prebuilt, output>>

---------------------------------------------------------------------------
(* pos_id_of: a new POS gets the next id, and keeps it whatever becomes of *)
(* the row.                                                                *)
RegisterPos(st, name) ==
  IF ~st.ok \/ HasPos(st.pos, name) THEN st
  ELSE IF Len(st.pos) > MaxPosIds THEN [st EXCEPT !.ok = FALSE]
  ELSE [st EXCEPT !.pos = Append(@, [name |-> name, id |-> Len(@)])]

(* parse_split: only files without a header refer to lines.  A key has the *)
(* POS by its name or by its id, which is taken as it is.                  *)
ParseSplit(st, ref) ==
  CASE ref.by = "line" -> [st EXCEPT !.ok = @ /\ st.header = <<>>]
    [] ref.by = "key" -> RegisterPos(st, ref.pos)
    [] OTHER -> st

ParseRef(list, ref) ==
  CASE ref.by = "key" -> [ref EXCEPT !.pos = PosId(list, @)]
    [] ref.by = "idkey" -> [ref EXCEPT !.by = "key"]
    [] OTHER -> ref

(* The POS of a row: by its name, and then an id given with it has to be   *)
(* the same, or by an id of the table.                                     *)
ParsePos(st, row) ==
  LET named == RegisterPos(st, row.pos)
  IN  IF row.pos # ""
      THEN [named EXCEPT !.ok = @ /\ (row.posId >= 0 => row.posId = PosId(named.pos, row.pos))]
      ELSE [st EXCEPT !.ok = @ /\ row.posId >= 0 /\ row.posId < Len(st.pos)]

RowPosId(list, row) == IF row.pos # "" THEN PosId(list, row.pos) ELSE row.posId

(* parse_norm_form: a normalised form that is the entry itself is SelfRef. *)
ParseNorm(list, row) ==
  LET ref == ParseRef(list, row.norm)
      isSelf == CASE ref.by = "headword" -> ref.headword = row.headword
                  [] ref.by = "key" ->
                       /\ ref.headword = row.headword /\ ref.refid = row.refid
                       /\ ref.reading = row.reading /\ ref.pos = RowPosId(list, row)
                  [] OTHER -> FALSE
  IN  IF isSelf THEN SelfRef ELSE ref

ParsedEntry(list, row) ==
  LET parse(refs) == [k \in DOMAIN refs |-> ParseRef(list, refs[k])]
  IN  [form |-> row.form, headword |-> row.headword, reading |-> row.reading,
       refid |-> row.refid, left |-> row.left, right |-> row.right, cost |-> row.cost,
       pos |-> RowPosId(list, row),
       posName |-> IF row.pos # "" THEN row.pos ELSE list[row.posId + 1].name,
       norm |-> ParseNorm(list, row), dic |-> ParseRef(list, row.dic),
       a |-> parse(row.a), b |-> parse(row.b), c |-> parse(row.c), ws |-> parse(row.ws),
       syn |-> row.syn, user |-> row.user]

IdsInRange(bounds, row) == row.left < bounds.left /\ row.right < bounds.right

(* parse_record, in the order of its checks: the units, the POS of the     *)
(* row, the mode, the connection ids, the other references, the form.      *)
ParseRecord(st, given) ==
  LET row == Cells(st.header, given)
      units == ParsePos(FoldLeft(ParseSplit, st, row.a \o row.b \o row.c \o row.ws), row)
      allowed == /\ ~(row.mode = "A" /\ (row.a # <<>> \/ row.b # <<>>))
                 /\ IdsInRange(st.limits, row)
      forms == FoldLeft(ParseSplit, units, <<row.dic, row.norm>>)
  IN  IF ~st.ok THEN st
      ELSE IF ~units.ok \/ ~allowed THEN [units EXCEPT !.ok = FALSE]
      ELSE IF ~forms.ok \/ row.form = "" THEN [forms EXCEPT !.ok = FALSE]
      ELSE [forms EXCEPT !.parsed = Append(@, ParsedEntry(forms.pos, row))]

StartReading(list, rows, bounds, file) ==
  [pos |-> list, parsed |-> rows, limits |-> bounds, header |-> file.header,
   ok |-> ReadsLayout(file)]

(* read_lexicon: the rows before a bad one stay, and so do their POS, but  *)
(* the stage is not left.                                                  *)
ReadLexicon(file) ==
  /\ stage # "Resolved"
  /\ Len(parsed) + Len(file.rows) <= MaxRows
  /\ LET end == FoldLeft(ParseRecord, StartReading(pos, parsed, limits, file), file.rows)
     IN  /\ pos' = end.pos /\ parsed' = end.parsed
         /\ stage' = IF end.ok THEN "Lexicon" ELSE stage
  /\ UNCHANGED <<user, conn, limits, checked, startPos, resolved, prebuilt, output>>

RefIdIn(references, id) ==
  LET hits == {r \in references : r.id = id}
  IN  IF hits = {} THEN "" ELSE (CHOOSE r \in hits : TRUE).refid

(* BinDictResolver::new: the public entries of the system dictionary with  *)
(* the reference ids of its table.                                         *)
SystemCandidates(base) ==
  [i \in 1..base.public |->
     [id |-> base.words[i].id, headword |-> base.words[i].headword,
      reading |-> base.words[i].reading, pos |-> base.words[i].pos,
      refid |-> RefIdIn(base.references, base.words[i].id)]]

(* resolve: on an error nothing changes, and more rows may be read.        *)
ResolveAll ==
  /\ stage = "Lexicon"
  /\ ~DuplicatedReferenceId(parsed)
  /\ LET result == ResolveEntries(parsed, SystemCandidates(prebuilt), user)
     IN  /\ result.ok
         /\ resolved' = result.entries
  /\ stage' = "Resolved"
  /\ UNCHANGED <<user, conn, limits, checked, pos, startPos, parsed, prebuilt, output>>

---------------------------------------------------------------------------
\* Mutant: the ids are those of the lexicon without its hidden rows.
IndexDataOfIndexed ==
  LET ids == EntryIds(SelectSeq(parsed, IsIndexed))
      rowsWith(Test(_)) == SelectSeq([i \in DOMAIN parsed |-> i], LAMBDA i : Test(resolved[i]))
      indexed == rowsWith(IsIndexed)
      hidden == rowsWith(LAMBDA e : ~IsIndexed(e) /\ ~IsPhantom(e))
  IN  [indexed |-> [k \in DOMAIN indexed |-> [form |-> resolved[indexed[k]].form, id |-> ids[k]]],
       hidden |-> [k \in DOMAIN hidden |-> EntryIds(parsed)[hidden[k]]]]

(* build_index_data: the table has the ids of the rows, by the sizes they  *)
(* had before the references were resolved.                                *)
IndexData ==
  LET ids == EntryIds(parsed)
      rowsWith(Test(_)) == SelectSeq([i \in DOMAIN parsed |-> i], LAMBDA i : Test(resolved[i]))
      indexed == rowsWith(IsIndexed)
      hidden == rowsWith(LAMBDA e : ~IsIndexed(e) /\ ~IsPhantom(e))
  IN  [indexed |-> [k \in DOMAIN indexed |->
                      [form |-> resolved[indexed[k]].form, id |-> ids[indexed[k]]]],
       hidden |-> [k \in DOMAIN hidden |-> ids[hidden[k]]]]

(* LexiconWriter: every entry at the offset its resolved form gives it.    *)
Written(entries, isUser) ==
  LET ids == EntryIds(entries)
      me(i) == [by |-> "id", system |-> ~isUser, id |-> ids[i]]
      orMe(i, ref) == IF ref = SelfRef THEN me(i) ELSE ref
      word(i, e) == [id |-> ids[i], form |-> e.form, headword |-> e.headword,
                     reading |-> e.reading, pos |-> e.pos,
                     left |-> e.left, right |-> e.right, cost |-> e.cost,
                     norm |-> orMe(i, e.norm), dic |-> orMe(i, e.dic),
                     a |-> e.a, b |-> e.b, c |-> e.c, ws |-> e.ws,
                     syn |-> e.syn, user |-> e.user]
  IN  [i \in DOMAIN entries |-> word(i, entries[i])]

(* write_reference_id_table                                                *)
ReferenceIds(entries) ==
  LET ids == EntryIds(entries)
  IN  {[id |-> ids[i], refid |-> entries[i].refid] :
          i \in {i \in DOMAIN entries : ~IsPhantom(entries[i]) /\ entries[i].refid # ""}}

PublicCount(entries) == Len(SelectSeq(entries, LAMBDA e : ~IsPhantom(e)))

\* Mutant: the table of a user dictionary begins with the first POS.
PosTableWhole(list, first) == [k \in DOMAIN list |-> list[k].name]

(* write_pos_table: the POS that the system dictionary does not have.      *)
PosTable(list, first) ==
  LET own == SelectSeq(list, LAMBDA p : p.id >= first)
  IN  [k \in DOMAIN own |-> own[k].name]

(* rows, base and posIds are history: what the dictionary was built from,  *)
(* and the ids that the parts of speech had for the rows.                  *)
Compile ==
  /\ stage = "Resolved"
  /\ output' = [isUser |-> user,
                matrix |-> IF user THEN prebuilt.matrix
                           ELSE [left |-> conn.left, right |-> conn.right],
                pos |-> PosTable(pos, startPos), index |-> IndexData,
                words |-> Written(resolved, user), public |-> PublicCount(resolved),
                references |-> ReferenceIds(resolved),
                rows |-> parsed, base |-> prebuilt, checked |-> checked,
                posIds |-> [k \in DOMAIN pos |-> pos[k].id]]
  /\ UNCHANGED <<user, stage, conn, limits, checked, pos, startPos, parsed, resolved, prebuilt>>

(* preload_pos                                                             *)
PreloadedPos(names) == [i \in DOMAIN names |-> [name |-> names[i], id |-> i - 1]]

(* DictBuilder::new_user on the system dictionary just written.  The words *)
(* of its base are its public entries, found by scanning the entries.      *)
NewUser ==
  /\ output # NoDic /\ ~output.isUser
  /\ user' = TRUE /\ stage' = "Grammar"
  /\ conn' = [left |-> 0, right |-> 0, stale |-> FALSE]
  /\ limits' = output.matrix
  /\ checked' = TRUE
  /\ pos' = PreloadedPos(output.pos)
  /\ startPos' = Len(output.pos)
  /\ parsed' = <<>> /\ resolved' = <<>>
  /\ prebuilt' = [words |-> output.words, pos |-> output.pos, public |-> output.public,
                  references |-> output.references, matrix |-> output.matrix]
  /\ output' = NoDic

Next ==
  \/ \E file \in ConnFiles : ReadConn(file)
  \/ \E table \in PosTables : ReadPos(table)
  \/ \E file \in (IF user THEN UserLexicons ELSE Lexicons) : ReadLexicon(file)
  \/ ResolveAll
  \/ Compile
  \/ NewUser

Spec == Init /\ [][Next]_vars

---------------------------------------------------------------------------
Built == output # NoDic
Rows == DOMAIN output.rows
TableIds == {t.id : t \in ToSet(output.index.indexed)} \cup ToSet(output.index.hidden)

(* No row spells the same units in two ways.                               *)
OneSpelling ==
  \A i \in Rows : \A f, g \in UnitFields :
    output.rows[i][f] # output.rows[i][g] => output.words[i][f] # output.words[i][g]

(* "callers can enumerate all public entries from WordIdTable"             *)
(* (build.rs:502): the ids of the table are those of the public entries,   *)
(* and the id under an index form is that of an entry of this form.        *)
IdsMatch ==
  Built =>
    /\ TableIds = {output.words[i].id : i \in 1..output.public}
    /\ \A t \in ToSet(output.index.indexed) :
         \E w \in ToSet(output.words) : w.id = t.id /\ w.form = t.form

(* The word a compiled reference leads to is one the reference names.      *)
LeadsTo(target, ref, self) ==
  LET own == target.system = ~output.isUser
      words == IF own THEN output.words ELSE output.base.words
      references == IF own THEN output.references ELSE output.base.references
      names(i) ==
        CASE ref.by = "self" -> own /\ i = self
          [] ref.by = "line" -> i = ref.n + 1 /\ target.system = ~ref.user
          [] ref.by = "headword" -> words[i].headword = ref.headword
          [] ref.by = "key" ->
               IsNamed(words[i], ref) /\ ref.refid \in {"", RefIdIn(references, words[i].id)}
  IN  \E i \in DOMAIN words : words[i].id = target.id /\ names(i)

(* Every reference of a row leads, in the dictionary that was written, to  *)
(* an entry that the row names, though it was resolved against the offsets *)
(* that entries were going to have (resolution.rs:28-67).                  *)
RefsLeadToNamed ==
  Built /\ OneSpelling =>
    \A i \in Rows :
      LET row == output.rows[i]
          word == output.words[i]
      IN  /\ LeadsTo(word.norm, row.norm, i) /\ LeadsTo(word.dic, row.dic, i)
          /\ \A f \in UnitFields : \A k \in DOMAIN row[f] :
               LeadsTo(word[f][k], row[f][k], i)

(* The phantoms come after the public entries, are in no table, and there  *)
(* is one for a headword only when no row and no entry of the base has it. *)
PhantomsStayInternal ==
  /\ output.public = Len(output.rows)
  /\ \A i \in (output.public + 1)..Len(output.words) :
       LET phantom == output.words[i]
       IN  /\ phantom.id \notin TableIds /\ RefIdIn(output.references, phantom.id) = ""
           /\ \A j \in DOMAIN output.words : j # i => output.words[j].headword # phantom.headword
           /\ \A j \in 1..output.base.public : output.base.words[j].headword # phantom.headword

(* The ids are computed three times, before and after the references of    *)
(* the rows are resolved (resolution.rs:69, writer.rs:58, build.rs:593).   *)
(* They agree when no row spells the same units in two ways: the word id   *)
(* table has the public entries, and "Phantom entries stay internal"       *)
(* (build.rs:505).                                                         *)
TableAsWritten == Built /\ OneSpelling => IdsMatch /\ PhantomsStayInternal

(* What pos_obj asserts of the builder (lexicon.rs:151).  It is false of a *)
(* POS file with ids that names one POS twice: the second id replaces the  *)
(* first, and the places of all that follow are no longer their ids.       *)
IdsAreIndexes == \A k \in DOMAIN output.posIds : output.posIds[k] = k - 1

(* Then the id of a POS is its index in the tables of the system and the   *)
(* user dictionary, one after the other, whatever rows failed in between   *)
(* (parser.rs:259, writer.rs:88, data.rs:50), and for a user dictionary    *)
(* whatever the ids of the system dictionary were.                         *)
PosKept ==
  Built /\ IdsAreIndexes =>
    LET table == output.base.pos \o output.pos
    IN  \A i \in Rows :
          /\ output.words[i].pos < Len(table)
          /\ table[output.words[i].pos + 1] = output.rows[i].posName
=============================================================================
