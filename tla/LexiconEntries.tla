--------------------------- MODULE LexiconEntries --------------------------
(***************************************************************************)
(* The entries of a lexicon that is being built: the size of an entry in   *)
(* the Entries block, the ids that follow from the sizes, and the          *)
(* resolution of the references between entries (build/lexicon/entry.rs,   *)
(* resolution.rs, build/resolve.rs, word_info/layout.rs).                  *)
(*                                                                         *)
(* An entry is a record                                                    *)
(*   [form, headword, reading, refid, left, right, cost, pos,              *)
(*    norm, dic, a, b, c, ws, syn, user]                                   *)
(* with form the index form, a, b, c the units of the three modes, ws the  *)
(* word structure, syn the number of synonym groups and user the length of *)
(* the user data.  In a parsed entry the references are as written:        *)
(*   [by |-> "self"]                                                       *)
(*   [by |-> "line", user |-> BOOLEAN, n |-> line]                         *)
(*   [by |-> "headword", headword |-> h]                                   *)
(*   [by |-> "key", headword, pos, reading, refid]                         *)
(* In a resolved entry they are [by |-> "self"] or the WordRef             *)
(*   [by |-> "id", system |-> BOOLEAN, id |-> id].                         *)
(***************************************************************************)
EXTENDS Integers, Sequences, SequencesExt

InitialOffset == 32
FixedPart == 32
Alignment == 8
MaxCost == 32767

SelfRef == [by |-> "self"]
UnitFields == {"a", "b", "c", "ws"}

(* Arrays that are equal are stored once: b refers to c, a to b, ws to a.  *)
EntrySize(e) ==
  LET own(x, y) == IF x = y THEN 0 ELSE Len(x)
      units == Len(e.c) + own(e.b, e.c) + own(e.a, e.b) + own(e.ws, e.a) + e.syn
      text == IF e.user = 0 THEN 0 ELSE 2 + 2 * e.user
      size == FixedPart + 4 * units + text
  IN  ((size + Alignment - 1) \div Alignment) * Alignment

(* Where each entry begins, and at the end where the next one would.       *)
Offsets(entries) ==
  LET begins[i \in 1..(Len(entries) + 1)] ==
        IF i = 1 THEN InitialOffset ELSE begins[i - 1] + EntrySize(entries[i - 1])
  IN  begins

EntryIds(entries) ==
  LET begins == Offsets(entries)
  IN  [i \in DOMAIN entries |-> begins[i] \div Alignment]

---------------------------------------------------------------------------
(* Resolvers.  A candidate has headword, pos, reading, refid; the result   *)
(* is the set of the one index found, or empty.                            *)

Earliest(hits) == IF hits = {} THEN {} ELSE {Min(hits)}

IsNamed(candidate, ref) ==
  /\ candidate.headword = ref.headword
  /\ ref.by = "key" => /\ candidate.pos = ref.pos
                      /\ candidate.reading = ref.reading

\* Mutant: the POS and the reference id of a key are not compared.
FindByForms(candidates, userLines, ref) ==
  LET hits == {i \in DOMAIN candidates :
                 /\ candidates[i].headword = ref.headword
                 /\ ref.by = "key" => candidates[i].reading = ref.reading}
  IN  IF ref.by # "line" THEN Earliest(hits)
      ELSE IF ref.user = userLines /\ ref.n < Len(candidates) THEN {ref.n + 1} ELSE {}

(* userLines: the line references of these candidates are written U<n>.    *)
Find(candidates, userLines, ref) ==
  LET hasId(c) == ref.by = "key" /\ ref.refid # "" => c.refid = ref.refid
      hits == {i \in DOMAIN candidates : IsNamed(candidates[i], ref) /\ hasId(candidates[i])}
  IN  IF ref.by # "line" THEN Earliest(hits)
      ELSE IF ref.user = userLines /\ ref.n < Len(candidates) THEN {ref.n + 1} ELSE {}

(* ChainedResolver: this lexicon first, then the system dictionary.        *)
Resolve(entries, ids, system, isUser, ref) ==
  LET mine == Find(entries, isUser, ref)
      theirs == Find(system, FALSE, ref)
  IN  IF mine # {} THEN {[by |-> "id", system |-> ~isUser, id |-> ids[i]] : i \in mine}
      ELSE {[by |-> "id", system |-> TRUE, id |-> system[i].id] : i \in theirs}

(* RawDictResolver::new refuses a reference id that two entries have.      *)
DuplicatedReferenceId(entries) ==
  \E i, j \in DOMAIN entries :
    i < j /\ entries[i].refid # "" /\ entries[i].refid = entries[j].refid

---------------------------------------------------------------------------
IsPhantom(e) == e.form = ""
IsIndexed(e) == e.left >= 0

(* The entry that a normalised form gets which is no headword: hidden, it  *)
(* keeps all else of the entry that needs it.                              *)
Phantom(base, headword) ==
  [base EXCEPT !.form = "", !.headword = headword, !.refid = "",
               !.left = -1, !.right = -1, !.cost = MaxCost, !.norm = SelfRef]

(* The state of resolve_entries: the entries resolved so far, the phantoms *)
(* with the ids by headword, and the offset of the next phantom.           *)
Unresolved(entries) ==
  [done |-> <<>>, phantoms |-> <<>>, named |-> {}, next |-> Last(Offsets(entries)), ok |-> TRUE]

AddPhantom(st, base, headword, id) ==
  LET phantom == Phantom(base, headword)
  IN  [st EXCEPT !.phantoms = Append(@, phantom),
                 !.named = @ \cup {[headword |-> headword, id |-> id]},
                 !.next = @ + EntrySize(phantom)]

(* The references that must resolve: all but the headword of the           *)
(* normalised form.                                                        *)
Demanded(e) ==
  {e.dic} \cup UNION {ToSet(e[f]) : f \in UnitFields}
          \cup (IF e.norm.by = "headword" THEN {} ELSE {e.norm})

(* What each reference of the entry leads to: a set of one, or empty.      *)
Targets(entries, ids, system, isUser, e) ==
  [ref \in Demanded(e) \cup {e.norm} |->
     IF ref = SelfRef THEN {SelfRef} ELSE Resolve(entries, ids, system, isUser, ref)]

(* The entry with its references replaced; norm was resolved already.      *)
WithTargets(e, to, norm) ==
  LET the(ref) == CHOOSE target \in to[ref] : TRUE
      all(refs) == [k \in DOMAIN refs |-> the(refs[k])]
  IN  [e EXCEPT !.norm = norm, !.dic = the(@), !.a = all(@), !.b = all(@), !.c = all(@),
                !.ws = all(@)]

Own(isUser, id) == [by |-> "id", system |-> ~isUser, id |-> id]

Done(st, resolved) == [st EXCEPT !.done = Append(@, resolved)]

DoneWithPhantom(st, resolved, headword, id) ==
  AddPhantom(Done(st, resolved), resolved, headword, id)

(* One entry: a headword of the normalised form that no entry has makes a  *)
(* phantom, or leads to the one made before.                               *)
ResolveEntry(isUser, st, e, to) ==
  LET known == {p.id : p \in {p \in st.named : p.headword = e.norm.headword}}
      phantomId == st.next \div Alignment
  IN  CASE ~st.ok -> st
        [] st.ok /\ (\E ref \in Demanded(e) : to[ref] = {}) -> [st EXCEPT !.ok = FALSE]
        [] OTHER ->
             IF to[e.norm] # {}
             THEN Done(st, WithTargets(e, to, CHOOSE norm \in to[e.norm] : TRUE))
             ELSE IF known # {}
             THEN Done(st, WithTargets(e, to, Own(isUser, CHOOSE id \in known : TRUE)))
             ELSE DoneWithPhantom(st, WithTargets(e, to, Own(isUser, phantomId)),
                                  e.norm.headword, phantomId)

WithPhantoms(st) == [ok |-> st.ok, entries |-> st.done \o st.phantoms]

(* resolve_entries: the phantoms come after all entries.                   *)
ResolveEntries(entries, system, isUser) ==
  LET ids == EntryIds(entries)
      resolve(st, e) == ResolveEntry(isUser, st, e, Targets(entries, ids, system, isUser, e))
  IN  WithPhantoms(FoldLeft(resolve, Unresolved(entries), entries))
=============================================================================
