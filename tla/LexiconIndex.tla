--------------------------- MODULE LexiconIndex ---------------------------
(***************************************************************************)
(* The index of one lexicon: the trie over the index forms and the table  *)
(* of word ids its leaves point into (sudachi/src/dic/build/index.rs,      *)
(* dic/lexicon/trie.rs, dic/lexicon/word_id_table.rs, dic/read/varint.rs). *)
(*                                                                         *)
(* A row of a lexicon is [form, id, indexed]: its index form as a sequence *)
(* of characters, its entry id, and whether it is found by lookup.  The    *)
(* double array is abstracted to the tree of prefixes it encodes: a node   *)
(* is the string that leads to it.  A cell of the table is one byte of a   *)
(* varint, with Radix in the place of 128.                                 *)
(***************************************************************************)
EXTENDS Integers, Sequences, SequencesExt

CONSTANT Radix

ASSUME RadixAssumption == Radix \in Nat \ {0, 1}

---------------------------------------------------------------------------
(* Building: one list of ids for each index form, in the order in which    *)
(* the forms were first added, then the list of the entries not indexed.   *)

Varint[n \in Nat] ==
  IF n < Radix THEN <<n>> ELSE <<(n % Radix) + Radix>> \o Varint[n \div Radix]

Max0(n) == IF n < 0 THEN 0 ELSE n

DeltaList(ids) ==
  LET previous(i) == IF i = 1 THEN 0 ELSE ids[i - 1]
      delta(i) == Varint[Max0(ids[i] - previous(i))]
  IN  Varint[Len(ids)] \o FlattenSeq([i \in 1..Len(ids) |-> delta(i)])

IndexedRows(rows) == SelectSeq(rows, LAMBDA r : r.indexed)
IdsOf(rows, form) ==
  LET mine == SelectSeq(IndexedRows(rows), LAMBDA r : r.form = form)
  IN  [i \in 1..Len(mine) |-> mine[i].id]
NonIndexedIds(rows) ==
  LET rest == SelectSeq(rows, LAMBDA r : ~r.indexed)
  IN  [i \in 1..Len(rest) |-> rest[i].id]

Forms(rows) ==
  FoldLeft(LAMBDA fs, r : IF Contains(fs, r.form) THEN fs ELSE Append(fs, r.form),
           <<>>, IndexedRows(rows))

\* Mutant: the list of the entries not indexed is left out.
BuildIndexKeyed(rows) ==
  LET lists == [i \in 1..Len(Forms(rows)) |-> DeltaList(IdsOf(rows, Forms(rows)[i]))]
      before(i) == Len(FlattenSeq(SubSeq(lists, 1, i - 1)))
      place(f) == CHOOSE i \in DOMAIN lists : Forms(rows)[i] = f
  IN  [bytes |-> FlattenSeq(lists),
       values |-> [f \in Range(Forms(rows)) |-> before(place(f))]]

(* The bytes of the table, and for each form the offset of its list.       *)
BuildIndex(rows) ==
  LET addForm(acc, form) ==
        [bytes  |-> acc.bytes \o DeltaList(IdsOf(rows, form)),
         values |-> [f \in DOMAIN acc.values \union {form} |->
                       IF f = form THEN Len(acc.bytes) ELSE acc.values[f]]]
      keyed == FoldLeft(addForm, [bytes |-> <<>>, values |-> <<>>], Forms(rows))
      rest  == NonIndexedIds(rows)
  IN  IF rest = <<>> THEN keyed
      ELSE [keyed EXCEPT !.bytes = @ \o DeltaList(rest)]

---------------------------------------------------------------------------
(* Reading the table.  The offset p counts from 0.                         *)

ReadVarint(bytes, p) ==
  LET read[q \in (p + 1)..Len(bytes)] ==
        IF bytes[q] < Radix THEN [value |-> bytes[q], next |-> q]
        ELSE [value |-> bytes[q] - Radix + Radix * read[q + 1].value,
              next  |-> read[q + 1].next]
  IN  read[p + 1]

(* DeltaCompressedEntryIdIter: the ids of the list at offset p, and the    *)
(* offset behind it.                                                       *)
EntryList(bytes, p) ==
  LET head  == ReadVarint(bytes, p)
      add(acc, i) ==
        LET d == ReadVarint(bytes, acc.next)
        IN  [next |-> d.next, sum |-> acc.sum + d.value,
             ids |-> Append(acc.ids, acc.sum + d.value)]
  IN  FoldLeft(add, [next |-> head.next, sum |-> 0, ids |-> <<>>],
               [i \in 1..head.value |-> i])

Entries(bytes, p) == EntryList(bytes, p).ids

(* EntryIdIter: all lists, one behind the other.  There is no empty table  *)
(* to read: the length of its first list is missing, which panics.         *)
AllEntries(bytes) ==
  LET all[p \in 0..Len(bytes)] ==
        IF p = Len(bytes) THEN <<>>
        ELSE LET l == EntryList(bytes, p) IN l.ids \o all[l.next]
  IN  all[0]

---------------------------------------------------------------------------
(* The walk of the trie by one byte (step_once).  values maps a form to    *)
(* the value of its leaf.                                                  *)

Root == <<>>
Walk(values, node, k) ==
  LET next == Append(node, k)
  IN  CASE \A f \in DOMAIN values : ~IsPrefix(next, f) -> [kind |-> "dead"]
        [] next \in DOMAIN values ->
             [kind |-> "match", node |-> next, value |-> values[next]]
        [] OTHER -> [kind |-> "continue", node |-> next]

(* TrieEntryIter: the matches of the trie in text from offset on, in the   *)
(* order of their ends.  It keeps the node and the position reached.       *)
PrefixMatches(values, text, offset) ==
  LET from[at \in [node : Seq(Range(text)), pos : 0..Len(text)]] ==
        IF at.pos = Len(text) THEN <<>>
        ELSE LET s == Walk(values, at.node, text[at.pos + 1])
                 rest == from[[node |-> s.node, pos |-> at.pos + 1]]
             IN  CASE s.kind = "dead" -> <<>>
                   [] s.kind = "continue" -> rest
                   [] s.kind = "match" ->
                        <<[value |-> s.value, end |-> at.pos + 1]>> \o rest
  IN  from[[node |-> Root, pos |-> offset]]

(* Lexicon::lookup: each match gives the ids of its list.                  *)
Expand(lexicon, index, value, end) ==
  LET ids == Entries(index.bytes, value)
  IN  [i \in 1..Len(ids) |-> [dict |-> lexicon, id |-> ids[i], end |-> end]]

LookupIn(lexicon, index, text, offset) ==
  LET ms == PrefixMatches(index.values, text, offset)
  IN  FlattenSeq([i \in 1..Len(ms) |-> Expand(lexicon, index, ms[i].value, ms[i].end)])
===========================================================================
