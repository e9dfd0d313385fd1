---------------------------- MODULE EntryLayout ----------------------------
(***************************************************************************)
(* The Entries block of a dictionary (sudachi/src/dic/word_info): what the *)
(* writer puts into it for an entry of a lexicon that was resolved         *)
(* (LexiconEntries), the scan that finds where each entry begins, and the  *)
(* parser that reads the fields somebody asked for.                        *)
(*                                                                         *)
(* The block is [size, at]: at is a function from the offsets where an     *)
(* entry was written to what is there, [fixed, payload, tail].  fixed has  *)
(* the fields of fixed size, payload the 32-bit words behind it and tail   *)
(* the user data.  A string and the pointer to it are one value.           *)
(*                                                                         *)
(* A reference is written as [dict, entry]: dict 0 is the system           *)
(* dictionary and 1 the dictionary of the entry itself.                    *)
(***************************************************************************)
EXTENDS LexiconEntries

Shared == -1   \* the length of units that are those of the next mode

EntryId(offset) == offset \div Alignment

EmbeddedLength(n) == IF n < 0 THEN 0 ELSE n

(* What write_rest and WordInfoVariableData::write_to leave in the block.  *)
Stored(e) ==
  LET lengthOf(x, y) == IF x = y THEN Shared ELSE Len(x)
      lens == [c |-> Len(e.c), b |-> lengthOf(e.b, e.c), a |-> lengthOf(e.a, e.b),
               ws |-> lengthOf(e.ws, e.a), syn |-> e.syn]
      written(f) == IF lens[f] > 0 THEN e[f] ELSE <<>>
  IN  [fixed |-> [pos |-> e.pos, headword |-> e.headword, reading |-> e.reading,
                  norm |-> e.norm, dic |-> e.dic, form |-> e.form,
                  lens |-> lens, hasUser |-> e.user > 0],
       payload |-> written("c") \o written("b") \o written("a") \o written("ws")
                   \o [k \in 1..e.syn |-> [synonym |-> k]],
       tail |-> e.user]

Block(entries) ==
  LET begins == Offsets(entries)
  IN  [size |-> Last(begins),
       at |-> [o \in {begins[i] : i \in DOMAIN entries} |->
                 Stored(entries[CHOOSE i \in DOMAIN entries : begins[i] = o])]]

---------------------------------------------------------------------------
(* entry_size_at, from the lengths alone.                                  *)
StoredSize(stored) ==
  LET lens == stored.fixed.lens
      units == lens.c + EmbeddedLength(lens.b) + EmbeddedLength(lens.a)
                      + EmbeddedLength(lens.ws) + lens.syn
      text == IF stored.fixed.hasUser THEN 2 + 2 * stored.tail ELSE 0
      size == FixedPart + 4 * units + text
  IN  ((size + Alignment - 1) \div Alignment) * Alignment

(* The cursor of a scan: how many entries are left, and where the next is. *)
ScanFrom(count) == [left |-> count, offset |-> InitialOffset]

(* next_entry_id: an entry that does not end inside the block is an error. *)
CanScan(block, cursor) ==
  /\ cursor.offset \in DOMAIN block.at
  /\ cursor.offset + StoredSize(block.at[cursor.offset]) <= block.size

Scanned(block, cursor) ==
  [left |-> cursor.left - 1, offset |-> cursor.offset + StoredSize(block.at[cursor.offset])]

(* validate_entry_boundaries                                               *)
ValidBoundaries(block, count) ==
  LET scan[n \in 0..count] ==
        IF n = 0 THEN [ok |-> TRUE, cursor |-> ScanFrom(count)]
        ELSE IF ~scan[n - 1].ok \/ ~CanScan(block, scan[n - 1].cursor)
        THEN [scan[n - 1] EXCEPT !.ok = FALSE]
        ELSE [scan[n - 1] EXCEPT !.cursor = Scanned(block, @)]
  IN  scan[count].ok

---------------------------------------------------------------------------
Field == {"pos", "headword", "reading", "norm", "dic", "form",
          "c", "b", "a", "ws", "syn", "user"}
FixedField == {"pos", "headword", "reading", "norm", "dic", "form"}

(* InfoSubset::normalize                                                   *)
NormalizedSubset(subset) ==
  subset \cup (IF subset \cap {"norm", "dic"} # {} THEN {"headword"} ELSE {})
         \cup (IF subset \cap {"a", "b", "c"} # {} THEN {"form"} ELSE {})

\* Mutant: the word structure is read without the units it may be shared with.
ReadPlanSplitsOnly(subset) ==
  {f \in UnitFields :
     \/ f = "ws" /\ "ws" \in subset
     \/ f = "a" /\ "a" \in subset
     \/ f = "b" /\ subset \cap {"b", "a"} # {}
     \/ f = "c" /\ subset \cap {"c", "b", "a"} # {}}

(* SplitReadPlan: the units that those asked for may be shared with.       *)
ReadPlan(subset) ==
  {f \in UnitFields :
     \/ f = "ws" /\ "ws" \in subset
     \/ f = "a" /\ subset \cap {"a", "ws"} # {}
     \/ f = "b" /\ subset \cap {"b", "a", "ws"} # {}
     \/ f = "c" /\ subset \cap {"c", "b", "a", "ws"} # {}}

(* What a field is that was not read.                                      *)
NoInfo ==
  [pos |-> 0, headword |-> "", reading |-> "", norm |-> [dict |-> 0, entry |-> 0],
   dic |-> [dict |-> 0, entry |-> 0], form |-> "", c |-> <<>>, b |-> <<>>, a |-> <<>>,
   ws |-> <<>>, syn |-> 0, user |-> 0]

(* The units are read one after the other; shared ones are those before,   *)
(* as far as they were kept.                                               *)
ReadUnits(stored, plan) ==
  LET lens == stored.fixed.lens
      end(f, at) == at + EmbeddedLength(lens[f])
      read(f, at, last) ==
        CASE f \notin plan -> <<>>
          [] f \in plan /\ lens[f] < 0 -> last
          [] OTHER -> SubSeq(stored.payload, at + 1, end(f, at))
      c == read("c", 0, <<>>)
      b == read("b", end("c", 0), c)
      a == read("a", end("b", end("c", 0)), b)
      behindA == end("a", end("b", end("c", 0)))
  IN  [c |-> c, b |-> b, a |-> a, ws |-> read("ws", behindA, a), at |-> end("ws", behindA)]

(* WordInfoParser::parse                                                   *)
ParseInfo(stored, subset) ==
  LET wanted == NormalizedSubset(subset)
      units == ReadUnits(stored, ReadPlan(wanted))
      synonyms == SubSeq(stored.payload, units.at + 1, units.at + stored.fixed.lens.syn)
  IN  [f \in Field |->
         CASE f \in FixedField -> IF f \in wanted THEN stored.fixed[f] ELSE NoInfo[f]
           [] f \in UnitFields -> units[f]
           [] f = "syn" -> IF f \in wanted THEN Len(synonyms) ELSE 0
           [] f = "user" -> IF f \in wanted /\ stored.fixed.hasUser THEN stored.tail ELSE 0]
=============================================================================
