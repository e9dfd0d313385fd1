---------------------------- MODULE InputBuffer ----------------------------
(***************************************************************************)
(* The input text of one analysis: `InputBuffer` and its editor            *)
(* (sudachi/src/input_text/buffer.rs and buffer/edit.rs).                   *)
(*                                                                         *)
(* The buffer keeps the text the caller passed (original), the normalised  *)
(* text the analysis runs on (modified) and m2o, which maps every byte of  *)
(* the normalised text to a byte of the original one.  Input text plugins  *)
(* replace ranges of the normalised text; every batch of replacements is   *)
(* resolved into a second pair of vectors, which is then swapped in.       *)
(*                                                                         *)
(* A text is a sequence of bytes.  A byte is [ch, nth]: the nth byte of    *)
(* the UTF-8 encoding of the character ch, so that the code point          *)
(* boundaries, all that the mapping depends on, are visible while the      *)
(* bytes' values are not.  Rust vectors are indexed from 0 and TLA+        *)
(* sequences from 1: the byte i of the code is t[i + 1] here, and all the  *)
(* offsets that are stored are the code's.                                 *)
(***************************************************************************)
EXTENDS CharIndex, FiniteSets

CONSTANTS
    Char,             \* characters
    Cat,              \* Cat[c]: the categories char.def gives to c
    Texts,            \* texts a caller passes
    Replacements,     \* texts an input text plugin substitutes
    MaxLength,        \* MAX_LENGTH: longest original text, in bytes
    ReallyMaxLength,  \* REALLY_MAX_LENGTH: longest normalised text
    MaxEdits          \* bound on the replacements made between two resets

Byte == [ch : Char, nth : 1..4]

IsLead(b) == b.nth = 1

\* A string of the language: valid UTF-8 starts on a code point boundary.
IsText(t) ==
    /\ t \in Seq(Byte)
    /\ t # <<>> => IsLead(t[1])

ASSUME LimitAssumption ==
    /\ MaxLength \in Nat
    /\ ReallyMaxLength \in Nat
    /\ MaxLength =< ReallyMaxLength
    /\ MaxEdits \in Nat

ASSUME TextAssumption == \A t \in Texts \cup Replacements : IsText(t)

VARIABLES
    state,       \* BufferState: Clean, RW or RO
    original, modified, modified_2,
    m2o,         \* byte of modified -> byte of original
    m2o_2,       \* target of an edit; after build, byte -> char of original
    mod_chars,   \* the text mod_chars was decoded from, empty when cleared
    replaces,    \* replacement operations not resolved yet
    index,       \* what build computes: mod_c2b, mod_b2c, mod_bow, ...
    pc,          \* "idle", inside a plugin ("editing"), or "resolving"
    start, cur_len,  \* locals of resolve_edits, 0 outside of it
    result,      \* what the last fallible call returned
    origin, origin_2, \* history: byte of original each byte was copied from
    edits        \* replacements made since the last reset (for MaxEdits)

texts == <<original, modified, m2o, origin>>
targets == <<modified_2, m2o_2, origin_2>>
locals == <<start, cur_len>>
vars == <<state, texts, targets, mod_chars, replaces, index, pc, locals,
          result, edits>>

NoOrigin == -1

\* usize::MAX: the byte is not on a character boundary
Undefined == -1

----------------------------------------------------------------------------
(* What build derives from the normalised text.                            *)

\* str::is_char_boundary: the offsets of t between two code points.
Boundary(t) == {i \in 0..Len(t) : i < Len(t) => IsLead(t[i + 1])}

\* The offsets of str::char_indices, in order.
CharOffsets(t) ==
    LET before[i \in 0..Len(t)] ==
            IF i = 0 THEN <<>>
            ELSE IF IsLead(t[i]) THEN Append(before[i - 1], i - 1)
            ELSE before[i - 1]
    IN  before[Len(t)]

CharsOf(t) ==
    LET offsets == CharOffsets(t)
    IN  [k \in 1..Len(offsets) |-> t[offsets[k] + 1].ch]

\* mod_c2b: char -> byte, with a sentinel at the end.
CharToByte(t) == Append(CharOffsets(t), Len(t))

\* mod_b2c: byte -> char, with the sentinel last_chidx + 1; last_chidx is 0
\* also when there is no character.
ByteToChar(t) ==
    LET Before(i) == Cardinality({j \in 1..i : IsLead(t[j])})
        numChars == Before(Len(t))
    IN  [i \in 1..Len(t) + 1 |->
            IF i =< Len(t) THEN Before(i) - 1
            ELSE IF numChars = 0 THEN 1 ELSE numChars]

CatsOf(t) == [k \in DOMAIN CharsOf(t) |-> Cat[CharsOf(t)[k]]]

\* mod_bow: only a lead byte can begin a word.
BowOf(t) ==
    [i \in 1..Len(t) |->
        /\ IsLead(t[i])
        /\ CanBowChar(CatsOf(t), ByteToChar(t)[i] + 1)]

\* Mutant: the end of the text is left at usize::MAX.
OrigByteToCharNoEnd(t) ==
    [i \in 1..Len(t) + 1 |->
        IF i - 1 \in Boundary(t) \ {Len(t)} THEN ByteToChar(t)[i]
        ELSE Undefined]

\* fill_orig_b2c: byte -> char of the original text.
OrigByteToChar(t) ==
    [i \in 1..Len(t) + 1 |->
        IF i - 1 \in Boundary(t) THEN ByteToChar(t)[i] ELSE Undefined]

\* start_build: before any edit every byte, and the end, stands for itself.
Identity(t) == [i \in 1..Len(t) + 1 |-> i - 1]

\* Mutant: one byte more is let through.
ExceedsByMore(len) == len > ReallyMaxLength + 1

\* The limit of resolve_edits and commit.
Exceeds(len) == len > ReallyMaxLength

EmptyIndex == [c2b |-> <<>>, b2c |-> <<>>, bow |-> <<>>, cat |-> <<>>,
               cont |-> <<>>]

----------------------------------------------------------------------------
Init ==
    /\ state = "Clean"
    /\ original = <<>> /\ modified = <<>> /\ modified_2 = <<>>
    /\ m2o = <<>> /\ m2o_2 = <<>>
    /\ mod_chars = <<>> /\ replaces = <<>> /\ index = EmptyIndex
    /\ pc = "idle" /\ start = 0 /\ cur_len = 0
    /\ result = "Ok"
    /\ origin = <<>> /\ origin_2 = <<>> /\ edits = 0

\* reset, followed by the caller writing a text into the returned string.
\* The _2 vectors are left as they are.
Reset(t) ==
    /\ pc = "idle"
    /\ state' = "Clean"
    /\ original' = t /\ modified' = <<>> /\ m2o' = <<>> /\ origin' = <<>>
    /\ mod_chars' = <<>> /\ index' = EmptyIndex
    /\ edits' = 0 /\ result' = "Ok"
    /\ UNCHANGED <<targets, replaces, pc, locals>>

StartBuildTooLong ==
    /\ pc = "idle" /\ state = "Clean"
    /\ Len(original) > MaxLength
    /\ result' = "InputTooLong"
    /\ UNCHANGED <<state, texts, targets, mod_chars, replaces, index, pc,
                   locals, edits>>

StartBuild ==
    /\ pc = "idle" /\ state = "Clean"
    /\ Len(original) =< MaxLength
    /\ state' = "RW"
    /\ modified' = original
    /\ m2o' = Identity(original)
    /\ origin' = [i \in 1..Len(original) |-> i - 1]
    /\ result' = "Ok"
    /\ UNCHANGED <<original, targets, mod_chars, replaces, index, pc, locals,
                   edits>>

\* InputTextPlugin::rewrite: the characters are recomputed for the plugins
\* that use them, if an edit dropped them, and the plugin gets an editor.
Rewrite(usesChars) ==
    /\ pc = "idle" /\ state = "RW"
    /\ pc' = "editing"
    /\ mod_chars' = IF usesChars /\ mod_chars = <<>>
                    THEN modified ELSE mod_chars
    /\ UNCHANGED <<state, texts, targets, replaces, index, locals, result,
                   edits>>

\* InputEditor::replace_*: the plugins replace the non-empty matches of a
\* search that runs from left to right.
Replace(from, to, with) ==
    /\ pc = "editing"
    /\ edits < MaxEdits
    /\ from \in Boundary(modified) /\ to \in Boundary(modified) /\ from < to
    /\ replaces # <<>> => replaces[Len(replaces)].to =< from
    /\ replaces' = Append(replaces, [from |-> from, to |-> to, with |-> with])
    /\ edits' = edits + 1
    /\ UNCHANGED <<state, texts, targets, mod_chars, index, pc, locals, result>>

\* with_editor when the plugin fails: rollback drops what it asked for.
PluginFails ==
    /\ pc = "editing"
    /\ replaces' = <<>>
    /\ pc' = "idle"
    /\ result' = "PluginError"
    /\ UNCHANGED <<state, texts, targets, mod_chars, index, locals, edits>>

\* commit with nothing to do.
CommitNothing ==
    /\ pc = "editing" /\ replaces = <<>>
    /\ pc' = "idle"
    /\ result' = "Ok"
    /\ UNCHANGED <<state, texts, targets, mod_chars, replaces, index, locals,
                   edits>>

\* Mutant: the characters of the text before the edits are kept.
CommitStartKeepChars ==
    /\ pc = "editing" /\ replaces # <<>>
    /\ modified_2' = <<>> /\ m2o_2' = <<>> /\ origin_2' = <<>>
    /\ start' = 0 /\ cur_len' = Len(modified)
    /\ pc' = "resolving"
    /\ UNCHANGED <<state, texts, mod_chars, replaces, index, result, edits>>

\* Mutant: the current pair is taken out while the edits are resolved.
CommitStartTake ==
    /\ pc = "editing" /\ replaces # <<>>
    /\ mod_chars' = <<>>
    /\ modified_2' = modified /\ m2o_2' = m2o /\ origin_2' = origin
    /\ modified' = <<>> /\ m2o' = <<>> /\ origin' = <<>>
    /\ start' = 0 /\ cur_len' = Len(modified)
    /\ pc' = "resolving"
    /\ UNCHANGED <<state, original, replaces, index, result, edits>>

\* commit: the buffers are cleared and resolve_edits starts.
CommitStart ==
    /\ pc = "editing" /\ replaces # <<>>
    /\ mod_chars' = <<>>
    /\ modified_2' = <<>> /\ m2o_2' = <<>> /\ origin_2' = <<>>
    /\ start' = 0 /\ cur_len' = Len(modified)
    /\ pc' = "resolving"
    /\ UNCHANGED <<state, texts, replaces, index, result, edits>>

\* Mutants: the two targets swapped, the last byte of the range for its end.
SwappedMapping(op) ==
    [k \in 1..Len(op.with) |-> IF k = 1 THEN m2o[op.to + 1] ELSE m2o[op.from + 1]]
LastByteMapping(op) ==
    [k \in 1..Len(op.with) |-> IF k = 1 THEN m2o[op.from + 1] ELSE m2o[op.to]]

\* add_replace: the first byte of the replacement stands for the whole
\* range, the others for the empty range at its end.
ReplacementMapping(op) ==
    [k \in 1..Len(op.with) |-> IF k = 1 THEN m2o[op.from + 1] ELSE m2o[op.to + 1]]

\* One iteration of the loop of resolve_edits.  Over the limit it returns at
\* once: the rest of the drained vector is dropped and commit fails.
ResolveEdit ==
    /\ pc = "resolving" /\ replaces # <<>>
    /\ LET op == Head(replaces)
           len == cur_len + Len(op.with) - (op.to - op.from)
       IN  /\ modified_2' = modified_2 \o SubSeq(modified, start + 1, op.from)
                                       \o op.with
           /\ m2o_2' = m2o_2 \o SubSeq(m2o, start + 1, op.from)
                             \o ReplacementMapping(op)
           /\ origin_2' = origin_2 \o SubSeq(origin, start + 1, op.from)
                                   \o [k \in 1..Len(op.with) |-> NoOrigin]
           /\ \/ /\ ~Exceeds(len)
                 /\ start' = op.to /\ cur_len' = len
                 /\ replaces' = Tail(replaces)
                 /\ UNCHANGED <<pc, result>>
              \/ /\ Exceeds(len)
                 /\ start' = 0 /\ cur_len' = 0
                 /\ replaces' = <<>>
                 /\ pc' = "idle"
                 /\ result' = "InputTooLong"
    /\ UNCHANGED <<state, texts, mod_chars, index, edits>>

\* The end of resolve_edits and of commit: the rest of the text is copied,
\* the first byte is made to start at 0 and the two pairs are swapped.
ResolveEnd ==
    /\ pc = "resolving" /\ replaces = <<>>
    /\ modified' = modified_2 \o SubSeq(modified, start + 1, Len(modified))
    /\ m2o' = [(m2o_2 \o SubSeq(m2o, start + 1, Len(m2o))) EXCEPT ![1] = 0]
    /\ origin' = origin_2 \o SubSeq(origin, start + 1, Len(origin))
    /\ modified_2' = modified /\ m2o_2' = m2o /\ origin_2' = origin
    /\ start' = 0 /\ cur_len' = 0
    /\ pc' = "idle"
    /\ result' = "Ok"
    /\ UNCHANGED <<state, original, mod_chars, replaces, index, edits>>

\* build: the text becomes read-only and its indices are computed.
Build ==
    /\ pc = "idle" /\ state = "RW"
    /\ state' = "RO"
    /\ mod_chars' = modified
    /\ index' = [c2b  |-> CharToByte(modified),
                 b2c  |-> ByteToChar(modified),
                 bow  |-> BowOf(modified),
                 cat  |-> CatsOf(modified),
                 cont |-> ContinuityOf(CatsOf(modified))]
    /\ m2o_2' = OrigByteToChar(original)
    /\ result' = "Ok"
    /\ UNCHANGED <<texts, modified_2, origin_2, replaces, pc, locals, edits>>

Next ==
    \/ \E t \in Texts : Reset(t)
    \/ StartBuildTooLong
    \/ StartBuild
    \/ \E usesChars \in BOOLEAN : Rewrite(usesChars)
    \/ \E from, to \in 0..Len(modified), with \in Replacements :
           Replace(from, to, with)
    \/ PluginFails
    \/ CommitNothing
    \/ CommitStart
    \/ ResolveEdit
    \/ ResolveEnd
    \/ Build

Spec == Init /\ [][Next]_vars

----------------------------------------------------------------------------
(* Properties.                                                             *)

TypeOK ==
    /\ state \in {"Clean", "RW", "RO"}
    /\ pc \in {"idle", "editing", "resolving"}
    /\ result \in {"Ok", "InputTooLong", "PluginError"}
    /\ original \in Seq(Byte) /\ modified \in Seq(Byte)
    /\ modified_2 \in Seq(Byte)
    /\ m2o \in Seq(Nat) /\ m2o_2 \in Seq(Nat \cup {Undefined})
    /\ origin \in Seq(Nat \cup {NoOrigin})
    /\ origin_2 \in Seq(Nat \cup {NoOrigin})
    /\ replaces \in Seq([from : Nat, to : Nat, with : Replacements])
    /\ mod_chars \in Seq(Byte)
    /\ start \in Nat /\ cur_len \in Int /\ edits \in 0..MaxEdits

Monotone(s) == \A i, j \in 1..Len(s) : i =< j => s[i] =< s[j]

\* The slices orig_slice_c takes for the tokens of an analysis, which share
\* their ends (m2o[b] .. m2o[c], m2o[c] .. m2o[d], ...), cover the original
\* text from its first to its last byte and never overlap or run backwards,
\* whatever the plugins replaced and however many of them ran.
SurfacesTile ==
    state # "Clean" =>
        /\ Len(m2o) = Len(modified) + 1
        /\ m2o[1] = 0
        /\ Monotone(m2o)
        /\ modified # <<>> => m2o[Len(m2o)] = Len(original)

\* A boundary of the normalised text maps to a boundary of the original one:
\* anything else makes &original[start..end] in orig_slice_c panic.
SlicesOnBoundary ==
    state # "Clean" =>
        \A b \in Boundary(modified) : m2o[b + 1] \in Boundary(original)

\* A character that no plugin replaced is, in the original text, inside the
\* slice of every token that contains it in the normalised one.
SurvivorsCovered ==
    state # "Clean" =>
        \A b \in Boundary(modified) \ {Len(modified)} :
            origin[b + 1] # NoOrigin =>
                /\ m2o[b + 1] =< origin[b + 1]
                /\ \A c \in Boundary(modified) :
                       c > b => origin[b + 1] < m2o[c + 1]

\* A token shows the text it was made from: what orig_slice_c takes for it are
\* whole characters, and the ones of its own that no plugin replaced.
TokensCovered == SlicesOnBoundary /\ SurvivorsCovered

\* The characters a plugin reads, when they are there, are the ones of the
\* current text and not of the text before an edit (refresh_chars).
CharsFresh == mod_chars # <<>> => mod_chars = modified

\* Offsets of the normalised text fit the u16 of a lattice node.
LengthBounded == Len(modified) =< ReallyMaxLength

\* Characters and bytes are translated into each other without loss, the
\* sentinels included (to_curr_byte_idx, ch_idx).
IndexRoundTrip ==
    state = "RO" /\ modified # <<>> =>
        /\ Len(index.c2b) = Len(CharsOf(modified)) + 1
        /\ Len(index.b2c) = Len(modified) + 1
        /\ \A k \in DOMAIN index.c2b : index.b2c[index.c2b[k] + 1] = k - 1

\* to_orig_char_idx is defined, and does not decrease, at the beginning and
\* at the end of every token: its debug_assert_ne!(res, usize::MAX).
OrigCharDefined ==
    state = "RO" =>
        LET OrigChar(k) == m2o_2[m2o[index.c2b[k] + 1] + 1]
        IN  \A k \in DOMAIN index.c2b :
                /\ OrigChar(k) # Undefined
                /\ k > 1 => OrigChar(k - 1) =< OrigChar(k)

\* The lengths of fill_cat_continuity split the text into runs.  The regex
\* OOV provider takes cont[i] + 1 = cont[i - 1] for "no boundary before i":
\* so a run ends exactly where its first length says, the characters of a
\* run share a category, and the next character would not.
ContinuityMarksRuns ==
    state = "RO" =>
        LET cont == index.cont
            cat == index.cat
            First(k) == k = 1 \/ cont[k] + 1 # cont[k - 1]
        IN  \A k \in DOMAIN cont :
                /\ cont[k] >= 1 /\ k + cont[k] - 1 =< Len(cont)
                /\ First(k) =>
                       /\ \A j \in k + 1..k + cont[k] - 1 : ~First(j)
                       /\ cont[k] > 1 => Common(cat, k, k + cont[k] - 1) # {}
                       /\ k + cont[k] =< Len(cont) =>
                             /\ First(k + cont[k])
                             /\ Common(cat, k, k + cont[k]) = {}

\* The indices build() leaves agree with the text and with each other.
IndicesAgree == IndexRoundTrip /\ OrigCharDefined /\ ContinuityMarksRuns

\* An edit is all or nothing: the pair (modified, m2o) changes only in a step
\* after which the call has returned Ok.
EditAtomic ==
    [][pc' # "idle" \/ result' # "Ok" => UNCHANGED <<modified, m2o>>]_vars
=============================================================================
