--------------------------- MODULE BatchLookup ----------------------------
(***************************************************************************)
(* The lookup of many start positions at once (Trie::batch_impl of         *)
(* dic/lexicon/trie.rs, Lexicon::lookup_batch, LexiconSet::lookup_batch).  *)
(* The lexicons are searched in reverse order; in each, up to Lanes walks  *)
(* are kept in flight and visited in turn.  A lane whose walk has died     *)
(* takes the next start position, or becomes inactive.                     *)
(***************************************************************************)
EXTENDS LexiconIndex

VARIABLES
  rows,         \* lexicon number (the system dictionary is 1) -> its rows
  text, starts, \* the input and the start positions, one bucket for each
  Lanes,        \* number of lanes, fixed by the specialisation
  index,        \* lexicon number -> its index, built before
  lexicon,      \* lexicon being searched, 0 when all are done
  lane,         \* lane -> [node, pos, bucket, active]
  nextStart,    \* starts handed to a lane so far
  live,         \* number of active lanes
  turn,         \* lane visited next; 0: the lanes are not filled yet
  found         \* bucket -> words reported so far

inputs == <<rows, text, starts, Lanes, index>>
vars == <<inputs, lexicon, lane, nextStart, live, turn, found>>

Buckets == DOMAIN starts
IdleLane == [node |-> Root, pos |-> 0, bucket |-> 0, active |-> FALSE]

Fresh(b) == [node |-> Root, pos |-> starts[b], bucket |-> b, active |-> TRUE]

InitFor(lexicons, texts, positions, widths) ==
  /\ rows \in lexicons /\ text \in texts /\ starts \in positions /\ Lanes \in widths
  /\ \A b \in Buckets : starts[b] <= Len(text)
  /\ index = [l \in DOMAIN rows |-> BuildIndex(rows[l])]
  /\ lexicon = Len(rows)
  /\ lane = [i \in 1..Lanes |-> IdleLane]
  /\ nextStart = 0 /\ live = 0 /\ turn = 0
  /\ found = [b \in Buckets |-> <<>>]

(* batch_impl begins: the first starts are handed to the lanes.            *)
FillLanes ==
  /\ lexicon > 0 /\ turn = 0
  /\ LET n == IF Len(starts) < Lanes THEN Len(starts) ELSE Lanes
     IN  /\ lane' = [i \in 1..Lanes |-> IF i <= n THEN Fresh(i) ELSE IdleLane]
         /\ nextStart' = n /\ live' = n
  /\ turn' = 1
  /\ UNCHANGED <<inputs, lexicon, found>>

NextTurn == turn' = IF turn = Lanes THEN 1 ELSE turn + 1

Visiting == lexicon > 0 /\ turn > 0 /\ (live > 0 \/ turn > 1)
Me == lane[turn]

(* The round over the lanes is not left in the middle, live or not.        *)
SkipInactive ==
  /\ Visiting /\ ~Me.active
  /\ NextTurn
  /\ UNCHANGED <<inputs, lexicon, lane, nextStart, live, found>>

Outcome ==
  IF Me.pos < Len(text) THEN Walk(index[lexicon].values, Me.node, text[Me.pos + 1])
  ELSE [kind |-> "dead"]

Continue ==
  /\ Visiting /\ Me.active /\ Outcome.kind = "continue"
  /\ lane' = [lane EXCEPT ![turn].node = Outcome.node, ![turn].pos = @ + 1]
  /\ NextTurn
  /\ UNCHANGED <<inputs, lexicon, nextStart, live, found>>

(* emit: every id of the list of the leaf is reported to the bucket.       *)
Match ==
  /\ Visiting /\ Me.active /\ Outcome.kind = "match"
  /\ found' = [found EXCEPT ![Me.bucket] =
                 @ \o Expand(lexicon, index[lexicon], Outcome.value, Me.pos + 1)]
  /\ lane' = [lane EXCEPT ![turn].node = Outcome.node, ![turn].pos = @ + 1]
  /\ NextTurn
  /\ UNCHANGED <<inputs, lexicon, nextStart, live>>

\* Mutant: a lane that is used again goes on from its old node.
RefillKeepsNode ==
  /\ Visiting /\ Me.active /\ Outcome.kind = "dead"
  /\ nextStart < Len(starts)
  /\ lane' = [lane EXCEPT ![turn].pos = starts[nextStart + 1], ![turn].bucket = nextStart + 1]
  /\ nextStart' = nextStart + 1
  /\ NextTurn
  /\ UNCHANGED <<inputs, lexicon, live, found>>

Refill ==
  /\ Visiting /\ Me.active /\ Outcome.kind = "dead"
  /\ nextStart < Len(starts)
  /\ lane' = [lane EXCEPT ![turn] = Fresh(nextStart + 1)]
  /\ nextStart' = nextStart + 1
  /\ NextTurn
  /\ UNCHANGED <<inputs, lexicon, live, found>>

Retire ==
  /\ Visiting /\ Me.active /\ Outcome.kind = "dead"
  /\ nextStart = Len(starts)
  /\ lane' = [lane EXCEPT ![turn].active = FALSE]
  /\ live' = live - 1
  /\ NextTurn
  /\ UNCHANGED <<inputs, lexicon, nextStart, found>>

(* The walks of this lexicon are over: on to the one before it.            *)
NextLexicon ==
  /\ lexicon > 0 /\ turn = 1 /\ live = 0
  /\ lexicon' = lexicon - 1
  /\ turn' = 0
  /\ UNCHANGED <<inputs, lane, nextStart, live, found>>

Done == lexicon = 0 /\ UNCHANGED vars

Next ==
  \/ FillLanes \/ SkipInactive \/ Continue \/ Match
  \/ Refill \/ Retire \/ NextLexicon \/ Done

Fairness == WF_vars(Next)

---------------------------------------------------------------------------
(* LexiconSet::lookup of one position: the lexicons in reverse order.      *)
LookupAll(offset) ==
  FlattenSeq([i \in 1..Len(rows) |->
    LET l == Len(rows) + 1 - i
    IN  LookupIn(l, index[l], text, offset)])

(* The batch lookup does what the lookups of its positions do.             *)
ScalarResult == [b \in Buckets |-> LookupAll(starts[b])]

(* What the lookup of a position is for, from the rows alone: every row    *)
(* whose index form stands in the text there, user dictionaries first,     *)
(* the shorter ones first, rows of one form in the order of the lexicon.   *)
WordsAt(offset) ==
  LET rest == SubSeq(text, offset + 1, Len(text))
      ofLength(l, n) ==
        LET hit(r) == r.indexed /\ Len(r.form) = n /\ IsPrefix(r.form, rest)
            mine == SelectSeq(rows[l], hit)
        IN  [i \in 1..Len(mine) |->
               [dict |-> l, id |-> mine[i].id, end |-> offset + n]]
      ofLexicon(l) == FlattenSeq([n \in 1..Len(rest) |-> ofLength(l, n)])
  IN  FlattenSeq([i \in 1..Len(rows) |-> ofLexicon(Len(rows) + 1 - i)])

(* Every word of the dictionaries at every start position is reported,     *)
(* once, in the order the lattice builder relies on, and nothing else is.  *)
AllFound == \A b \in Buckets : found[b] = WordsAt(starts[b])

(* The table of word ids enumerates every entry of the lexicon, the ones   *)
(* no lookup finds at the end of it.                                       *)
Enumerates(l) ==
  LET all == AllEntries(index[l].bytes)
  IN  /\ Len(all) = Len(rows[l])
      /\ Range(all) = {rows[l][i].id : i \in DOMAIN rows[l]}
      /\ IsSuffix(NonIndexedIds(rows[l]), all)

(* What the index was built from comes back from it: by lookup from the    *)
(* text, and by enumeration (build.rs, build_index_data; index.rs,         *)
(* build_word_id_table; lexicon_set.rs, lookup_batch).                     *)
IndexComplete ==
  /\ lexicon = 0 => AllFound
  /\ lexicon > 0 /\ turn = 0 /\ rows[lexicon] # <<>> => Enumerates(lexicon)
===========================================================================
