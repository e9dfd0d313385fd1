---------------------------- MODULE CharCategory ----------------------------
(***************************************************************************)
(* char.def compiled into a table of code point ranges                     *)
(* (sudachi/src/dic/character_category.rs).                                *)
(*                                                                         *)
(* A line gives categories to the code points first..last; lines overlap   *)
(* in any way.  The table has the boundaries of the ranges that remain     *)
(* after neighbours with equal categories were merged, and one range more  *)
(* than it has boundaries.                                                 *)
(***************************************************************************)
EXTENDS Integers, Sequences, SequencesExt

CONSTANTS
    MaxCode,    \* char::MAX
    CodePoints  \* code points that are characters, not surrogates

\* read_character_definition: what it accepts ...
Reads(line) ==
    /\ line.first =< line.last
    /\ line.first \in CodePoints
    /\ line.last + 1 \in CodePoints

\* ... and the half-open range it makes of it.
ReadDefinition(lines) ==
    [k \in DOMAIN lines |->
        [begin |-> lines[k].first, end |-> lines[k].last + 1,
         categories |-> lines[k].types]]

\* collect_boundaries
CollectBoundaries(ranges) ==
    SetToSortSeq(UNION {{ranges[k].begin, ranges[k].end} : k \in DOMAIN ranges},
                 LAMBDA x, y : x < y)

\* The categories of the code points below each boundary.  Those below the
\* first one have been given none.
CollectCategories(ranges, boundaries) ==
    [i \in DOMAIN boundaries |->
        IF i = 1 THEN {"DEFAULT"}
        ELSE UNION {ranges[k].categories :
                       k \in {k \in DOMAIN ranges : /\ ranges[k].begin < boundaries[i]
                                                    /\ boundaries[i] =< ranges[k].end}}]

OrDefault(categories) == IF categories = {} THEN {"DEFAULT"} ELSE categories

\* compile: a boundary stays where the categories change, and the last one.
Compile(ranges) ==
    LET all == CollectBoundaries(ranges)
        cats == CollectCategories(ranges, all)
        changes == SetToSortSeq({i \in 2..Len(all) : cats[i] # cats[i - 1]},
                                LAMBDA x, y : x < y)
    IN  IF ranges = <<>>
        THEN [boundaries |-> <<>>, categories |-> <<{"DEFAULT"}>>]
        ELSE [boundaries |-> Append([k \in DOMAIN changes |-> all[changes[k] - 1]],
                                    all[Len(all)]),
              categories |-> <<cats[1]>>
                  \o [k \in DOMAIN changes |-> OrDefault(cats[changes[k]])]
                  \o <<{"DEFAULT"}>>]

\* The range of the table a code point is in: a binary search, where a boundary
\* that is found belongs to the range above it.
RangeIndex(table, code) ==
    Len(SelectSeq(table.boundaries, LAMBDA b : b =< code)) + 1

GetCategoryTypes(table, code) == table.categories[RangeIndex(table, code)]

\* CharCategoryIter: the ranges with their categories.  Of a table without
\* boundaries it has none to give, and panics.
Iterate(table) ==
    [k \in DOMAIN table.categories |->
        [begin |-> IF k = 1 THEN 0 ELSE table.boundaries[k - 1],
         end |-> IF k = Len(table.categories) THEN MaxCode ELSE table.boundaries[k],
         categories |-> table.categories[k]]]

----------------------------------------------------------------------------
\* What char.def says of a code point: the categories of all of its lines.
DefinedCategories(lines, code) ==
    OrDefault(UNION {lines[k].types :
                  k \in {k \in DOMAIN lines : code \in lines[k].first..lines[k].last}})
=============================================================================
