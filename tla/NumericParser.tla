--------------------------- MODULE NumericParser ---------------------------
(***************************************************************************)
(* The parser of numerals that mix digits, kanji units, commas and a point *)
(* (path_rewrite/join_numeric/numeric_parser.rs) and its numbers, which    *)
(* are strings of digits with a scale and a point (string_number.rs).      *)
(*                                                                         *)
(* A function of the code that changes the parser and returns a bool is an *)
(* operator that returns both, [ok, parser] or [ok, number].               *)
(* A kanji is written by its reading.                                      *)
(***************************************************************************)
EXTENDS Naturals, Integers, Sequences, FiniteSets

\* The value of a digit, as the digit that is written for it.
DigitOf == [c \in {"0", "1", "2", "3", "4", "5", "6", "7", "8", "9"} |-> c]
KanjiDigitOf == [rei |-> "0", ichi |-> "1", ni |-> "2", san |-> "3", shi |-> "4",
                 go |-> "5", roku |-> "6", shichi |-> "7", hachi |-> "8",
                 kyuu |-> "9"]
UnitOf == [juu |-> 1, hyaku |-> 2, sen |-> 3, man |-> 4, oku |-> 8, chou |-> 12]

ArabicDigits == DOMAIN DigitOf
Digits == ArabicDigits \cup DOMAIN KanjiDigitOf
SmallUnits == {c \in DOMAIN UnitOf : UnitOf[c] < 4}
LargeUnits == DOMAIN UnitOf \ SmallUnits
Units == DOMAIN UnitOf

Arabic(c) == IF c \in ArabicDigits THEN c ELSE KanjiDigitOf[c]

----------------------------------------------------------------------------
(* StringNumber.  The number is 0.significand moved by point or by scale:  *)
(* point counts the digits before the point, and is -1 without one.        *)

NewNumber == [significand |-> <<>>, scale |-> 0, point |-> -1, is_all_zero |-> TRUE]

IsZero(number) == number.significand = <<>>

AppendDigit(number, d) ==
    [number EXCEPT !.significand = Append(@, d), !.is_all_zero = @ /\ d = "0"]

\* A unit without digits is one of it.
ShiftScale(number, n) ==
    [number EXCEPT !.significand = IF @ = <<>> THEN <<"1">> ELSE @, !.scale = @ + n]

\* The scale moves the point, as far as there are digits behind it.
NormalizeScale(number) ==
    LET decimals == Len(number.significand) - number.point
    IN IF number.point < 0 THEN number
       ELSE IF decimals > number.scale
       THEN [number EXCEPT !.point = @ + number.scale, !.scale = 0]
       ELSE [number EXCEPT !.scale = @ - decimals, !.point = -1]

IntLength(number) ==
    LET n == NormalizeScale(number)
    IN IF n.point >= 0 THEN n.point ELSE Len(n.significand) + n.scale

Zeros(n) == [k \in 1..n |-> "0"]

\* The addend fits into the zeros that the scale stands for.
Fits(room, length) == room >= length

\* What add leaves in the addend is never read: it is cleared, or the parser is.
Add(number, addend) ==
    LET a == NormalizeScale(number)
        b == NormalizeScale(addend)
        gap == a.scale - IntLength(addend)
        filled == a.significand \o Zeros(gap)
    IN IF IsZero(addend) THEN [ok |-> TRUE, number |-> number]
       ELSE IF IsZero(number)
       THEN [ok |-> TRUE,
             number |-> [addend EXCEPT !.is_all_zero = number.is_all_zero]]
       ELSE IF ~ Fits(a.scale, IntLength(addend)) THEN [ok |-> FALSE, number |-> a]
       ELSE [ok |-> TRUE,
             number |->
                [a EXCEPT !.significand = filled \o b.significand,
                          !.scale = b.scale,
                          !.point = IF b.point >= 0 THEN Len(filled) + b.point ELSE @]]

CanSetPoint(number) == number.scale = 0 /\ number.point < 0
SetPoint(number) == [number EXCEPT !.point = Len(number.significand)]

\* The digits without the zeros at their end.
TrimZeros(digits) ==
    LET kept == {k \in DOMAIN digits : digits[k] # "0"} \cup {0}
    IN SubSeq(digits, 1, CHOOSE k \in kept : \A j \in kept : j <= k)

\* get_normalized
Normalized(number) ==
    LET n == NormalizeScale(number)
        whole == SubSeq(n.significand, 1, n.point)
        decimals == TrimZeros(SubSeq(n.significand, n.point + 1, Len(n.significand)))
    IN IF IsZero(number) THEN <<"0">>
       ELSE IF n.scale > 0 THEN n.significand \o Zeros(n.scale)
       ELSE IF n.point < 0 THEN n.significand
       ELSE (IF n.point = 0 THEN <<"0">> ELSE whole)
            \o (IF decimals = <<>> THEN <<>> ELSE <<".">> \o decimals)

----------------------------------------------------------------------------
(* NumericParser                                                           *)

NewParser ==
    [digit_length |-> 0, is_first_digit |-> TRUE, has_comma |-> FALSE,
     has_hanging_point |-> FALSE, error_state |-> "none",
     total |-> NewNumber, subtotal |-> NewNumber, tmp |-> NewNumber]

Accept(parser) == [ok |-> TRUE, parser |-> parser]
Refuse(parser, error) ==
    [ok |-> FALSE, parser |-> [parser EXCEPT !.error_state = error]]

CheckComma(p) ==
    /\ ~ p.is_first_digit
    /\ IF p.has_comma
       THEN p.digit_length = 3
       ELSE p.digit_length <= 3 /\ ~ IsZero(p.tmp) /\ ~ p.tmp.is_all_zero

AppendPoint(parser) ==
    LET p == [parser EXCEPT !.has_hanging_point = TRUE]
    IN IF p.is_first_digit THEN Refuse(p, "point")
       ELSE IF p.has_comma /\ ~ CheckComma(p) THEN Refuse(p, "comma")
       ELSE IF ~ CanSetPoint(p.tmp) THEN Refuse(p, "point")
       ELSE Accept([p EXCEPT !.tmp = SetPoint(@), !.has_comma = FALSE])

AppendComma(p) ==
    IF CheckComma(p) THEN Accept([p EXCEPT !.has_comma = TRUE, !.digit_length = 0])
    ELSE Refuse(p, "comma")

\* What both kinds of units leave behind them.
AfterUnit(p) ==
    [p EXCEPT !.tmp = NewNumber, !.is_first_digit = TRUE, !.digit_length = 0,
              !.has_comma = FALSE]

AppendSmallUnit(p, n) ==
    LET sum == Add(p.subtotal, ShiftScale(p.tmp, n))
    IN IF sum.ok THEN Accept(AfterUnit([p EXCEPT !.subtotal = sum.number]))
       ELSE Refuse(p, p.error_state)

AppendLargeUnit(p, n) ==
    LET subtotal == Add(p.subtotal, p.tmp)
        total == Add(p.total, ShiftScale(subtotal.number, n))
    IN IF subtotal.ok /\ ~ IsZero(subtotal.number) /\ total.ok
       THEN Accept(AfterUnit([p EXCEPT !.total = total.number, !.subtotal = NewNumber]))
       ELSE Refuse(p, p.error_state)

AppendOneDigit(p, d) ==
    Accept([p EXCEPT !.tmp = AppendDigit(@, d), !.is_first_digit = FALSE,
                     !.digit_length = @ + 1, !.has_hanging_point = FALSE])

\* append, for one character
AppendChar(p, c) ==
    CASE c = "."            -> AppendPoint(p)
      [] c = ","            -> AppendComma(p)
      [] c \in SmallUnits   -> AppendSmallUnit(p, UnitOf[c])
      [] c \in LargeUnits   -> AppendLargeUnit(p, UnitOf[c])
      [] c \in Digits       -> AppendOneDigit(p, Arabic(c))
      [] OTHER              -> Refuse(p, p.error_state)

\* The loop over the characters of a node, left at the first that is refused.
AppendAll(parser, text) ==
    LET append[k \in 0..Len(text)] ==
            IF k = 0 THEN Accept(parser)
            ELSE IF append[k - 1].ok THEN AppendChar(append[k - 1].parser, text[k])
            ELSE append[k - 1]
    IN append[Len(text)]

\* done: the rest is added up before the errors are looked at, as far as it can be.
Done(p) ==
    LET subtotal == Add(p.subtotal, p.tmp)
        total == Add(p.total, subtotal.number)
        q == [p EXCEPT !.subtotal = subtotal.number,
                       !.total = IF subtotal.ok THEN total.number ELSE @]
    IN IF q.has_hanging_point THEN Refuse(q, "point")
       ELSE IF q.has_comma /\ q.digit_length # 3 THEN Refuse(q, "comma")
       ELSE [ok |-> subtotal.ok /\ total.ok, parser |-> q]

Accepts(text) ==
    LET read == AppendAll(NewParser, text) IN read.ok /\ Done(read.parser).ok

----------------------------------------------------------------------------
(* What a numeral is and what it is worth, said without the parser: by the *)
(* place of each of its digits.                                            *)

FirstOf(S, default) ==
    IF S = {} THEN default ELSE CHOOSE k \in S : \A j \in S : k <= j

\* The digits and points between two units are one group; it ends at a unit.
GroupEnd(t, i) == FirstOf({k \in i..Len(t) : t[k] \in Units}, Len(t) + 1)
Group(t, i) == {k \in DOMAIN t : GroupEnd(t, k) = GroupEnd(t, i) /\ t[k] \notin Units}
Points(t, i) == {k \in Group(t, i) : t[k] = "."}

\* A small unit without digits is written for one of it.
Implicit(t, i) == t[i] \in SmallUnits /\ Group(t, i) = {}
Written(t) == {i \in DOMAIN t : t[i] \in Digits \/ Implicit(t, i)}

\* How far the units behind it move a digit.
Shift(t, i) ==
    LET small == GroupEnd(t, i)
        large == FirstOf({k \in i..Len(t) : t[k] \in LargeUnits}, Len(t) + 1)
        unit(k) == IF k <= Len(t) THEN UnitOf[t[k]] ELSE 0
    IN unit(large) + (IF small = large THEN 0 ELSE unit(small))

Place(t, i) ==
    LET point == FirstOf(Points(t, i), GroupEnd(t, i))
        digits(from, to) == Cardinality({k \in from..to : t[k] \in Digits})
    IN Shift(t, i) + (IF i <= point THEN digits(i + 1, point - 1)
                      ELSE - digits(point + 1, i))

\* The digits that are not 0, at their places.
Value(t) == {<<Place(t, i), Arabic(IF t[i] \in Digits THEN t[i] ELSE "ichi")>> :
                i \in {k \in Written(t) : t[k] \notin {"0", "rei"}}}

\* Every digit stands at a lower place than those before it; a point is inside
\* of the digits of a group; a large unit has something it counts.
WellFormed(t) ==
    /\ LET place == [i \in Written(t) |-> Place(t, i)]
       IN \A i, j \in Written(t) : i < j => place[i] > place[j]
    /\ \A i \in DOMAIN t :
          /\ t[i] = "." => /\ i > 1 /\ t[i - 1] \in Digits
                           /\ Points(t, i) = {i}
                           /\ \E k \in i..Len(t) : t[k] \in Digits
          /\ t[i] \in LargeUnits => i > 1 /\ t[i - 1] \notin LargeUnits

WithoutCommas(t) == SelectSeq(t, LAMBDA c : c # ",")

\* One to three digits, not all 0, before the first comma, three behind each.
InThrees(t) ==
    LET stop == FirstOf({k \in DOMAIN t : t[k] = "."}, Len(t) + 1)
        commas == {k \in DOMAIN t : t[k] = ","}
        next(k) == FirstOf({j \in commas : j > k} \cup {stop}, stop)
        first == FirstOf(commas, stop)
    IN commas = {} \/
       /\ first \in 2..4 /\ \E k \in 1..(first - 1) : t[k] \notin {"0", "rei", "."}
       /\ \A k \in commas : k < stop /\ next(k) = k + 4

\* Commas with units or behind a point are not settled: 1,23man is accepted.
IsSettled(t) ==
    \A i, j \in DOMAIN t :
        t[i] = "," => t[j] \notin Units /\ (t[j] = "." => i < j)

IsNumeral(t) ==
    /\ t # <<>>
    /\ \A k \in DOMAIN t : t[k] \in Digits \cup Units \cup {",", "."}
    /\ InThrees(t)
    /\ WellFormed(WithoutCommas(t))
=============================================================================
