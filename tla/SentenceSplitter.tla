-------------------------- MODULE SentenceSplitter --------------------------
(***************************************************************************)
(* Sentence splitting: SentenceDetector and NonBreakChecker                *)
(* (sudachi/src/sentence_detector.rs) and the iterator over them           *)
(* (sentence_splitter.rs). An iteration of find_sentence_boundary is an    *)
(* action. A character stands for its class; a <br> tag is one character.  *)
(* Ends and indices count characters.                                      *)
(***************************************************************************)
EXTENDS Integers, Sequences, FiniteSetsExt

CONSTANTS
    Limits,     \* limits of detectors
    Words,      \* headwords of the dictionaries, as sequences of characters
    LookBack    \* characters before a boundary that the checker starts from

ASSUME SplitterAssumption ==
    /\ Limits \subseteq Nat
    /\ LookBack \in Nat \ {0}

Periods == {"period", "mark"}              \* the mark is ? or !
Dot == "."
Comma == ","
Breaks == Periods \cup {Dot}
QuoteMarkers == {"mark", ")"}
Spaces == {" ", "nl", "cr"}
Chars == Breaks \cup Spaces \cup
    {Comma, "(", ")", "cdot", "br", "alnum", "to", "tsu", "ya", "kana"}
None == "none"

VARIABLES
    data,        \* the text that is split
    limit,
    checker,     \* TRUE if there is a checker
    position,    \* characters of data that were handed out
    sentence,    \* what was handed out last: the characters from+1..to
    scan         \* find_sentence_boundary: [index, level, previous], or NoScan

splitter == <<data, limit, checker, position, sentence, scan>>

NoSentence == [from |-> 0, to |-> 0]
NoScan == [index |-> -1, level |-> 0, previous |-> None]

----------------------------------------------------------------------------
(* Runs of characters                                                      *)

\* Where the run of characters of C ends that begins behind k characters.
RunEnd(s, k, C) ==
    CHOOSE e \in k..Len(s) :
        /\ \A j \in (k + 1)..e : s[j] \in C
        /\ e < Len(s) => s[e + 1] \notin C

CdotsEnd(s, index) ==
    LET e == RunEnd(s, index, {"cdot"})
    IN IF e - index >= 3 THEN RunEnd(s, e, Breaks) ELSE 0

BrSequenceEnd(s, index) ==
    LET e == RunEnd(s, index, {"br"}) IN IF e - index >= 2 THEN e ELSE 0

\* A dot between letters or digits, or before a comma, is no break.
DotEnd(s, index, previous) ==
    IF \/ previous = "alnum"
       \/ index + 2 <= Len(s) /\ s[index + 2] \in {"alnum", Comma}
    THEN 0 ELSE RunEnd(s, index + 1, Breaks)

SentenceCandidateEnd(s, index, previous) ==
    LET c == s[index + 1]
    IN CASE c \in Periods -> RunEnd(s, index + 1, Breaks)
         [] c = "cdot"    -> CdotsEnd(s, index)
         [] c = Dot       -> DotEnd(s, index, previous)
         [] c = "br"      -> BrSequenceEnd(s, index)
         [] OTHER         -> 0

\* What cannot begin a sentence belongs to the last one.
SkipProhibitedBos(s, e) == RunEnd(s, e, Periods \cup {")", Comma})

IsItemizeHeader(s) == s = <<"alnum", Dot>>
EndsWithItemizeHeader(s, e) == e >= 2 /\ s[e] = Dot /\ s[e - 1] = "alnum"

ContinuesPhrase(s, eos) ==
    /\ eos < Len(s)
    /\ \/ s[eos] \in QuoteMarkers /\ s[eos + 1] \in {"to", "tsu"}
       \/ s[eos + 1] \in {"to", "ya"} /\ EndsWithItemizeHeader(s, eos)

\* The last whitespace of the first line that has one behind its first
\* character (.+\s+); 0 if there is none.
LegacyWhitespaceEnd(s) ==
    LET Matched(from) == {k \in (from + 1)..Len(s) :
                            s[k] \in Spaces /\ \A j \in from..(k - 1) : s[j] # "nl"}
        Starts == {from \in 1..Len(s) : Matched(from) # {}}
    IN IF Starts = {} THEN 0 ELSE RunEnd(s, Max(Matched(Min(Starts))), Spaces)

----------------------------------------------------------------------------
(* NonBreakChecker                                                         *)

\* A word crosses the boundary, or one of several characters ends there.
HasNonBreakWord(s, eos) ==
    \E i \in Max({0, eos - LookBack})..(eos - 1), e \in eos..Len(s) :
        /\ SubSeq(s, i + 1, e) \in Words
        /\ e > eos \/ e > i + 1

----------------------------------------------------------------------------
(* SentenceIter::next                                                      *)

Slice == SubSeq(data, position + 1, Len(data))

\* limited_prefix
Limited == SubSeq(Slice, 1, Min({limit, Len(Slice)}))
ExceedsLimit == Len(Slice) > limit

StartScan ==
    /\ scan = NoScan
    /\ position # Len(data)
    /\ scan' = [index |-> 0, level |-> 0, previous |-> None]
    /\ UNCHANGED <<data, limit, checker, position, sentence>>

Scanning == scan # NoScan /\ scan.index < Len(Limited)
Current == Limited[scan.index + 1]
Candidate == SentenceCandidateEnd(Limited, scan.index, scan.previous)

Advance(level) ==
    /\ scan' = [index |-> scan.index + 1, level |-> level, previous |-> Current]
    /\ UNCHANGED <<data, limit, checker, position, sentence>>

OpenParenthesis ==
    /\ Scanning /\ Current = "("
    /\ Advance(scan.level + 1)

\* Mutant: the level goes below zero.
CloseParenthesisUnchecked ==
    /\ Scanning /\ Current = ")"
    /\ Advance(scan.level - 1)

CloseParenthesis ==
    /\ Scanning /\ Current = ")"
    /\ Advance(Max({scan.level - 1, 0}))

PassCharacter ==
    /\ Scanning /\ Current \notin {"(", ")"} /\ Candidate = 0
    /\ Advance(scan.level)

\* The sentence ends so many characters behind the position.
HandOut(length) ==
    /\ sentence' = [from |-> position, to |-> position + length]
    /\ position' = position + length
    /\ scan' = NoScan
    /\ UNCHANGED <<data, limit, checker>>

Eos == SkipProhibitedBos(Limited, Candidate)

Refused ==
    \/ scan.level # 0
    \/ IsItemizeHeader(Limited)
    \/ ContinuesPhrase(Limited, Eos)
    \/ checker /\ HasNonBreakWord(Slice, Eos)

IsCandidate == Scanning /\ Current \notin {"(", ")"} /\ Candidate # 0

FindBoundary == IsCandidate /\ ~ Refused /\ HandOut(Eos)

\* Mutant: the scan stays at the candidate.
RefuseBoundaryStay ==
    /\ IsCandidate /\ Refused
    /\ scan' = [scan EXCEPT !.previous = Limited[Candidate]]
    /\ UNCHANGED <<data, limit, checker, position, sentence>>

RefuseBoundary ==
    /\ IsCandidate /\ Refused
    /\ scan' = [scan EXCEPT !.index = Candidate, !.previous = Limited[Candidate]]
    /\ UNCHANGED <<data, limit, checker, position, sentence>>

\* A negative end is not looked at: the rest of the text is handed out. The
\* end is not negative if nothing was looked at.
RestOfText(eos) == IF eos > 0 THEN Len(Slice) ELSE 0

NoBoundary ==
    /\ scan # NoScan /\ scan.index >= Len(Limited)
    /\ LET provisional == IF ExceedsLimit THEN LegacyWhitespaceEnd(Limited) ELSE 0
       IN HandOut(RestOfText(IF provisional > 0 THEN provisional ELSE Len(Limited)))

\* The steps of the scan, and those that hand out a sentence.
ScanStep ==
    \/ StartScan
    \/ OpenParenthesis
    \/ CloseParenthesis
    \/ PassCharacter
    \/ RefuseBoundary

HandOutStep == FindBoundary \/ NoBoundary

SplitterDone == scan = NoScan /\ position = Len(data)

\* split(), with a detector of that limit
SplitterInit(text, l, c) ==
    /\ data = text
    /\ limit = l
    /\ checker = c
    /\ position = 0
    /\ sentence = NoSentence
    /\ scan = NoScan
=============================================================================
