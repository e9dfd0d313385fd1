---------------------------- MODULE CommandLine ----------------------------
(***************************************************************************)
(* The command line program (sudachi-cli/src/main.rs, analysis.rs,         *)
(* output.rs): it reads a line, splits it into sentences, analyses and     *)
(* prints them. The splitter is SentenceSplitter, step by step; the        *)
(* analysis of a sentence is one step, of which only the text and its      *)
(* failure are kept: the words of a sentence are the sentence.             *)
(***************************************************************************)
EXTENDS SentenceSplitter, SequencesExt

CONSTANTS
    Jobs,        \* [file, split_sentences, wakati, output_file, limit]:
                 \* what is read and with which options
    MaxLength    \* longest text that the tokenizer takes

ASSUME JobsAssumption ==
    /\ \A j \in Jobs : /\ j.file \in Seq(Chars)
                       /\ j.split_sentences \in {"default", "only", "none"}
                       /\ j.limit \in Limits
    /\ MaxLength \in Nat

VARIABLES
    job,
    unread,      \* what read_line has not read
    stage,       \* "read", "analyze", "done" or "panicked"
    buffer,      \* what the BufWriter holds
    written      \* what was flushed

cli == <<job, unread, stage, buffer, written>>
vars == <<splitter, cli>>

----------------------------------------------------------------------------
(* Reading                                                                 *)

LineLength(text) ==
    LET Ends == {k \in DOMAIN text : text[k] = "nl"}
    IN IF Ends = {} THEN Len(text) ELSE Min(Ends)

\* Mutant: a carriage return before the newline stays.
StripEolOnce(s) ==
    IF Len(s) > 1 /\ Last(s) = "nl" THEN Front(s) ELSE s

\* A line of one character is not stripped.
StripEol(s) ==
    LET t == IF Len(s) > 1 /\ Last(s) = "nl" THEN Front(s) ELSE s
    IN IF t # s /\ Len(t) > 1 /\ Last(t) = "cr" THEN Front(t) ELSE t

ReadLine ==
    /\ stage = "read" /\ unread # <<>>
    /\ LET n == LineLength(unread)
       IN /\ unread' = SubSeq(unread, n + 1, Len(unread))
          /\ data' = StripEol(SubSeq(unread, 1, n))
    /\ position' = 0
    /\ sentence' = NoSentence
    /\ scan' = NoScan
    /\ stage' = "analyze"
    /\ UNCHANGED <<limit, checker, job, buffer, written>>

----------------------------------------------------------------------------
(* Analysis and output                                                     *)

\* Wakachi and Simple, of an analysed sentence. A text of no characters has
\* no morphemes.
Printed(text) ==
    text \o (IF job.wakati THEN <<"newline">> ELSE <<"EOS">>)

Write(text) ==
    /\ buffer' = buffer \o text
    /\ UNCHANGED <<job, unread, stage, written>>

\* A panic ends main; the writer is flushed as it is dropped.
Panic ==
    /\ stage' = "panicked"
    /\ written' = written \o buffer
    /\ buffer' = <<>>
    /\ UNCHANGED <<job, unread>>

Analyze(text) ==
    IF Len(text) > MaxLength THEN Panic ELSE Write(Printed(text))

NewSentence == SubSeq(data, position + 1, position')

\* SplitSentencesOnly and AnalyzeSplitted
SplitStep ==
    /\ stage = "analyze" /\ job.split_sentences # "none"
    /\ \/ ScanStep /\ UNCHANGED cli
       \/ /\ HandOutStep
          /\ IF job.split_sentences = "only" THEN Write(NewSentence)
             ELSE Analyze(NewSentence)

\* AnalyzeNonSplitted
AnalyzeLine ==
    /\ stage = "analyze" /\ job.split_sentences = "none" /\ position # Len(data)
    /\ position' = Len(data)
    /\ Analyze(data)
    /\ UNCHANGED <<data, limit, checker, sentence, scan>>

\* The output is flushed after every line unless it is a file.
EndLine ==
    /\ stage = "analyze" /\ SplitterDone
    /\ stage' = "read"
    /\ IF job.output_file THEN UNCHANGED <<buffer, written>>
       ELSE /\ written' = written \o buffer
            /\ buffer' = <<>>
    /\ UNCHANGED <<job, unread, splitter>>

Finish ==
    /\ stage = "read" /\ unread = <<>>
    /\ stage' = "done"
    /\ written' = written \o buffer
    /\ buffer' = <<>>
    /\ UNCHANGED <<job, unread, splitter>>

----------------------------------------------------------------------------

\* AnalyzeSplitted and SplitSentencesOnly have a checker of the dictionary.
Init ==
    /\ job \in Jobs
    /\ unread = job.file
    /\ stage = "read"
    /\ buffer = <<>>
    /\ written = <<>>
    /\ SplitterInit(<<>>, job.limit, TRUE)

Next ==
    \/ ReadLine
    \/ SplitStep
    \/ AnalyzeLine
    \/ EndLine
    \/ Finish

Spec == Init /\ [][Next]_vars /\ WF_vars(Next)

----------------------------------------------------------------------------
(* What a sentence is, without the scan                                    *)

\* The character k of s is in a break that ends behind it.
BreakEndsAt(s, k) ==
    LET Run(C) == CHOOSE r \in 0..k : (\A j \in (r + 1)..k : s[j] \in C)
                                      /\ (r > 0 => s[r] \notin C)
        run == Run(Breaks)
        Free(j) == /\ j = 1 \/ s[j - 1] # "alnum"
                   /\ j < Len(s) => s[j + 1] \notin {"alnum", Comma}
    IN \/ /\ k < Len(s) => s[k + 1] \notin Breaks
          /\ \/ \E j \in (run + 1)..k : s[j] \in Periods \/ Free(j)
             \/ /\ run >= 3 /\ \A j \in (run - 2)..run : s[j] = "cdot"
                /\ run = k => (k < Len(s) => s[k + 1] # "cdot")
       \/ /\ k >= 2 /\ s[k] = "br" /\ s[k - 1] = "br"
          /\ k < Len(s) => s[k + 1] # "br"

\* No parenthesis is open behind k characters: closing ones without a
\* partner do not count.
Outside(s, k) ==
    \A j \in 1..k : Cardinality({m \in j..k : s[m] = "("})
                        <= Cardinality({m \in j..k : s[m] = ")"})

MayEnd(s, whole, k) ==
    LET e == SkipProhibitedBos(s, k)
    IN /\ BreakEndsAt(s, k) /\ Outside(s, k)
       /\ ~ IsItemizeHeader(s)
       /\ ~ ContinuesPhrase(s, e)
       /\ \A i \in Max({0, e - LookBack})..(e - 1), to \in e..Len(whole) :
              SubSeq(whole, i + 1, to) \in Words => to = e /\ i + 1 = e

SentenceOf(from) ==
    LET whole == SubSeq(data, from + 1, Len(data))
        s == SubSeq(whole, 1, Min({limit, Len(whole)}))
        Ends == {k \in 1..Len(s) : MayEnd(s, whole, k)}
    IN IF Ends # {} THEN SkipProhibitedBos(s, Min(Ends))
       ELSE IF limit = 0 THEN 0 ELSE Len(whole)

----------------------------------------------------------------------------
(* Properties                                                              *)

\* Every sentence ends where the first break outside of parentheses is that
\* nothing forbids, or with the line. This is about find_sentence_boundary, whose
\* scan goes on behind refused candidates with the character and the level it
\* has got to.
SentencesAsDefined ==
    (sentence # NoSentence /\ scan = NoScan) =>
        sentence.to = sentence.from + SentenceOf(sentence.from)

\* The ends of the lines, but for a line of one character.
IsEol(file, k) ==
    /\ k > 1 /\ file[k - 1] # "nl"
    /\ \/ file[k] = "nl"
       \/ file[k] = "cr" /\ k < Len(file) /\ file[k + 1] = "nl"

Text(output) == SelectSeq(output, LAMBDA c : c \in Chars)
Lines(file) == Text([k \in DOMAIN file |-> IF IsEol(file, k) THEN None ELSE file[k]])

\* What was printed is, but for the marks at the ends of sentences, the lines
\* without their ends, as far as they were handed out, in order, and nothing is
\* in the buffer at the end. This is about main's loop, its buffers and the
\* iterator.
OutputFaithful ==
    LET lines == Lines(SubSeq(job.file, 1, Len(job.file) - Len(unread)))
    IN /\ IF stage = "panicked" THEN IsPrefix(Text(written), lines)
          ELSE Text(written \o buffer) \o Slice = lines
       /\ stage \in {"done", "panicked"} => buffer = <<>>

\* With a window of at least one character every file comes to its end.
Terminates == limit > 0 => <>(stage \in {"done", "panicked"})
=============================================================================
