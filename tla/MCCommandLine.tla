--------------------------- MODULE MCCommandLine ---------------------------
(***************************************************************************)
(* CommandLine on every short line of families of characters that meet in  *)
(* the rules of the detector, on short files in every mode, and with       *)
(* windows that are shorter than the line.                                 *)
(***************************************************************************)
EXTENDS CommandLine

UpTo(S, n) == UNION {[1..k -> S] : k \in 0..n}

Job(files, modes, outputs, limits) ==
    [file : files, split_sentences : modes, wakati : outputs,
     output_file : outputs, limit : limits]

Periodic == {"kana", "alnum", "period", Dot, Comma}
Quoted == {"kana", "mark", "(", ")", "to"}
Repeated == {"kana", "cdot", "br", "period"}
Itemized == {"alnum", Dot, "mark", "tsu", "ya"}
Windowed == {"kana", " ", "period", "to", ")"}
Lined == {"kana", "period", "nl", "cr"}

MCLimits == {0, 2, 3, 6}
MCJobs ==
    Job(UpTo(Periodic, 4) \cup UpTo(Quoted, 5) \cup UpTo(Repeated, 5) \cup UpTo(Itemized, 4),
        {"default"}, {FALSE}, {6})
    \cup Job(UpTo(Windowed, 5), {"default"}, {FALSE}, {2, 3})
    \cup Job(UpTo(Lined, 4), {"default", "only", "none"}, BOOLEAN, {2, 6})
    \cup Job({<<"kana", "nl">>}, {"only"}, {FALSE}, {0})

MCWords == {<<"kana", "period">>, <<"period">>, <<"kana", "mark", "kana">>,
            <<"kana", "kana", "kana", ")", "kana">>, <<Dot, "alnum">>}
=============================================================================
