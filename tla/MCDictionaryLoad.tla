------------------------- MODULE MCDictionaryLoad --------------------------
(***************************************************************************)
(* Small dictionaries for DictionaryLoad, written from rows the way the    *)
(* builder does it (LexiconEntries, EntryLayout): two system dictionaries, *)
(* and user dictionaries for each of them.                                 *)
(***************************************************************************)
EXTENDS DictionaryLoad

Named(headword) == [by |-> "headword", headword |-> headword]
NamedAll(headwords) == [k \in DOMAIN headwords |-> Named(headwords[k])]

(* A row with its units by mode, all given by headwords.                   *)
Row(headword, p, norm, dic, c, b, a, ws, syn, userData) ==
  [form |-> headword, headword |-> headword, reading |-> headword, refid |-> "",
   left |-> 0, right |-> 0, cost |-> 0, pos |-> p, norm |-> norm, dic |-> dic,
   c |-> NamedAll(c), b |-> NamedAll(b), a |-> NamedAll(a), ws |-> NamedAll(ws),
   syn |-> syn, user |-> userData]
Word(headword, p) == Row(headword, p, SelfRef, SelfRef, <<>>, <<>>, <<>>, <<>>, 0, 0)

(* The file the builder writes for the rows and the resolved entries.      *)
Compiled(isUser, key, basePos, ownPos, rows, unset, resolved, ids) ==
  LET own == IF isUser THEN 1 ELSE 0
      raw(i, ref) == IF ref = SelfRef THEN [dict |-> own, entry |-> ids[i]]
                     ELSE [dict |-> IF ref.system THEN 0 ELSE 1, entry |-> ref.id]
      raws(i, refs) == [k \in DOMAIN refs |-> raw(i, refs[k])]
      written == [i \in DOMAIN resolved |->
                    [resolved[i] EXCEPT !.norm = raw(i, @), !.dic = raw(i, @), !.a = raws(i, @),
                                        !.b = raws(i, @), !.c = raws(i, @), !.ws = raws(i, @)]]
      \* the row an entry comes from: a phantom from the first that needs it
      rowOf(i) == IF i \in DOMAIN rows THEN i
                  ELSE Min({j \in DOMAIN rows : rows[j].norm = Named(resolved[i].headword)})
      says(i, ref) == IF ref = SelfRef THEN resolved[i].headword ELSE ref.headword
      names(refs) == [k \in DOMAIN refs |-> refs[k].headword]
      meaning(i) ==
        LET row == rows[rowOf(i)]
        IN  [pos |-> (basePos \o ownPos)[row.pos + 1], headword |-> resolved[i].headword,
             reading |-> row.reading, form |-> resolved[i].form,
             norm |-> IF i = rowOf(i) THEN says(i, row.norm) ELSE resolved[i].headword,
             dic |-> says(i, row.dic), a |-> names(row.a), b |-> names(row.b),
             c |-> names(row.c), ws |-> names(row.ws), syn |-> row.syn, user |-> row.user]
  IN  [ok |-> TRUE, isUser |-> isUser, key |-> key, hasMatrix |-> ~isUser, pos |-> ownPos,
       block |-> Block(written), public |-> Len(rows),
       table |-> [i \in DOMAIN rows |-> ids[i]],
       unset |-> {ids[i] : i \in unset}, written |-> written,
       means |-> [id \in {ids[i] : i \in DOMAIN ids} |->
                    meaning(CHOOSE i \in DOMAIN ids : ids[i] = id)]]

FileOfEntries(isUser, key, basePos, ownPos, rows, unset, resolved) ==
  Compiled(isUser, key, basePos, ownPos, rows, unset, resolved, EntryIds(resolved))

(* The file for the rows, on the entries of base.                          *)
File(isUser, key, base, basePos, ownPos, rows, unset) ==
  FileOfEntries(isUser, key, basePos, ownPos, rows, unset,
                ResolveEntries(rows, base, isUser).entries)

(* The public entries of a system dictionary, for references to them.      *)
Public(rows) ==
  LET ids == EntryIds(ResolveEntries(rows, <<>>, FALSE).entries)
  IN  [i \in DOMAIN rows |-> [id |-> ids[i], headword |-> rows[i].headword, pos |-> rows[i].pos,
                              reading |-> rows[i].reading, refid |-> ""]]

SysPos == <<"noun", "verb">>
RowsS == << Row("ab", 0, SelfRef, Named("a"), <<>>, <<"a", "b">>, <<"a", "b">>, <<"a", "b">>, 0, 0),
            Row("a", 0, Named("x"), SelfRef, <<>>, <<>>, <<>>, <<>>, 3, 0),
            Row("b", 1, SelfRef, SelfRef, <<>>, <<>>, <<>>, <<>>, 1, 1) >>
RowsT == << Word("b", 1), Word("a", 0), Word("c", 0) >>
SystemS == File(FALSE, "s", <<>>, <<>>, SysPos, RowsS, {2})
SystemT == File(FALSE, "t", <<>>, <<>>, SysPos, RowsT, {})

RowsU == << Row("uab", 2, SelfRef, SelfRef, <<"u", "ab">>, <<"u", "ab">>, <<"u", "a", "b">>,
                <<"u", "ab">>, 0, 1),
            Row("u", 2, Named("x"), Named("b"), <<>>, <<>>, <<>>, <<>>, 0, 0) >>
RowsV == << Row("vw", 3, SelfRef, Named("w"), <<"v", "w">>, <<"v", "w">>, <<"v", "w">>, <<"v", "w">>, 0, 0),
            Word("v", 0), Word("w", 2) >>
UserU == File(TRUE, "s", Public(RowsS), SysPos, <<"name">>, RowsU, {2})
UserV == File(TRUE, "s", Public(RowsS), SysPos, <<"place", "name">>, RowsV, {1, 3})
UserOfT == File(TRUE, "t", Public(RowsT), SysPos, <<>>,
                << Row("cc", 0, Named("c"), SelfRef, <<>>, <<>>, <<"c", "c">>, <<"c", "c">>, 0, 0) >>, {})
CutUser == [UserU EXCEPT !.block.size = @ - Alignment]
BadSystem == [SystemS EXCEPT !.ok = FALSE]
UserAsSystem == [UserU EXCEPT !.hasMatrix = TRUE]

Of(category, p, userPos) == [category |-> category, pos |-> p, userPos |-> userPos]
Simple == Of("oov", "noun", "forbid")
Unknown == Of("oov", "name", "allow")
Regex == Of("oov", "url", "allow")
Strict == Of("oov", "url", "forbid")
Katakana == Of("path", "noun", "forbid")
OfUnknown == Of("path", "name", "forbid")
Inhibit == Of("connect", "noun", "forbid")
Yomigana == Of("input", "noun", "forbid")

Plugins(connect, input, oov, path) ==
  [connect |-> connect, input |-> input, oov |-> oov, path |-> path]
OnlySimple == Plugins(<<>>, <<>>, <<Simple>>, <<>>)

Load(system, users, plugins) ==
  [system |-> system, users |-> users, plugins |-> plugins, plain |-> FALSE]
LoadPlain(system, users) ==
  [system |-> system, users |-> users, plugins |-> OnlySimple, plain |-> TRUE]

PluginLists ==
  { Plugins(<<Inhibit>>, <<>>, <<Simple, Unknown>>, <<OfUnknown>>),
    Plugins(<<>>, <<Yomigana>>, <<Regex, Simple>>, <<Katakana>>),
    Plugins(<<Inhibit>>, <<>>, <<Simple>>, <<>>),
    Plugins(<<>>, <<>>, <<Simple, Regex, Unknown>>, <<>>) }

UserLists ==
  UNION {[1..n -> {UserU, UserV, UserOfT}] : n \in 0..2}
    \cup { <<UserU, UserU, UserU>>, <<UserU, CutUser>>, <<SystemS>> }

MCConfigs ==
  {Load(SystemS, users, plugins) : users \in UserLists, plugins \in PluginLists}
    \cup {Load(SystemT, users, OnlySimple) : users \in UserLists}
    \cup {LoadPlain(SystemS, users) : users \in UserLists}
    \cup {Load(SystemS, <<>>, Plugins(<<>>, <<>>, <<Strict, Simple>>, <<>>)), Load(SystemS, <<>>, Plugins(<<>>, <<>>, <<>>, <<Katakana>>)),
          Load(SystemS, <<>>, Plugins(<<>>, <<>>, <<Simple>>, <<OfUnknown>>)),
          Load(BadSystem, <<>>, OnlySimple), Load(UserAsSystem, <<>>, OnlySimple)}

MCSubsets ==
  {units \cup fixed : units \in SUBSET {"c", "b", "a", "ws"},
                      fixed \in {{}, {"pos", "norm"}, {"pos", "dic", "reading", "syn", "user"}}}
=============================================================================
