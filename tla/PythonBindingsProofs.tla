------------------------ MODULE PythonBindingsProofs ------------------------
(***************************************************************************)
(* Proofs about PythonBindings, for any number of threads, texts and       *)
(* lists and any depth of the calls: the tokenizer that a Python program   *)
(* shares between its threads comes back as it was, and its lists show     *)
(* what they were asked for.                                               *)
(***************************************************************************)
EXTENDS PythonBindings, SequenceFacts, FiniteSetTheorems

\* A call and what it has saved.
IsFrame(f) ==
    /\ {"op", "stage"} \subseteq DOMAIN f
    /\ f.op = "tokenize" => "saved" \in DOMAIN f

CallsOK ==
    /\ calls = [th \in Thread |-> calls[th]]
    /\ \A th \in Thread :
          /\ IsSeq(calls[th])
          /\ \A k \in 1..Len(calls[th]) : IsFrame(calls[th][k])

\* The tokenizer is borrowed by the one thread that is in tokenize; that call
\* makes no others, and it knows the mode the tokenizer was created with.
BorrowOK ==
    /\ "mode" \in DOMAIN tokenizer
    /\ owner = {} => tokenizer.mode = Default
    /\ owner # {} => \E th \in Thread : Tokenizing(th)
    /\ \A th \in Thread : \A k \in 1..Len(calls[th]) :
          calls[th][k].op = "tokenize" =>
              /\ owner = {th} /\ k = Len(calls[th])
              /\ IF calls[th][k].saved = {} THEN tokenizer.mode = Default
                 ELSE calls[th][k].saved = {Default}

PInv == CallsOK /\ BorrowOK

----------------------------------------------------------------------------
(* The calls of a thread.                                                  *)

LEMMA CallsLength ==
    ASSUME CallsOK, NEW th \in Thread
    PROVE  Len(calls[th]) \in Nat /\ DOMAIN calls[th] = 1..Len(calls[th])
  BY DEF CallsOK, IsSeq

\* A call begins.
LEMMA CallPushes ==
    ASSUME CallsOK, NEW th \in Thread, NEW f, IsFrame(f), Call(th, f)
    PROVE  /\ CallsOK'
           /\ \A u \in Thread \ {th} : calls'[u] = calls[u]
           /\ Len(calls'[th]) = Len(calls[th]) + 1
           /\ calls'[th][Len(calls[th]) + 1] = f
           /\ \A k \in 1..Len(calls[th]) : calls'[th][k] = calls[th][k]
  <1> DEFINE s == calls[th]
             t == Append(s, f)
             X == Elems(s) \cup {f}
  <1>1. IsSeq(s) /\ Len(s) \in Nat /\ \A k \in 1..Len(s) : IsFrame(s[k])
    BY CallsLength DEF CallsOK
  <1>2. s \in Seq(X) /\ f \in X
    <2>1. s \in [1..Len(s) -> X]
      BY <1>1 DEF IsSeq
    <2> HIDE DEF s
    <2>2. s \in Seq(X)
      <3> HIDE DEF X
      <3>1. QED
        BY <2>1, <1>1, FunctionIsSeq
    <2>3. QED
      BY <2>2
  <1>3. calls' = [calls EXCEPT ![th] = t] /\ calls = [u \in Thread |-> calls[u]]
    BY DEF Call, CallsOK
  <1> HIDE DEF s, X
  <1>4. /\ t \in Seq(X) /\ Len(t) = Len(s) + 1 /\ t[Len(s) + 1] = f
        /\ \A k \in 1..Len(s) : t[k] = s[k]
    BY <1>2, AppendFacts
  <1>5. IsSeq(t)
    BY <1>4, SeqIsSeq
  <1> HIDE DEF t
  <1>6. \A k \in 1..Len(t) : IsFrame(t[k])
    <2>1. SUFFICES ASSUME NEW k \in 1..Len(t) PROVE IsFrame(t[k])
      OBVIOUS
    <2>2. k \in 1..Len(s) \/ k = Len(s) + 1
      BY <1>1, <1>4
    <2>3. QED
      BY <2>2, <1>1, <1>4
  <1>7. /\ calls'[th] = t /\ \A u \in Thread \ {th} : calls'[u] = calls[u]
        /\ calls' = [u \in Thread |-> calls'[u]]
    BY <1>3
  <1>8. CallsOK'
    BY <1>5, <1>6, <1>7 DEF CallsOK
  <1>9. QED
    BY <1>4, <1>7, <1>8 DEF s

\* The innermost call ends.
LEMMA ReturnPops ==
    ASSUME CallsOK, NEW th \in Thread, calls[th] # <<>>, Return(th)
    PROVE  /\ CallsOK'
           /\ \A u \in Thread \ {th} : calls'[u] = calls[u]
           /\ Len(calls'[th]) = Len(calls[th]) - 1
           /\ \A k \in 1..Len(calls[th]) - 1 : calls'[th][k] = calls[th][k]
  <1> DEFINE s == calls[th]
             n == Len(s)
             t == Front(s)
             X == Elems(s)
  <1>1. s \in Seq(X) /\ n \in Nat /\ n # 0 /\ \A k \in 1..n : IsFrame(s[k])
    <2>1. IsSeq(s) /\ n \in Nat /\ \A k \in 1..n : IsFrame(s[k])
      BY CallsLength DEF CallsOK
    <2>2. QED
      BY <2>1 DEF IsSeq
  <1>2. calls' = [calls EXCEPT ![th] = t] /\ calls = [u \in Thread |-> calls[u]]
    BY DEF Return, CallsOK
  <1> HIDE DEF s, X
  <1>3. t \in Seq(X) /\ Len(t) = n - 1 /\ \A k \in 1..n - 1 : t[k] = s[k]
    <2>1. t = SubSeq(s, 1, n - 1)
      BY DEF Front
    <2>2. \A k \in 1..(n - 1) : s[k] \in X
      BY <1>1
    <2> HIDE DEF n
    <2>3. QED
      BY <2>1, <2>2, <1>1, SubSeqProperties
  <1>4. IsSeq(t)
    BY <1>3, SeqIsSeq
  <1> HIDE DEF t, n
  <1>5. \A k \in 1..Len(t) : IsFrame(t[k])
    BY <1>1, <1>3
  <1>6. /\ calls'[th] = t /\ \A u \in Thread \ {th} : calls'[u] = calls[u]
        /\ calls' = [u \in Thread |-> calls'[u]]
    BY <1>2
  <1>7. CallsOK'
    BY <1>4, <1>5, <1>6 DEF CallsOK
  <1>8. QED
    BY <1>3, <1>6, <1>7 DEF s, n

\* The innermost call goes on.
LEMMA StageKeeps ==
    ASSUME CallsOK, NEW th \in Thread, calls[th] # <<>>, NEW stage, Stage(th, stage)
    PROVE  /\ CallsOK'
           /\ \A u \in Thread \ {th} : calls'[u] = calls[u]
           /\ Len(calls'[th]) = Len(calls[th])
           /\ \A k \in 1..Len(calls[th]) :
                 /\ calls'[th][k].op = calls[th][k].op
                 /\ calls[th][k].op = "tokenize" =>
                        calls'[th][k].saved = calls[th][k].saved
  <1> DEFINE s == calls[th]
             n == Len(s)
             f == [s[n] EXCEPT !.stage = stage]
             t == [s EXCEPT ![n] = f]
  <1>1. /\ IsSeq(s) /\ n \in Nat /\ n # 0 /\ DOMAIN s = 1..n
        /\ \A k \in 1..n : IsFrame(s[k])
    BY CallsLength DEF CallsOK, IsSeq
  <1>2. calls' = [calls EXCEPT ![th] = t] /\ calls = [u \in Thread |-> calls[u]]
    BY DEF Stage, CallsOK
  <1>3. n \in 1..n
    BY <1>1
  <1>4. /\ f.op = s[n].op /\ IsFrame(f)
        /\ s[n].op = "tokenize" => f.saved = s[n].saved
    <2>1. IsFrame(s[n])
      BY <1>1, <1>3
    <2>2. DOMAIN f = DOMAIN s[n] /\ \A x \in DOMAIN s[n] : x # "stage" => f[x] = s[n][x]
      OBVIOUS
    <2> HIDE DEF f, s
    <2>3. f.op = s[n].op
      BY <2>1, <2>2 DEF IsFrame
    <2>4. s[n].op = "tokenize" => f.saved = s[n].saved
      BY <2>1, <2>2 DEF IsFrame
    <2>5. QED
      BY <2>1, <2>2, <2>3, <2>4 DEF IsFrame
  <1>5. t = [k \in 1..n |-> t[k]] /\ t[n] = f /\ \A k \in 1..n : k # n => t[k] = s[k]
    BY <1>1, <1>3
  <1> HIDE DEF f, t, n, s
  <1>6. IsSeq(t) /\ Len(t) = n
    BY <1>1, <1>5, MapIsSeq
  <1>7. \A k \in 1..n : /\ t[k].op = s[k].op /\ IsFrame(t[k])
                        /\ s[k].op = "tokenize" => t[k].saved = s[k].saved
    <2>1. SUFFICES ASSUME NEW k \in 1..n
                   PROVE  /\ t[k].op = s[k].op /\ IsFrame(t[k])
                          /\ s[k].op = "tokenize" => t[k].saved = s[k].saved
      OBVIOUS
    <2>2. CASE k = n
      BY <2>2, <1>4, <1>5
    <2>3. CASE k # n
      BY <2>3, <1>1, <1>5
    <2>4. QED
      BY <2>2, <2>3
  <1>8. /\ calls'[th] = t /\ \A u \in Thread \ {th} : calls'[u] = calls[u]
        /\ calls' = [u \in Thread |-> calls'[u]]
    BY <1>2 DEF s
  <1>9. CallsOK'
    BY <1>6, <1>7, <1>8 DEF CallsOK
  <1>10. QED
    BY <1>6, <1>7, <1>8, <1>9 DEF s, n

----------------------------------------------------------------------------
(* Borrowing the tokenizer.                                                *)

\* set_mode only changes the mode and adds to the fields.
LEMMA SetModeMode ==
    ASSUME NEW tok, "mode" \in DOMAIN tok, NEW m
    PROVE  "mode" \in DOMAIN SetMode(tok, m) /\ SetMode(tok, m).mode = m
  BY DEF SetMode

\* A thread that runs Python code, or is in the pre-tokenizer, is not in
\* tokenize.
LEMMA NotTokenizing ==
    ASSUME PInv, NEW th \in Thread,
           \/ calls[th] = <<>>
           \/ calls[th] # <<>> /\ Top(th).op = "pre"
    PROVE  \A k \in 1..Len(calls[th]) : calls[th][k].op # "tokenize"
  <1>1. SUFFICES ASSUME NEW k \in 1..Len(calls[th]), calls[th][k].op = "tokenize"
                 PROVE  FALSE
    OBVIOUS
  <1>2. k = Len(calls[th])
    BY <1>1 DEF PInv, BorrowOK
  <1>3. calls[th] # <<>>
    <2>1. Len(calls[th]) # 0
      BY <1>1, <1>2, CallsLength DEF PInv
    <2>2. QED
      BY <2>1
  <1>4. QED
    BY <1>1, <1>2, <1>3 DEF Top

\* What a thread does that is not in tokenize, before and after the step, does
\* not concern the tokenizer.
LEMMA OtherCallsBorrow ==
    ASSUME PInv, CallsOK', NEW th \in Thread,
           UNCHANGED <<tokenizer, owner>>,
           \A u \in Thread \ {th} : calls'[u] = calls[u],
           \A k \in 1..Len(calls[th]) : calls[th][k].op # "tokenize",
           \A k \in 1..Len(calls'[th]) : calls'[th][k].op # "tokenize"
    PROVE  PInv'
  <1>1. ASSUME owner # {} PROVE \E u \in Thread : Tokenizing(u)'
    <2>1. PICK u \in Thread : Tokenizing(u)
      BY <1>1 DEF PInv, BorrowOK
    <2>2. u # th
      <3>1. DOMAIN calls[th] = 1..Len(calls[th])
        BY CallsLength DEF PInv
      <3>2. QED
        BY <2>1, <3>1 DEF Tokenizing
    <2>3. calls'[u] = calls[u]
      BY <2>2
    <2>4. QED
      BY <2>1, <2>3 DEF Tokenizing
  <1>2. ASSUME NEW u \in Thread, NEW k \in 1..Len(calls'[u]),
               calls'[u][k].op = "tokenize"
        PROVE  /\ owner = {u} /\ k = Len(calls'[u])
               /\ IF calls'[u][k].saved = {} THEN tokenizer.mode = Default
                  ELSE calls'[u][k].saved = {Default}
    <2>1. u # th
      BY <1>2
    <2>2. calls'[u] = calls[u]
      BY <2>1
    <2>3. QED
      BY <1>2, <2>2 DEF PInv, BorrowOK
  <1>3. BorrowOK'
    BY <1>1, <1>2 DEF PInv, BorrowOK
  <1>4. QED
    BY <1>3 DEF PInv

\* A call that goes on keeps what it has saved.
LEMMA StageBorrow ==
    ASSUME PInv, NEW th \in Thread, calls[th] # <<>>, NEW stage, Stage(th, stage),
           owner' = owner, "mode" \in DOMAIN tokenizer',
           tokenizer'.mode = tokenizer.mode
    PROVE  PInv'
  <1>1. /\ CallsOK'
        /\ \A u \in Thread : /\ Len(calls'[u]) = Len(calls[u])
                             /\ \A k \in 1..Len(calls[u]) :
                                 /\ calls'[u][k].op = calls[u][k].op
                                 /\ calls[u][k].op = "tokenize" =>
                                        calls'[u][k].saved = calls[u][k].saved
    BY StageKeeps DEF PInv
  <1>2. \A u \in Thread : /\ DOMAIN calls[u] = 1..Len(calls[u])
                          /\ DOMAIN calls'[u] = 1..Len(calls'[u])
    BY <1>1 DEF PInv, CallsOK, IsSeq
  <1>3. \A u \in Thread : Tokenizing(u) => Tokenizing(u)'
    BY <1>1, <1>2 DEF Tokenizing
  <1>4. BorrowOK'
    BY <1>1, <1>3 DEF PInv, BorrowOK
  <1>5. QED
    BY <1>1, <1>4 DEF PInv

\* The tokenizer is borrowed: nobody else is in tokenize.
LEMMA BeginTokenizeInv ==
    ASSUME PInv, NEW th \in Thread, NEW t \in Text,
           NEW m \in {{}} \cup {{x} : x \in Modes}, NEW out,
           BeginTokenize(th, t, m, out)
    PROVE  PInv'
  <1> DEFINE f == [op |-> "tokenize", stage |-> "detached", text |-> t, mode |-> m,
                   saved |-> IF m = {} THEN {} ELSE {tokenizer.mode}, out |-> out]
             n == Len(calls[th])
  <1>1. /\ owner = {} /\ owner' = {th} /\ Call(th, f)
        /\ tokenizer' = IF m = {} THEN tokenizer
                        ELSE SetMode(tokenizer, CHOOSE x \in m : TRUE)
    BY DEF BeginTokenize
  <1>2. /\ IsFrame(f) /\ f.op = "tokenize"
        /\ f.saved = IF m = {} THEN {} ELSE {tokenizer.mode}
    BY DEF IsFrame
  <1> HIDE DEF f
  <1>3. /\ CallsOK'
        /\ \A u \in Thread \ {th} : calls'[u] = calls[u]
        /\ Len(calls'[th]) = n + 1 /\ calls'[th][n + 1] = f
        /\ \A k \in 1..n : calls'[th][k] = calls[th][k]
    BY <1>1, <1>2, CallPushes DEF PInv
  <1>4. tokenizer.mode = Default /\ "mode" \in DOMAIN tokenizer
    BY <1>1 DEF PInv, BorrowOK
  <1>5. \A u \in Thread : \A k \in 1..Len(calls[u]) : calls[u][k].op # "tokenize"
    BY <1>1 DEF PInv, BorrowOK
  <1>6. n \in Nat /\ DOMAIN calls'[th] = 1..Len(calls'[th])
    BY <1>3, CallsLength DEF PInv, CallsOK, IsSeq
  <1>7. "mode" \in DOMAIN tokenizer' /\ (m = {} => tokenizer'.mode = Default)
    BY <1>1, <1>4, SetModeMode
  <1>8. Tokenizing(th)'
    <2>1. n + 1 \in DOMAIN calls'[th]
      BY <1>3, <1>6
    <2>2. QED
      BY <2>1, <1>2, <1>3 DEF Tokenizing
  <1>9. ASSUME NEW u \in Thread, NEW k \in 1..Len(calls'[u]),
               calls'[u][k].op = "tokenize"
        PROVE  /\ owner' = {u} /\ k = Len(calls'[u])
               /\ IF calls'[u][k].saved = {} THEN tokenizer'.mode = Default
                  ELSE calls'[u][k].saved = {Default}
    <2>1. u = th
      <3>1. CASE u # th
        BY <3>1, <1>3, <1>5, <1>9
      <3>2. QED
        BY <3>1
    <2>2. k = n + 1
      <3>1. CASE k \in 1..n
        BY <3>1, <2>1, <1>3, <1>5, <1>9
      <3>2. QED
        BY <3>1, <2>1, <1>3, <1>6, <1>9
    <2>3. calls'[u][k] = f
      BY <2>1, <2>2, <1>3
    <2>4. QED
      BY <2>1, <2>2, <2>3, <1>1, <1>2, <1>3, <1>4, <1>7
  <1>10. BorrowOK'
    BY <1>1, <1>7, <1>8, <1>9 DEF BorrowOK
  <1>11. QED
    BY <1>3, <1>10 DEF PInv

\* The guard of the call: however it ends, the tokenizer is given back in the
\* mode it was created with.
LEMMA EndTokenizeInv ==
    ASSUME PInv, NEW th \in Thread, calls[th] # <<>>, Top(th).op = "tokenize",
           Return(th), owner' = {},
           NEW tok, "mode" \in DOMAIN tok, tok.mode = tokenizer.mode,
           tokenizer' = Restored(th, tok)
    PROVE  PInv'
  <1> DEFINE n == Len(calls[th])
  <1>1. n \in Nat /\ n # 0 /\ n \in 1..n
    BY CallsLength DEF PInv
  <1>2. /\ CallsOK'
        /\ \A u \in Thread \ {th} : calls'[u] = calls[u]
        /\ Len(calls'[th]) = n - 1
        /\ \A k \in 1..n - 1 : calls'[th][k] = calls[th][k]
    BY ReturnPops DEF PInv
  <1>3. /\ owner = {th}
        /\ IF Top(th).saved = {} THEN tokenizer.mode = Default
           ELSE Top(th).saved = {Default}
    BY <1>1 DEF PInv, BorrowOK, Top
  <1>4. tokenizer'.mode = Default /\ "mode" \in DOMAIN tokenizer'
    <2>1. CASE Top(th).saved = {}
      BY <2>1, <1>3 DEF Restored
    <2>2. CASE Top(th).saved # {}
      <3>1. Top(th).saved = {Default}
        BY <2>2, <1>3
      <3>2. (CHOOSE m \in Top(th).saved : TRUE) = Default
        BY <3>1
      <3>3. tokenizer' = SetMode(tok, Default)
        BY <2>2, <3>2 DEF Restored
      <3>4. QED
        BY <3>3, SetModeMode
    <2>3. QED
      BY <2>1, <2>2
  <1>5. ASSUME NEW u \in Thread, NEW k \in 1..Len(calls'[u])
        PROVE  calls'[u][k].op # "tokenize"
    <2>1. CASE u = th
      <3>1. k \in 1..n - 1 /\ k \in 1..n /\ k # n
        BY <2>1, <1>1, <1>2, <1>5
      <3>2. calls[th][k].op # "tokenize"
        BY <3>1 DEF PInv, BorrowOK
      <3>3. QED
        BY <2>1, <3>1, <3>2, <1>2
    <2>2. CASE u # th
      <3>1. calls'[u] = calls[u] /\ owner # {u}
        BY <2>2, <1>2, <1>3
      <3>2. QED
        BY <3>1, <1>5 DEF PInv, BorrowOK
    <2>3. QED
      BY <2>1, <2>2
  <1>6. BorrowOK'
    BY <1>4, <1>5 DEF BorrowOK
  <1>7. QED
    BY <1>2, <1>6 DEF PInv

\* The steps of tokenize after the first.
LEMMA TokenizeInv ==
    ASSUME PInv, NEW th \in Thread, Analyse(th) \/ RaiseTokenize(th) \/ Collect(th)
    PROVE  PInv'
  <1>1. calls[th] # <<>> /\ Top(th).op = "tokenize"
    BY DEF Analyse, RaiseTokenize, Collect, At
  <1>2. "mode" \in DOMAIN tokenizer
    BY DEF PInv, BorrowOK
  <1>3. CASE Analyse(th)
    <2>1. /\ owner' = owner
          /\ \E stage : Stage(th, stage)
          /\ \/ tokenizer' = tokenizer
             \/ \E t, p : tokenizer' = [tokenizer EXCEPT !.text = t, !.path = p]
      BY <1>3 DEF Analyse
    <2>2. "mode" \in DOMAIN tokenizer' /\ tokenizer'.mode = tokenizer.mode
      BY <2>1, <1>2
    <2>3. QED
      BY <2>1, <2>2, <1>1, StageBorrow
  <1>4. CASE RaiseTokenize(th)
    <2>1. tokenizer' = Restored(th, tokenizer) /\ owner' = {} /\ Return(th)
      BY <1>4 DEF RaiseTokenize
    <2>2. QED
      BY <2>1, <1>1, <1>2, EndTokenizeInv
  <1>5. CASE Collect(th)
    <2> DEFINE tok == [tokenizer EXCEPT !.text = EmptyText, !.path = <<>>]
    <2>1. tokenizer' = Restored(th, tok) /\ owner' = {} /\ Return(th)
      BY <1>5 DEF Collect
    <2>2. "mode" \in DOMAIN tok /\ tok.mode = tokenizer.mode
      BY <1>2
    <2> HIDE DEF tok
    <2>3. QED
      BY <2>1, <2>2, <1>1, EndTokenizeInv
  <1>6. QED
    BY <1>3, <1>4, <1>5

\* The pre-tokenizer has an analyser of its own for every thread.
LEMMA PreInv ==
    ASSUME PInv, NEW th \in Thread,
           \/ \E t \in Text : BeginPre(th, t)
           \/ AnalysePre(th) \/ RaisePre(th) \/ CollectPre(th) \/ EndHandler(th)
    PROVE  PInv'
  <1> DEFINE n == Len(calls[th])
  <1>1. UNCHANGED <<tokenizer, owner>>
    BY DEF BeginPre, AnalysePre, RaisePre, CollectPre, EndHandler
  <1>2. n \in Nat /\ CallsOK
    BY CallsLength DEF PInv
  <1>3. ASSUME NEW t \in Text, BeginPre(th, t)
        PROVE  PInv'
    <2> DEFINE f == [op |-> "pre", stage |-> "detached", text |-> t]
    <2>1. Call(th, f) /\ Runs(th)
      BY <1>3 DEF BeginPre
    <2>2. IsFrame(f) /\ f.op = "pre"
      BY DEF IsFrame
    <2> HIDE DEF f
    <2>3. \A k \in 1..n : calls[th][k].op # "tokenize"
      BY <2>1, NotTokenizing DEF Runs, At
    <2>4. /\ CallsOK'
          /\ \A u \in Thread \ {th} : calls'[u] = calls[u]
          /\ Len(calls'[th]) = n + 1 /\ calls'[th][n + 1] = f
          /\ \A k \in 1..n : calls'[th][k] = calls[th][k]
      BY <2>1, <2>2, <1>2, CallPushes
    <2>5. \A k \in 1..Len(calls'[th]) : calls'[th][k].op # "tokenize"
      <3>1. \A k \in 1..Len(calls'[th]) : k \in 1..n \/ k = n + 1
        BY <2>4, <1>2
      <3>2. QED
        BY <3>1, <2>2, <2>3, <2>4
    <2>6. QED
      BY <2>3, <2>4, <2>5, <1>1, OtherCallsBorrow
  <1>4. CASE AnalysePre(th) \/ CollectPre(th)
    <2>1. calls[th] # <<>> /\ \E stage : Stage(th, stage)
      BY <1>4 DEF AnalysePre, CollectPre, At
    <2>2. "mode" \in DOMAIN tokenizer'
      BY <1>1 DEF PInv, BorrowOK
    <2>3. QED
      BY <2>1, <2>2, <1>1, StageBorrow
  <1>5. CASE RaisePre(th) \/ EndHandler(th)
    <2>1. calls[th] # <<>> /\ Top(th).op = "pre" /\ Return(th)
      BY <1>5 DEF RaisePre, EndHandler, At
    <2>2. \A k \in 1..n : calls[th][k].op # "tokenize"
      BY <2>1, NotTokenizing
    <2>3. /\ CallsOK'
          /\ \A u \in Thread \ {th} : calls'[u] = calls[u]
          /\ Len(calls'[th]) = n - 1
          /\ \A k \in 1..n - 1 : calls'[th][k] = calls[th][k]
      BY <2>1, <1>2, ReturnPops
    <2>4. \A k \in 1..Len(calls'[th]) : k \in 1..n - 1 /\ k \in 1..n
      BY <2>3, <1>2
    <2>5. \A k \in 1..Len(calls'[th]) : calls'[th][k].op # "tokenize"
      BY <2>2, <2>3, <2>4
    <2>6. QED
      BY <2>2, <2>3, <2>5, <1>1, OtherCallsBorrow
  <1>6. QED
    BY <1>3, <1>4, <1>5

\* What a program does with its lists, morphemes and iterators.
LEMMA ProgramInv ==
    ASSUME PInv, ProgramStep \/ UNCHANGED python_vars
    PROVE  PInv'
  <1>1. UNCHANGED <<tokenizer, owner, calls>>
    <2>1. CASE \E m \in Modes, out \in Out, add_single \in BOOLEAN :
                   Split(m, out, add_single)
      <3>1. PICK m \in Modes, out \in Out, add_single \in BOOLEAN :
                     Split(m, out, add_single)
        BY <2>1
      <3>2. \A l, k : SplitItem(l, k, m, out) => ListsChange
        BY DEF SplitItem
      <3>3. \A l, k : KeepItem(l, k, m, out, add_single) => ListsChange
        BY DEF KeepItem
      <3>4. \A l, k : SplitGone(l, k, out) => ListsChange
        BY DEF SplitGone
      <3>5. \A x : SplitMorpheme(x, m, out, add_single) => ListsChange
        BY DEF SplitMorpheme
      <3>6. ListsChange
        BY <3>1, <3>2, <3>3, <3>4, <3>5 DEF Split
      <3>7. QED
        BY <3>6 DEF ListsChange
    <2>2. CASE Close \/ Empty
      BY <2>2 DEF Close, Empty, ListsChange
    <2>3. CASE \E t \in Text, out \in Out :
                   Lookup(t, out) \/ LookupFails(t, out) \/ LookupAll(t, out)
      BY <2>3 DEF Lookup, LookupFails, LookupAll, ListsChange
    <2>4. CASE \/ \E l \in DOMAIN heap : \E i \in DOMAIN heap[l].items : GetItem(l, i)
               \/ GetForm \/ \E w \in Oov : GetOov(w)
      BY <2>4 DEF GetItem, TakeItem, GetForm, GetOov, ObjectIs
    <2>5. CASE \/ \E l \in DOMAIN heap : IterateList(l) \/ Drop(l)
               \/ IterateEntries
      BY <2>5 DEF IterateList, Iterate, Drop, IterateEntries, ListsChange
    <2>6. CASE NextItem \/ NextEntry \/ Forget
      BY <2>6 DEF NextItem, NextEntry, Forget, TakeItem, ObjectIs
    <2>7. CASE UNCHANGED python_vars
      BY <2>7 DEF python_vars
    <2>8. QED
      BY <2>1, <2>2, <2>3, <2>4, <2>5, <2>6, <2>7 DEF ProgramStep
  <1>2. QED
    BY <1>1 DEF PInv, CallsOK, BorrowOK, Tokenizing

LEMMA PythonStepInv == PInv /\ [PythonNext]_python_vars => PInv'
  <1>1. SUFFICES ASSUME PInv, [PythonNext]_python_vars PROVE PInv'
    OBVIOUS
  <1>2. ASSUME NEW th \in Thread, ThreadStep(th) PROVE PInv'
    BY <1>1, <1>2, BeginTokenizeInv, TokenizeInv, PreInv DEF ThreadStep
  <1>3. QED
    BY <1>1, <1>2, ProgramInv DEF PythonNext

LEMMA PythonInitInv == PythonInit => PInv
  <1>1. SUFFICES ASSUME PythonInit PROVE PInv
    OBVIOUS
  <1>2. CallsOK
    <2>1. calls = [th \in Thread |-> <<>>]
      BY <1>1 DEF PythonInit
    <2>2. IsSeq(<<>>) /\ Len(<<>>) = 0
      BY DEF IsSeq
    <2>3. QED
      BY <2>1, <2>2 DEF CallsOK
  <1>3. tokenizer.mode = Default /\ "mode" \in DOMAIN tokenizer
    <2>1. PICK s \in Subsets :
              tokenizer = [mode |-> Default, subset |-> Created(s), text |-> EmptyText,
                           path |-> <<>>]
      BY <1>1 DEF PythonInit
    <2>2. QED
      BY <2>1
  <1>4. owner = {} /\ \A th \in Thread : calls[th] = <<>> /\ Len(calls[th]) = 0
    BY <1>1 DEF PythonInit
  <1>5. BorrowOK
    BY <1>3, <1>4 DEF BorrowOK
  <1>6. QED
    BY <1>2, <1>5 DEF PInv

\* Tokenizer.tokenize: whatever the threads do in the meantime, and whether the
\* call succeeds or not, the tokenizer that no call is using can be borrowed and
\* is in the mode it was created with.
THEOREM ModeRestoredCorrect == PythonSpec => []ModeRestored
  <1>1. PInv => ModeRestored
    BY DEF PInv, BorrowOK, ModeRestored
  <1>2. QED
    BY <1>1, PythonInitInv, PythonStepInv, PTL DEF PythonSpec
----------------------------------------------------------------------------
(* The lists.                                                              *)

\* The references of a word are the ids of the words: there is at most one user
\* dictionary.
RefsStand ==
    \A w \in WordId : ~IsOov(w) =>
        \A r \in Range(Info[w].a) \cup Range(Info[w].b) : ResolveRef(r, w[1]) = r

\* Fields with which no units are read that are not resolved.
FieldsOK(s) == {"SPLIT_A", "SPLIT_B"} \subseteq s \/ RefsStand

\* The units a node has are those of its word.
NodeOK(x) ==
    /\ x.word \in WordId
    /\ \A m \in Mode : Units(x, m) = <<>> \/ Units(x, m) = Parts(x.word, m)

\* What a call is to give.
ModeOf(m) == IF m = {} THEN Default ELSE CHOOSE x \in m : TRUE

\* Only a handler makes calls, and a thread is in one at most.
FrameOK(f) ==
    /\ {"op", "stage", "text"} \subseteq DOMAIN f
    /\ f.text \in Text
    /\ f.op = "tokenize" =>
           /\ {"saved", "mode", "out"} \subseteq DOMAIN f
           /\ f.mode \in {{}} \cup {{m} : m \in Modes}
           /\ f.out \in {{}} \cup {{l} : l \in List}

NestingOK ==
    \A th \in Thread : \A k \in 1..Len(calls[th]) :
        /\ FrameOK(calls[th][k])
        /\ k # Len(calls[th]) => /\ calls[th][k].op = "pre"
                                 /\ calls[th][k].stage = "handler"
        /\ \A j \in 1..Len(calls[th]) :
               calls[th][j].op = "pre" /\ calls[th][k].op = "pre" => j = k

\* The thread that has borrowed the tokenizer has it in its mode, and has the
\* words of its text in it when the analysis is done.
TokenizerOK ==
    /\ {"mode", "subset", "text", "path"} \subseteq DOMAIN tokenizer
    /\ tokenizer.mode \in Mode /\ ModeSubset(tokenizer.mode) \subseteq tokenizer.subset
    /\ FieldsOK(tokenizer.subset)
    /\ \A th \in Thread : \A k \in 1..Len(calls[th]) :
           calls[th][k].op = "tokenize" =>
               /\ tokenizer.mode = ModeOf(calls[th][k].mode)
               /\ calls[th][k].stage = "done" =>
                      /\ tokenizer.text = calls[th][k].text
                      /\ tokenizer.path = AsAnalysed(calls[th][k].text, tokenizer.mode,
                                                     tokenizer.subset)

\* So has a thread in the pre-tokenizer, and its list is nobody else's.
CellsOK ==
    /\ cell = [th \in Thread |-> cell[th]]
    /\ \A th \in Thread :
           /\ {"text", "path", "list"} \subseteq DOMAIN cell[th]
           /\ cell[th].list \in Out
           /\ \A u \in Thread \ {th} : cell[th].list \cap cell[u].list = {}
    /\ \A th \in Thread : \A k \in 1..Len(calls[th]) : calls[th][k].op = "pre" =>
           /\ calls[th][k].stage = "done" =>
                  /\ cell[th].text = calls[th][k].text
                  /\ cell[th].path = AsAnalysed(calls[th][k].text, Default,
                                                Created(PreFields))
           /\ calls[th][k].stage = "handler" =>
                  \A l \in cell[th].list : shown[l].by = "pre" =>
                      /\ shown[l].text = calls[th][k].text
                      /\ shown[l].words = WordsOf(calls[th][k].text, Default)

\* A list x with the input p is what the call was to put there.
Holds(x, p, by, t, words) ==
    /\ IsSeq(x.items)
    /\ IF x.backing = "List"
       THEN /\ FieldsOK(p.subset)
            /\ \A y \in Elems(x.items) :
                   NodeOK(y) /\ (by # "single" => y.text = p.text)
       ELSE \A y \in Elems(x.items) : y.word \in WordId
    /\ by # "single" =>
           /\ Words(x.items) = words
           /\ x.backing = "List" /\ words # <<>> => p.text = t

InputOfList(l) == IF heap[l].backing = "List" THEN part[heap[l].input] ELSE DefaultPart

HeapOK ==
    /\ DOMAIN heap \subseteq List
    /\ heap = [l \in DOMAIN heap |-> heap[l]]
    /\ shown = [l \in DOMAIN heap |-> shown[l]]
    /\ part = [a \in Used(heap) |-> part[a]]
    /\ \A l \in DOMAIN heap :
           Holds(heap[l], InputOfList(l), shown[l].by, shown[l].text, shown[l].words)

\* What the program holds leads to lists that are there, and to words of the
\* dictionaries.
ObjectOK(x) ==
    /\ x.list \in Out
    /\ x.kind = "single" => x.list = {} /\ x.morpheme.word \in WordId

IteratorOK(x) ==
    {"list", "index"} \subseteq DOMAIN x /\ x.list \in Out /\ x.index \in Nat

ObjectsOK == (\A x \in object : ObjectOK(x)) /\ (\A x \in iterator : IteratorOK(x))

ShowInv == NestingOK /\ TokenizerOK /\ CellsOK /\ HeapOK /\ ObjectsOK

----------------------------------------------------------------------------
(* Words and their units.                                                  *)

\* Units that were asked for are read.
LEMMA UnitsRead ==
    ASSUME NEW w \in WordId, NEW m \in Mode, NEW s, ModeSubset(m) \subseteq s,
           NEW x, x.info = NodeInfo(w, s)
    PROVE  Units(x, m) = Parts(w, m)
  <1>1. CASE IsOov(w)
    <2>1. x.info.a = <<>> /\ x.info.b = <<>>
      BY <1>1 DEF NodeInfo
    <2>2. QED
      BY <1>1, <2>1 DEF Units, Parts, Mode
  <1>2. CASE ~IsOov(w)
    <2>1. x.info = GetWordInfoSubset(w, s)
      BY <1>2 DEF NodeInfo
    <2>2. CASE m = "A"
      <3>1. "SPLIT_A" \in s
        BY <2>2 DEF ModeSubset
      <3>2. x.info.a = ResolveAll(Info[w].a, w[1])
        BY <2>1, <3>1 DEF GetWordInfoSubset, Resolve, Parse
      <3>3. QED
        BY <1>2, <2>2, <3>2 DEF Units, Parts
    <2>3. CASE m = "B"
      <3>1. "SPLIT_B" \in s
        BY <2>3 DEF ModeSubset
      <3>2. x.info.b = ResolveAll(Info[w].b, w[1])
        BY <2>1, <3>1 DEF GetWordInfoSubset, Resolve, Parse
      <3>3. QED
        BY <1>2, <2>3, <3>2 DEF Units, Parts
    <2>4. CASE m = "C"
      BY <2>4 DEF Units, Parts
    <2>5. QED
      BY <2>2, <2>3, <2>4 DEF Mode
  <1>3. QED
    BY <1>1, <1>2

\* References that are ids resolve to themselves.
LEMMA ResolvesToItself ==
    ASSUME NEW refs \in Seq(Ref), NEW dict,
           \A r \in Range(refs) : ResolveRef(r, dict) = r
    PROVE  ResolveAll(refs, dict) = refs
  <1>1. \A k \in DOMAIN refs : ResolveRef(refs[k], dict) = refs[k]
    BY DEF Range
  <1>2. refs = [k \in DOMAIN refs |-> refs[k]]
    OBVIOUS
  <1>3. QED
    BY <1>1, <1>2 DEF ResolveAll

LEMMA NothingResolves == \A dict : ResolveAll(<<>>, dict) = <<>>
  BY DEF ResolveAll

\* What is read of a word is nothing, or its units.
LEMMA UnitsKnown ==
    ASSUME NEW w \in WordId, NEW s, FieldsOK(s),
           NEW x, x.word = w, x.info = NodeInfo(w, s)
    PROVE  NodeOK(x)
  <1>1. SUFFICES ASSUME NEW m \in Mode
                 PROVE  Units(x, m) = <<>> \/ Units(x, m) = Parts(w, m)
    BY DEF NodeOK
  <1>2. CASE IsOov(w)
    <2>1. x.info.a = <<>> /\ x.info.b = <<>>
      BY <1>2 DEF NodeInfo
    <2>2. QED
      BY <2>1 DEF Units, Mode
  <1>3. CASE ModeSubset(m) \subseteq s
    BY <1>3, UnitsRead
  <1>4. CASE ~IsOov(w) /\ ~(ModeSubset(m) \subseteq s)
    <2>1. RefsStand
      BY <1>4 DEF FieldsOK, ModeSubset, Mode
    <2>2. ResolveAll(Info[w].a, w[1]) = Info[w].a /\ ResolveAll(Info[w].b, w[1]) = Info[w].b
      <3>1. /\ \A r \in Range(Info[w].a) : ResolveRef(r, w[1]) = r
            /\ \A r \in Range(Info[w].b) : ResolveRef(r, w[1]) = r
        BY <1>4, <2>1 DEF RefsStand
      <3>2. Info[w].a \in Seq(Ref) /\ Info[w].b \in Seq(Ref)
        BY InfoAssumption
      <3>3. QED
        BY <3>1, <3>2, ResolvesToItself
    <2>3. x.info = GetWordInfoSubset(w, s)
      BY <1>4 DEF NodeInfo
    <2> DEFINE raw == Parse(w, s)
    <2>4. /\ raw.a \in {<<>>, Info[w].a} /\ raw.b \in {<<>>, Info[w].b}
      BY DEF Parse
    <2>5. /\ x.info.a = IF "SPLIT_A" \in s THEN ResolveAll(raw.a, w[1]) ELSE raw.a
          /\ x.info.b = IF "SPLIT_B" \in s THEN ResolveAll(raw.b, w[1]) ELSE raw.b
      BY <2>3 DEF GetWordInfoSubset, Resolve, Parse
    <2> HIDE DEF raw
    <2>6. x.info.a \in {<<>>, Info[w].a} /\ x.info.b \in {<<>>, Info[w].b}
      BY <2>2, <2>4, <2>5, NothingResolves
    <2>7. QED
      BY <1>4, <2>2, <2>6 DEF Units, Parts, Mode
  <1>5. QED
    BY <1>2, <1>3, <1>4

\* Units are words of the dictionaries.
LEMMA PartsRange ==
    ASSUME NEW w \in WordId, NEW m \in Mode
    PROVE  /\ Parts(w, m) \in Seq(WordId)
           /\ \A k \in DOMAIN Parts(w, m) : ~IsOov(Parts(w, m)[k])
  <1>1. CASE IsOov(w) \/ m = "C"
    <2>1. Parts(w, m) = <<>> /\ DOMAIN <<>> = {}
      BY <1>1 DEF Parts
    <2>2. QED
      BY <2>1
  <1>2. CASE ~(IsOov(w) \/ m = "C")
    <2> DEFINE refs == IF m = "A" THEN Info[w].a ELSE Info[w].b
               f == [k \in 1..Len(refs) |-> ResolveRef(refs[k], w[1])]
    <2>1. refs \in Seq(Ref) /\ \A r \in Range(refs) : ResolveRef(r, w[1]) \in WordId
      BY InfoAssumption
    <2>2. Parts(w, m) = ResolveAll(refs, w[1])
      BY <1>2 DEF Parts
    <2> HIDE DEF refs
    <2>3. Len(refs) \in Nat /\ DOMAIN refs = 1..Len(refs)
      BY <2>1
    <2>4. Parts(w, m) = f
      BY <2>2, <2>3 DEF ResolveAll
    <2>5. ASSUME NEW k \in 1..Len(refs)
          PROVE  f[k] \in WordId /\ ~IsOov(f[k])
      <3>1. refs[k] \in Range(refs)
        BY <2>3 DEF Range
      <3>2. f[k] = ResolveRef(refs[k], w[1])
        OBVIOUS
      <3>3. ~IsOov(ResolveRef(refs[k], w[1]))
        BY <1>2 DEF ResolveRef, IsOov, OovDict
      <3>4. QED
        BY <2>1, <3>1, <3>2, <3>3
    <2>6. f \in [1..Len(refs) -> WordId] /\ DOMAIN f = 1..Len(refs)
      BY <2>5
    <2> HIDE DEF f
    <2>7. f \in Seq(WordId)
      BY <2>3, <2>6, FunctionIsSeq
    <2>8. QED
      BY <2>4, <2>5, <2>6, <2>7
  <1>3. QED
    BY <1>1, <1>2

\* The nodes a split makes are those of the units.
LEMMA SplitNodeWords ==
    ASSUME NEW x, NodeOK(x), NEW m \in Mode, Units(x, m) # <<>>, NEW s, FieldsOK(s)
    PROVE  LET p == SplitNode(x, m, s)
           IN  /\ IsSeq(p) /\ Words(p) = Parts(x.word, m)
               /\ \A y \in Elems(p) : NodeOK(y) /\ y.text = x.text
  <1> DEFINE p == SplitNode(x, m, s)
             us == Units(x, m)
  <1>1. us = Parts(x.word, m) /\ x.word \in WordId
    BY DEF NodeOK
  <1>2. us \in Seq(WordId) /\ \A k \in DOMAIN us : ~IsOov(us[k])
    BY <1>1, PartsRange
  <1>3. Len(us) \in Nat /\ DOMAIN us = 1..Len(us) /\ us = [k \in 1..Len(us) |-> us[k]]
    BY <1>2
  <1>4. p = [k \in 1..Len(us) |-> p[k]]
    BY <1>3 DEF SplitNode
  <1>5. ASSUME NEW k \in 1..Len(us)
        PROVE  /\ p[k].word = us[k] /\ p[k].text = x.text
               /\ p[k].info = NodeInfo(us[k], s)
    <2>1. p[k] = UnitNode(x, m, k, s)
      BY <1>3 DEF SplitNode
    <2>2. /\ p[k].word = us[k] /\ p[k].text = x.text
          /\ p[k].info = GetWordInfoSubset(us[k], s)
      BY <2>1 DEF UnitNode, UnitInfo
    <2>3. QED
      BY <1>2, <1>3, <2>2 DEF NodeInfo
  <1> HIDE DEF p, us
  <1>6. IsSeq(p) /\ DOMAIN p = 1..Len(us)
    BY <1>3, <1>4, MapIsSeq
  <1>7. Words(p) = us
    BY <1>3, <1>5, <1>6 DEF Words
  <1>8. ASSUME NEW k \in 1..Len(us) PROVE NodeOK(p[k])
    <2>1. us[k] \in WordId
      BY <1>2
    <2>2. QED
      BY <1>5, <2>1, UnitsKnown
  <1>9. QED
    BY <1>1, <1>5, <1>6, <1>7, <1>8 DEF Elems, p

LEMMA SingleSeq ==
    ASSUME NEW x
    PROVE  /\ IsSeq(<<x>>) /\ Len(<<x>>) = 1 /\ <<x>>[1] = x /\ Elems(<<x>>) = {x}
           /\ Words(<<x>>) = <<x.word>>
  <1>1. <<x>> \in Seq({x})
    OBVIOUS
  <1>2. DOMAIN <<x>> = 1..1 /\ <<x>>[1] = x /\ Len(<<x>>) = 1
    OBVIOUS
  <1>3. Words(<<x>>) = [k \in 1..1 |-> <<x>>[k].word]
    BY <1>2 DEF Words
  <1>4. [k \in 1..1 |-> <<x>>[k].word] = <<x.word>>
    OBVIOUS
  <1>5. Elems(<<x>>) = {x}
    <2> DEFINE t == <<x>>
    <2>1. DOMAIN t = {1} /\ t[1] = x
      OBVIOUS
    <2> HIDE DEF t
    <2>2. Elems(t) = {x}
      BY <2>1 DEF Elems
    <2>3. QED
      BY <2>2 DEF t
  <1>6. IsSeq(<<x>>)
    BY <1>1, SeqIsSeq
  <1>7. QED
    BY <1>2, <1>3, <1>4, <1>5, <1>6

LEMMA NoItems ==
    ASSUME NEW s, s = <<>>
    PROVE  IsSeq(s) /\ Len(s) = 0 /\ Elems(s) = {} /\ Words(s) = s
  <1>1. DOMAIN s = {} /\ Len(s) = 0 /\ s = [k \in {} |-> s[k]]
    OBVIOUS
  <1>2. Elems(s) = {}
    BY <1>1 DEF Elems
  <1>3. s \in Seq({})
    OBVIOUS
  <1>4. Words(s) = s
    BY <1>1 DEF Words
  <1>5. QED
    BY <1>1, <1>2, <1>3, <1>4 DEF IsSeq

\* Nodes of the text t.
NodesOf(p, t) == IsSeq(p) /\ \A x \in Elems(p) : NodeOK(x) /\ x.text = t

LEMMA BestNodesOf ==
    ASSUME NEW t \in Text, NEW s, FieldsOK(s)
    PROVE  LET b == BestNodes(t, s)
               n == Len(BestPath[t])
           IN  /\ n \in Nat /\ DOMAIN BestPath[t] = 1..n /\ DOMAIN b = 1..n
               /\ b = [k \in 1..n |-> b[k]]
               /\ \A k \in 1..n :
                     /\ NodeOK(b[k]) /\ b[k].text = t /\ b[k].word = BestPath[t][k]
                     /\ b[k].word \in WordId
                     /\ b[k].info = NodeInfo(BestPath[t][k], s)
  <1> DEFINE b == BestNodes(t, s)
             n == Len(BestPath[t])
  <1>1. n \in Nat /\ BestPath[t] \in Seq(WordId) /\ DOMAIN BestPath[t] = 1..n
    BY TextAssumption
  <1>2. b = [k \in 1..n |-> b[k]] /\ DOMAIN b = 1..n
    BY <1>1 DEF BestNodes
  <1>3. ASSUME NEW k \in 1..n
        PROVE  /\ b[k].text = t /\ b[k].word = BestPath[t][k]
               /\ b[k].info = NodeInfo(BestPath[t][k], s)
    BY <1>1 DEF BestNodes
  <1> HIDE DEF b
  <1>4. ASSUME NEW k \in 1..n PROVE NodeOK(b[k]) /\ b[k].word \in WordId
    <2>1. BestPath[t][k] \in WordId
      BY <1>1
    <2>2. QED
      BY <1>3, <2>1, UnitsKnown
  <1>5. QED
    BY <1>1, <1>2, <1>3, <1>4 DEF b

\* The words of an analysis in a mode whose fields are read are those of the
\* text in this mode.
LEMMA AnalysedWords ==
    ASSUME NEW t \in Text, NEW m \in Mode, NEW s, ModeSubset(m) \subseteq s, FieldsOK(s)
    PROVE  NodesOf(AsAnalysed(t, m, s), t) /\ Words(AsAnalysed(t, m, s)) = WordsOf(t, m)
  <1> DEFINE n == Len(BestPath[t])
             b == BestNodes(t, s)
             ss == [k \in 1..n |-> IF Len(Units(b[k], m)) =< 1 THEN <<b[k]>>
                                   ELSE SplitNode(b[k], m, s)]
             us == [k \in 1..n |->
                       IF Len(Parts(BestPath[t][k], m)) =< 1 THEN <<BestPath[t][k]>>
                       ELSE Parts(BestPath[t][k], m)]
             p == AsAnalysed(t, m, s)
  <1>1. /\ n \in Nat /\ DOMAIN BestPath[t] = 1..n /\ DOMAIN b = 1..n
        /\ b = [k \in 1..n |-> b[k]]
    BY BestNodesOf
  <1>2. ASSUME NEW k \in 1..n
        PROVE  /\ NodeOK(b[k]) /\ b[k].text = t /\ b[k].word = BestPath[t][k]
               /\ Units(b[k], m) = Parts(BestPath[t][k], m)
    <2>1. /\ NodeOK(b[k]) /\ b[k].text = t /\ b[k].word = BestPath[t][k]
          /\ b[k].word \in WordId /\ b[k].info = NodeInfo(BestPath[t][k], s)
      BY BestNodesOf
    <2>2. QED
      BY <2>1, UnitsRead
  <1>3. WordsOf(t, m) = FlattenSeq(us)
    BY <1>1 DEF WordsOf
  <1> HIDE DEF b
  <1>4. p = FlattenSeq(ss)
    <2>1. p = SplitPath(b, m, s)
      BY DEF AsAnalysed, b
    <2>2. CASE m # "C"
      BY <1>1, <2>1, <2>2 DEF SplitPath
    <2>3. CASE m = "C"
      <3>1. \A k \in 1..n : Len(Units(b[k], m)) =< 1
        <4>1. \A k \in 1..n : Units(b[k], m) = <<>>
          BY <2>3 DEF Units
        <4>2. Len(<<>>) = 0
          OBVIOUS
        <4>3. QED
          BY <4>1, <4>2
      <3>2. ss = [k \in 1..n |-> <<b[k]>>]
        BY <3>1
      <3>3. FlattenSeq([k \in 1..n |-> <<b[k]>>]) = b
        BY <1>1, FlattenSingles
      <3> HIDE DEF ss
      <3>4. QED
        BY <2>1, <2>3, <3>2, <3>3 DEF SplitPath
    <2>4. QED
      BY <2>2, <2>3
  <1> HIDE DEF p
  <1>5. ASSUME NEW k \in 1..n
        PROVE  NodesOf(ss[k], t) /\ Words(ss[k]) = us[k]
    <2>1. CASE Len(Units(b[k], m)) =< 1
      <3>1. ss[k] = <<b[k]>> /\ us[k] = <<b[k].word>>
        BY <1>2, <2>1
      <3>2. NodeOK(b[k]) /\ b[k].text = t
        BY <1>2
      <3> DEFINE x == b[k]
                 q == <<x>>
      <3>3. ss[k] = q /\ us[k] = <<x.word>> /\ NodeOK(x) /\ x.text = t
        BY <3>1, <3>2
      <3>4. IsSeq(q) /\ Elems(q) = {x} /\ Words(q) = <<x.word>>
        BY SingleSeq
      <3> HIDE DEF ss, us, x, q
      <3>5. QED
        BY <3>3, <3>4 DEF NodesOf
    <2>2. CASE ~(Len(Units(b[k], m)) =< 1)
      <3>1. ss[k] = SplitNode(b[k], m, s) /\ us[k] = Parts(b[k].word, m)
        BY <1>2, <2>2
      <3>2. Units(b[k], m) # <<>>
        <4>1. Len(<<>>) = 0
          OBVIOUS
        <4>2. QED
          BY <2>2, <4>1
      <3> HIDE DEF ss, us
      <3>3. QED
        BY <1>2, <3>1, <3>2, SplitNodeWords DEF NodesOf
    <2>3. QED
      BY <2>1, <2>2
  <1>6. ss = [k \in 1..n |-> ss[k]] /\ us = [k \in 1..n |-> us[k]]
    OBVIOUS
  <1>7. CASE n = 0
    <2>1. ss = <<>> /\ us = <<>>
      BY <1>7
    <2>2. FlattenSeq(<<>>) = <<>>
      BY DEF FlattenSeq
    <2> HIDE DEF ss, us
    <2>3. p = <<>> /\ WordsOf(t, m) = <<>>
      BY <1>3, <1>4, <2>1, <2>2
    <2>4. IsSeq(p) /\ Elems(p) = {} /\ Words(p) = p
      BY <2>3, NoItems
    <2>5. QED
      BY <2>3, <2>4 DEF NodesOf, p
  <1>8. CASE n # 0
    <2> DEFINE X == UNION {Elems(ss[i]) : i \in 1..n}
               F == [x \in X |-> x.word]
    <2>1. ASSUME NEW q, IsSeq(q), Elems(q) \subseteq X
          PROVE  Words(q) = Mapped(F, q)
      <3>1. \A k \in DOMAIN q : q[k] \in X
        BY <2>1 DEF Elems
      <3> HIDE DEF X
      <3>2. \A k \in DOMAIN q : F[q[k]] = q[k].word
        BY <3>1
      <3> HIDE DEF F
      <3>3. QED
        BY <3>2 DEF Words, Mapped
    <2> HIDE DEF ss, us
    <2>2. ASSUME NEW k \in 1..n PROVE IsSeq(ss[k]) /\ us[k] = Mapped(F, ss[k])
      <3>1. IsSeq(ss[k]) /\ Words(ss[k]) = us[k]
        BY <1>5 DEF NodesOf
      <3>2. Elems(ss[k]) \subseteq X
        OBVIOUS
      <3> HIDE DEF X, F
      <3>3. QED
        BY <2>1, <3>1, <3>2
    <2>3. /\ IsSeq(p) /\ Elems(p) \subseteq X
          /\ \A x \in Elems(p) : \E i \in 1..n : x \in Elems(ss[i])
      <3>1. /\ IsSeq(p)
            /\ \A x \in Elems(p) : \E i \in 1..n : x \in Elems(ss[i])
        BY <1>1, <1>4, <1>6, <2>2, FlattenElems
      <3>2. QED
        BY <3>1
    <2> HIDE DEF X, F
    <2>4. FlattenSeq(us) = Mapped(F, p)
      <3>1. AreImages(F, ss, us, n)
        BY <2>2 DEF AreImages
      <3>2. n \in Nat /\ n > 0
        BY <1>1, <1>8
      <3> HIDE DEF n
      <3>3. QED
        BY <1>4, <1>6, <3>1, <3>2, FlattenMapped
    <2>5. Words(p) = Mapped(F, p)
      BY <2>1, <2>3
    <2>6. QED
      BY <1>3, <1>5, <2>3, <2>4, <2>5 DEF NodesOf, p
  <1>9. QED
    BY <1>7, <1>8

\* A tokenizer begins with the fields of its mode.
LEMMA CreatedFields ==
    ASSUME SplitsResolved, NEW s \in Subsets \cup {PreFields}
    PROVE  FieldsOK(Created(s)) /\ ModeSubset(Default) \subseteq Created(s)
  <1>1. s \cup ModeSubset(Default) \subseteq Created(s)
    BY DEF Created, Normalize
  <1>2. {"SPLIT_A", "SPLIT_B"} \subseteq s \/ RefsStand
    BY DEF SplitsResolved, RefsStand
  <1>3. QED
    BY <1>1, <1>2 DEF FieldsOK

\* What lookup finds.
LEMMA FoundNodesOf ==
    ASSUME NEW t \in Text
    PROVE  /\ NodesOf(FoundNodes(t, Field), t)
           /\ Words(FoundNodes(t, Field)) = Found[t]
  <1> DEFINE n == Len(Found[t])
             p == FoundNodes(t, Field)
  <1>1. /\ Found[t] \in Seq(WordId) /\ n \in Nat /\ DOMAIN Found[t] = 1..n
        /\ Found[t] = [k \in 1..n |-> Found[t][k]]
    BY FoundAssumption
  <1>2. p = [k \in 1..n |-> p[k]]
    BY <1>1 DEF FoundNodes
  <1>3. ASSUME NEW k \in 1..n
        PROVE  /\ p[k].text = t /\ p[k].word = Found[t][k]
               /\ p[k].info = GetWordInfoSubset(Found[t][k], Field)
    BY <1>1 DEF FoundNodes
  <1> HIDE DEF p
  <1>4. IsSeq(p) /\ DOMAIN p = 1..n
    BY <1>1, <1>2, MapIsSeq
  <1>5. Words(p) = Found[t]
    BY <1>1, <1>3, <1>4 DEF Words
  <1>6. ASSUME NEW k \in 1..n PROVE NodeOK(p[k])
    <2>1. Found[t][k] \in WordId /\ Found[t][k] \in Range(Found[t])
      BY <1>1 DEF Range
    <2>2. ~IsOov(Found[t][k])
      BY <2>1, FoundAssumption
    <2>3. p[k].info = NodeInfo(Found[t][k], Field)
      BY <1>3, <2>2 DEF NodeInfo
    <2>4. FieldsOK(Field)
      BY DEF FieldsOK, Field
    <2>5. QED
      BY <1>3, <2>1, <2>3, <2>4, UnitsKnown
  <1>7. QED
    BY <1>3, <1>4, <1>5, <1>6 DEF NodesOf, Elems, p

\* What splitting a morpheme on its own gives: its units, or itself.
UnitsOf(w, m) == IF Parts(w, m) = <<>> THEN <<w>> ELSE Parts(w, m)

LEMMA SplitSingleWords ==
    ASSUME NEW x, x.word \in WordId, NEW m \in Mode
    PROVE  LET p == SplitSingle(x, m)
           IN  /\ IsSeq(p) /\ Words(p) = UnitsOf(x.word, m)
               /\ \A y \in Elems(p) : y.word \in WordId
               /\ Len(p) = 1 /\ p[1].word = x.word <=> UnitsOf(x.word, m) = <<x.word>>
  <1> DEFINE p == SplitSingle(x, m)
             us == Parts(x.word, m)
             n == Len(us)
             w == x.word
             s == IF ModeSubset(m) \subseteq x.subset THEN x.subset
                  ELSE Normalize(x.subset \cup ModeSubset(m))
             r == [info |-> NodeInfo(x.word, s)]
  <1>1. us \in Seq(WordId) /\ n \in Nat /\ DOMAIN us = 1..n /\ us = [k \in 1..n |-> us[k]]
    <2>1. us \in Seq(WordId)
      BY PartsRange
    <2> HIDE DEF us
    <2>2. QED
      BY <2>1
  <1>2. SingleUnits(x, m) = us
    <2>1. ModeSubset(m) \subseteq s
      BY DEF Normalize
    <2>2. r.info = NodeInfo(x.word, s)
      OBVIOUS
    <2>3. SingleUnits(x, m) = Units(r, m)
      BY DEF SingleUnits, Units
    <2> HIDE DEF s, r
    <2>4. Units(r, m) = Parts(x.word, m)
      BY <2>1, <2>2, UnitsRead
    <2>5. QED
      BY <2>3, <2>4
  <1>3. us \in {<<>>, <<w>>} => p = <<x>>
    BY <1>2 DEF SplitSingle
  <1>4. us \notin {<<>>, <<w>>} =>
            p = [k \in 1..n |-> p[k]] /\ \A k \in 1..n : p[k].word = us[k]
    <2>1. CASE us \notin {<<>>, <<w>>} /\ n = 1
      <3>1. p = <<[FromWordId(us[1], x.subset) EXCEPT !.begin = x.begin, !.end = x.end]>>
        BY <1>2, <2>1 DEF SplitSingle
      <3> DEFINE y == [FromWordId(us[1], x.subset) EXCEPT !.begin = x.begin, !.end = x.end]
      <3>2. y.word = us[1]
        BY DEF FromWordId
      <3>3. p = <<y>>
        BY <3>1
      <3> HIDE DEF y, p
      <3>4. p = [k \in 1..1 |-> p[k]] /\ p[1] = y
        BY <3>3
      <3>5. QED
        BY <2>1, <3>2, <3>4
    <2>2. CASE us \notin {<<>>, <<w>>} /\ n # 1
      <3> DEFINE su == SingleUnits(x, m)
                 e[k \in 0..Len(su)] ==
                    IF k = 0 THEN x.begin ELSE e[k - 1] + Info[su[k]].length
      <3>0. p = [k \in DOMAIN su |->
                [FromWordId(su[k], x.subset) EXCEPT !.begin = e[k - 1], !.end = e[k]]]
        BY <1>2, <2>2 DEF SplitSingle
      <3> HIDE DEF e
      <3>1. p = [k \in DOMAIN us |->
                [FromWordId(us[k], x.subset) EXCEPT !.begin = e[k - 1], !.end = e[k]]]
        BY <1>2, <3>0
      <3> HIDE DEF p, us, n
      <3>2. p = [k \in 1..n |-> p[k]]
        BY <1>1, <3>1
      <3>3. ASSUME NEW k \in 1..n PROVE p[k].word = us[k]
        <4>1. p[k] = [FromWordId(us[k], x.subset) EXCEPT !.begin = e[k - 1], !.end = e[k]]
          BY <1>1, <3>1
        <4>2. QED
          BY <4>1 DEF FromWordId
      <3>4. QED
        BY <3>2, <3>3
    <2>3. QED
      BY <2>1, <2>2
  <1> HIDE DEF p, us
  <1>5. UnitsOf(w, m) = IF us = <<>> THEN <<w>> ELSE us
    BY DEF UnitsOf, us
  <1>6. CASE us \in {<<>>, <<w>>}
    <2>1. UnitsOf(w, m) = <<w>> /\ p = <<x>>
      BY <1>3, <1>5, <1>6
    <2> DEFINE q == <<x>>
    <2>2. /\ IsSeq(q) /\ Words(q) = <<x.word>> /\ Elems(q) = {x} /\ Len(q) = 1
          /\ q[1] = x
      BY SingleSeq
    <2> HIDE DEF q
    <2>3. p = q
      BY <2>1 DEF q
    <2>4. QED
      BY <2>1, <2>2, <2>3 DEF p
  <1>7. CASE us \notin {<<>>, <<w>>}
    <2>1. UnitsOf(w, m) = us
      BY <1>5, <1>7
    <2>2. IsSeq(p) /\ Len(p) = n /\ DOMAIN p = 1..n /\ \A k \in 1..n : p[k].word = us[k]
      BY <1>1, <1>4, <1>7, MapIsSeq
    <2>3. Words(p) = us
      BY <1>1, <2>2 DEF Words
    <2>4. \A y \in Elems(p) : y.word \in WordId
      BY <1>1, <2>2 DEF Elems
    <2>5. ~(Len(p) = 1 /\ p[1].word = w)
      <3>1. SUFFICES ASSUME n = 1, us[1] = w PROVE FALSE
        BY <2>2
      <3>2. us = <<w>>
        BY <1>1, <3>1
      <3>3. QED
        BY <1>7, <3>2
    <2>6. QED
      BY <2>1, <2>2, <2>3, <2>4, <2>5, <1>7 DEF p
  <1>8. QED
    BY <1>6, <1>7

\* The singles of a list of words.
LEMMA SinglesOf ==
    ASSUME NEW ws \in Seq(WordId)
    PROVE  LET p == [k \in DOMAIN ws |-> FromWordId(ws[k], Field)]
           IN  IsSeq(p) /\ Words(p) = ws /\ \A y \in Elems(p) : y.word \in WordId
  <1> DEFINE n == Len(ws)
             p == [k \in DOMAIN ws |-> FromWordId(ws[k], Field)]
  <1>1. n \in Nat /\ DOMAIN ws = 1..n /\ ws = [k \in 1..n |-> ws[k]]
        /\ \A k \in 1..n : ws[k] \in WordId
    OBVIOUS
  <1>2. p = [k \in 1..n |-> p[k]] /\ \A k \in 1..n : p[k].word = ws[k]
    BY <1>1 DEF FromWordId
  <1> HIDE DEF p, n
  <1>3. IsSeq(p) /\ DOMAIN p = 1..n
    BY <1>1, <1>2, MapIsSeq
  <1>4. QED
    BY <1>1, <1>2, <1>3 DEF Words, Elems, p

LEMMA AllMatchesWords ==
    ASSUME NEW t \in Text
    PROVE  AllMatches(t) \in Seq(WordId)
  <1> DEFINE n == Len(Entries)
             ss == [k \in DOMAIN Entries |->
                       IF Entries[k] \in Same[t] THEN <<Entries[k]>> ELSE <<>>]
  <1>1. n \in Nat /\ DOMAIN Entries = 1..n /\ \A k \in 1..n : Entries[k] \in WordId
    BY BindingAssumption
  <1>2. ASSUME NEW k \in 1..n PROVE ss[k] \in Seq(WordId)
    <2>1. Entries[k] \in WordId
      BY <1>1
    <2>2. <<Entries[k]>> \in Seq(WordId) /\ <<>> \in Seq(WordId)
      BY <2>1
    <2>3. QED
      BY <1>1, <2>2
  <1>3. ss \in [1..n -> Seq(WordId)]
    BY <1>1, <1>2
  <1> HIDE DEF ss
  <1>4. ss \in Seq(Seq(WordId))
    BY <1>1, <1>3, FunctionIsSeq
  <1>5. FlattenSeq(ss) \in Seq(WordId)
    BY <1>4, FlattenRange
  <1>6. QED
    BY <1>5 DEF AllMatches, ss

----------------------------------------------------------------------------
(* A list is given something new.                                          *)

LEMMA ListsOfOut ==
    ASSUME HeapOK, NEW out, out \in {{}} \cup {{l} : l \in List}
    PROVE  ListOf(out) \subseteq List
  <1>1. Unborn # {} => (CHOOSE l \in List : l \in Unborn) \in List
    BY DEF Unborn
  <1>2. NewList \subseteq List
    BY <1>1 DEF NewList
  <1>3. QED
    BY <1>2 DEF ListOf

LEMMA OutIsList ==
    ASSUME HeapOK
    PROVE  Out \subseteq {{}} \cup {{l} : l \in List}
  BY DEF HeapOK, Out

\* There are more addresses than lists that keep one when l is given a new
\* input.
LEMMA NewInputIsNew ==
    ASSUME HeapOK, NEW l \in List
    PROVE  \A k \in DOMAIN heap \ {l} :
               heap[k].backing = "List" => heap[k].input # NewInput(l)
  <1> DEFINE h == [k \in DOMAIN heap \ {l} |-> heap[k]]
             S == List \ {l}
             f == [a \in Address |->
                      CHOOSE k \in DOMAIN h : h[k].backing = "List" /\ h[k].input = a]
  <1>1. IsFiniteSet(List) /\ IsFiniteSet(S) /\ Cardinality(S) = Cardinality(List) - 1
    BY BindingAssumption, FS_RemoveElement
  <1>2. Cardinality(List) \in Nat
    BY <1>1, FS_CardinalityType
  <1>3. Cardinality(Address) = Cardinality(List) /\ IsFiniteSet(Address)
    <2>1. IsFiniteSet(1..Cardinality(List))
          /\ Cardinality(1..Cardinality(List)) = Cardinality(List)
      BY <1>2, FS_Interval
    <2>2. QED
      BY <2>1 DEF Address
  <1>4. DOMAIN h \subseteq S
    BY DEF HeapOK
  <1>5. \E a \in Address : a \notin Used(h)
    <2>1. SUFFICES ASSUME Address \subseteq Used(h) PROVE FALSE
      OBVIOUS
    <2>2. ASSUME NEW a \in Address
          PROVE  f[a] \in DOMAIN h /\ h[f[a]].input = a
      <3>1. \E k \in DOMAIN h : h[k].backing = "List" /\ h[k].input = a
        BY <2>1 DEF Used
      <3>2. QED
        BY <3>1
    <2>3. f \in [Address -> S]
      BY <2>2, <1>4
    <2> HIDE DEF f, S, h
    <2>4. Cardinality(S) < Cardinality(Address)
      BY <1>1, <1>2, <1>3
    <2>5. PICK a \in Address, b \in Address : a # b /\ f[a] = f[b]
      BY <1>1, <1>3, <2>3, <2>4, FS_PigeonHole
    <2>6. QED
      BY <2>2, <2>5
  <1>6. NewInput(l) \notin Used(h)
    BY <1>5 DEF NewInput
  <1>7. QED
    BY <1>6 DEF Used

\* p goes with the input of x: no other list has it, or one that has it already.
GoesWith(l, x, p) ==
    x.backing = "List" =>
        \A k \in DOMAIN heap \ {l} :
            heap[k].backing = "List" /\ heap[k].input = x.input => part[x.input] = p

LEMMA Installs ==
    ASSUME HeapOK, NEW l \in List, NEW x, NEW p, NEW by, NEW t, NEW words,
           Install(l, x, p), Show(l, by, t, words),
           Holds(x, p, by, t, words), GoesWith(l, x, p)
    PROVE  /\ HeapOK'
           /\ DOMAIN heap' = DOMAIN heap \cup {l}
           /\ \A k \in DOMAIN heap \ {l} : shown'[k] = shown[k]
           /\ shown'[l].by = by /\ shown'[l].text = t /\ shown'[l].words = words
  <1>1. /\ DOMAIN heap' = DOMAIN heap \cup {l} /\ heap'[l] = x
        /\ \A k \in DOMAIN heap \ {l} : heap'[k] = heap[k]
        /\ heap' = [k \in DOMAIN heap' |-> heap'[k]]
    BY DEF Install
  <1>2. DOMAIN shown = DOMAIN heap
    BY DEF HeapOK
  <1>3. /\ shown' = [k \in DOMAIN heap' |-> shown'[k]]
        /\ shown'[l] = [by |-> by, text |-> t, words |-> words]
        /\ \A k \in DOMAIN heap \ {l} : shown'[k] = shown[k]
    BY <1>1, <1>2 DEF Show
  <1>4. shown'[l].by = by /\ shown'[l].text = t /\ shown'[l].words = words
    BY <1>3
  <1>5. /\ part' = [a \in Used(heap)' |-> part'[a]]
        /\ \A a \in Used(heap)' :
              part'[a] = IF x.backing = "List" /\ a = x.input THEN p ELSE part[a]
    BY DEF Install, Used
  <1>6. \A k \in DOMAIN heap' :
            heap'[k].backing = "List" => heap'[k].input \in Used(heap)'
    BY DEF Used
  <1>7. x.backing = "List" => InputOfList(l)' = p
    BY <1>1, <1>5, <1>6 DEF InputOfList
  <1>8. \A k \in DOMAIN heap \ {l} : InputOfList(k)' = InputOfList(k)
    BY <1>1, <1>5, <1>6 DEF InputOfList, GoesWith
  <1>9. Holds(heap'[l], InputOfList(l)', shown'[l].by, shown'[l].text, shown'[l].words)
    <2>1. CASE x.backing = "List"
      BY <2>1, <1>1, <1>4, <1>7
    <2>2. CASE x.backing # "List"
      BY <2>2, <1>1, <1>4 DEF Holds
    <2>3. QED
      BY <2>1, <2>2
  <1>10. ASSUME NEW k \in DOMAIN heap \ {l}
         PROVE  Holds(heap'[k], InputOfList(k)', shown'[k].by, shown'[k].text,
                      shown'[k].words)
    BY <1>1, <1>3, <1>8 DEF HeapOK
  <1>11. HeapOK'
    <2>1. DOMAIN heap' \subseteq List
      BY <1>1 DEF HeapOK
    <2>2. \A k \in DOMAIN heap' :
             Holds(heap'[k], InputOfList(k)', shown'[k].by, shown'[k].text,
                   shown'[k].words)
      BY <1>1, <1>9, <1>10
    <2>3. QED
      BY <1>1, <1>3, <1>5, <2>1, <2>2 DEF HeapOK
  <1>12. QED
    BY <1>1, <1>3, <1>4, <1>11

\* A call of the program that gives a list something new, which is never what a
\* handler is called for.
LEMMA ListStep ==
    ASSUME ShowInv, NEW l \in List, NEW x, NEW p, NEW by, NEW t, NEW words,
           Install(l, x, p), Show(l, by, t, words),
           Holds(x, p, by, t, words), GoesWith(l, x, p),
           by # "pre", ListsChange
    PROVE  ShowInv'
  <1>1. UNCHANGED <<tokenizer, cell, calls, object, iterator>>
    BY DEF ListsChange
  <1>2. /\ HeapOK' /\ DOMAIN heap' = DOMAIN heap \cup {l}
        /\ \A k \in DOMAIN heap \ {l} : shown'[k] = shown[k]
        /\ shown'[l].by = by
    <2>1. HeapOK
      BY DEF ShowInv
    <2>2. QED
      BY <2>1, Installs
  <1>3. Out \subseteq Out'
    BY <1>2 DEF Out
  <1>4. CellsOK'
    <2>1. ASSUME NEW th \in Thread, NEW k \in 1..Len(calls[th]),
                 calls[th][k].op = "pre", calls[th][k].stage = "handler",
                 NEW o \in cell[th].list, shown'[o].by = "pre"
          PROVE  /\ shown'[o].text = calls[th][k].text
                 /\ shown'[o].words = WordsOf(calls[th][k].text, Default)
      <3>1. o # l
        BY <1>2, <2>1
      <3>2. o \in DOMAIN heap
        <4>1. cell[th].list \in Out
          BY DEF ShowInv, CellsOK
        <4>2. QED
          BY <2>1, <4>1 DEF Out
      <3>3. shown'[o] = shown[o]
        BY <1>2, <3>1, <3>2
      <3>4. QED
        BY <2>1, <3>3 DEF ShowInv, CellsOK
    <2>2. QED
      BY <1>1, <1>3, <2>1 DEF ShowInv, CellsOK
  <1>5. NestingOK' /\ TokenizerOK' /\ ObjectsOK'
    BY <1>1, <1>3 DEF ShowInv, NestingOK, TokenizerOK, ObjectsOK, ObjectOK, IteratorOK
  <1>6. QED
    BY <1>2, <1>4, <1>5 DEF ShowInv

\* A list of nodes that gets an input of its own.
LEMMA NewListStep ==
    ASSUME ShowInv, NEW l \in List, NEW nodes, NEW p, NEW by, NEW t, NEW words,
           Install(l, OfNodes(NewInput(l), nodes), p), Show(l, by, t, words),
           IsSeq(nodes), FieldsOK(p.subset),
           \A y \in Elems(nodes) : NodeOK(y) /\ (by # "single" => y.text = p.text),
           by # "single" => Words(nodes) = words /\ (words # <<>> => p.text = t),
           by # "pre", ListsChange
    PROVE  ShowInv'
  <1> DEFINE x == OfNodes(NewInput(l), nodes)
  <1>1. x.backing = "List" /\ x.input = NewInput(l) /\ x.items = nodes
    BY DEF OfNodes
  <1>2. Install(l, x, p)
    OBVIOUS
  <1> HIDE DEF x
  <1>3. Holds(x, p, by, t, words)
    BY <1>1 DEF Holds
  <1>4. GoesWith(l, x, p)
    BY <1>1, NewInputIsNew DEF GoesWith, ShowInv
  <1>5. QED
    BY <1>2, <1>3, <1>4, ListStep

\* ... and is empty.
LEMMA EmptyListStep ==
    ASSUME ShowInv, NEW l \in List, NEW p, FieldsOK(p.subset), NEW t,
           Install(l, OfNodes(NewInput(l), <<>>), p), Show(l, "call", t, <<>>),
           ListsChange
    PROVE  ShowInv'
  <1> DEFINE e == <<>>
  <1>1. IsSeq(e) /\ Elems(e) = {} /\ Words(e) = e
    BY NoItems
  <1>2. /\ Install(l, OfNodes(NewInput(l), e), p) /\ Show(l, "call", t, e) /\ e = <<>>
    OBVIOUS
  <1> HIDE DEF e
  <1>3. QED
    BY <1>1, <1>2, NewListStep

\* A list of single morphemes.
LEMMA SinglesStep ==
    ASSUME ShowInv, NEW l \in List, NEW ms, NEW words,
           Install(l, OfSingles(ms), DefaultPart), Show(l, "call", EmptyText, words),
           IsSeq(ms), \A y \in Elems(ms) : y.word \in WordId, Words(ms) = words,
           ListsChange
    PROVE  ShowInv'
  <1> DEFINE x == OfSingles(ms)
  <1>1. x.backing = "Singles" /\ x.items = ms
    BY DEF OfSingles
  <1>2. Install(l, x, DefaultPart)
    OBVIOUS
  <1> HIDE DEF x
  <1>3. Holds(x, DefaultPart, "call", EmptyText, words)
    BY <1>1 DEF Holds
  <1>4. GoesWith(l, x, DefaultPart)
    BY <1>1 DEF GoesWith
  <1>5. QED
    BY <1>2, <1>3, <1>4, ListStep

LEMMA AllFieldsOK == FieldsOK(DefaultPart.subset) /\ FieldsOK(Field)
  BY DEF FieldsOK, Field, DefaultPart

\* What a list of nodes has.
LEMMA NodeOfList ==
    ASSUME ShowInv, NEW l \in DOMAIN heap, heap[l].backing = "List",
           NEW i \in DOMAIN heap[l].items
    PROVE  /\ NodeOK(heap[l].items[i]) /\ FieldsOK(part[heap[l].input].subset)
           /\ shown[l].by # "single" => heap[l].items[i].text = part[heap[l].input].text
  <1>1. Holds(heap[l], part[heap[l].input], shown[l].by, shown[l].text, shown[l].words)
    BY DEF ShowInv, HeapOK, InputOfList
  <1>2. heap[l].items[i] \in Elems(heap[l].items)
    BY DEF Elems
  <1>3. QED
    BY <1>1, <1>2 DEF Holds

\* Morpheme.split: the units, which share the input of the list.
LEMMA SplitItemStep ==
    ASSUME ShowInv, NEW l \in DOMAIN heap, NEW i, NEW m \in Modes, NEW out \in Out,
           SplitItem(l, i, m, out)
    PROVE  ShowInv'
  <1> DEFINE n == heap[l].items[i]
             p == part[heap[l].input]
             nodes == SplitNode(n, m, p.subset)
             by == IF shown[l].by = "single" THEN "single" ELSE "call"
  <1>1. /\ heap[l].backing = "List" /\ i \in DOMAIN heap[l].items
        /\ Units(n, m) # <<>> /\ ListsChange
    BY DEF SplitItem, MaySplit
  <1>2. PICK o \in ListOf(out) : /\ Install(o, OfNodes(heap[l].input, nodes), p)
                                 /\ Show(o, by, n.text, Parts(n.word, m))
    BY DEF SplitItem
  <1>3. o \in List
    BY ListsOfOut, OutIsList DEF ShowInv
  <1>4. NodeOK(n) /\ FieldsOK(p.subset) /\ (shown[l].by # "single" => n.text = p.text)
    BY <1>1, NodeOfList
  <1>5. m \in Mode
    BY BindingAssumption
  <1> HIDE DEF n
  <1>6. /\ IsSeq(nodes) /\ Words(nodes) = Parts(n.word, m)
        /\ \A y \in Elems(nodes) : NodeOK(y) /\ y.text = n.text
    BY <1>1, <1>4, <1>5, SplitNodeWords
  <1> DEFINE x == OfNodes(heap[l].input, nodes)
  <1> HIDE DEF nodes
  <1>7. x.backing = "List" /\ x.input = heap[l].input /\ x.items = nodes
    BY DEF OfNodes
  <1>8. GoesWith(o, x, p)
    BY <1>7 DEF GoesWith
  <1>9. Install(o, x, p)
    BY <1>2
  <1> HIDE DEF x, p
  <1>10. Holds(x, p, by, n.text, Parts(n.word, m))
    BY <1>4, <1>6, <1>7 DEF Holds
  <1>11. QED
    BY <1>1, <1>2, <1>3, <1>8, <1>9, <1>10, ListStep

\* ... or a copy of the node, with an input of its own.
LEMMA KeepItemStep ==
    ASSUME ShowInv, NEW l \in DOMAIN heap, NEW i, NEW m \in Modes, NEW out \in Out,
           NEW add_single \in BOOLEAN, KeepItem(l, i, m, out, add_single)
    PROVE  ShowInv'
  <1> DEFINE n == heap[l].items[i]
             kept == IF add_single THEN <<n>> ELSE <<>>
             by == IF add_single THEN "single" ELSE "call"
  <1>1. heap[l].backing = "List" /\ i \in DOMAIN heap[l].items /\ ListsChange
    BY DEF KeepItem, MaySplit
  <1>2. PICK o \in ListOf(out) : /\ Install(o, OfNodes(NewInput(o), kept), DefaultPart)
                                 /\ Show(o, by, n.text, Words(kept))
    BY DEF KeepItem
  <1>3. o \in List
    BY ListsOfOut, OutIsList DEF ShowInv
  <1>4. NodeOK(n)
    BY <1>1, NodeOfList
  <1> HIDE DEF n
  <1>5. IsSeq(kept) /\ Elems(kept) \subseteq {n} /\ (by # "single" => kept = <<>>)
    <2>1. CASE add_single
      <3> DEFINE q == <<n>>
      <3>1. IsSeq(q) /\ Elems(q) = {n}
        BY SingleSeq
      <3>2. kept = q
        BY <2>1
      <3> HIDE DEF q, kept
      <3>3. QED
        BY <2>1, <3>1, <3>2
    <2>2. CASE ~add_single
      <3> DEFINE q == <<>>
      <3>1. IsSeq(q) /\ Elems(q) = {}
        BY NoItems
      <3>2. kept = q
        BY <2>2
      <3>3. kept = <<>>
        BY <2>2
      <3> HIDE DEF q, kept
      <3>4. QED
        BY <3>1, <3>2, <3>3
    <2>3. QED
      BY <2>1, <2>2
  <1>6. by # "single" => Words(kept) = <<>> /\ Elems(kept) = {}
    BY <1>5, NoItems
  <1> HIDE DEF kept
  <1>7. by # "pre" /\ FieldsOK(DefaultPart.subset)
    BY AllFieldsOK
  <1>8. \A y \in Elems(kept) : NodeOK(y) /\ (by # "single" => y.text = DefaultPart.text)
    BY <1>4, <1>5, <1>6
  <1> HIDE DEF by
  <1>9. QED
    BY <1>1, <1>2, <1>3, <1>5, <1>6, <1>7, <1>8, NewListStep

LEMMA SplitGoneStep ==
    ASSUME ShowInv, NEW l \in DOMAIN heap, NEW i, NEW out \in Out, SplitGone(l, i, out)
    PROVE  ShowInv'
  <1>1. PICK o \in out : /\ Install(o, OfNodes(NewInput(o), <<>>), DefaultPart)
                         /\ Show(o, "call", EmptyText, <<>>)
    BY DEF SplitGone
  <1>2. o \in List
    BY OutIsList DEF ShowInv
  <1>3. ListsChange
    BY DEF SplitGone
  <1>4. QED
    BY <1>1, <1>2, <1>3, AllFieldsOK, EmptyListStep

\* The units of a morpheme on its own.
LEMMA SplitMorphemeStep ==
    ASSUME ShowInv, NEW x, x.word \in WordId, NEW m \in Modes, NEW out \in Out,
           NEW add_single \in BOOLEAN, SplitMorpheme(x, m, out, add_single)
    PROVE  ShowInv'
  <1> DEFINE parts == SplitSingle(x, m)
             no_split == Len(parts) = 1 /\ parts[1].word = x.word
             units == UnitsOf(x.word, m)
             ms == IF add_single \/ ~no_split THEN parts ELSE <<>>
             words == IF add_single \/ units # <<x.word>> THEN units ELSE <<>>
  <1>1. PICK o \in ListOf(out) : /\ Install(o, OfSingles(ms), DefaultPart)
                                 /\ Show(o, "call", EmptyText, words)
    BY DEF SplitMorpheme, UnitsOf
  <1>2. ListsChange
    BY DEF SplitMorpheme
  <1>3. o \in List
    BY ListsOfOut, OutIsList DEF ShowInv
  <1>4. m \in Mode
    BY BindingAssumption
  <1>5. /\ IsSeq(parts) /\ Words(parts) = units
        /\ \A y \in Elems(parts) : y.word \in WordId
        /\ no_split <=> units = <<x.word>>
    BY <1>4, SplitSingleWords
  <1> HIDE DEF parts, no_split, units
  <1>6. CASE add_single \/ ~no_split
    <2>1. ms = parts /\ words = units
      BY <1>5, <1>6
    <2> HIDE DEF ms, words
    <2>2. QED
      BY <1>1, <1>2, <1>3, <1>5, <2>1, SinglesStep
  <1>7. CASE ~(add_single \/ ~no_split)
    <2>1. ms = <<>> /\ words = <<>>
      BY <1>5, <1>7
    <2> HIDE DEF ms, words
    <2>2. IsSeq(ms) /\ Elems(ms) = {} /\ Words(ms) = words
      BY <2>1, NoItems
    <2>3. QED
      BY <1>1, <1>2, <1>3, <2>2, SinglesStep
  <1>8. QED
    BY <1>6, <1>7

LEMMA SplitStep ==
    ASSUME ShowInv, NEW m \in Modes, NEW out \in Out, NEW add_single \in BOOLEAN,
           Split(m, out, add_single)
    PROVE  ShowInv'
  <1>1. ASSUME NEW x \in object, x.kind = "item", NEW l \in x.list,
               \/ SplitItem(l, x.index, m, out)
               \/ KeepItem(l, x.index, m, out, add_single)
               \/ SplitGone(l, x.index, out)
        PROVE  ShowInv'
    <2>1. l \in DOMAIN heap
      <3>1. x.list \in Out
        BY DEF ShowInv, ObjectsOK, ObjectOK
      <3>2. QED
        BY <3>1 DEF Out
    <2>2. QED
      BY <1>1, <2>1, SplitItemStep, KeepItemStep, SplitGoneStep
  <1>2. ASSUME NEW x \in object, x.kind = "single",
               SplitMorpheme(x.morpheme, m, out, add_single)
        PROVE  ShowInv'
    <2>1. x.morpheme.word \in WordId
      BY <1>2 DEF ShowInv, ObjectsOK, ObjectOK
    <2>2. QED
      BY <1>2, <2>1, SplitMorphemeStep
  <1>3. QED
    BY <1>1, <1>2 DEF Split

\* MorphemeList.empty and the calls of Dictionary.
LEMMA DictionaryStep ==
    ASSUME ShowInv,
           \/ Empty
           \/ \E t \in Text, out \in Out :
                  Lookup(t, out) \/ LookupFails(t, out) \/ LookupAll(t, out)
    PROVE  ShowInv'
  <1>1. HeapOK
    BY DEF ShowInv
  <1>2. CASE Empty
    <2>1. PICK l \in NewList : /\ Install(l, OfNodes(NewInput(l), <<>>), DefaultPart)
                               /\ Show(l, "call", EmptyText, <<>>)
      BY <1>2 DEF Empty
    <2>2. l \in List
      <3>1. ListOf({}) = NewList
        BY DEF ListOf
      <3>2. QED
        BY <1>1, <3>1, ListsOfOut
    <2>3. ListsChange
      BY <1>2 DEF Empty
    <2>4. QED
      BY <2>1, <2>2, <2>3, AllFieldsOK, EmptyListStep
  <1>3. ASSUME NEW t \in Text, NEW out \in Out, Lookup(t, out)
        PROVE  ShowInv'
    <2> DEFINE nodes == FoundNodes(t, Field)
               p == [text |-> t, subset |-> Field]
    <2>1. PICK l \in ListOf(out) : /\ Install(l, OfNodes(NewInput(l), nodes), p)
                                   /\ Show(l, "call", t, Found[t])
      BY <1>3 DEF Lookup
    <2>2. l \in List
      BY <1>1, ListsOfOut, OutIsList
    <2>3. ListsChange
      BY <1>3 DEF Lookup
    <2>4. IsSeq(nodes) /\ Words(nodes) = Found[t]
          /\ \A y \in Elems(nodes) : NodeOK(y) /\ y.text = t
      BY FoundNodesOf DEF NodesOf
    <2>5. p.text = t /\ FieldsOK(p.subset)
      BY AllFieldsOK
    <2> HIDE DEF nodes, p
    <2>6. QED
      BY <2>1, <2>2, <2>3, <2>4, <2>5, NewListStep
  <1>4. ASSUME NEW t \in Text, NEW out \in Out, LookupFails(t, out)
        PROVE  ShowInv'
    <2> DEFINE p == [text |-> t, subset |-> Field]
    <2>1. PICK l \in out : /\ Install(l, OfNodes(NewInput(l), <<>>), p)
                           /\ Show(l, "call", t, <<>>)
      BY <1>4 DEF LookupFails
    <2>2. l \in List
      BY <1>1, OutIsList
    <2>3. ListsChange
      BY <1>4 DEF LookupFails
    <2>4. FieldsOK(p.subset)
      BY AllFieldsOK
    <2> HIDE DEF p
    <2>5. QED
      BY <2>1, <2>2, <2>3, <2>4, EmptyListStep
  <1>5. ASSUME NEW t \in Text, NEW out \in Out, LookupAll(t, out)
        PROVE  ShowInv'
    <2> DEFINE ws == AllMatches(t)
               ms == [k \in DOMAIN ws |-> FromWordId(ws[k], Field)]
    <2>1. PICK l \in ListOf(out) : /\ Install(l, OfSingles(ms), DefaultPart)
                                   /\ Show(l, "call", EmptyText, ws)
      BY <1>5 DEF LookupAll
    <2>2. l \in List
      BY <1>1, ListsOfOut, OutIsList
    <2>3. ListsChange
      BY <1>5 DEF LookupAll
    <2>4. ws \in Seq(WordId)
      BY AllMatchesWords
    <2> HIDE DEF ws
    <2>5. IsSeq(ms) /\ Words(ms) = ws /\ \A y \in Elems(ms) : y.word \in WordId
      BY <2>4, SinglesOf
    <2> HIDE DEF ms
    <2>6. QED
      BY <2>1, <2>2, <2>3, <2>5, SinglesStep
  <1>6. QED
    BY <1>2, <1>3, <1>4, <1>5

----------------------------------------------------------------------------
(* What the program holds.                                                 *)

LEMMA ObjectStep ==
    ASSUME ShowInv, UNCHANGED <<tokenizer, cell, heap, part, calls, shown>>,
           \A x \in object' : ObjectOK(x), \A x \in iterator' : IteratorOK(x)
    PROVE  ShowInv'
  <1>1. Out' = Out /\ Used(heap)' = Used(heap)
    BY DEF Out, Used
  <1>2. HeapOK'
    <2>1. \A l \in DOMAIN heap : InputOfList(l)' = InputOfList(l)
      BY DEF InputOfList
    <2>2. QED
      BY <1>1, <2>1 DEF ShowInv, HeapOK
  <1>3. NestingOK' /\ TokenizerOK' /\ CellsOK'
    BY <1>1 DEF ShowInv, NestingOK, TokenizerOK, CellsOK
  <1>4. ObjectsOK'
    BY <1>1 DEF ObjectsOK, ObjectOK, IteratorOK
  <1>5. QED
    BY <1>2, <1>3, <1>4 DEF ShowInv

LEMMA HeldOK ==
    ASSUME ShowInv
    PROVE  (\A x \in object : ObjectOK(x)) /\ (\A x \in iterator : IteratorOK(x))
  BY DEF ShowInv, ObjectsOK

LEMMA SingleIsOK ==
    ASSUME NEW x, x.word \in WordId
    PROVE  ObjectOK(Single(x))
  <1>1. Single(x).list = {} /\ Single(x).morpheme = x
    BY DEF Single
  <1>2. QED
    BY <1>1 DEF ObjectOK, Out

\* An item of a list.
LEMMA TakenItemOK ==
    ASSUME ShowInv, NEW l \in DOMAIN heap, NEW i \in DOMAIN heap[l].items, TakeItem(l, i)
    PROVE  /\ UNCHANGED <<tokenizer, cell, heap, part, calls, shown>>
           /\ \A x \in object' : ObjectOK(x)
  <1>1. UNCHANGED <<tokenizer, cell, heap, part, calls, shown>>
    BY DEF TakeItem, ObjectIs
  <1>2. CASE heap[l].backing = "List"
    <2>1. object' = {Item(l, i)}
      BY <1>2 DEF TakeItem, ObjectIs
    <2>2. Item(l, i).list = {l} /\ Item(l, i).kind = "item"
      BY DEF Item
    <2>3. QED
      BY <1>1, <2>1, <2>2 DEF ObjectOK, Out
  <1>3. CASE heap[l].backing # "List"
    <2>1. object' = {Single(heap[l].items[i])}
      BY <1>3 DEF TakeItem, ObjectIs
    <2>2. heap[l].items[i].word \in WordId
      <3>1. Holds(heap[l], InputOfList(l), shown[l].by, shown[l].text, shown[l].words)
        BY DEF ShowInv, HeapOK
      <3>2. heap[l].items[i] \in Elems(heap[l].items)
        BY DEF Elems
      <3>3. QED
        BY <1>3, <3>1, <3>2 DEF Holds
    <2>3. QED
      BY <1>1, <2>1, <2>2, SingleIsOK
  <1>4. QED
    BY <1>2, <1>3

LEMMA FormIsOK ==
    ASSUME NEW w \in WordId, NEW s, NEW f \in FormMorpheme(w, s)
    PROVE  ObjectOK(Single(f))
  <1>1. PICK v \in {ResolveRef(r, w[1]) : r \in Form[w]} : f = FromWordId(v, s)
    BY DEF FormMorpheme
  <1>2. v \in WordId
    BY <1>1, FormAssumption
  <1>3. f.word \in WordId
    BY <1>1, <1>2 DEF FromWordId
  <1>4. QED
    BY <1>3, SingleIsOK

LEMMA GetFormStep ==
    ASSUME ShowInv, GetForm
    PROVE  ShowInv'
  <1>1. PICK x \in object :
           \/ /\ x.kind = "single"
              /\ \E f \in FormMorpheme(x.morpheme.word, x.morpheme.subset) :
                     ObjectIs({Single(f)})
           \/ /\ x.kind = "item"
              /\ \E l \in x.list :
                     /\ heap[l].backing = "List" /\ x.index \in DOMAIN heap[l].items
                     /\ \E f \in FormMorpheme(heap[l].items[x.index].word,
                                              part[heap[l].input].subset) :
                            ObjectIs({Single(f)})
    BY DEF GetForm
  <1>2. \E w \in WordId : \E s : \E f \in FormMorpheme(w, s) : ObjectIs({Single(f)})
    <2>1. CASE /\ x.kind = "single"
               /\ \E f \in FormMorpheme(x.morpheme.word, x.morpheme.subset) :
                      ObjectIs({Single(f)})
      BY <2>1, HeldOK DEF ObjectOK
    <2>2. ASSUME NEW l \in x.list, heap[l].backing = "List",
                 x.index \in DOMAIN heap[l].items,
                 \E f \in FormMorpheme(heap[l].items[x.index].word,
                                       part[heap[l].input].subset) :
                     ObjectIs({Single(f)})
          PROVE  \E w \in WordId : \E s : \E f \in FormMorpheme(w, s) : ObjectIs({Single(f)})
      <3>1. l \in DOMAIN heap
        <4>1. x.list \in Out
          BY HeldOK DEF ObjectOK
        <4>2. QED
          BY <4>1 DEF Out
      <3>2. heap[l].items[x.index].word \in WordId
        BY <2>2, <3>1, NodeOfList DEF NodeOK
      <3>3. QED
        BY <2>2, <3>2
    <2>3. QED
      BY <1>1, <2>1, <2>2
  <1>3. PICK w \in WordId : \E s : \E f \in FormMorpheme(w, s) : ObjectIs({Single(f)})
    BY <1>2
  <1>4. PICK f : ObjectOK(Single(f)) /\ ObjectIs({Single(f)})
    <2>1. PICK s : \E f \in FormMorpheme(w, s) : ObjectIs({Single(f)})
      BY <1>3
    <2>2. PICK f \in FormMorpheme(w, s) : ObjectIs({Single(f)})
      BY <2>1
    <2>3. QED
      BY <2>2, FormIsOK
  <1>5. iterator' = iterator
    BY DEF GetForm
  <1>6. /\ UNCHANGED <<tokenizer, cell, heap, part, calls, shown>>
        /\ object' = {Single(f)}
    BY <1>4 DEF ObjectIs
  <1>7. QED
    BY <1>4, <1>5, <1>6, HeldOK, ObjectStep

LEMMA NextItemStep ==
    ASSUME ShowInv, NextItem
    PROVE  ShowInv'
  <1>1. PICK x \in iterator :
            /\ \E l \in x.list : x.index < Len(heap[l].items) /\ TakeItem(l, x.index + 1)
            /\ iterator' = {[x EXCEPT !.index = @ + 1]}
    BY DEF NextItem
  <1>2. IteratorOK(x)
    BY HeldOK
  <1>3. PICK l \in x.list : x.index < Len(heap[l].items) /\ TakeItem(l, x.index + 1)
    BY <1>1
  <1>4. l \in DOMAIN heap
    BY <1>2 DEF IteratorOK, Out
  <1>5. x.index + 1 \in DOMAIN heap[l].items
    <2>1. IsSeq(heap[l].items)
      BY <1>4 DEF ShowInv, HeapOK, Holds
    <2>2. DOMAIN heap[l].items = 1..Len(heap[l].items) /\ Len(heap[l].items) \in Nat
      BY <2>1 DEF IsSeq
    <2>3. QED
      BY <1>2, <1>3, <2>2 DEF IteratorOK
  <1>6. /\ UNCHANGED <<tokenizer, cell, heap, part, calls, shown>>
        /\ \A y \in object' : ObjectOK(y)
    BY <1>3, <1>4, <1>5, TakenItemOK
  <1>7. IteratorOK([x EXCEPT !.index = @ + 1])
    BY <1>2 DEF IteratorOK
  <1>8. QED
    BY <1>1, <1>6, <1>7, ObjectStep

LEMMA NextEntryStep ==
    ASSUME ShowInv, NextEntry
    PROVE  ShowInv'
  <1>1. PICK x \in iterator :
            /\ x.index < Len(Entries)
            /\ ObjectIs({Single(FromWordId(Entries[x.index + 1], Field))})
            /\ iterator' = {[x EXCEPT !.index = @ + 1]}
    BY DEF NextEntry
  <1>2. IteratorOK(x)
    BY HeldOK
  <1>3. Entries[x.index + 1] \in WordId
    <2>1. Entries \in Seq(WordId)
      BY BindingAssumption
    <2>2. x.index + 1 \in 1..Len(Entries)
      BY <1>1, <1>2, <2>1 DEF IteratorOK
    <2>3. QED
      BY <2>1, <2>2
  <1>4. ObjectOK(Single(FromWordId(Entries[x.index + 1], Field)))
    <2>1. FromWordId(Entries[x.index + 1], Field).word \in WordId
      BY <1>3 DEF FromWordId
    <2>2. QED
      BY <2>1, SingleIsOK
  <1>5. IteratorOK([x EXCEPT !.index = @ + 1])
    BY <1>2 DEF IteratorOK
  <1>6. UNCHANGED <<tokenizer, cell, heap, part, calls, shown>>
    BY <1>1 DEF ObjectIs
  <1>7. object' = {Single(FromWordId(Entries[x.index + 1], Field))}
    BY <1>1 DEF ObjectIs
  <1>8. QED
    BY <1>1, <1>4, <1>5, <1>6, <1>7, ObjectStep

\* The other steps.
LEMMA HoldStep ==
    ASSUME ShowInv,
           \/ \E l \in DOMAIN heap : \E i \in DOMAIN heap[l].items : GetItem(l, i)
           \/ \E w \in Oov : GetOov(w)
           \/ \E l \in DOMAIN heap : IterateList(l)
           \/ IterateEntries \/ Forget \/ Close
    PROVE  ShowInv'
  <1>1. ASSUME NEW l \in DOMAIN heap, NEW i \in DOMAIN heap[l].items, GetItem(l, i)
        PROVE  ShowInv'
    <2>1. TakeItem(l, i) /\ iterator' = iterator
      BY <1>1 DEF GetItem
    <2>2. QED
      BY <2>1, TakenItemOK, HeldOK, ObjectStep
  <1>2. ASSUME NEW w \in Oov, GetOov(w)
        PROVE  ShowInv'
    <2>1. /\ UNCHANGED <<tokenizer, cell, heap, part, calls, shown, iterator>>
          /\ object' = {Single(OovMorpheme(w))}
      BY <1>2 DEF GetOov, ObjectIs
    <2>2. OovMorpheme(w).word \in WordId
      BY BindingAssumption DEF OovMorpheme
    <2>3. QED
      BY <2>1, <2>2, SingleIsOK, HeldOK, ObjectStep
  <1>3. ASSUME NEW x, IteratorOK(x), Iterate(x)
        PROVE  ShowInv'
    <2>1. /\ UNCHANGED <<tokenizer, cell, heap, part, calls, shown, object>>
          /\ iterator' = {x}
      BY <1>3 DEF Iterate
    <2>2. QED
      BY <1>3, <2>1, HeldOK, ObjectStep
  <1>4. ASSUME NEW l \in DOMAIN heap, IterateList(l)
        PROVE  ShowInv'
    <2>1. IteratorOK([kind |-> "list", list |-> {l}, index |-> 0])
      BY DEF IteratorOK, Out
    <2>2. QED
      BY <1>3, <1>4, <2>1 DEF IterateList
  <1>5. CASE IterateEntries
    <2>1. IteratorOK([kind |-> "entries", list |-> {}, index |-> 0])
      BY DEF IteratorOK, Out
    <2>2. QED
      BY <1>3, <1>5, <2>1 DEF IterateEntries
  <1>6. CASE Forget
    <2>1. /\ UNCHANGED <<tokenizer, cell, heap, part, calls, shown>>
          /\ object' = {} /\ iterator' = {}
      BY <1>6 DEF Forget, ObjectIs
    <2>2. QED
      BY <2>1, ObjectStep
  <1>7. CASE Close
    <2>1. UNCHANGED <<tokenizer, cell, heap, part, calls, shown, object, iterator>>
      BY <1>7 DEF Close
    <2>2. QED
      BY <2>1, HeldOK, ObjectStep
  <1>8. QED
    BY <1>1, <1>2, <1>4, <1>5, <1>6, <1>7

\* A list nobody uses is freed.
LEMMA DropStep ==
    ASSUME ShowInv, NEW l \in DOMAIN heap, Drop(l)
    PROVE  ShowInv'
  <1>1. /\ ~InUse(l)
        /\ heap' = [k \in DOMAIN heap \ {l} |-> heap[k]]
        /\ part' = [a \in Used(heap)' |-> part[a]]
        /\ shown' = [k \in DOMAIN shown \ {l} |-> shown[k]]
        /\ UNCHANGED <<tokenizer, cell, calls, object, iterator>>
    BY DEF Drop, ListsChange, Used
  <1>2. /\ DOMAIN heap' = DOMAIN heap \ {l} /\ DOMAIN shown = DOMAIN heap
        /\ \A k \in DOMAIN heap' : heap'[k] = heap[k] /\ shown'[k] = shown[k]
    BY <1>1 DEF ShowInv, HeapOK
  <1>3. \A o \in Out : o # {l} => o \in Out'
    BY <1>2 DEF Out
  <1>4. /\ \A th \in Thread : cell[th].list # {l}
        /\ \A x \in object \cup iterator : x.list # {l}
    BY <1>1 DEF InUse
  <1>5. HeapOK'
    <2>1. \A k \in DOMAIN heap' :
              heap'[k].backing = "List" => heap'[k].input \in Used(heap)'
      BY DEF Used
    <2>2. \A k \in DOMAIN heap' : InputOfList(k)' = InputOfList(k)
      BY <1>1, <1>2, <2>1 DEF InputOfList
    <2>3. /\ heap' = [k \in DOMAIN heap' |-> heap'[k]]
          /\ shown' = [k \in DOMAIN heap' |-> shown'[k]]
          /\ part' = [a \in Used(heap)' |-> part'[a]]
          /\ DOMAIN heap' \subseteq List
      BY <1>1, <1>2 DEF ShowInv, HeapOK
    <2>4. \A k \in DOMAIN heap' :
              Holds(heap'[k], InputOfList(k)', shown'[k].by, shown'[k].text,
                    shown'[k].words)
      BY <1>2, <2>2 DEF ShowInv, HeapOK
    <2>5. QED
      BY <2>3, <2>4 DEF HeapOK
  <1>6. CellsOK'
    <2>1. \A th \in Thread : cell[th].list \in Out'
      BY <1>3, <1>4 DEF ShowInv, CellsOK
    <2>2. \A th \in Thread : \A o \in cell[th].list : shown'[o] = shown[o]
      BY <1>2, <2>1 DEF Out
    <2>3. ASSUME NEW th \in Thread, NEW k \in 1..Len(calls[th]),
                 calls[th][k].op = "pre", calls[th][k].stage = "handler",
                 NEW o \in cell[th].list, shown'[o].by = "pre"
          PROVE  /\ shown'[o].text = calls[th][k].text
                 /\ shown'[o].words = WordsOf(calls[th][k].text, Default)
      BY <2>2, <2>3 DEF ShowInv, CellsOK
    <2>4. UNCHANGED <<cell, calls>>
      BY <1>1
    <2>5. QED
      BY <2>1, <2>3, <2>4 DEF ShowInv, CellsOK
  <1>7. ObjectsOK'
    BY <1>1, <1>3, <1>4, HeldOK DEF ObjectsOK, ObjectOK, IteratorOK
  <1>8. NestingOK' /\ TokenizerOK'
    BY <1>1 DEF ShowInv, NestingOK, TokenizerOK
  <1>9. QED
    BY <1>5, <1>6, <1>7, <1>8 DEF ShowInv

----------------------------------------------------------------------------
(* The calls of the threads.                                               *)

\* A call begins: Python code made it.
LEMMA CallNests ==
    ASSUME PInv, ShowInv, NEW th \in Thread, Runs(th), NEW f, FrameOK(f),
           f.op = "pre" => \A k \in 1..Len(calls[th]) : calls[th][k].op # "pre",
           Call(th, f)
    PROVE  /\ NestingOK'
           /\ \A u \in Thread : \A k \in 1..Len(calls'[u]) :
                 \/ u = th /\ calls'[u][k] = f
                 \/ \E j \in 1..Len(calls[u]) : calls'[u][k] = calls[u][j]
  <1> DEFINE n == Len(calls[th])
  <1>1. n \in Nat /\ CallsOK
    BY CallsLength DEF PInv
  <1>2. IsFrame(f)
    BY DEF FrameOK, IsFrame
  <1>3. /\ \A u \in Thread \ {th} : calls'[u] = calls[u]
        /\ Len(calls'[th]) = n + 1 /\ calls'[th][n + 1] = f
        /\ \A k \in 1..n : calls'[th][k] = calls[th][k]
    BY <1>1, <1>2, CallPushes
  <1>4. \A k \in 1..Len(calls'[th]) : k \in 1..n \/ k = n + 1
    BY <1>1, <1>3
  <1>5. \A k \in 1..n : /\ FrameOK(calls[th][k])
                        /\ calls[th][k].op = "pre" /\ calls[th][k].stage = "handler"
    <2>1. n # 0 => calls[th] # <<>>
      OBVIOUS
    <2>2. n # 0 => calls[th][n].op = "pre" /\ calls[th][n].stage = "handler"
      BY <2>1 DEF Runs, At, Top
    <2>3. QED
      BY <2>2 DEF ShowInv, NestingOK
  <1>6. ASSUME NEW k \in 1..Len(calls'[th])
        PROVE  /\ FrameOK(calls'[th][k])
               /\ k # Len(calls'[th]) => /\ calls'[th][k].op = "pre"
                                         /\ calls'[th][k].stage = "handler"
               /\ \A j \in 1..Len(calls'[th]) :
                     calls'[th][j].op = "pre" /\ calls'[th][k].op = "pre" => j = k
    <2>1. FrameOK(calls'[th][k])
      BY <1>3, <1>4, <1>5
    <2>2. k # Len(calls'[th]) => calls'[th][k].op = "pre" /\ calls'[th][k].stage = "handler"
      BY <1>3, <1>4, <1>5
    <2>3. ASSUME NEW j \in 1..Len(calls'[th]),
                 calls'[th][j].op = "pre", calls'[th][k].op = "pre"
          PROVE  j = k
      <3>1. CASE f.op = "pre"
        <4>1. n = 0
          BY <3>1, <1>1, <1>5
        <4>2. QED
          BY <4>1, <1>1, <1>4
      <3>2. CASE f.op # "pre"
        <4>1. j \in 1..n /\ k \in 1..n
          BY <3>2, <2>3, <1>3, <1>4
        <4>2. calls[th][j].op = "pre" /\ calls[th][k].op = "pre"
          BY <4>1, <2>3, <1>3
        <4>3. QED
          BY <4>1, <4>2 DEF ShowInv, NestingOK
      <3>3. QED
        BY <3>1, <3>2
    <2>4. QED
      BY <2>1, <2>2, <2>3
  <1>7. NestingOK'
    BY <1>3, <1>6 DEF ShowInv, NestingOK
  <1>8. QED
    BY <1>3, <1>4, <1>7

\* A call ends, and the handler it was made from goes on.
LEMMA ReturnNests ==
    ASSUME PInv, ShowInv, NEW th \in Thread, calls[th] # <<>>, Return(th)
    PROVE  /\ NestingOK'
           /\ \A u \in Thread : \A k \in 1..Len(calls'[u]) :
                 \E j \in 1..Len(calls[u]) : calls'[u][k] = calls[u][j]
  <1> DEFINE n == Len(calls[th])
  <1>1. n \in Nat /\ CallsOK
    BY CallsLength DEF PInv
  <1>2. /\ \A u \in Thread \ {th} : calls'[u] = calls[u]
        /\ Len(calls'[th]) = n - 1
        /\ \A k \in 1..n - 1 : calls'[th][k] = calls[th][k]
    BY <1>1, ReturnPops
  <1>3. \A k \in 1..Len(calls'[th]) : k \in 1..n - 1 /\ k \in 1..n /\ k # n
    BY <1>1, <1>2
  <1>4. ASSUME NEW k \in 1..Len(calls'[th])
        PROVE  /\ FrameOK(calls'[th][k])
               /\ calls'[th][k].op = "pre" /\ calls'[th][k].stage = "handler"
               /\ \A j \in 1..Len(calls'[th]) : calls'[th][j].op = "pre" => j = k
    <2>1. calls'[th][k] = calls[th][k]
      BY <1>2, <1>3
    <2>2. /\ FrameOK(calls[th][k])
          /\ calls[th][k].op = "pre" /\ calls[th][k].stage = "handler"
      BY <1>3 DEF ShowInv, NestingOK
    <2>3. ASSUME NEW j \in 1..Len(calls'[th]), calls'[th][j].op = "pre"
          PROVE  j = k
      <3>1. calls[th][j].op = "pre"
        BY <2>3, <1>2, <1>3
      <3>2. QED
        BY <3>1, <2>2, <1>3 DEF ShowInv, NestingOK
    <2>4. QED
      BY <2>1, <2>2, <2>3
  <1>5. NestingOK'
    BY <1>2, <1>4 DEF ShowInv, NestingOK
  <1>6. QED
    BY <1>2, <1>3, <1>5

\* The same call, at another stage.
SameCall(g, f) ==
    /\ g.op = f.op /\ g.text = f.text
    /\ f.op = "tokenize" => g.mode = f.mode /\ g.out = f.out

LEMMA StageNests ==
    ASSUME PInv, ShowInv, NEW th \in Thread, calls[th] # <<>>, NEW stage, Stage(th, stage)
    PROVE  /\ NestingOK'
           /\ \A u \in Thread :
                 /\ Len(calls'[u]) = Len(calls[u])
                 /\ \A k \in 1..Len(calls[u]) :
                       u # th \/ k # Len(calls[u]) => calls'[u][k] = calls[u][k]
           /\ SameCall(calls'[th][Len(calls[th])], Top(th))
           /\ calls'[th][Len(calls[th])].stage = stage
  <1> DEFINE s == calls[th]
             n == Len(s)
             f == s[n]
             g == [f EXCEPT !.stage = stage]
  <1>1. /\ n \in Nat /\ n # 0 /\ DOMAIN s = 1..n /\ n \in 1..n
        /\ calls = [u \in Thread |-> calls[u]] /\ IsSeq(s)
    BY CallsLength DEF PInv, CallsOK
  <1>2. FrameOK(f)
    BY <1>1 DEF ShowInv, NestingOK
  <1>3. calls' = [calls EXCEPT ![th] = [s EXCEPT ![n] = g]]
    BY DEF Stage
  <1>4. FrameOK(g) /\ SameCall(g, f) /\ g.stage = stage
    <2>1. DOMAIN g = DOMAIN f /\ \A x \in DOMAIN f : x # "stage" => g[x] = f[x]
      OBVIOUS
    <2>2. "stage" \in DOMAIN f => g.stage = stage
      OBVIOUS
    <2> HIDE DEF g, f
    <2>3. {"op", "stage", "text"} \subseteq DOMAIN f /\ g.op = f.op /\ g.text = f.text
      BY <1>2, <2>1 DEF FrameOK
    <2>4. f.op = "tokenize" => /\ g.mode = f.mode /\ g.out = f.out
                               /\ {"saved", "mode", "out"} \subseteq DOMAIN f
      BY <1>2, <2>1 DEF FrameOK
    <2>5. SameCall(g, f) /\ g.stage = stage
      BY <2>2, <2>3, <2>4 DEF SameCall
    <2>6. FrameOK(g)
      BY <1>2, <2>1, <2>3, <2>4 DEF FrameOK
    <2>7. QED
      BY <2>5, <2>6
  <1> DEFINE t == [s EXCEPT ![n] = g]
  <1>5. t[n] = g /\ (\A k \in 1..n : k # n => t[k] = s[k]) /\ t = [k \in 1..n |-> t[k]]
    BY <1>1
  <1>6. calls'[th] = t /\ \A u \in Thread \ {th} : calls'[u] = calls[u]
    BY <1>1, <1>3
  <1> HIDE DEF t, g
  <1>7. Len(t) = n
    BY <1>1, <1>5, MapIsSeq
  <1>8. ASSUME NEW k \in 1..n
        PROVE  /\ FrameOK(t[k]) /\ t[k].op = s[k].op
               /\ k # n => t[k].op = "pre" /\ t[k].stage = "handler"
    <2>1. CASE k = n
      BY <2>1, <1>4, <1>5 DEF SameCall
    <2>2. CASE k # n
      BY <2>2, <1>5 DEF ShowInv, NestingOK
    <2>3. QED
      BY <2>1, <2>2
  <1>9. NestingOK'
    <2>1. \A k \in 1..n : \A j \in 1..n : s[j].op = "pre" /\ s[k].op = "pre" => j = k
      BY DEF ShowInv, NestingOK
    <2> HIDE DEF s, n
    <2>2. /\ Len(calls'[th]) = n /\ \A k \in 1..n :
              /\ FrameOK(calls'[th][k])
              /\ k # n => calls'[th][k].op = "pre" /\ calls'[th][k].stage = "handler"
              /\ \A j \in 1..n : calls'[th][j].op = "pre" /\ calls'[th][k].op = "pre" => j = k
      BY <1>6, <1>7, <1>8, <2>1
    <2>3. QED
      BY <1>6, <2>2 DEF ShowInv, NestingOK
  <1>10. QED
    BY <1>4, <1>5, <1>6, <1>7, <1>9 DEF Top

\* Calls of this kind were there before.
OldCalls(op) ==
    \A u \in Thread : \A k \in 1..Len(calls'[u]) :
        calls'[u][k].op = op =>
            \E j \in 1..Len(calls[u]) : calls'[u][k] = calls[u][j]

LEMMA TokenizerStays ==
    ASSUME ShowInv, tokenizer' = tokenizer, OldCalls("tokenize")
    PROVE  TokenizerOK'
  <1>1. ASSUME NEW th \in Thread, NEW k \in 1..Len(calls'[th]),
               calls'[th][k].op = "tokenize"
        PROVE  /\ tokenizer.mode = ModeOf(calls'[th][k].mode)
               /\ calls'[th][k].stage = "done" =>
                      /\ tokenizer.text = calls'[th][k].text
                      /\ tokenizer.path = AsAnalysed(calls'[th][k].text, tokenizer.mode,
                                                     tokenizer.subset)
    <2>1. PICK j \in 1..Len(calls[th]) : calls'[th][k] = calls[th][j]
      BY <1>1 DEF OldCalls
    <2>2. QED
      BY <1>1, <2>1 DEF ShowInv, TokenizerOK
  <1>2. QED
    BY <1>1 DEF ShowInv, TokenizerOK

LEMMA CellsStay ==
    ASSUME ShowInv, cell' = cell, OldCalls("pre"), Out \subseteq Out',
           \A l \in DOMAIN heap : shown'[l] = shown[l] \/ shown'[l].by # "pre"
    PROVE  CellsOK'
  <1>1. ASSUME NEW th \in Thread, NEW k \in 1..Len(calls'[th]),
               calls'[th][k].op = "pre"
        PROVE  /\ calls'[th][k].stage = "done" =>
                      /\ cell[th].text = calls'[th][k].text
                      /\ cell[th].path = AsAnalysed(calls'[th][k].text, Default,
                                                    Created(PreFields))
               /\ calls'[th][k].stage = "handler" =>
                      \A l \in cell[th].list : shown'[l].by = "pre" =>
                          /\ shown'[l].text = calls'[th][k].text
                          /\ shown'[l].words = WordsOf(calls'[th][k].text, Default)
    <2>1. PICK j \in 1..Len(calls[th]) : calls'[th][k] = calls[th][j]
      BY <1>1 DEF OldCalls
    <2>2. \A l \in cell[th].list : l \in DOMAIN heap
      BY DEF ShowInv, CellsOK, Out
    <2>3. QED
      BY <1>1, <2>1, <2>2 DEF ShowInv, CellsOK
  <1>2. QED
    BY <1>1 DEF ShowInv, CellsOK

LEMMA HeapStays ==
    ASSUME ShowInv, UNCHANGED <<heap, part, shown, object, iterator>>
    PROVE  HeapOK' /\ ObjectsOK' /\ Out' = Out
  <1>1. Out' = Out /\ Used(heap)' = Used(heap)
    BY DEF Out, Used
  <1>2. \A l \in DOMAIN heap : InputOfList(l)' = InputOfList(l)
    BY DEF InputOfList
  <1>3. HeapOK'
    BY <1>1, <1>2 DEF ShowInv, HeapOK
  <1>4. ObjectsOK'
    BY <1>1, HeldOK DEF ObjectsOK, ObjectOK, IteratorOK
  <1>5. QED
    BY <1>1, <1>3, <1>4

\* The fields only grow.
LEMMA SetModeFields ==
    ASSUME NEW tok, {"mode", "subset", "text", "path"} \subseteq DOMAIN tok,
           FieldsOK(tok.subset), NEW m \in Mode
    PROVE  LET g == SetMode(tok, m)
           IN  /\ {"mode", "subset", "text", "path"} \subseteq DOMAIN g
               /\ g.mode = m /\ ModeSubset(m) \subseteq g.subset /\ FieldsOK(g.subset)
  <1> DEFINE g == SetMode(tok, m)
  <1>1. g = [tok EXCEPT !.mode = m, !.subset = tok.subset \cup ModeSubset(m)]
    BY DEF SetMode
  <1>2. DOMAIN g = DOMAIN tok /\ g.mode = m /\ g.subset = tok.subset \cup ModeSubset(m)
    BY <1>1
  <1>3. FieldsOK(g.subset)
    BY <1>2 DEF FieldsOK
  <1>4. QED
    BY <1>2, <1>3

\* The tokenizer is borrowed and set to the mode of the call.
LEMMA BeginTokenizeStep ==
    ASSUME PInv, ShowInv, NEW th \in Thread, NEW t \in Text,
           NEW m \in {{}} \cup {{x} : x \in Modes}, NEW out \in Out,
           BeginTokenize(th, t, m, out)
    PROVE  ShowInv'
  <1> DEFINE f == [op |-> "tokenize", stage |-> "detached", text |-> t, mode |-> m,
                   saved |-> IF m = {} THEN {} ELSE {tokenizer.mode}, out |-> out]
  <1>1. /\ Runs(th) /\ owner = {} /\ Call(th, f)
        /\ UNCHANGED <<cell, heap, part, object, iterator, shown>>
        /\ tokenizer' = IF m = {} THEN tokenizer
                        ELSE SetMode(tokenizer, CHOOSE x \in m : TRUE)
    BY DEF BeginTokenize
  <1>2. out \in {{}} \cup {{l} : l \in List}
    BY OutIsList DEF ShowInv
  <1>3. /\ {"op", "stage", "text", "saved", "mode", "out"} \subseteq DOMAIN f
        /\ f.op = "tokenize" /\ f.stage = "detached" /\ f.text = t /\ f.mode = m
        /\ f.out = out
    OBVIOUS
  <1> HIDE DEF f
  <1>4. FrameOK(f)
    BY <1>2, <1>3 DEF FrameOK
  <1>5. /\ NestingOK'
        /\ \A u \in Thread : \A k \in 1..Len(calls'[u]) :
              \/ u = th /\ calls'[u][k] = f
              \/ \E j \in 1..Len(calls[u]) : calls'[u][k] = calls[u][j]
    BY <1>1, <1>3, <1>4, CallNests
  <1>6. \A u \in Thread : \A k \in 1..Len(calls[u]) : calls[u][k].op # "tokenize"
    BY <1>1 DEF PInv, BorrowOK
  <1>7. OldCalls("pre")
    BY <1>3, <1>5 DEF OldCalls
  <1>8. \A u \in Thread : \A k \in 1..Len(calls'[u]) :
            calls'[u][k].op = "tokenize" => u = th /\ calls'[u][k] = f
    BY <1>5, <1>6
  <1>9. /\ {"mode", "subset", "text", "path"} \subseteq DOMAIN tokenizer'
        /\ tokenizer'.mode = ModeOf(m) /\ tokenizer'.mode \in Mode
        /\ ModeSubset(tokenizer'.mode) \subseteq tokenizer'.subset
        /\ FieldsOK(tokenizer'.subset)
    <2>1. CASE m = {}
      <3>1. tokenizer' = tokenizer /\ tokenizer.mode = Default
        BY <1>1, <2>1 DEF PInv, BorrowOK
      <3>2. QED
        BY <2>1, <3>1 DEF ShowInv, TokenizerOK, ModeOf
    <2>2. CASE m # {}
      <3>1. ModeOf(m) \in Mode /\ tokenizer' = SetMode(tokenizer, ModeOf(m))
        BY <1>1, <2>2, BindingAssumption DEF ModeOf
      <3>2. FieldsOK(tokenizer.subset)
            /\ {"mode", "subset", "text", "path"} \subseteq DOMAIN tokenizer
        BY DEF ShowInv, TokenizerOK
      <3>3. QED
        BY <3>1, <3>2, SetModeFields
    <2>3. QED
      BY <2>1, <2>2
  <1>10. TokenizerOK'
    BY <1>3, <1>8, <1>9 DEF TokenizerOK
  <1>11. HeapOK' /\ ObjectsOK' /\ Out' = Out
    BY <1>1, HeapStays
  <1>12. CellsOK'
    BY <1>1, <1>7, <1>11, CellsStay
  <1>13. QED
    BY <1>5, <1>10, <1>11, <1>12 DEF ShowInv

\* The thread that has the tokenizer.
LEMMA OnlyTokenizeCall ==
    ASSUME PInv, NEW th \in Thread, calls[th] # <<>>, Top(th).op = "tokenize"
    PROVE  \A u \in Thread : \A k \in 1..Len(calls[u]) :
               calls[u][k].op = "tokenize" => u = th /\ k = Len(calls[th])
  <1>1. Len(calls[th]) \in 1..Len(calls[th])
    BY CallsLength DEF PInv
  <1>2. owner = {th}
    BY <1>1 DEF PInv, BorrowOK, Top
  <1>3. QED
    BY <1>2 DEF PInv, BorrowOK

LEMMA AnalyseStep ==
    ASSUME PInv, ShowInv, NEW th \in Thread, Analyse(th)
    PROVE  ShowInv'
  <1> DEFINE n == Len(calls[th])
             t == Top(th).text
             p == AsAnalysed(t, tokenizer.mode, tokenizer.subset)
  <1>1. /\ calls[th] # <<>> /\ Top(th).op = "tokenize"
        /\ UNCHANGED <<cell, heap, part, object, iterator, shown>>
    BY DEF Analyse, At
  <1>2. PICK stage \in {"done", "failed"} :
            /\ Stage(th, stage)
            /\ IF stage = "done" THEN tokenizer' = [tokenizer EXCEPT !.text = t, !.path = p]
               ELSE tokenizer' = tokenizer
    BY DEF Analyse
  <1>3. /\ NestingOK'
        /\ \A u \in Thread :
              /\ Len(calls'[u]) = Len(calls[u])
              /\ \A k \in 1..Len(calls[u]) :
                    u # th \/ k # Len(calls[u]) => calls'[u][k] = calls[u][k]
        /\ SameCall(calls'[th][n], Top(th)) /\ calls'[th][n].stage = stage
    BY <1>1, <1>2, StageNests
  <1>4. \A u \in Thread : \A k \in 1..Len(calls[u]) :
            calls[u][k].op = "tokenize" => u = th /\ k = n
    BY <1>1, OnlyTokenizeCall
  <1>5. n \in 1..n
    BY <1>1, CallsLength DEF PInv
  <1>6. OldCalls("pre")
    <2>1. ASSUME NEW u \in Thread, NEW k \in 1..Len(calls'[u]), calls'[u][k].op = "pre"
          PROVE  \E j \in 1..Len(calls[u]) : calls'[u][k] = calls[u][j]
      <3>1. u # th \/ k # n
        BY <2>1, <1>1, <1>3 DEF SameCall
      <3>2. calls'[u][k] = calls[u][k] /\ k \in 1..Len(calls[u])
        BY <3>1, <1>3
      <3>3. QED
        BY <3>2
    <2>2. QED
      BY <2>1 DEF OldCalls
  <1>7. /\ {"mode", "subset", "text", "path"} \subseteq DOMAIN tokenizer'
        /\ tokenizer'.mode = tokenizer.mode /\ tokenizer'.subset = tokenizer.subset
        /\ stage = "done" => tokenizer'.text = t /\ tokenizer'.path = p
    <2>1. {"mode", "subset", "text", "path"} \subseteq DOMAIN tokenizer
      BY DEF ShowInv, TokenizerOK
    <2> HIDE DEF p, t
    <2>2. QED
      BY <1>2, <2>1
  <1>8. TokenizerOK'
    <2>1. ASSUME NEW u \in Thread, NEW k \in 1..Len(calls'[u]),
                 calls'[u][k].op = "tokenize"
          PROVE  /\ tokenizer'.mode = ModeOf(calls'[u][k].mode)
                 /\ calls'[u][k].stage = "done" =>
                        /\ tokenizer'.text = calls'[u][k].text
                        /\ tokenizer'.path = AsAnalysed(calls'[u][k].text,
                                                 tokenizer'.mode, tokenizer'.subset)
      <3>1. u = th /\ k = n
        <4>1. CASE u # th \/ k # n
          BY <2>1, <4>1, <1>3, <1>4
        <4>2. QED
          BY <4>1
      <3>2. calls'[u][k].mode = Top(th).mode /\ calls'[u][k].text = t
        BY <3>1, <1>1, <1>3 DEF SameCall
      <3>3. tokenizer.mode = ModeOf(Top(th).mode)
        BY <1>1, <1>5 DEF ShowInv, TokenizerOK, Top
      <3>4. calls'[u][k].stage = stage
        BY <3>1, <1>3
      <3> HIDE DEF t
      <3>5. QED
        BY <3>2, <3>3, <3>4, <1>7
    <2>2. /\ tokenizer'.mode \in Mode
          /\ ModeSubset(tokenizer'.mode) \subseteq tokenizer'.subset
          /\ FieldsOK(tokenizer'.subset)
      BY <1>7 DEF ShowInv, TokenizerOK
    <2>3. QED
      BY <1>7, <2>1, <2>2 DEF TokenizerOK
  <1>9. HeapOK' /\ ObjectsOK' /\ Out' = Out
    BY <1>1, HeapStays
  <1>10. CellsOK'
    BY <1>1, <1>6, <1>9, CellsStay
  <1>11. QED
    BY <1>3, <1>8, <1>9, <1>10 DEF ShowInv

\* The call gives the tokenizer back.
LEMMA GivenBack ==
    ASSUME PInv, ShowInv, NEW th \in Thread, calls[th] # <<>>,
           Top(th).op = "tokenize", Return(th),
           NEW tok, {"mode", "subset", "text", "path"} \subseteq DOMAIN tok,
           tok.mode = tokenizer.mode, tok.subset = tokenizer.subset,
           tokenizer' = Restored(th, tok)
    PROVE  /\ NestingOK' /\ TokenizerOK' /\ OldCalls("pre")
  <1> DEFINE n == Len(calls[th])
  <1>1. /\ NestingOK'
        /\ \A u \in Thread : \A k \in 1..Len(calls'[u]) :
              \E j \in 1..Len(calls[u]) : calls'[u][k] = calls[u][j]
    BY ReturnNests
  <1>2. OldCalls("pre")
    BY <1>1 DEF OldCalls
  <1>3. n \in Nat /\ n # 0 /\ n \in 1..n /\ CallsOK
    BY CallsLength DEF PInv
  <1>4. ASSUME NEW u \in Thread, NEW k \in 1..Len(calls'[u])
        PROVE  calls'[u][k].op # "tokenize"
    <2>1. CASE u # th
      <3>1. calls'[u] = calls[u]
        BY <2>1, <1>3, ReturnPops
      <3>2. QED
        BY <2>1, <3>1, OnlyTokenizeCall
    <2>2. CASE u = th
      <3>1. /\ Len(calls'[th]) = n - 1
            /\ \A j \in 1..n - 1 : calls'[th][j] = calls[th][j]
        BY <1>3, ReturnPops
      <3>2. k \in 1..n - 1 /\ k \in 1..n /\ k # n
        BY <2>2, <3>1, <1>3
      <3>3. calls'[u][k] = calls[th][k]
        BY <2>2, <3>1, <3>2
      <3>4. QED
        BY <3>2, <3>3, OnlyTokenizeCall
    <2>3. QED
      BY <2>1, <2>2
  <1>5. FieldsOK(tok.subset) /\ tok.mode \in Mode /\ ModeSubset(tok.mode) \subseteq tok.subset
    BY DEF ShowInv, TokenizerOK
  <1>6. /\ {"mode", "subset", "text", "path"} \subseteq DOMAIN tokenizer'
        /\ tokenizer'.mode \in Mode /\ ModeSubset(tokenizer'.mode) \subseteq tokenizer'.subset
        /\ FieldsOK(tokenizer'.subset)
    <2>1. CASE Top(th).saved = {}
      BY <2>1, <1>5 DEF Restored
    <2>2. CASE Top(th).saved # {}
      <3>1. Top(th).saved = {Default}
        BY <2>2, <1>3 DEF PInv, BorrowOK, Top
      <3>2. (CHOOSE m \in Top(th).saved : TRUE) = Default
        BY <3>1
      <3>3. tokenizer' = SetMode(tok, Default)
        BY <2>2, <3>2 DEF Restored
      <3>4. Default \in Mode
        BY BindingAssumption
      <3>5. QED
        BY <3>3, <3>4, <1>5, SetModeFields
    <2>3. QED
      BY <2>1, <2>2
  <1>7. TokenizerOK'
    BY <1>4, <1>6 DEF TokenizerOK
  <1>8. QED
    BY <1>1, <1>2, <1>7

LEMMA RaiseTokenizeStep ==
    ASSUME PInv, ShowInv, NEW th \in Thread, RaiseTokenize(th)
    PROVE  ShowInv'
  <1>1. /\ calls[th] # <<>> /\ Top(th).op = "tokenize" /\ Return(th)
        /\ tokenizer' = Restored(th, tokenizer)
        /\ UNCHANGED <<cell, heap, part, object, iterator, shown>>
    BY DEF RaiseTokenize, At
  <1>2. {"mode", "subset", "text", "path"} \subseteq DOMAIN tokenizer
    BY DEF ShowInv, TokenizerOK
  <1>3. NestingOK' /\ TokenizerOK' /\ OldCalls("pre")
    BY <1>1, <1>2, GivenBack
  <1>4. HeapOK' /\ ObjectsOK' /\ Out' = Out
    BY <1>1, HeapStays
  <1>5. CellsOK'
    BY <1>1, <1>3, <1>4, CellsStay
  <1>6. QED
    BY <1>3, <1>4, <1>5 DEF ShowInv

\* An analysis is put in a list.
LEMMA ResultInstalled ==
    ASSUME ShowInv, NEW l \in List, NEW t \in Text, NEW m \in Mode, NEW s,
           ModeSubset(m) \subseteq s, FieldsOK(s), NEW path, path = AsAnalysed(t, m, s),
           NEW p, p.text = t, p.subset = s, NEW by,
           Install(l, OfNodes(NewInput(l), path), p), Show(l, by, t, WordsOf(t, m))
    PROVE  /\ HeapOK' /\ DOMAIN heap' = DOMAIN heap \cup {l} /\ Out \subseteq Out'
           /\ \A k \in DOMAIN heap \ {l} : shown'[k] = shown[k]
           /\ shown'[l].by = by /\ shown'[l].text = t /\ shown'[l].words = WordsOf(t, m)
  <1> DEFINE x == OfNodes(NewInput(l), path)
  <1>1. x.backing = "List" /\ x.input = NewInput(l) /\ x.items = path
    BY DEF OfNodes
  <1>2. Install(l, x, p)
    OBVIOUS
  <1> HIDE DEF x
  <1>3. HeapOK
    BY DEF ShowInv
  <1>4. /\ IsSeq(path) /\ \A y \in Elems(path) : NodeOK(y) /\ y.text = t
        /\ Words(path) = WordsOf(t, m)
    BY AnalysedWords DEF NodesOf
  <1>5. Holds(x, p, by, t, WordsOf(t, m))
    BY <1>1, <1>4 DEF Holds
  <1>6. GoesWith(l, x, p)
    BY <1>1, <1>3, NewInputIsNew DEF GoesWith
  <1>7. /\ HeapOK' /\ DOMAIN heap' = DOMAIN heap \cup {l}
        /\ \A k \in DOMAIN heap \ {l} : shown'[k] = shown[k]
        /\ shown'[l].by = by /\ shown'[l].text = t /\ shown'[l].words = WordsOf(t, m)
    <2> DEFINE words == WordsOf(t, m)
    <2>1. Holds(x, p, by, t, words) /\ Show(l, by, t, words)
      BY <1>5
    <2> HIDE DEF words
    <2>2. /\ HeapOK' /\ DOMAIN heap' = DOMAIN heap \cup {l}
          /\ \A k \in DOMAIN heap \ {l} : shown'[k] = shown[k]
          /\ shown'[l].by = by /\ shown'[l].text = t /\ shown'[l].words = words
      BY <1>2, <1>3, <1>6, <2>1, Installs
    <2>3. QED
      BY <2>2 DEF words
  <1>8. Out \subseteq Out'
    BY <1>7 DEF Out
  <1>9. QED
    BY <1>7, <1>8

LEMMA CollectStep ==
    ASSUME PInv, ShowInv, NEW th \in Thread, Collect(th)
    PROVE  ShowInv'
  <1> DEFINE t == Top(th).text
             tok == [tokenizer EXCEPT !.text = EmptyText, !.path = <<>>]
             m == tokenizer.mode
             s == tokenizer.subset
             p == [text |-> tokenizer.text, subset |-> s]
  <1>1. /\ calls[th] # <<>> /\ Top(th).op = "tokenize" /\ Top(th).stage = "done"
        /\ Return(th) /\ tokenizer' = Restored(th, tok)
        /\ UNCHANGED <<cell, object, iterator>>
    BY DEF Collect, At
  <1>2. PICK l \in ListOf(Top(th).out) :
            /\ Install(l, OfNodes(NewInput(l), tokenizer.path), p)
            /\ Show(l, "call", t, WordsOf(t, ModeOf(Top(th).mode)))
    BY DEF Collect, ModeOf
  <1>3. Len(calls[th]) \in 1..Len(calls[th])
    BY <1>1, CallsLength DEF PInv
  <1>4. FrameOK(Top(th))
    BY <1>3 DEF ShowInv, NestingOK, Top
  <1>5. /\ m = ModeOf(Top(th).mode) /\ tokenizer.text = t
        /\ tokenizer.path = AsAnalysed(t, m, s)
    BY <1>1, <1>3 DEF ShowInv, TokenizerOK, Top
  <1>6. m \in Mode /\ ModeSubset(m) \subseteq s /\ FieldsOK(s)
        /\ {"mode", "subset", "text", "path"} \subseteq DOMAIN tokenizer
    BY DEF ShowInv, TokenizerOK
  <1>7. t \in Text /\ l \in List
    <2>1. t \in Text /\ Top(th).out \in {{}} \cup {{o} : o \in List}
      BY <1>1, <1>4 DEF FrameOK
    <2>2. HeapOK
      BY DEF ShowInv
    <2>3. QED
      BY <1>2, <2>1, <2>2, ListsOfOut
  <1>8. p.text = t /\ p.subset = s
    BY <1>5
  <1>9. tok.mode = m /\ tok.subset = s
        /\ {"mode", "subset", "text", "path"} \subseteq DOMAIN tok
    BY <1>6
  <1>10. Show(l, "call", t, WordsOf(t, m))
    BY <1>2, <1>5
  <1> HIDE DEF p, tok
  <1>11. NestingOK' /\ TokenizerOK' /\ OldCalls("pre")
    BY <1>1, <1>9, GivenBack
  <1> HIDE DEF t, m, s
  <1>12. /\ HeapOK' /\ DOMAIN heap' = DOMAIN heap \cup {l} /\ Out \subseteq Out'
         /\ \A k \in DOMAIN heap \ {l} : shown'[k] = shown[k]
         /\ shown'[l].by = "call"
    <2> DEFINE path == tokenizer.path
               by == "call"
    <2>1. /\ Install(l, OfNodes(NewInput(l), path), p) /\ path = AsAnalysed(t, m, s)
          /\ Show(l, by, t, WordsOf(t, m))
      BY <1>2, <1>5, <1>10
    <2> HIDE DEF path, by
    <2>2. /\ HeapOK' /\ DOMAIN heap' = DOMAIN heap \cup {l} /\ Out \subseteq Out'
          /\ \A k \in DOMAIN heap \ {l} : shown'[k] = shown[k]
          /\ shown'[l].by = by
      BY <1>6, <1>7, <1>8, <2>1, ResultInstalled
    <2>3. QED
      BY <2>2 DEF by
  <1>13. CellsOK'
    BY <1>1, <1>11, <1>12, CellsStay
  <1>14. ObjectsOK'
    BY <1>1, <1>12, HeldOK DEF ObjectsOK, ObjectOK, IteratorOK
  <1>15. QED
    BY <1>11, <1>12, <1>13, <1>14 DEF ShowInv

\* The pre-tokenizer is called, or a call of it ends.
LEMMA PreCallStep ==
    ASSUME PInv, ShowInv, NEW th \in Thread,
           (\E t \in Text : BeginPre(th, t)) \/ RaisePre(th) \/ EndHandler(th)
    PROVE  ShowInv'
  <1>1. UNCHANGED <<tokenizer, owner, cell, heap, part, object, iterator, shown>>
    BY DEF BeginPre, RaisePre, EndHandler
  <1>2. NestingOK' /\ OldCalls("tokenize") /\ CellsOK'
    <2>1. HeapOK' /\ ObjectsOK' /\ Out' = Out
      BY <1>1, HeapStays
    <2>2. ASSUME NEW t \in Text, BeginPre(th, t)
          PROVE  NestingOK' /\ OldCalls("tokenize") /\ CellsOK'
      <3> DEFINE f == [op |-> "pre", stage |-> "detached", text |-> t]
      <3>1. /\ Runs(th) /\ Call(th, f)
            /\ \A k \in DOMAIN calls[th] : calls[th][k].op # "pre"
        BY <2>2 DEF BeginPre
      <3>2. /\ {"op", "stage", "text"} \subseteq DOMAIN f
            /\ f.op = "pre" /\ f.text = t /\ f.stage = "detached"
        OBVIOUS
      <3> HIDE DEF f
      <3>3. FrameOK(f)
        BY <3>2 DEF FrameOK
      <3>4. \A k \in 1..Len(calls[th]) : calls[th][k].op # "pre"
        <4>1. DOMAIN calls[th] = 1..Len(calls[th])
          BY CallsLength DEF PInv
        <4>2. QED
          BY <3>1, <4>1
      <3>5. /\ NestingOK'
            /\ \A u \in Thread : \A k \in 1..Len(calls'[u]) :
                  \/ u = th /\ calls'[u][k] = f
                  \/ \E j \in 1..Len(calls[u]) : calls'[u][k] = calls[u][j]
        BY <3>1, <3>3, <3>4, CallNests
      <3>6. OldCalls("tokenize")
        BY <3>2, <3>5 DEF OldCalls
      <3>7. ASSUME NEW u \in Thread, NEW k \in 1..Len(calls'[u]),
                   calls'[u][k].op = "pre"
            PROVE  /\ calls'[u][k].stage = "done" =>
                          /\ cell[u].text = calls'[u][k].text
                          /\ cell[u].path = AsAnalysed(calls'[u][k].text, Default,
                                                       Created(PreFields))
                   /\ calls'[u][k].stage = "handler" =>
                          \A l \in cell[u].list : shown[l].by = "pre" =>
                              /\ shown[l].text = calls'[u][k].text
                              /\ shown[l].words = WordsOf(calls'[u][k].text, Default)
        <4>1. CASE calls'[u][k] = f
          BY <4>1, <3>2
        <4>2. ASSUME NEW j \in 1..Len(calls[u]), calls'[u][k] = calls[u][j]
              PROVE  /\ calls'[u][k].stage = "done" =>
                            /\ cell[u].text = calls'[u][k].text
                            /\ cell[u].path = AsAnalysed(calls'[u][k].text, Default,
                                                         Created(PreFields))
                     /\ calls'[u][k].stage = "handler" =>
                            \A l \in cell[u].list : shown[l].by = "pre" =>
                                /\ shown[l].text = calls'[u][k].text
                                /\ shown[l].words = WordsOf(calls'[u][k].text, Default)
          BY <3>7, <4>2 DEF ShowInv, CellsOK
        <4>3. QED
          BY <3>5, <4>1, <4>2
      <3>8. CellsOK'
        BY <1>1, <2>1, <3>7 DEF ShowInv, CellsOK
      <3>9. QED
        BY <3>5, <3>6, <3>8
    <2>3. CASE RaisePre(th) \/ EndHandler(th)
      <3>1. calls[th] # <<>> /\ Return(th)
        BY <2>3 DEF RaisePre, EndHandler, At
      <3>2. /\ NestingOK'
            /\ \A u \in Thread : \A k \in 1..Len(calls'[u]) :
                  \E j \in 1..Len(calls[u]) : calls'[u][k] = calls[u][j]
        BY <3>1, ReturnNests
      <3>3. OldCalls("tokenize") /\ OldCalls("pre")
        BY <3>2 DEF OldCalls
      <3>4. CellsOK'
        BY <1>1, <2>1, <3>3, CellsStay
      <3>5. QED
        BY <3>2, <3>3, <3>4
    <2>4. QED
      BY <2>2, <2>3
  <1>3. HeapOK' /\ ObjectsOK'
    BY <1>1, HeapStays
  <1>4. TokenizerOK'
    BY <1>1, <1>2, TokenizerStays
  <1>5. QED
    BY <1>2, <1>3, <1>4 DEF ShowInv

\* The call of the pre-tokenizer a thread is in goes on.
LEMMA PreStages ==
    ASSUME PInv, ShowInv, NEW th \in Thread, calls[th] # <<>>, Top(th).op = "pre",
           NEW stage, Stage(th, stage)
    PROVE  /\ NestingOK' /\ OldCalls("tokenize")
           /\ \A u \in Thread : \A k \in 1..Len(calls'[u]) : calls'[u][k].op = "pre" =>
                 \/ /\ u = th
                    /\ calls'[u][k].text = Top(th).text /\ calls'[u][k].stage = stage
                 \/ /\ u # th
                    /\ \E j \in 1..Len(calls[u]) : calls'[u][k] = calls[u][j]
  <1> DEFINE n == Len(calls[th])
  <1>1. /\ NestingOK'
        /\ \A u \in Thread :
              /\ Len(calls'[u]) = Len(calls[u])
              /\ \A k \in 1..Len(calls[u]) :
                    u # th \/ k # Len(calls[u]) => calls'[u][k] = calls[u][k]
        /\ SameCall(calls'[th][n], Top(th)) /\ calls'[th][n].stage = stage
    BY StageNests
  <1>2. n \in 1..n
    BY CallsLength DEF PInv
  <1>3. \A k \in 1..n : calls[th][k].op = "pre" => k = n
    BY <1>2 DEF ShowInv, NestingOK, Top
  <1>4. ASSUME NEW u \in Thread, NEW k \in 1..Len(calls'[u]), calls'[u][k].op = "tokenize"
        PROVE  \E j \in 1..Len(calls[u]) : calls'[u][k] = calls[u][j]
    <2>1. u # th \/ k # n
      BY <1>1, <1>4 DEF SameCall
    <2>2. calls'[u][k] = calls[u][k] /\ k \in 1..Len(calls[u])
      BY <1>1, <2>1
    <2>3. QED
      BY <2>2
  <1>5. ASSUME NEW u \in Thread, NEW k \in 1..Len(calls'[u]), calls'[u][k].op = "pre"
        PROVE  \/ /\ u = th
                  /\ calls'[u][k].text = Top(th).text /\ calls'[u][k].stage = stage
               \/ /\ u # th
                  /\ \E j \in 1..Len(calls[u]) : calls'[u][k] = calls[u][j]
    <2>1. CASE u # th
      <3>1. calls'[u][k] = calls[u][k] /\ k \in 1..Len(calls[u])
        BY <2>1, <1>1
      <3>2. QED
        BY <2>1, <3>1
    <2>2. CASE u = th /\ k # n
      <3>1. calls[th][k].op = "pre" /\ k \in 1..n
        BY <2>2, <1>1, <1>5
      <3>2. QED
        BY <2>2, <3>1, <1>3
    <2>3. CASE u = th /\ k = n
      BY <2>3, <1>1 DEF SameCall
    <2>4. QED
      BY <2>1, <2>2, <2>3
  <1>6. OldCalls("tokenize")
    BY <1>4 DEF OldCalls
  <1>7. QED
    BY <1>1, <1>5, <1>6

\* ... in the cells of the threads.
CellHolds(u, k) ==
    calls[u][k].op = "pre" =>
        /\ calls[u][k].stage = "done" =>
               /\ cell[u].text = calls[u][k].text
               /\ cell[u].path = AsAnalysed(calls[u][k].text, Default, Created(PreFields))
        /\ calls[u][k].stage = "handler" =>
               \A l \in cell[u].list : shown[l].by = "pre" =>
                   /\ shown[l].text = calls[u][k].text
                   /\ shown[l].words = WordsOf(calls[u][k].text, Default)

LEMMA AnalysePreStep ==
    ASSUME PInv, ShowInv, NEW th \in Thread, AnalysePre(th)
    PROVE  ShowInv'
  <1> DEFINE t == Top(th).text
             p == AsAnalysed(t, Default, Created(PreFields))
  <1>1. /\ calls[th] # <<>> /\ Top(th).op = "pre"
        /\ UNCHANGED <<tokenizer, heap, part, object, iterator, shown>>
    BY DEF AnalysePre, At
  <1>2. PICK stage \in {"done", "failed"} :
            /\ Stage(th, stage)
            /\ IF stage = "done"
               THEN cell' = [cell EXCEPT ![th].text = t, ![th].path = p]
               ELSE cell' = cell
    BY DEF AnalysePre
  <1>3. /\ NestingOK' /\ OldCalls("tokenize")
        /\ \A u \in Thread : \A k \in 1..Len(calls'[u]) : calls'[u][k].op = "pre" =>
              \/ /\ u = th
                 /\ calls'[u][k].text = t /\ calls'[u][k].stage = stage
              \/ /\ u # th
                 /\ \E j \in 1..Len(calls[u]) : calls'[u][k] = calls[u][j]
    BY <1>1, <1>2, PreStages
  <1>4. /\ cell = [u \in Thread |-> cell[u]]
        /\ \A u \in Thread : {"text", "path", "list"} \subseteq DOMAIN cell[u]
    BY DEF ShowInv, CellsOK
  <1> HIDE DEF t, p
  <1>5. /\ cell' = [u \in Thread |-> cell'[u]]
        /\ \A u \in Thread \ {th} : cell'[u] = cell[u]
        /\ {"text", "path", "list"} \subseteq DOMAIN cell'[th]
        /\ cell'[th].list = cell[th].list
        /\ stage = "done" => cell'[th].text = t /\ cell'[th].path = p
    <2>1. CASE stage = "done"
      <3> DEFINE c == cell[th]
                 d == [c EXCEPT !.text = t, !.path = p]
      <3>1. cell' = [cell EXCEPT ![th] = d]
        BY <1>2, <2>1
      <3>2. DOMAIN d = DOMAIN c /\ d.list = c.list /\ d.text = t /\ d.path = p
        BY <1>4
      <3> HIDE DEF d
      <3>3. QED
        BY <1>4, <3>1, <3>2
    <2>2. CASE stage # "done"
      BY <1>2, <1>4, <2>2
    <2>3. QED
      BY <2>1, <2>2
  <1>6. HeapOK' /\ ObjectsOK' /\ Out' = Out
    BY <1>1, HeapStays
  <1>7. ASSUME NEW u \in Thread, NEW k \in 1..Len(calls'[u]) PROVE CellHolds(u, k)'
    <2>1. CASE u = th
      BY <2>1, <1>2, <1>3, <1>5 DEF CellHolds, p
    <2>2. CASE u # th
      <3>1. SUFFICES ASSUME calls'[u][k].op = "pre" PROVE CellHolds(u, k)'
        BY DEF CellHolds
      <3>2. PICK j \in 1..Len(calls[u]) : calls'[u][k] = calls[u][j]
        BY <2>2, <3>1, <1>3
      <3>3. CellHolds(u, j)
        BY DEF ShowInv, CellsOK, CellHolds
      <3>4. cell'[u] = cell[u] /\ shown' = shown
        BY <2>2, <1>1, <1>5
      <3>5. QED
        BY <3>2, <3>3, <3>4 DEF CellHolds
    <2>3. QED
      BY <2>1, <2>2
  <1>8. \A u \in Thread : cell'[u].list = cell[u].list
                          /\ {"text", "path", "list"} \subseteq DOMAIN cell'[u]
    BY <1>4, <1>5
  <1>9. CellsOK'
    <2>1. \A u \in Thread :
              /\ cell'[u].list \in Out'
              /\ \A v \in Thread \ {u} : cell'[u].list \cap cell'[v].list = {}
      BY <1>6, <1>8 DEF ShowInv, CellsOK
    <2>2. QED
      BY <1>5, <1>7, <1>8, <2>1 DEF CellsOK, CellHolds
  <1>10. TokenizerOK'
    BY <1>1, <1>3, TokenizerStays
  <1>11. QED
    BY <1>3, <1>6, <1>9, <1>10 DEF ShowInv

\* The result goes into the list of the thread, which is nobody else's.
LEMMA CollectPreStep ==
    ASSUME SplitsResolved, PInv, ShowInv, NEW th \in Thread, CollectPre(th)
    PROVE  ShowInv'
  <1> DEFINE t == Top(th).text
             s == Created(PreFields)
             p == [text |-> cell[th].text, subset |-> s]
  <1>1. /\ calls[th] # <<>> /\ Top(th).op = "pre" /\ Top(th).stage = "done"
        /\ Stage(th, "handler") /\ UNCHANGED <<tokenizer, object, iterator>>
    BY DEF CollectPre, At
  <1>2. PICK l \in ListOf(cell[th].list) :
            /\ Install(l, OfNodes(NewInput(l), cell[th].path), p)
            /\ Show(l, "pre", t, WordsOf(t, Default))
            /\ cell' = [cell EXCEPT ![th] = [text |-> EmptyText, path |-> <<>>, list |-> {l}]]
    BY DEF CollectPre
  <1>3. Len(calls[th]) \in 1..Len(calls[th])
    BY <1>1, CallsLength DEF PInv
  <1>4. t \in Text
    BY <1>3 DEF ShowInv, NestingOK, FrameOK, Top
  <1>5. cell[th].text = t /\ cell[th].path = AsAnalysed(t, Default, s)
    BY <1>1, <1>3 DEF ShowInv, CellsOK, Top
  <1>6. Default \in Mode /\ ModeSubset(Default) \subseteq s /\ FieldsOK(s)
    BY BindingAssumption, CreatedFields
  <1>7. HeapOK /\ cell[th].list \in Out
    BY DEF ShowInv, CellsOK
  <1>8. l \in List
    BY <1>2, <1>7, ListsOfOut, OutIsList
  <1>9. p.text = t /\ p.subset = s
    BY <1>5
  <1>10. l \notin UNION {cell[u].list : u \in Thread \ {th}}
    <2>1. ASSUME NEW u \in Thread \ {th}, l \in cell[u].list
          PROVE  FALSE
      <3>1. cell[u].list \in Out /\ cell[th].list \cap cell[u].list = {}
        BY DEF ShowInv, CellsOK
      <3>2. l \in DOMAIN heap
        BY <2>1, <3>1 DEF Out
      <3>3. CASE cell[th].list = {}
        <4>1. l \in NewList
          BY <1>2, <3>3 DEF ListOf
        <4>2. Unborn # {} /\ l = CHOOSE o \in List : o \in Unborn
          BY <4>1 DEF NewList
        <4>3. l \in Unborn
          BY <4>2 DEF Unborn
        <4>4. QED
          BY <3>2, <4>3 DEF Unborn
      <3>4. CASE cell[th].list # {}
        <4>1. l \in cell[th].list
          BY <1>2, <3>4 DEF ListOf
        <4>2. QED
          BY <2>1, <3>1, <4>1
      <3>5. QED
        BY <3>3, <3>4
    <2>2. QED
      BY <2>1
  <1>11. /\ NestingOK' /\ OldCalls("tokenize")
         /\ \A u \in Thread : \A k \in 1..Len(calls'[u]) : calls'[u][k].op = "pre" =>
               \/ /\ u = th
                  /\ calls'[u][k].text = t /\ calls'[u][k].stage = "handler"
               \/ /\ u # th
                  /\ \E j \in 1..Len(calls[u]) : calls'[u][k] = calls[u][j]
    BY <1>1, PreStages
  <1> HIDE DEF t, s, p
  <1>12. /\ HeapOK' /\ DOMAIN heap' = DOMAIN heap \cup {l} /\ Out \subseteq Out'
         /\ \A k \in DOMAIN heap \ {l} : shown'[k] = shown[k]
         /\ shown'[l].text = t /\ shown'[l].words = WordsOf(t, Default)
    <2> DEFINE path == cell[th].path
               by == "pre"
    <2>1. /\ Install(l, OfNodes(NewInput(l), path), p) /\ path = AsAnalysed(t, Default, s)
          /\ Show(l, by, t, WordsOf(t, Default))
      BY <1>2, <1>5
    <2> HIDE DEF path, by
    <2>2. QED
      BY <1>4, <1>6, <1>8, <1>9, <2>1, ResultInstalled
  <1>13. /\ cell' = [u \in Thread |-> cell'[u]]
         /\ \A u \in Thread \ {th} : cell'[u] = cell[u]
         /\ {"text", "path", "list"} \subseteq DOMAIN cell'[th]
         /\ cell'[th].list = {l}
    <2>1. cell = [u \in Thread |-> cell[u]]
      BY DEF ShowInv, CellsOK
    <2>2. QED
      BY <1>2, <2>1
  <1>14. ASSUME NEW u \in Thread, NEW k \in 1..Len(calls'[u]) PROVE CellHolds(u, k)'
    <2>1. CASE u = th
      BY <2>1, <1>11, <1>12, <1>13 DEF CellHolds
    <2>2. CASE u # th
      <3>1. SUFFICES ASSUME calls'[u][k].op = "pre" PROVE CellHolds(u, k)'
        BY DEF CellHolds
      <3>2. PICK j \in 1..Len(calls[u]) : calls'[u][k] = calls[u][j]
        BY <2>2, <3>1, <1>11
      <3>3. CellHolds(u, j) /\ cell[u].list \in Out
        BY DEF ShowInv, CellsOK, CellHolds
      <3>4. cell'[u] = cell[u]
        BY <2>2, <1>13
      <3>5. \A o \in cell[u].list : shown'[o] = shown[o]
        BY <2>2, <3>3, <1>10, <1>12 DEF Out
      <3>6. QED
        BY <3>2, <3>3, <3>4, <3>5 DEF CellHolds
    <2>3. QED
      BY <2>1, <2>2
  <1>15. CellsOK'
    <2>1. \A u \in Thread : {"text", "path", "list"} \subseteq DOMAIN cell'[u]
      BY <1>13 DEF ShowInv, CellsOK
    <2>2. \A u \in Thread : cell'[u].list \in Out'
      <3>1. {l} \in Out'
        BY <1>12 DEF Out
      <3>2. QED
        BY <3>1, <1>12, <1>13 DEF ShowInv, CellsOK
    <2>3. \A u \in Thread : \A v \in Thread \ {u} : cell'[u].list \cap cell'[v].list = {}
      BY <1>10, <1>13 DEF ShowInv, CellsOK
    <2>4. QED
      BY <1>13, <1>14, <2>1, <2>2, <2>3 DEF CellsOK, CellHolds
  <1>16. TokenizerOK'
    BY <1>1, <1>11, TokenizerStays
  <1>17. ObjectsOK'
    BY <1>1, <1>12, HeldOK DEF ObjectsOK, ObjectOK, IteratorOK
  <1>18. QED
    BY <1>11, <1>12, <1>15, <1>16, <1>17 DEF ShowInv

----------------------------------------------------------------------------
(* The invariant, and what it says of the lists.                           *)

LEMMA ShowStepInv ==
    ASSUME SplitsResolved, PInv, ShowInv, [PythonNext]_python_vars
    PROVE  ShowInv'
  <1>1. ASSUME NEW th \in Thread, ThreadStep(th) PROVE ShowInv'
    BY <1>1, BeginTokenizeStep, AnalyseStep, RaiseTokenizeStep, CollectStep,
       PreCallStep, AnalysePreStep, CollectPreStep DEF ThreadStep
  <1>2. CASE ProgramStep
    BY <1>2, SplitStep, DictionaryStep, HoldStep, GetFormStep, NextItemStep,
       NextEntryStep, DropStep DEF ProgramStep
  <1>3. CASE UNCHANGED python_vars
    <2>1. UNCHANGED <<tokenizer, cell, heap, part, calls, shown, object, iterator>>
      BY <1>3 DEF python_vars
    <2>2. QED
      BY <2>1, HeldOK, ObjectStep
  <1>4. QED
    BY <1>1, <1>2, <1>3 DEF PythonNext

LEMMA ShowInitInv ==
    ASSUME SplitsResolved, PythonInit
    PROVE  ShowInv
  <1>1. /\ heap = <<>> /\ part = <<>> /\ shown = <<>> /\ object = {} /\ iterator = {}
        /\ cell = [th \in Thread |-> [text |-> EmptyText, path |-> <<>>, list |-> {}]]
        /\ \A th \in Thread : calls[th] = <<>> /\ Len(calls[th]) = 0
    BY DEF PythonInit
  <1>2. NestingOK /\ ObjectsOK
    BY <1>1 DEF NestingOK, ObjectsOK
  <1>3. PICK s \in Subsets :
            tokenizer = [mode |-> Default, subset |-> Created(s), text |-> EmptyText,
                         path |-> <<>>]
    BY DEF PythonInit
  <1>4. TokenizerOK
    <2>1. FieldsOK(Created(s)) /\ ModeSubset(Default) \subseteq Created(s)
      BY CreatedFields
    <2>2. /\ {"mode", "subset", "text", "path"} \subseteq DOMAIN tokenizer
          /\ tokenizer.mode = Default /\ tokenizer.subset = Created(s)
      BY <1>3
    <2>3. QED
      BY <1>1, <2>1, <2>2, BindingAssumption DEF TokenizerOK
  <1>5. CellsOK
    <2>1. /\ cell = [th \in Thread |-> cell[th]]
          /\ \A th \in Thread : /\ {"text", "path", "list"} \subseteq DOMAIN cell[th]
                                /\ cell[th].list = {}
      BY <1>1
    <2>2. QED
      BY <1>1, <2>1 DEF CellsOK, Out
  <1>6. HeapOK
    <2>1. DOMAIN heap = {} /\ heap = [l \in {} |-> heap[l]]
          /\ shown = [l \in {} |-> shown[l]] /\ part = [a \in {} |-> part[a]]
      BY <1>1
    <2>2. Used(heap) = {}
      BY <2>1 DEF Used
    <2>3. QED
      BY <2>1, <2>2 DEF HeapOK
  <1>7. QED
    BY <1>2, <1>4, <1>5, <1>6 DEF ShowInv

LEMMA ListsOfShowInv == ShowInv => ListsShowTheirResult
  <1>1. SUFFICES ASSUME ShowInv, NEW l \in DOMAIN heap, shown[l].by # "single"
                 PROVE  Reads(l, shown[l].text, shown[l].words)
    BY DEF ListsShowTheirResult
  <1>2. Holds(heap[l], InputOfList(l), shown[l].by, shown[l].text, shown[l].words)
    BY <1>1 DEF ShowInv, HeapOK
  <1>3. QED
    BY <1>1, <1>2 DEF Holds, InputOfList, Reads

LEMMA HandlersOfShowInv == PInv /\ ShowInv => HandlersSeeTheirText
  <1>1. SUFFICES ASSUME PInv, ShowInv, NEW th \in Thread, NEW k \in DOMAIN calls[th],
                        calls[th][k].op = "pre", calls[th][k].stage = "handler",
                        NEW l \in cell[th].list, shown[l].by = "pre"
                 PROVE  Reads(l, calls[th][k].text, WordsOf(calls[th][k].text, Default))
    BY DEF HandlersSeeTheirText
  <1>2. k \in 1..Len(calls[th])
    BY <1>1, CallsLength DEF PInv
  <1>3. /\ shown[l].text = calls[th][k].text
        /\ shown[l].words = WordsOf(calls[th][k].text, Default)
    BY <1>1, <1>2 DEF ShowInv, CellsOK
  <1>4. l \in DOMAIN heap
    BY <1>1 DEF ShowInv, CellsOK, Out
  <1>5. ListsShowTheirResult
    BY <1>1, ListsOfShowInv
  <1>6. QED
    BY <1>1, <1>3, <1>4, <1>5 DEF ListsShowTheirResult

\* A Python list shows what the last call into it was to put there, for any
\* number of threads that share the tokenizer and any depth of their calls: the
\* words of its text in the mode of the call, or those a lookup or a split gives.
THEOREM ListsShowTheirResultCorrect ==
    SplitsResolved => (PythonSpec => []ListsShowTheirResult)
  <1>1. SUFFICES ASSUME SplitsResolved PROVE PythonSpec => []ListsShowTheirResult
    OBVIOUS
  <1>2. PythonInit => PInv /\ ShowInv
    BY <1>1, PythonInitInv, ShowInitInv
  <1>3. PInv /\ ShowInv /\ [PythonNext]_python_vars => (PInv /\ ShowInv)'
    BY <1>1, PythonStepInv, ShowStepInv
  <1>4. PInv /\ ShowInv => ListsShowTheirResult
    BY ListsOfShowInv
  <1>5. QED
    BY <1>2, <1>3, <1>4, PTL DEF PythonSpec

\* So does the list a handler of the pre-tokenizer was given, while it runs,
\* whatever it and other threads call: each thread has an analyser and a list of
\* its own.
THEOREM HandlersSeeTheirTextCorrect ==
    SplitsResolved => (PythonSpec => []HandlersSeeTheirText)
  <1>1. SUFFICES ASSUME SplitsResolved PROVE PythonSpec => []HandlersSeeTheirText
    OBVIOUS
  <1>2. PythonInit => PInv /\ ShowInv
    BY <1>1, PythonInitInv, ShowInitInv
  <1>3. PInv /\ ShowInv /\ [PythonNext]_python_vars => (PInv /\ ShowInv)'
    BY <1>1, PythonStepInv, ShowStepInv
  <1>4. PInv /\ ShowInv => HandlersSeeTheirText
    BY HandlersOfShowInv
  <1>5. QED
    BY <1>2, <1>3, <1>4, PTL DEF PythonSpec
=============================================================================
