------------------------- MODULE InputBufferProofs -------------------------
(***************************************************************************)
(* Proofs about InputBuffer, for every set of texts and replacements and   *)
(* for all limits: types, the length limit, the freshness of the decoded   *)
(* characters, that the surfaces of an analysis tile the original text and *)
(* cover what their tokens were made of, that a failed edit changes        *)
(* nothing, and that the indices of build agree; and about TextPlugins:    *)
(* the input text plugins implement it.                                    *)
(***************************************************************************)
EXTENDS TextPlugins, FiniteSetTheorems, SequenceFacts

Op == [from : Nat, to : Nat, with : Replacements]

\* All offsets of s are at most b; all of them are in b..c.
Below(s, b) == \A i \in 1..Len(s) : s[i] =< b
Between(s, b, c) == \A i \in 1..Len(s) : b =< s[i] /\ s[i] =< c

\* What an iteration of resolve_edits leaves in the target mapping, and r
\* being the mapping of a replacement of the range [f, t).
Written(g, m, st, f, r) == g \o SubSeq(m, st + 1, f) \o r
StandsFor(r, m, f, t) ==
    \A i \in 1..Len(r) : r[i] = IF i = 1 THEN m[f + 1] ELSE m[t + 1]

\* The replacements queued by one plugin run from left to right over the
\* text, without overlap; none is left over when no plugin is running.
QueueOK ==
    /\ pc = "idle" => replaces = <<>>
    /\ pc # "idle" => state = "RW"
    /\ \A k \in 1..Len(replaces) :
          /\ replaces[k].from < replaces[k].to
          /\ replaces[k].to =< Len(modified)
    /\ \A k, l \in 1..Len(replaces) :
          k < l => replaces[k].to =< replaces[l].from

\* The loop of resolve_edits: what was written so far is aligned, monotone
\* and below the mapping of everything that is still to be copied.
LoopOK ==
    pc = "resolving" =>
        /\ modified # <<>> /\ mod_chars = <<>>
        /\ start =< Len(modified)
        /\ \A k \in 1..Len(replaces) : start =< replaces[k].from
        /\ Len(m2o_2) = Len(modified_2)
        /\ m2o_2 \in Seq(Nat)
        /\ Monotone(m2o_2)
        /\ Below(m2o_2, m2o[start + 1])
        /\ cur_len = Len(modified_2) + Len(modified) - start
        /\ cur_len =< ReallyMaxLength

CleanOK == state = "Clean" => modified = <<>> /\ m2o = <<>> /\ mod_chars = <<>>

\* The history variables follow the bytes they describe.
HistoryOK ==
    /\ state # "Clean" => Len(origin) = Len(modified)
    /\ pc = "resolving" => Len(origin_2) = Len(modified_2)

IInv ==
    /\ TypeOK
    /\ HistoryOK
    /\ QueueOK
    /\ LoopOK
    /\ CleanOK
    /\ SurfacesTile
    /\ CharsFresh
    /\ LengthBounded

----------------------------------------------------------------------------
(* Sequences of offsets.                                                   *)

\* Concatenating two monotone sequences, the first below the second, gives a
\* monotone one: the step of the loop of resolve_edits.
LEMMA MonotoneConcat ==
    ASSUME NEW s \in Seq(Nat), NEW t \in Seq(Nat), Monotone(s), Monotone(t),
           \A i \in 1..Len(s), j \in 1..Len(t) : s[i] =< t[j]
    PROVE  Monotone(s \o t)
  <1>1. SUFFICES ASSUME NEW i \in 1..Len(s \o t), NEW j \in 1..Len(s \o t), i =< j
                 PROVE  (s \o t)[i] =< (s \o t)[j]
    BY DEF Monotone
  <1>a. /\ Len(s) \in Nat /\ Len(t) \in Nat
        /\ Len(s \o t) = Len(s) + Len(t)
        /\ \A k \in 1..Len(s) : (s \o t)[k] = s[k]
        /\ \A k \in 1..Len(t) : (s \o t)[Len(s) + k] = t[k]
    BY ConcatProperties
  <1>2. CASE j =< Len(s)
    BY <1>1, <1>2, <1>a DEF Monotone
  <1>3. CASE i > Len(s)
    <2>1. /\ i - Len(s) \in 1..Len(t) /\ j - Len(s) \in 1..Len(t)
          /\ i - Len(s) =< j - Len(s)
      BY <1>1, <1>3, <1>a
    <2>2. t[i - Len(s)] =< t[j - Len(s)]
      BY <2>1 DEF Monotone
    <2>3. (s \o t)[i] = t[i - Len(s)] /\ (s \o t)[j] = t[j - Len(s)]
      BY <2>1, <1>a
    <2>4. QED
      BY <2>2, <2>3
  <1>4. CASE i =< Len(s) /\ j > Len(s)
    BY <1>1, <1>4, <1>a DEF Monotone
  <1>5. QED
    BY <1>2, <1>3, <1>4

\* A monotone sequence below b followed by one between b and c.
LEMMA BoundedConcat ==
    ASSUME NEW s \in Seq(Nat), NEW t \in Seq(Nat), NEW b \in Nat, NEW c \in Nat,
           Monotone(s), Monotone(t), b =< c, Below(s, b), Between(t, b, c)
    PROVE  /\ s \o t \in Seq(Nat)
           /\ Len(s \o t) = Len(s) + Len(t)
           /\ Monotone(s \o t)
           /\ Below(s \o t, c)
  <1>1. /\ Len(s) \in Nat /\ Len(t) \in Nat
        /\ s \o t \in Seq(Nat) /\ Len(s \o t) = Len(s) + Len(t)
        /\ \A k \in 1..Len(s) : (s \o t)[k] = s[k]
        /\ \A k \in 1..Len(t) : (s \o t)[Len(s) + k] = t[k]
    BY ConcatProperties
  <1>2. \A k \in 1..Len(s) : s[k] \in Nat /\ s[k] =< b
    BY DEF Below
  <1>3. \A k \in 1..Len(t) : t[k] \in Nat /\ b =< t[k] /\ t[k] =< c
    BY DEF Between
  <1>4. \A i \in 1..Len(s), j \in 1..Len(t) : s[i] =< t[j]
    BY <1>2, <1>3, SMTT(30)
  <1>5. Monotone(s \o t)
    BY <1>4, MonotoneConcat
  <1>6. ASSUME NEW i \in 1..Len(s \o t)
        PROVE  (s \o t)[i] =< c
    <2>1. CASE i =< Len(s)
      BY <2>1, <1>1, <1>2
    <2>2. CASE i > Len(s)
      <3>1. i - Len(s) \in 1..Len(t)
        BY <2>2, <1>1
      <3>2. (s \o t)[i] = t[i - Len(s)]
        BY <3>1, <1>1
      <3>3. QED
        BY <3>1, <3>2, <1>3
    <2>3. QED
      BY <2>1, <2>2, <1>1
  <1>7. QED
    BY <1>1, <1>5, <1>6 DEF Below

\* The slice [a, b) of a vector, with the code's offsets.
LEMMA Slice ==
    ASSUME NEW X, NEW s \in Seq(X), NEW a \in Nat, NEW b \in Nat,
           a =< b, b =< Len(s)
    PROVE  /\ SubSeq(s, a + 1, b) \in Seq(X)
           /\ Len(SubSeq(s, a + 1, b)) = b - a
           /\ \A i \in 1..b - a : SubSeq(s, a + 1, b)[i] = s[a + i]
  <1>1. \A i \in (a + 1)..b : s[i] \in X
    OBVIOUS
  <1>2. QED
    BY <1>1, SubSeqProperties

\* Forcing the first offset down to 0 keeps a sequence monotone.
LEMMA MonotoneFirstZero ==
    ASSUME NEW s \in Seq(Nat), Monotone(s), s # <<>>
    PROVE  /\ [s EXCEPT ![1] = 0] \in Seq(Nat)
           /\ Monotone([s EXCEPT ![1] = 0])
           /\ Len([s EXCEPT ![1] = 0]) = Len(s)
           /\ [s EXCEPT ![1] = 0][1] = 0
  BY DEF Monotone

\* One edit, as a fact about vectors: g is what was written for the bytes
\* before st, m the mapping being edited, [f, t) the range replaced and r
\* the mapping of the replacement.
LEMMA EditMapping ==
    ASSUME NEW m \in Seq(Nat), NEW g \in Seq(Nat), NEW r \in Seq(Nat),
           NEW st \in Nat, NEW f \in Nat, NEW t \in Nat,
           Monotone(m), Monotone(g),
           st =< f, f < t, t < Len(m),
           Below(g, m[st + 1]),
           StandsFor(r, m, f, t)
    PROVE  /\ Written(g, m, st, f, r) \in Seq(Nat)
           /\ Len(Written(g, m, st, f, r)) = Len(g) + (f - st) + Len(r)
           /\ Monotone(Written(g, m, st, f, r))
           /\ Below(Written(g, m, st, f, r), m[t + 1])
  <1> DEFINE S == SubSeq(m, st + 1, f)
             L == g \o S
             a == m[st + 1]
             b == m[f + 1]
             c == m[t + 1]
  <1>0. /\ Len(m) \in Nat /\ f < Len(m) /\ st < Len(m)
        /\ st + 1 \in 1..Len(m) /\ f + 1 \in 1..Len(m) /\ t + 1 \in 1..Len(m)
        /\ st + 1 =< f + 1 /\ f + 1 =< t + 1
    OBVIOUS
  <1>1. \A i \in 1..Len(m) : m[i] \in Nat
    OBVIOUS
  <1>2. \A i, j \in 1..Len(m) : i =< j => m[i] =< m[j]
    BY DEF Monotone
  <1>3. /\ S \in Seq(Nat) /\ Len(S) = f - st
        /\ \A i \in 1..f - st : S[i] = m[st + i]
    <2>1. f \in Nat /\ st \in Nat /\ st =< f /\ f =< Len(m)
      BY <1>0
    <2>2. QED
      BY <2>1, Slice
  <1>4. /\ a \in Nat /\ b \in Nat /\ c \in Nat /\ a =< b /\ b =< c
    BY <1>0, <1>1, <1>2
  <1>5. \A i \in 1..f - st : /\ st + i \in 1..Len(m) /\ st + 1 \in 1..Len(m)
                            /\ st + i =< f + 1 /\ f + 1 \in 1..Len(m)
    BY <1>0
  <1>6. Between(S, a, b)
    <2>1. SUFFICES ASSUME NEW i \in 1..f - st
                   PROVE  m[st + 1] =< m[st + i] /\ m[st + i] =< m[f + 1]
      BY <1>3 DEF Between
    <2>2. st + 1 =< st + i
      BY <2>1
    <2>3. QED
      BY <1>2, <1>5, <2>1, <2>2
  <1>7. Monotone(S)
    <2>1. SUFFICES ASSUME NEW i \in 1..f - st, NEW j \in 1..f - st, i =< j
                   PROVE  S[i] =< S[j]
      BY <1>3 DEF Monotone
    <2>2. st + i \in 1..Len(m) /\ st + j \in 1..Len(m) /\ st + i =< st + j
      BY <2>1, <1>0, SMTT(30)
    <2>3. m[st + i] =< m[st + j]
      BY <2>2, <1>2
    <2>4. QED
      BY <2>3, <1>3
  <1>8. \A i \in 1..Len(r) : r[i] = IF i = 1 THEN b ELSE c
    BY DEF StandsFor
  <1>9. Below(g, a)
    OBVIOUS
  <1> HIDE DEF S, a, b, c
  <1>x. Monotone(r) /\ Between(r, b, c)
    <2>1. Between(r, b, c)
      <3>1. SUFFICES ASSUME NEW i \in 1..Len(r) PROVE b =< r[i] /\ r[i] =< c
        BY DEF Between
      <3>2. r[i] = b \/ r[i] = c
        BY <3>1, <1>8
      <3>3. QED
        BY <3>2, <1>4
    <2>2. SUFFICES ASSUME NEW i \in 1..Len(r), NEW j \in 1..Len(r), i =< j
                   PROVE  r[i] =< r[j]
      BY <2>1 DEF Monotone
    <2>3. j = 1 => i = 1
      BY <2>2
    <2>4. QED
      BY <2>2, <2>3, <1>4, <1>8
  <1>10. /\ L \in Seq(Nat) /\ Len(L) = Len(g) + Len(S) /\ Monotone(L)
         /\ Below(L, b)
    BY <1>3, <1>4, <1>6, <1>7, <1>9, BoundedConcat
  <1> HIDE DEF L
  <1>11. /\ L \o r \in Seq(Nat) /\ Len(L \o r) = Len(L) + Len(r)
         /\ Monotone(L \o r) /\ Below(L \o r, c)
    BY <1>4, <1>x, <1>10, BoundedConcat
  <1>12. QED
    BY <1>3, <1>10, <1>11 DEF S, L, c, Written

\* The end of resolve_edits: the mapping of the rest of the text, with its
\* sentinel, follows what was written.
Finished(g, m, st) == g \o SubSeq(m, st + 1, Len(m))

\* The end of resolve_edits: what was written and the rest of the mapping.
LEMMA CopyRest ==
    ASSUME NEW m \in Seq(Nat), NEW g \in Seq(Nat), NEW st \in Nat,
           Monotone(m), Monotone(g), st < Len(m), Below(g, m[st + 1])
    PROVE  /\ Finished(g, m, st) \in Seq(Nat)
           /\ Len(Finished(g, m, st)) = Len(g) + Len(m) - st
           /\ Monotone(Finished(g, m, st))
           /\ Finished(g, m, st)[Len(g) + Len(m) - st] = m[Len(m)]
  <1> DEFINE n == Len(m)
             C == SubSeq(m, st + 1, n)
             a == m[st + 1]
             c == m[n]
  <1>1. n \in Nat /\ st < n /\ st + 1 \in 1..n /\ n \in 1..n /\ Len(g) \in Nat
    OBVIOUS
  <1>2. \A i \in 1..n : m[i] \in Nat
    OBVIOUS
  <1>3. \A i, j \in 1..n : i =< j => m[i] =< m[j]
    BY DEF Monotone
  <1> HIDE DEF n
  <1>4. /\ C \in Seq(Nat) /\ Len(C) = n - st
        /\ \A i \in 1..n - st : C[i] = m[st + i]
    BY <1>1, Slice DEF n
  <1>5. a \in Nat /\ c \in Nat /\ a =< c
    BY <1>1, <1>2, <1>3
  <1>6. \A i \in 1..n - st : st + i \in 1..n
    BY <1>1
  <1>7. Between(C, a, c)
    <2>1. SUFFICES ASSUME NEW i \in 1..n - st
                   PROVE  m[st + 1] =< m[st + i] /\ m[st + i] =< m[n]
      BY <1>4 DEF Between
    <2>2. st + 1 =< st + i /\ st + i =< n
      BY <2>1, <1>1
    <2>3. QED
      BY <1>1, <1>3, <1>6, <2>1, <2>2
  <1>8. Monotone(C)
    <2>1. SUFFICES ASSUME NEW i \in 1..n - st, NEW j \in 1..n - st, i =< j
                   PROVE  C[i] =< C[j]
      BY <1>4 DEF Monotone
    <2>2. st + i =< st + j
      BY <2>1, <1>1
    <2>3. m[st + i] =< m[st + j]
      BY <2>1, <2>2, <1>3, <1>6
    <2>4. QED
      BY <2>3, <1>4
  <1>9. c = C[n - st] /\ n - st \in 1..Len(C)
    <2>1. n - st \in 1..n - st /\ st + (n - st) = n
      BY <1>1
    <2>2. QED
      BY <2>1, <1>4
  <1>10. Below(g, a)
    OBVIOUS
  <1> HIDE DEF C, a, c
  <1>11. /\ g \o C \in Seq(Nat) /\ Len(g \o C) = Len(g) + Len(C)
         /\ Monotone(g \o C)
    BY <1>4, <1>5, <1>7, <1>8, <1>10, BoundedConcat
  <1>12. (g \o C)[Len(g) + (n - st)] = c
    BY <1>4, <1>9, ConcatProperties, SMTT(30)
  <1>13. Len(g) + (n - st) = Len(g) + n - st
    BY <1>1
  <1>14. Finished(g, m, st) = g \o C
    BY DEF Finished, C, n
  <1>15. QED
    BY <1>4, <1>11, <1>12, <1>13, <1>14 DEF n, c

\* fill_orig_b2c writes a character index or usize::MAX at every byte: the
\* count of the lead bytes up to a lead byte is at least one.
LEMMA OrigByteToCharType ==
    ASSUME NEW t \in Seq(Byte)
    PROVE  OrigByteToChar(t) \in Seq(Nat \cup {Undefined})
  <1> DEFINE Leads(i) == {j \in 1..i : IsLead(t[j])}
             Before(i) == Cardinality(Leads(i))
  <1>1. \A i \in 0..Len(t) : IsFiniteSet(Leads(i)) /\ Before(i) \in Nat
    <2>1. TAKE i \in 0..Len(t)
    <2>2. IsFiniteSet(1..i)
      BY <2>1, FS_Interval
    <2>3. Leads(i) \in SUBSET (1..i)
      OBVIOUS
    <2>4. IsFiniteSet(Leads(i))
      BY <2>2, <2>3, FS_Subset
    <2>5. QED
      BY <2>4, FS_CardinalityType
  <1>2. \A i \in 1..Len(t) : IsLead(t[i]) => Before(i) - 1 \in Nat
    <2>1. SUFFICES ASSUME NEW i \in 1..Len(t), IsLead(t[i])
                   PROVE  Before(i) - 1 \in Nat
      OBVIOUS
    <2>2. i \in Leads(i) /\ i \in 0..Len(t)
      BY <2>1
    <2>a. IsFiniteSet(Leads(i)) /\ Before(i) \in Nat
      <3> HIDE DEF Leads, Before
      <3>1. QED
        BY <2>2, <1>1
    <2>3. Before(i) # 0
      <3>1. Leads(i) # {}
        BY <2>2
      <3> HIDE DEF Leads
      <3>2. QED
        BY <3>1, <2>a, FS_EmptySet
    <2>5. QED
      <3> HIDE DEF Before
      <3>1. QED
        BY <2>3, <2>a
  <1>3. \A i \in 1..Len(t) + 1 :
           i - 1 \in Boundary(t) => ByteToChar(t)[i] \in Nat
    <2>1. SUFFICES ASSUME NEW i \in 1..Len(t) + 1, i - 1 \in Boundary(t)
                   PROVE  ByteToChar(t)[i] \in Nat
      OBVIOUS
    <2>2. CASE i =< Len(t)
      <3>1. IsLead(t[i])
        BY <2>1, <2>2 DEF Boundary
      <3>2. ByteToChar(t)[i] = Before(i) - 1
        BY <2>1, <2>2 DEF ByteToChar
      <3>3. QED
        BY <3>1, <3>2, <1>2, <2>2
    <2>3. CASE i = Len(t) + 1
      <3>1. ByteToChar(t)[i] = IF Before(Len(t)) = 0 THEN 1 ELSE Before(Len(t))
        BY <2>1, <2>3 DEF ByteToChar
      <3>2. Before(Len(t)) \in Nat
        <4>1. Len(t) \in 0..Len(t)
          OBVIOUS
        <4> HIDE DEF Leads, Before
        <4>2. QED
          BY <4>1, <1>1
      <3>3. QED
        BY <3>1, <3>2
    <2>4. QED
      BY <2>1, <2>2, <2>3
  <1>4. QED
    BY <1>3 DEF OrigByteToChar, Undefined

----------------------------------------------------------------------------
(* The inductive invariant.                                                *)

\* A new buffer satisfies the invariant.
LEMMA InitInv == Init => IInv
  <1>1. SUFFICES ASSUME Init PROVE IInv
    OBVIOUS
  <1>2. TypeOK
    BY <1>1, LimitAssumption DEF Init, TypeOK
  <1>3. QED
    BY <1>1, <1>2, LimitAssumption
       DEF Init, IInv, HistoryOK, QueueOK, LoopOK, CleanOK, SurfacesTile, CharsFresh,
           LengthBounded

\* reset leaves a clean buffer, whatever it held.
LEMMA ResetInv ==
    ASSUME IInv, NEW t \in Texts, Reset(t)
    PROVE  IInv'
  <1>1. t \in Seq(Byte)
    BY TextAssumption DEF IsText
  <1>2. TypeOK'
    BY <1>1, LimitAssumption DEF IInv, TypeOK, Reset, targets, locals
  <1>3. QED
    BY <1>2, LimitAssumption
       DEF IInv, HistoryOK, QueueOK, LoopOK, CleanOK, SurfacesTile, CharsFresh,
           LengthBounded, Reset, targets, locals, TypeOK

\* start_build establishes the mapping the edits preserve.
LEMMA StartBuildInv ==
    ASSUME IInv, StartBuild
    PROVE  IInv'
  <1>1. /\ m2o' \in Seq(Nat) /\ origin' \in Seq(Nat \cup {NoOrigin})
        /\ Len(m2o') = Len(original) + 1
        /\ \A i \in 1..Len(original) + 1 : m2o'[i] = i - 1
    BY DEF IInv, TypeOK, StartBuild, Identity
  <1>2. TypeOK'
    BY <1>1 DEF IInv, TypeOK, StartBuild, targets, locals
  <1>3. SurfacesTile'
    <2>1. Len(original) \in Nat /\ modified' = original /\ original' = original
      BY DEF IInv, TypeOK, StartBuild, Identity
    <2>2. Monotone(m2o')
      <3>1. SUFFICES ASSUME NEW i \in 1..Len(m2o'), NEW j \in 1..Len(m2o'), i =< j
                     PROVE  m2o'[i] =< m2o'[j]
        BY DEF Monotone
      <3>2. m2o'[i] = i - 1 /\ m2o'[j] = j - 1
        BY <3>1, <1>1, <2>1
      <3>3. QED
        BY <3>1, <3>2, <1>1, <2>1
    <2>3. QED
      BY <1>1, <2>1, <2>2 DEF SurfacesTile
  <1>4. CharsFresh' /\ LengthBounded' /\ CleanOK'
    BY LimitAssumption
       DEF IInv, TypeOK, StartBuild, CleanOK, CharsFresh, LengthBounded
  <1>5. QueueOK' /\ LoopOK' /\ HistoryOK'
    BY DEF IInv, TypeOK, StartBuild, QueueOK, LoopOK, HistoryOK
  <1>6. QED
    BY <1>2, <1>3, <1>4, <1>5 DEF IInv

\* A replacement queued by a plugin follows the ones before it.
LEMMA ReplaceInv ==
    ASSUME IInv, NEW from \in 0..Len(modified), NEW to \in 0..Len(modified),
           NEW with \in Replacements, Replace(from, to, with)
    PROVE  IInv'
  <1> DEFINE op == [from |-> from, to |-> to, with |-> with]
             n == Len(replaces)
  <1>1. modified \in Seq(Byte) /\ replaces \in Seq(Op) /\ n \in Nat
    BY DEF IInv, TypeOK, Op
  <1>2. op \in Op
    BY <1>1 DEF Op
  <1>3. /\ replaces' \in Seq(Op)
        /\ Len(replaces') = n + 1
        /\ replaces'[n + 1] = op
        /\ \A k \in 1..n : replaces'[k] = replaces[k]
    BY <1>1, <1>2 DEF Replace
  <1>4. TypeOK'
    <2> HIDE DEF op, n
    <2>1. /\ TypeOK /\ replaces' \in Seq(Op) /\ edits' = edits + 1
          /\ edits < MaxEdits
          /\ UNCHANGED <<state, texts, targets, mod_chars, index, pc, locals,
                         result>>
      BY <1>3 DEF IInv, Replace
    <2>2. QED
      BY <2>1, LimitAssumption DEF TypeOK, Op, texts, targets, locals
  <1>5. QueueOK'
    <2>a. \A k \in 1..n : replaces[k].from \in Nat /\ replaces[k].to \in Nat
      <3>1. \A k \in 1..n : replaces[k] \in Op
        BY <1>1
      <3>2. QED
        BY <3>1 DEF Op
    <2>1. \A k \in 1..n : replaces[k].to =< replaces[n].to
      <3>1. SUFFICES ASSUME NEW k \in 1..n PROVE replaces[k].to =< replaces[n].to
        OBVIOUS
      <3>2. n \in 1..n
        BY <1>1
      <3>3. k < n => replaces[k].to =< replaces[n].from
        BY <3>2 DEF IInv, QueueOK
      <3>4. replaces[n].from < replaces[n].to
        BY <3>2 DEF IInv, QueueOK
      <3>5. CASE k = n
        BY <3>5, <2>a
      <3>6. CASE k < n
        BY <3>6, <3>2, <3>3, <3>4, <2>a
      <3>7. QED
        BY <3>5, <3>6, <1>1
    <2>2. \A k \in 1..n : replaces[k].to =< from
      <3>1. SUFFICES ASSUME NEW k \in 1..n PROVE replaces[k].to =< from
        OBVIOUS
      <3>2. n # 0 /\ replaces # <<>>
        BY <1>1
      <3>3. replaces[n].to =< from
        BY <3>2 DEF Replace
      <3>4. n \in 1..n
        BY <1>1
      <3>5. QED
        BY <3>3, <3>4, <2>1, <2>a
    <2>3. \A k \in 1..n + 1 : replaces'[k].from < replaces'[k].to
                            /\ replaces'[k].to =< Len(modified')
      BY <1>1, <1>3 DEF IInv, QueueOK, Replace, texts
    <2>4. \A k, l \in 1..n + 1 :
             k < l => replaces'[k].to =< replaces'[l].from
      <3>1. SUFFICES ASSUME NEW k \in 1..n + 1, NEW l \in 1..n + 1, k < l
                     PROVE  replaces'[k].to =< replaces'[l].from
        OBVIOUS
      <3>2. k \in 1..n
        BY <3>1, <1>1
      <3>3. CASE l = n + 1
        BY <3>2, <3>3, <2>2, <1>3
      <3>4. CASE l \in 1..n
        BY <3>1, <3>2, <3>4, <1>3 DEF IInv, QueueOK
      <3>5. QED
        BY <3>1, <3>3, <3>4, <1>1
    <2>5. QED
      BY <2>3, <2>4, <1>3 DEF IInv, QueueOK, Replace
  <1>6. /\ LoopOK' /\ CleanOK' /\ SurfacesTile' /\ CharsFresh' /\ LengthBounded'
        /\ HistoryOK'
    BY DEF IInv, HistoryOK, TypeOK, Replace, texts, targets, locals, LoopOK, CleanOK,
           SurfacesTile, CharsFresh, LengthBounded, QueueOK
  <1>7. QED
    BY <1>4, <1>5, <1>6 DEF IInv

\* The loop invariant of resolve_edits holds before its first iteration.
LEMMA CommitStartInv ==
    ASSUME IInv, CommitStart
    PROVE  IInv'
  <1>1. TypeOK'
    BY DEF IInv, TypeOK, CommitStart, texts
  <1>2. replaces \in Seq(Op) /\ Len(replaces) \in Nat \ {0}
    BY DEF IInv, TypeOK, CommitStart, Op
  <1>3. modified # <<>>
    <2>1. replaces[1] \in Op /\ 1 \in 1..Len(replaces)
      BY <1>2
    <2>2. replaces[1].from < replaces[1].to /\ replaces[1].to =< Len(modified)
      BY <2>1 DEF IInv, QueueOK
    <2>3. QED
      BY <2>1, <2>2 DEF Op
  <1>4. \A k \in 1..Len(replaces) : 0 =< replaces[k].from
    <2>1. \A k \in 1..Len(replaces) : replaces[k] \in Op
      BY <1>2
    <2>2. QED
      BY <2>1 DEF Op
  <1>5. LoopOK'
    BY <1>3, <1>4 DEF IInv, TypeOK, CommitStart, texts, LoopOK, Monotone,
                      Below, LengthBounded
  <1>6. /\ QueueOK' /\ CleanOK' /\ SurfacesTile' /\ CharsFresh' /\ LengthBounded'
        /\ HistoryOK'
    BY DEF IInv, HistoryOK, TypeOK, CommitStart, texts, QueueOK, CleanOK, SurfacesTile,
           CharsFresh, LengthBounded
  <1>7. QED
    BY <1>1, <1>5, <1>6 DEF IInv

\* One iteration of the loop keeps the loop invariant.
LEMMA ResolveEditInv ==
    ASSUME IInv, ResolveEdit
    PROVE  IInv'
  <1> DEFINE op == replaces[1]
             f == op.from
             t == op.to
             w == op.with
             len == cur_len + Len(w) - (t - f)
             X == Nat \cup {NoOrigin}
  <1>1. /\ pc = "resolving" /\ replaces # <<>> /\ state = "RW"
        /\ replaces \in Seq(Op) /\ Len(replaces) \in Nat /\ Len(replaces) # 0
    <2>1. /\ pc = "resolving" /\ replaces # <<>>
          /\ pc = "resolving" => state = "RW"
          /\ replaces \in Seq(Op)
      BY DEF IInv, TypeOK, QueueOK, ResolveEdit, Op
    <2>2. QED
      BY <2>1
  <1>2. op \in Op /\ 1 \in 1..Len(replaces) /\ Head(replaces) = op
    BY <1>1
  <1>3. /\ f \in Nat /\ t \in Nat /\ w \in Replacements /\ w \in Seq(Byte)
        /\ Len(w) \in Nat
    BY <1>2, TextAssumption DEF Op, IsText
  <1>4. /\ modified_2' = modified_2 \o SubSeq(modified, start + 1, f) \o w
        /\ m2o_2' = m2o_2 \o SubSeq(m2o, start + 1, f) \o ReplacementMapping(op)
        /\ origin_2' = origin_2 \o SubSeq(origin, start + 1, f)
                                \o [k \in 1..Len(w) |-> NoOrigin]
        /\ \/ /\ ~(len > ReallyMaxLength)
              /\ start' = t /\ cur_len' = len
              /\ replaces' = Tail(replaces)
              /\ UNCHANGED <<pc, result>>
           \/ /\ len > ReallyMaxLength
              /\ start' = 0 /\ cur_len' = 0
              /\ replaces' = <<>>
              /\ pc' = "idle"
              /\ result' = "InputTooLong"
    BY <1>2 DEF ResolveEdit, Exceeds
  <1>5. /\ modified' = modified /\ m2o' = m2o /\ state' = state
        /\ mod_chars' = mod_chars /\ original' = original /\ origin' = origin
        /\ edits' = edits
    BY DEF ResolveEdit, texts
  <1>6. /\ start \in Nat /\ modified \in Seq(Byte) /\ m2o \in Seq(Nat)
        /\ m2o_2 \in Seq(Nat) /\ modified_2 \in Seq(Byte) /\ cur_len \in Int
        /\ origin_2 \in Seq(X) /\ origin \in Seq(X)
        /\ Len(origin) = Len(modified) /\ Len(origin_2) = Len(modified_2)
        /\ Len(modified) \in Nat /\ Len(modified_2) \in Nat
    BY <1>1 DEF IInv, TypeOK, HistoryOK, LoopOK
  <1>7. start =< f /\ f < t /\ t =< Len(modified)
    BY <1>1, <1>2 DEF IInv, QueueOK, LoopOK
  <1>8. /\ Len(m2o) = Len(modified) + 1 /\ Monotone(m2o) /\ modified # <<>>
        /\ mod_chars = <<>>
        /\ Len(m2o_2) = Len(modified_2) /\ Monotone(m2o_2)
        /\ Below(m2o_2, m2o[start + 1])
        /\ cur_len = Len(modified_2) + Len(modified) - start
    BY <1>1 DEF IInv, LoopOK, SurfacesTile
  <1>9. /\ ReplacementMapping(op) \in Seq(Nat)
        /\ Len(ReplacementMapping(op)) = Len(w)
        /\ \A i \in 1..Len(w) : ReplacementMapping(op)[i] =
              IF i = 1 THEN m2o[f + 1] ELSE m2o[t + 1]
    <2>0. f + 1 \in 1..Len(m2o) /\ t + 1 \in 1..Len(m2o)
      <3> HIDE DEF op, f, t
      <3>1. QED
        BY <1>3, <1>6, <1>7, <1>8
    <2>1. m2o[f + 1] \in Nat /\ m2o[t + 1] \in Nat
      <3> HIDE DEF op, f, t
      <3>1. QED
        BY <2>0, <1>6
    <2> HIDE DEF op
    <2>2. QED
      BY <2>1, <1>3 DEF ReplacementMapping
  <1> HIDE DEF op, f, t, w, X
  <1>10. /\ m2o_2' \in Seq(Nat) /\ Monotone(m2o_2')
         /\ Len(m2o_2') = Len(m2o_2) + (f - start) + Len(w)
         /\ Below(m2o_2', m2o[t + 1])
    <2> DEFINE r == ReplacementMapping(op)
    <2>1. r \in Seq(Nat) /\ Len(r) = Len(w) /\ StandsFor(r, m2o, f, t)
      BY <1>9 DEF StandsFor
    <2>2. t < Len(m2o)
      BY <1>3, <1>6, <1>7, <1>8
    <2>3. m2o_2' = Written(m2o_2, m2o, start, f, r)
      BY <1>4 DEF Written
    <2> HIDE DEF r
    <2>4. /\ Written(m2o_2, m2o, start, f, r) \in Seq(Nat)
          /\ Len(Written(m2o_2, m2o, start, f, r)) = Len(m2o_2) + (f - start) + Len(r)
          /\ Monotone(Written(m2o_2, m2o, start, f, r))
          /\ Below(Written(m2o_2, m2o, start, f, r), m2o[t + 1])
      <3>1. /\ m2o \in Seq(Nat) /\ m2o_2 \in Seq(Nat)
            /\ start \in Nat /\ f \in Nat /\ t \in Nat
            /\ Monotone(m2o) /\ Monotone(m2o_2)
            /\ start =< f /\ f < t
            /\ Below(m2o_2, m2o[start + 1])
        BY <1>3, <1>6, <1>7, <1>8
      <3>2. QED
        BY <3>1, <2>1, <2>2, EditMapping
    <2>5. QED
      BY <2>1, <2>3, <2>4
  <1>11. /\ modified_2' \in Seq(Byte)
         /\ Len(modified_2') = Len(modified_2) + (f - start) + Len(w)
    <2> DEFINE T == SubSeq(modified, start + 1, f)
    <2>1. T \in Seq(Byte) /\ Len(T) = f - start
      <3>1. /\ modified \in Seq(Byte) /\ start \in Nat /\ f \in Nat
            /\ start =< f /\ f =< Len(modified)
        BY <1>3, <1>6, <1>7
      <3>2. QED
        BY <3>1, Slice
    <2>2. modified_2' = modified_2 \o T \o w
      BY <1>4
    <2> HIDE DEF T
    <2>3. modified_2 \o T \in Seq(Byte) /\ Len(modified_2 \o T) = Len(modified_2) + Len(T)
      BY <2>1, <1>6, ConcatProperties
    <2>4. /\ modified_2' \in Seq(Byte)
          /\ Len(modified_2') = Len(modified_2 \o T) + Len(w)
      BY <2>2, <2>3, <1>3, ConcatProperties
    <2>5. QED
      BY <2>1, <2>3, <2>4
  <1>12. origin_2' \in Seq(X) /\ Len(origin_2') = Len(modified_2')
    <2> DEFINE O == SubSeq(origin, start + 1, f)
               N == [k \in 1..Len(w) |-> NoOrigin]
    <2>1. O \in Seq(X) /\ Len(O) = f - start
      BY <1>3, <1>6, <1>7, Slice
    <2>2. N \in Seq(X) /\ Len(N) = Len(w)
      BY <1>3 DEF X
    <2>3. origin_2' = origin_2 \o O \o N
      BY <1>4
    <2> HIDE DEF O, N
    <2>4. origin_2 \o O \in Seq(X) /\ Len(origin_2 \o O) = Len(origin_2) + Len(O)
      BY <2>1, <1>6, ConcatProperties
    <2>5. origin_2' \in Seq(X) /\ Len(origin_2') = Len(origin_2 \o O) + Len(N)
      BY <2>2, <2>3, <2>4, ConcatProperties
    <2>6. QED
      BY <2>1, <2>2, <2>4, <2>5, <1>6, <1>11
  <1>13. CASE len =< ReallyMaxLength
    <2>1. /\ start' = t /\ cur_len' = len /\ replaces' = Tail(replaces)
          /\ pc' = pc /\ result' = result
      BY <1>13, <1>4, <1>3, <1>6, LimitAssumption
    <2>2. /\ Tail(replaces) \in Seq(Op)
          /\ Len(Tail(replaces)) = Len(replaces) - 1
          /\ \A k \in 1..Len(replaces) - 1 : Tail(replaces)[k] = replaces[k + 1]
      BY <1>1
    <2>3. TypeOK'
      <3>1. m2o_2' \in Seq(Nat \cup {Undefined})
        BY <1>10
      <3>2. cur_len' \in Int /\ start' \in Nat
        BY <2>1, <1>3, <1>6
      <3>3. QED
        BY <2>1, <2>2, <3>1, <3>2, <1>5, <1>11, <1>12 DEF IInv, TypeOK, Op, X
    <2>4. QueueOK'
      BY <2>1, <2>2, <1>1, <1>5 DEF IInv, QueueOK
    <2>5. \A k \in 1..Len(replaces') : start' =< replaces'[k].from
      <3>1. SUFFICES ASSUME NEW k \in 1..Len(replaces) - 1
                     PROVE  t =< replaces[k + 1].from
        BY <2>1, <2>2
      <3>2. 1 \in 1..Len(replaces) /\ k + 1 \in 1..Len(replaces) /\ 1 < k + 1
        BY <1>1
      <3>3. QED
        BY <3>2 DEF IInv, QueueOK, t, op
    <2>6. cur_len' = Len(modified_2') + Len(modified) - t
      BY <2>1, <1>3, <1>6, <1>8, <1>11
    <2>7. LoopOK'
      BY <2>1, <2>5, <2>6, <1>3, <1>6, <1>7, <1>8, <1>10, <1>11, <1>5, <1>13
         DEF LoopOK
    <2>8. HistoryOK'
      BY <1>12, <1>5 DEF IInv, HistoryOK
    <2>9. CleanOK' /\ SurfacesTile' /\ CharsFresh' /\ LengthBounded'
      BY <1>5 DEF IInv, CleanOK, SurfacesTile, CharsFresh, LengthBounded
    <2>10. QED
      BY <2>3, <2>4, <2>7, <2>8, <2>9 DEF IInv
  <1>14. CASE ~(len =< ReallyMaxLength)
    <2>1. /\ start' = 0 /\ cur_len' = 0 /\ replaces' = <<>>
          /\ pc' = "idle" /\ result' = "InputTooLong"
      BY <1>14, <1>4, <1>3, <1>6, LimitAssumption
    <2>2. TypeOK'
      <3>1. m2o_2' \in Seq(Nat \cup {Undefined})
        BY <1>10
      <3>2. QED
        BY <2>1, <3>1, <1>5, <1>11, <1>12 DEF IInv, TypeOK, X
    <2>3. QueueOK' /\ LoopOK' /\ HistoryOK'
      BY <2>1, <1>5 DEF IInv, QueueOK, LoopOK, HistoryOK
    <2>4. CleanOK' /\ SurfacesTile' /\ CharsFresh' /\ LengthBounded'
      BY <1>5 DEF IInv, CleanOK, SurfacesTile, CharsFresh, LengthBounded
    <2>5. QED
      BY <2>2, <2>3, <2>4 DEF IInv
  <1>15. QED
    BY <1>13, <1>14

\* After the last iteration the target pair is the new text.
LEMMA ResolveEndInv ==
    ASSUME IInv, ResolveEnd
    PROVE  IInv'
  <1> DEFINE X == Nat \cup {NoOrigin}
             F == Finished(m2o_2, m2o, start)
             T == SubSeq(modified, start + 1, Len(modified))
             O == SubSeq(origin, start + 1, Len(modified))
  <1>1. /\ pc = "resolving" /\ state = "RW" /\ replaces = <<>>
        /\ start \in Nat /\ modified \in Seq(Byte) /\ m2o \in Seq(Nat)
        /\ m2o_2 \in Seq(Nat) /\ modified_2 \in Seq(Byte)
        /\ origin_2 \in Seq(X) /\ origin \in Seq(X)
        /\ Len(origin) = Len(modified) /\ Len(origin_2) = Len(modified_2)
        /\ Len(modified) \in Nat /\ Len(modified_2) \in Nat
    BY DEF IInv, TypeOK, HistoryOK, LoopOK, QueueOK, ResolveEnd
  <1>2. /\ Len(m2o) = Len(modified) + 1 /\ Monotone(m2o) /\ modified # <<>>
        /\ m2o[Len(m2o)] = Len(original)
        /\ start =< Len(modified)
        /\ Len(m2o_2) = Len(modified_2) /\ Monotone(m2o_2)
        /\ Below(m2o_2, m2o[start + 1])
        /\ Len(modified_2) + Len(modified) - start =< ReallyMaxLength
    BY <1>1 DEF IInv, LoopOK, SurfacesTile
  <1>3. /\ modified' = modified_2 \o T /\ origin' = origin_2 \o O
        /\ m2o' = [F EXCEPT ![1] = 0]
        /\ modified_2' = modified /\ m2o_2' = m2o /\ origin_2' = origin
        /\ start' = 0 /\ cur_len' = 0 /\ pc' = "idle" /\ result' = "Ok"
        /\ state' = state /\ original' = original /\ mod_chars' = mod_chars
        /\ replaces' = replaces /\ edits' = edits
    BY <1>1 DEF ResolveEnd, Finished
  <1>4. T \in Seq(Byte) /\ Len(T) = Len(modified) - start
    BY <1>1, <1>2, Slice
  <1>5. O \in Seq(X) /\ Len(O) = Len(modified) - start
    BY <1>1, <1>2, Slice
  <1>6. /\ F \in Seq(Nat) /\ Len(F) = Len(m2o_2) + Len(m2o) - start
        /\ Monotone(F)
        /\ F[Len(m2o_2) + Len(m2o) - start] = m2o[Len(m2o)]
    <2>1. start < Len(m2o)
      BY <1>1, <1>2
    <2>2. QED
      BY <2>1, <1>1, <1>2, CopyRest
  <1> HIDE DEF X, F, T, O
  <1>7. /\ modified' \in Seq(Byte)
        /\ Len(modified') = Len(modified_2) + (Len(modified) - start)
    <2>1. /\ modified_2 \o T \in Seq(Byte)
          /\ Len(modified_2 \o T) = Len(modified_2) + Len(T)
      BY <1>1, <1>4, ConcatProperties
    <2>2. QED
      BY <2>1, <1>3, <1>4
  <1>8. origin' \in Seq(X) /\ Len(origin') = Len(modified')
    <2>1. origin_2 \o O \in Seq(X) /\ Len(origin_2 \o O) = Len(origin_2) + Len(O)
      BY <1>1, <1>5, ConcatProperties
    <2>2. QED
      BY <2>1, <1>1, <1>3, <1>5, <1>7
  <1>9. F # <<>>
    BY <1>1, <1>2, <1>6
  <1>10. /\ m2o' \in Seq(Nat) /\ Monotone(m2o') /\ Len(m2o') = Len(F)
         /\ m2o'[1] = 0
    BY <1>3, <1>6, <1>9, MonotoneFirstZero
  <1>11. Len(m2o') = Len(modified') + 1
    BY <1>1, <1>2, <1>6, <1>7, <1>10
  <1>12. modified' # <<>> => m2o'[Len(m2o')] = Len(original')
    <2>1. SUFFICES ASSUME modified' # <<>>
                   PROVE  m2o'[Len(m2o')] = Len(original)
      BY <1>3
    <2>2. Len(modified') # 0
      BY <2>1, <1>7
    <2>a. Len(F) = Len(modified') + 1 /\ Len(modified') \in Nat
      BY <1>7, <1>10, <1>11
    <2>3. Len(F) # 1 /\ Len(F) \in 1..Len(F)
      BY <2>2, <2>a
    <2>4. m2o'[Len(F)] = F[Len(F)]
      BY <2>3, <1>3, <1>6
    <2>5. QED
      BY <2>4, <1>2, <1>6, <1>10
  <1>13. SurfacesTile'
    BY <1>10, <1>11, <1>12 DEF SurfacesTile
  <1>14. TypeOK'
    <2>a. m2o_2' \in Seq(Nat)
      BY <1>1, <1>3
    <2>1. m2o_2' \in Seq(Nat \cup {Undefined})
      BY <2>a
    <2>2. origin' \in Seq(Nat \cup {NoOrigin}) /\ origin_2' \in Seq(Nat \cup {NoOrigin})
      BY <1>1, <1>3, <1>8 DEF X
    <2>3. QED
      BY <2>1, <2>2, <1>1, <1>3, <1>7, <1>10 DEF IInv, TypeOK
  <1>15. mod_chars = <<>>
    BY <1>1 DEF IInv, LoopOK
  <1>16. LengthBounded'
    BY <1>1, <1>2, <1>7 DEF LengthBounded
  <1>17. QueueOK' /\ LoopOK' /\ HistoryOK' /\ CleanOK' /\ CharsFresh'
    BY <1>1, <1>3, <1>8, <1>15
       DEF QueueOK, LoopOK, HistoryOK, CleanOK, CharsFresh
  <1>18. QED
    BY <1>13, <1>14, <1>16, <1>17 DEF IInv

\* build only derives from the text.
LEMMA BuildInv ==
    ASSUME IInv, Build
    PROVE  IInv'
  <1>1. m2o_2' \in Seq(Nat \cup {Undefined})
    BY OrigByteToCharType DEF IInv, TypeOK, Build
  <1>2. TypeOK'
    BY <1>1 DEF IInv, TypeOK, Build, texts, locals
  <1>3. QED
    BY <1>2 DEF IInv, HistoryOK, QueueOK, LoopOK, CleanOK, SurfacesTile,
                CharsFresh, LengthBounded, Build, texts, locals

\* refresh_chars decodes the current text.
LEMMA RewriteInv ==
    ASSUME IInv, NEW usesChars \in BOOLEAN, Rewrite(usesChars)
    PROVE  IInv'
  <1>1. mod_chars' \in Seq(Byte) /\ (mod_chars' # <<>> => mod_chars' = modified)
    BY DEF IInv, TypeOK, CharsFresh, Rewrite
  <1>2. TypeOK'
    BY <1>1 DEF IInv, TypeOK, Rewrite, texts, targets, locals
  <1>3. QED
    BY <1>1, <1>2 DEF IInv, TypeOK, HistoryOK, QueueOK, LoopOK, CleanOK, SurfacesTile,
                CharsFresh, LengthBounded, Rewrite, texts, targets, locals

\* The steps that return without an edit.
LEMMA ReturnInv ==
    ASSUME IInv, StartBuildTooLong \/ PluginFails \/ CommitNothing \/ UNCHANGED vars
    PROVE  IInv'
  <1>1. CASE StartBuildTooLong
    BY <1>1 DEF IInv, TypeOK, HistoryOK, QueueOK, LoopOK, CleanOK, SurfacesTile,
                CharsFresh, LengthBounded, StartBuildTooLong, texts, targets, locals
  <1>2. CASE PluginFails
    BY <1>2 DEF IInv, TypeOK, HistoryOK, QueueOK, LoopOK, CleanOK, SurfacesTile,
                CharsFresh, LengthBounded, PluginFails, texts, targets, locals
  <1>3. CASE CommitNothing
    BY <1>3 DEF IInv, TypeOK, HistoryOK, QueueOK, LoopOK, CleanOK, SurfacesTile,
                CharsFresh, LengthBounded, CommitNothing, texts, targets, locals
  <1>4. CASE UNCHANGED vars
    BY <1>4 DEF IInv, TypeOK, HistoryOK, QueueOK, LoopOK, CleanOK, SurfacesTile,
                CharsFresh, LengthBounded, vars, texts, targets, locals
  <1>5. QED
    BY <1>1, <1>2, <1>3, <1>4

\* The invariant is inductive.
LEMMA StepInv == IInv /\ [Next]_vars => IInv'
  <1>1. SUFFICES ASSUME IInv, [Next]_vars PROVE IInv'
    OBVIOUS
  <1>2. CASE \E t \in Texts : Reset(t)
    BY <1>1, <1>2, ResetInv
  <1>3. CASE StartBuild
    BY <1>1, <1>3, StartBuildInv
  <1>4. CASE \E usesChars \in BOOLEAN : Rewrite(usesChars)
    BY <1>1, <1>4, RewriteInv
  <1>5. CASE \E from, to \in 0..Len(modified), with \in Replacements :
                Replace(from, to, with)
    BY <1>1, <1>5, ReplaceInv
  <1>6. CASE CommitStart
    BY <1>1, <1>6, CommitStartInv
  <1>7. CASE ResolveEdit
    BY <1>1, <1>7, ResolveEditInv
  <1>8. CASE ResolveEnd
    BY <1>1, <1>8, ResolveEndInv
  <1>9. CASE Build
    BY <1>1, <1>9, BuildInv
  <1>10. CASE StartBuildTooLong \/ PluginFails \/ CommitNothing \/ UNCHANGED vars
    BY <1>1, <1>10, ReturnInv
  <1>11. QED
    BY <1>1, <1>2, <1>3, <1>4, <1>5, <1>6, <1>7, <1>8, <1>9, <1>10 DEF Next

\* The invariant holds in every reachable state.
LEMMA Invariance == Spec => []IInv
  BY InitInv, StepInv, PTL DEF Spec

----------------------------------------------------------------------------
(* Theorems.                                                               *)

\* Every reachable buffer is well-typed, whatever texts and replacements the
\* callers and the plugins pass: no vector ever holds a dangling offset type.
THEOREM TypeCorrect == Spec => []TypeOK
  <1>1. IInv => TypeOK
    BY DEF IInv
  <1>2. QED
    BY <1>1, Invariance, PTL

\* orig_slice_c: the surfaces of consecutive tokens tile the original text,
\* after any number of edits by any number of plugins.
THEOREM SurfacesTileCorrect == Spec => []SurfacesTile
  <1>1. IInv => SurfacesTile
    BY DEF IInv
  <1>2. QED
    BY <1>1, Invariance, PTL

\* commit never lets the normalised text grow over REALLY_MAX_LENGTH, so the
\* casts of its offsets to u16 in build_lattice and resolve_best_path are exact.
THEOREM LengthBoundedCorrect == Spec => []LengthBounded
  <1>1. IInv => LengthBounded
    BY DEF IInv
  <1>2. QED
    BY <1>1, Invariance, PTL

\* refresh_chars: the characters a plugin reads belong to the current text.
THEOREM CharsFreshCorrect == Spec => []CharsFresh
  <1>1. IInv => CharsFresh
    BY DEF IInv
  <1>2. QED
    BY <1>1, Invariance, PTL
----------------------------------------------------------------------------
(* TokensCovered: what an edit does to the bytes it copies and replaces.    *)

Origin == Nat \cup {NoOrigin}

\* t, m and o are a text, its mapping and its history; on is the set of the
\* boundaries of the original text.
Covers(t, m, o, on) ==
    \A b \in Boundary(t) :
        /\ m[b + 1] \in on
        /\ b < Len(t) /\ o[b + 1] # NoOrigin =>
              /\ m[b + 1] =< o[b + 1]
              /\ \A c \in Boundary(t) : b < c => o[b + 1] < m[c + 1]

\* The same for what an iteration of resolve_edits has written so far, and for
\* the boundaries of the text from st on, which are still to be copied.
CoversSoFar(t2, m2, o2, t, m, st, on) ==
    \A i \in 1..Len(t2) :
        IsLead(t2[i]) =>
            /\ m2[i] \in on
            /\ o2[i] # NoOrigin =>
                  /\ m2[i] =< o2[i]
                  /\ \A j \in 1..Len(t2) : i < j /\ IsLead(t2[j]) => o2[i] < m2[j]
                  /\ \A c \in Boundary(t) : st =< c => o2[i] < m[c + 1]

\* The offset of a byte is a boundary if and only if the byte is a lead.
LEMMA LeadBoundary ==
    ASSUME NEW t \in Seq(Byte)
    PROVE  /\ Boundary(t) \subseteq 0..Len(t) /\ Boundary(t) \subseteq Nat
           /\ \A i \in 1..Len(t) : IsLead(t[i]) <=> i - 1 \in Boundary(t)
           /\ \A b \in Boundary(t) : b < Len(t) => IsLead(t[b + 1])
  BY DEF Boundary

\* The elements of a concatenation.
LEMMA ConcatElems ==
    ASSUME NEW X, NEW s \in Seq(X), NEW t \in Seq(X)
    PROVE  /\ s \o t \in Seq(X) /\ Len(s \o t) = Len(s) + Len(t)
           /\ \A k \in 1..Len(s) : (s \o t)[k] = s[k]
           /\ \A k \in 1..Len(t) : (s \o t)[Len(s) + k] = t[k]
  BY ConcatProperties

\* s is g, then the elements st to f of m, then r.
Joins(s, g, m, st, f, r) ==
    /\ Len(s) = Len(g) + (f - st) + Len(r)
    /\ \A k \in 1..Len(g) : s[k] = g[k]
    /\ \A k \in 1..f - st : s[Len(g) + k] = m[st + k]
    /\ \A k \in 1..Len(r) : s[Len(g) + (f - st) + k] = r[k]

\* The elements of what one iteration has written.
LEMMA WrittenAt ==
    ASSUME NEW X, NEW g \in Seq(X), NEW m \in Seq(X), NEW r \in Seq(X),
           NEW st \in Nat, NEW f \in Nat, st =< f, f =< Len(m)
    PROVE  Joins(Written(g, m, st, f, r), g, m, st, f, r)
  <1> DEFINE S == SubSeq(m, st + 1, f)
             L == g \o S
  <1>1. /\ S \in Seq(X) /\ Len(S) = f - st
        /\ \A k \in 1..f - st : S[k] = m[st + k]
    BY Slice
  <1>0. S \in Seq(X)
    BY <1>1
  <1> HIDE DEF S
  <1>2. /\ L \in Seq(X) /\ Len(L) = Len(g) + Len(S)
        /\ \A k \in 1..Len(g) : L[k] = g[k]
        /\ \A k \in 1..Len(S) : L[Len(g) + k] = S[k]
    BY <1>0, ConcatElems
  <1>a. L \in Seq(X)
    BY <1>2
  <1> HIDE DEF L
  <1>3. /\ Len(L \o r) = Len(L) + Len(r)
        /\ \A k \in 1..Len(L) : (L \o r)[k] = L[k]
        /\ \A k \in 1..Len(r) : (L \o r)[Len(L) + k] = r[k]
    BY <1>a, ConcatElems
  <1>4. Written(g, m, st, f, r) = L \o r
    BY DEF Written, L, S
  <1>5. Len(g) \in Nat /\ f - st \in Nat
    OBVIOUS
  <1>6. \A k \in 1..Len(g) : k \in 1..Len(L)
    BY <1>1, <1>2, <1>5
  <1>7. \A k \in 1..f - st : Len(g) + k \in 1..Len(L) /\ k \in 1..Len(S)
    BY <1>1, <1>2, <1>5
  <1>8. QED
    BY <1>1, <1>2, <1>3, <1>4, <1>6, <1>7 DEF Joins

\* The elements of what is left when all edits are written.
LEMMA FinishedAt ==
    ASSUME NEW X, NEW g \in Seq(X), NEW m \in Seq(X), NEW st \in Nat, st =< Len(m)
    PROVE  Joins(Finished(g, m, st), g, m, st, Len(m), <<>>)
  <1> DEFINE S == SubSeq(m, st + 1, Len(m))
  <1>1. /\ S \in Seq(X) /\ Len(S) = Len(m) - st
        /\ \A k \in 1..Len(m) - st : S[k] = m[st + k]
    BY Slice
  <1>2. Finished(g, m, st) = g \o S
    BY DEF Finished
  <1>3. S \in Seq(X)
    BY <1>1
  <1> HIDE DEF S
  <1>4. /\ Len(g \o S) = Len(g) + Len(S)
        /\ \A k \in 1..Len(g) : (g \o S)[k] = g[k]
        /\ \A k \in 1..Len(S) : (g \o S)[Len(g) + k] = S[k]
    BY <1>3, ConcatElems
  <1>5. Len(g) + Len(S) \in Nat
    BY <1>1
  <1>6. QED
    BY <1>1, <1>2, <1>4, <1>5 DEF Joins

\* One iteration of resolve_edits keeps the tokens over their own bytes: w
\* replaces the range [f, to), whose ends are boundaries of the text.
LEMMA EditCovers ==
    ASSUME NEW t \in Seq(Byte), NEW m \in Seq(Nat), NEW o \in Seq(Origin),
           Len(m) = Len(t) + 1, Len(o) = Len(t),
           NEW t2 \in Seq(Byte), NEW m2 \in Seq(Nat), NEW o2 \in Seq(Origin),
           Len(m2) = Len(t2), Len(o2) = Len(t2),
           NEW w \in Seq(Byte), NEW r \in Seq(Nat), NEW h \in Seq(Origin),
           Len(r) = Len(w), Len(h) = Len(w), \A k \in 1..Len(w) : h[k] = NoOrigin,
           NEW st \in Nat, NEW f \in Boundary(t), NEW to \in Boundary(t),
           st =< f, f < to, StandsFor(r, m, f, to),
           NEW on, Covers(t, m, o, on), CoversSoFar(t2, m2, o2, t, m, st, on)
    PROVE  CoversSoFar(Written(t2, t, st, f, w), Written(m2, m, st, f, r),
                       Written(o2, o, st, f, h), t, m, to, on)
  <1> DEFINE T == Written(t2, t, st, f, w)
             M == Written(m2, m, st, f, r)
             O == Written(o2, o, st, f, h)
             n == Len(t2)
             d == f - st
  <1>1. /\ f \in Nat /\ to \in Nat /\ f =< Len(t) /\ to =< Len(t)
        /\ n \in Nat /\ d \in Nat /\ Len(w) \in Nat /\ Len(t) \in Nat
        /\ f =< Len(m) /\ f =< Len(o)
    BY DEF Boundary
  <1>2. /\ Len(T) = n + d + Len(w)
        /\ \A k \in 1..n : T[k] = t2[k]
        /\ \A k \in 1..d : T[n + k] = t[st + k]
    <2>1. Joins(Written(t2, t, st, f, w), t2, t, st, f, w)
      BY <1>1, WrittenAt
    <2>2. QED
      BY <2>1, <1>1 DEF Joins
  <1>3. /\ \A k \in 1..n : M[k] = m2[k]
        /\ \A k \in 1..d : M[n + k] = m[st + k]
        /\ \A k \in 1..Len(w) : M[n + d + k] = r[k]
    <2>1. Joins(Written(m2, m, st, f, r), m2, m, st, f, r)
      BY <1>1, WrittenAt
    <2>2. QED
      BY <2>1, <1>1 DEF Joins
  <1>4. /\ \A k \in 1..n : O[k] = o2[k]
        /\ \A k \in 1..d : O[n + k] = o[st + k]
        /\ \A k \in 1..Len(w) : O[n + d + k] = h[k]
    <2>1. Joins(Written(o2, o, st, f, h), o2, o, st, f, h)
      BY <1>1, WrittenAt
    <2>2. QED
      BY <2>1, <1>1 DEF Joins
  <1>5. \A k \in 1..Len(w) : r[k] = m[f + 1] \/ r[k] = m[to + 1]
    BY DEF StandsFor
  <1> HIDE DEF T, M, O, n, d
  <1>6. \A i \in 1..Len(T) : \/ i \in 1..n
                             \/ \E k \in 1..d : i = n + k
                             \/ \E k \in 1..Len(w) : i = n + d + k
    <2>1. SUFFICES ASSUME NEW i \in 1..Len(T), i \notin 1..n,
                          \A k \in 1..d : i # n + k
                   PROVE  \E k \in 1..Len(w) : i = n + d + k
      OBVIOUS
    <2>2. i > n + d
      <3>1. SUFFICES ASSUME i =< n + d PROVE FALSE
        BY <1>1, <1>2
      <3>2. i - n \in 1..d /\ i = n + (i - n)
        BY <2>1, <3>1, <1>1, <1>2
      <3>3. QED
        BY <2>1, <3>2
    <2>3. i - n - d \in 1..Len(w) /\ i = n + d + (i - n - d)
      BY <2>1, <2>2, <1>1, <1>2
    <2>4. QED
      BY <2>3
  \* A byte that is copied is at the boundary st + k - 1 of the text.
  <1>7. \A k \in 1..d : IsLead(T[n + k]) =>
            /\ st + k - 1 \in Boundary(t) /\ st + k - 1 < f
            /\ M[n + k] = m[(st + k - 1) + 1]
            /\ O[n + k] = o[(st + k - 1) + 1]
    <2>1. SUFFICES ASSUME NEW k \in 1..d, IsLead(T[n + k])
                   PROVE  /\ st + k - 1 \in Boundary(t) /\ st + k - 1 < f
                          /\ M[n + k] = m[(st + k - 1) + 1]
                          /\ O[n + k] = o[(st + k - 1) + 1]
      OBVIOUS
    <2>2. st + k \in 1..Len(t) /\ st + k - 1 < f /\ (st + k - 1) + 1 = st + k
      BY <1>1 DEF d
    <2>3. IsLead(t[st + k])
      BY <2>1, <1>2
    <2>4. st + k - 1 \in Boundary(t)
      BY <2>2, <2>3 DEF Boundary
    <2>5. M[n + k] = m[st + k] /\ O[n + k] = o[st + k]
      BY <1>3, <1>4
    <2>6. QED
      BY <2>2, <2>4, <2>5
  \* A byte written now maps to a boundary after the bytes copied before it.
  <1>8. \A j \in 1..Len(T) : n < j /\ IsLead(T[j]) =>
            \E c \in Boundary(t) :
                /\ M[j] = m[c + 1] /\ st =< c
                /\ \A k \in 1..d : n + k < j => st + k - 1 < c
    <2>1. SUFFICES ASSUME NEW j \in 1..Len(T), n < j, IsLead(T[j])
                   PROVE  \E c \in Boundary(t) :
                              /\ M[j] = m[c + 1] /\ st =< c
                              /\ \A k \in 1..d : n + k < j => st + k - 1 < c
      OBVIOUS
    <2>2. CASE \E l \in 1..d : j = n + l
      <3>1. PICK l \in 1..d : j = n + l
        BY <2>2
      <3>2. /\ st + l - 1 \in Boundary(t) /\ M[j] = m[(st + l - 1) + 1]
        BY <2>1, <3>1, <1>7
      <3>3. /\ st =< st + l - 1
            /\ \A k \in 1..d : n + k < j => st + k - 1 < st + l - 1
        BY <3>1, <1>1
      <3>4. QED
        BY <3>2, <3>3
    <2>3. CASE \E l \in 1..Len(w) : j = n + d + l
      <3>1. PICK l \in 1..Len(w) : j = n + d + l
        BY <2>3
      <3>2. M[j] = m[f + 1] \/ M[j] = m[to + 1]
        BY <3>1, <1>3, <1>5
      <3>a. f \in Nat /\ to \in Nat
        BY <1>1
      <3>3. st =< to /\ \A k \in 1..d : st + k - 1 < f /\ st + k - 1 < to
        BY <3>a DEF d
      <3>4. QED
        BY <3>2, <3>3
    <2>4. QED
      BY <2>1, <2>2, <2>3, <1>6, <1>1
  <1>9. SUFFICES ASSUME NEW i \in 1..Len(T), IsLead(T[i])
                 PROVE  /\ M[i] \in on
                        /\ O[i] # NoOrigin =>
                              /\ M[i] =< O[i]
                              /\ \A j \in 1..Len(T) :
                                    i < j /\ IsLead(T[j]) => O[i] < M[j]
                              /\ \A c \in Boundary(t) : to =< c => O[i] < m[c + 1]
    BY DEF CoversSoFar, T, M, O
  <1>10. CASE i \in 1..n
    <2>1. IsLead(t2[i]) /\ M[i] = m2[i] /\ O[i] = o2[i]
      BY <1>9, <1>10, <1>2, <1>3, <1>4
    <2>2. /\ m2[i] \in on
          /\ o2[i] # NoOrigin =>
                /\ m2[i] =< o2[i]
                /\ \A j \in 1..n : i < j /\ IsLead(t2[j]) => o2[i] < m2[j]
                /\ \A c \in Boundary(t) : st =< c => o2[i] < m[c + 1]
      BY <2>1, <1>10 DEF CoversSoFar, n
    <2>3. ASSUME O[i] # NoOrigin, NEW j \in 1..Len(T), i < j, IsLead(T[j])
          PROVE  O[i] < M[j]
      <3>1. CASE j \in 1..n
        BY <3>1, <2>1, <2>2, <2>3, <1>2, <1>3
      <3>2. CASE n < j
        <4>1. PICK c \in Boundary(t) : M[j] = m[c + 1] /\ st =< c
          BY <3>2, <2>3, <1>8
        <4>2. QED
          BY <4>1, <2>1, <2>2, <2>3
      <3>3. QED
        BY <3>1, <3>2, <2>3, <1>1
    <2>4. \A c \in Boundary(t) : to =< c => st =< c
      BY <1>1 DEF Boundary
    <2>5. QED
      BY <2>1, <2>2, <2>3, <2>4
  <1>11. CASE \E k \in 1..d : i = n + k
    <2>1. PICK k \in 1..d : i = n + k
      BY <1>11
    <2> DEFINE b == st + k - 1
    <2>2. b \in Boundary(t) /\ b < f /\ M[i] = m[b + 1] /\ O[i] = o[b + 1]
      BY <2>1, <1>9, <1>7
    <2>3. b \in Nat /\ b < Len(t) /\ b < to /\ n < i
      <3>1. b \in Nat
        BY <1>1
      <3>2. b < f
        BY <2>2
      <3> HIDE DEF b
      <3>3. QED
        BY <3>1, <3>2, <2>1, <1>1
    <2>4. \A j \in 1..Len(T) : i < j /\ IsLead(T[j]) =>
              \E c \in Boundary(t) : M[j] = m[c + 1] /\ b < c
      <3>1. SUFFICES ASSUME NEW j \in 1..Len(T), i < j, IsLead(T[j])
                     PROVE  \E c \in Boundary(t) : M[j] = m[c + 1] /\ b < c
        OBVIOUS
      <3>2. n < j /\ n + k < j
        BY <3>1, <2>1, <2>3, <1>1
      <3>3. PICK c \in Boundary(t) :
                     /\ M[j] = m[c + 1] /\ st =< c
                     /\ \A l \in 1..d : n + l < j => st + l - 1 < c
        BY <3>1, <3>2, <1>8
      <3>4. QED
        BY <3>2, <3>3
    <2>5. \A c \in Boundary(t) : to =< c => b < c
      BY <2>1, <2>3, <1>1 DEF Boundary
    <2> HIDE DEF b
    <2>6. /\ m[b + 1] \in on
          /\ o[b + 1] # NoOrigin =>
                /\ m[b + 1] =< o[b + 1]
                /\ \A c \in Boundary(t) : b < c => o[b + 1] < m[c + 1]
      BY <2>2, <2>3 DEF Covers
    <2>7. QED
      BY <2>2, <2>4, <2>5, <2>6
  <1>12. CASE \E k \in 1..Len(w) : i = n + d + k
    <2>a. PICK k \in 1..Len(w) : i = n + d + k
      BY <1>12
    <2>b. M[i] = r[k] /\ O[i] = h[k]
      BY <2>a, <1>3, <1>4
    <2>1. O[i] = NoOrigin /\ (M[i] = m[f + 1] \/ M[i] = m[to + 1])
      BY <2>b, <1>5
    <2>2. m[f + 1] \in on /\ m[to + 1] \in on
      BY DEF Covers
    <2>3. QED
      BY <2>1, <2>2
  <1>13. QED
    BY <1>10, <1>11, <1>12, <1>6, <1>9

\* The end of resolve_edits: the rest of the text follows, and the first byte
\* is made to start at 0.
LEMMA RestCovers ==
    ASSUME NEW t \in Seq(Byte), NEW m \in Seq(Nat), NEW o \in Seq(Origin),
           Len(m) = Len(t) + 1, Len(o) = Len(t),
           NEW t2 \in Seq(Byte), NEW m2 \in Seq(Nat), NEW o2 \in Seq(Origin),
           Len(m2) = Len(t2), Len(o2) = Len(t2),
           NEW st \in Nat, st =< Len(t),
           NEW on, 0 \in on, Covers(t, m, o, on),
           CoversSoFar(t2, m2, o2, t, m, st, on)
    PROVE  Covers(Finished(t2, t, st), [Finished(m2, m, st) EXCEPT ![1] = 0],
                  Finished(o2, o, st), on)
  <1> DEFINE T == Finished(t2, t, st)
             M == Finished(m2, m, st)
             Z == [M EXCEPT ![1] = 0]
             O == Finished(o2, o, st)
             n == Len(t2)
             e == Len(t) - st
  <1>1. n \in Nat /\ e \in Nat /\ Len(t) \in Nat /\ st =< Len(m) /\ st =< Len(o)
        /\ Len(m) - st = e + 1
    OBVIOUS
  <1>2. /\ Len(T) = n + e
        /\ \A k \in 1..n : T[k] = t2[k]
        /\ \A k \in 1..e : T[n + k] = t[st + k]
    <2>1. Joins(T, t2, t, st, Len(t), <<>>)
      BY <1>1, FinishedAt
    <2>2. Len(T) = n + e + Len(<<>>) /\ Len(<<>>) = 0
      BY <2>1 DEF Joins
    <2>3. /\ \A k \in 1..n : T[k] = t2[k]
          /\ \A k \in 1..e : T[n + k] = t[st + k]
      BY <2>1 DEF Joins
    <2> HIDE DEF T, n, e
    <2>4. QED
      BY <2>2, <2>3, <1>1
  <1>3. /\ Len(M) = n + (e + 1)
        /\ \A k \in 1..n : M[k] = m2[k]
        /\ \A k \in 1..e + 1 : M[n + k] = m[st + k]
    <2>1. Joins(Finished(m2, m, st), m2, m, st, Len(m), <<>>)
      BY <1>1, FinishedAt
    <2>2. QED
      BY <2>1, <1>1 DEF Joins
  <1>4. /\ \A k \in 1..n : O[k] = o2[k]
        /\ \A k \in 1..e : O[n + k] = o[st + k]
    <2>1. Joins(Finished(o2, o, st), o2, o, st, Len(o), <<>>)
      BY <1>1, FinishedAt
    <2>2. QED
      BY <2>1, <1>1 DEF Joins
  <1>5. M \in Seq(Nat) /\ T \in Seq(Byte)
    <2>1. /\ SubSeq(m, st + 1, Len(m)) \in Seq(Nat)
          /\ SubSeq(t, st + 1, Len(t)) \in Seq(Byte)
      BY <1>1, Slice
    <2>2. QED
      BY <2>1 DEF Finished
  <1>6. o2 \in [1..n -> Origin] /\ o \in [1..Len(t) -> Origin]
    OBVIOUS
  <1> HIDE DEF T, M, O, n, e
  <1>7. Z[1] = 0 /\ \A k \in 2..Len(M) : Z[k] = M[k]
    BY <1>1, <1>3, <1>5
  <1> HIDE DEF Z
  \* A boundary of the new text is one of what was written or one of the rest.
  <1>8. \A c \in Boundary(T) :
            \/ c < n /\ IsLead(t2[c + 1]) /\ M[c + 1] = m2[c + 1]
            \/ /\ n =< c /\ st + (c - n) \in Boundary(t)
               /\ M[c + 1] = m[st + (c - n) + 1]
    <2>1. SUFFICES ASSUME NEW c \in Boundary(T)
                   PROVE  \/ c < n /\ IsLead(t2[c + 1]) /\ M[c + 1] = m2[c + 1]
                          \/ /\ n =< c /\ st + (c - n) \in Boundary(t)
                             /\ M[c + 1] = m[st + (c - n) + 1]
      OBVIOUS
    <2>2. /\ c \in 0..n + e /\ (c < n + e => IsLead(T[c + 1]))
      BY <2>1, <1>2, <1>5, LeadBoundary
    <2>3. CASE c < n
      <3>1. c + 1 \in 1..n /\ c < n + e
        BY <2>2, <2>3, <1>1
      <3>2. QED
        BY <3>1, <2>2, <2>3, <1>2, <1>3
    <2>4. CASE n =< c
      <3>1. /\ (c - n) + 1 \in 1..e + 1 /\ n + ((c - n) + 1) = c + 1
            /\ st + ((c - n) + 1) = st + (c - n) + 1
            /\ st + (c - n) \in 0..Len(t)
        BY <2>2, <2>4, <1>1 DEF e
      <3>2. M[c + 1] = m[st + (c - n) + 1]
        BY <3>1, <1>3
      <3>3. st + (c - n) < Len(t) => IsLead(t[st + (c - n) + 1])
        <4>1. SUFFICES ASSUME st + (c - n) < Len(t)
                       PROVE  IsLead(t[st + (c - n) + 1])
          OBVIOUS
        <4>2. (c - n) + 1 \in 1..e /\ c < n + e
          BY <4>1, <2>2, <2>4, <1>1 DEF e
        <4>3. T[n + ((c - n) + 1)] = t[st + ((c - n) + 1)]
          BY <4>2, <1>2
        <4>4. IsLead(T[c + 1])
          BY <4>2, <2>2
        <4>5. QED
          BY <4>3, <4>4, <3>1
      <3>4. QED
        BY <3>1, <3>2, <3>3, <2>4 DEF Boundary
    <2>5. QED
      BY <2>2, <2>3, <2>4, <1>1
  <1>9. Boundary(T) \subseteq 0..n + e
    BY <1>2, <1>5, LeadBoundary
  <1>10. \A c \in Boundary(T) : Z[c + 1] = IF c = 0 THEN 0 ELSE M[c + 1]
    <2>1. SUFFICES ASSUME NEW c \in Boundary(T), c # 0
                   PROVE  Z[c + 1] = M[c + 1]
      BY <1>7
    <2>a. c \in 0..n + e /\ n \in Nat /\ e \in Nat /\ Len(M) = n + (e + 1)
      BY <1>9, <1>1, <1>3
    <2>2. c + 1 \in 2..Len(M)
      BY <2>1, <2>a
    <2>3. QED
      BY <2>2, <1>7
  <1>11. \A c \in Boundary(T) : M[c + 1] \in on
    <2>1. SUFFICES ASSUME NEW c \in Boundary(T) PROVE M[c + 1] \in on
      OBVIOUS
    <2>2. CASE c < n /\ IsLead(t2[c + 1]) /\ M[c + 1] = m2[c + 1]
      <3>1. c + 1 \in 1..Len(t2)
        BY <2>1, <2>2, <1>1, <1>9 DEF n
      <3>2. QED
        BY <2>2, <3>1 DEF CoversSoFar
    <2>3. CASE st + (c - n) \in Boundary(t) /\ M[c + 1] = m[st + (c - n) + 1]
      BY <2>3 DEF Covers
    <2>4. QED
      BY <2>2, <2>3, <1>8
  <1>12. ASSUME NEW b \in Boundary(T), b < Len(T), O[b + 1] # NoOrigin
         PROVE  /\ Z[b + 1] =< O[b + 1]
                /\ \A c \in Boundary(T) : b < c => O[b + 1] < Z[c + 1]
    <2>0. b \in Nat /\ b < n + e
      BY <1>12, <1>1, <1>2, <1>9
    <2>1. CASE b < n /\ IsLead(t2[b + 1]) /\ M[b + 1] = m2[b + 1]
      <3>n. n \in Nat
        BY <1>1
      <3>a. b + 1 \in 1..n
        BY <2>0, <2>1, <3>n
      <3>b. O[b + 1] = o2[b + 1] /\ o2[b + 1] \in Origin
        BY <3>a, <1>4, <1>6
      <3>1. b + 1 \in 1..n /\ O[b + 1] = o2[b + 1] /\ O[b + 1] \in Nat
        BY <3>a, <3>b, <1>12 DEF Origin
      <3>2. /\ M[b + 1] =< O[b + 1]
            /\ \A j \in 1..n : b + 1 < j /\ IsLead(t2[j]) => O[b + 1] < m2[j]
            /\ \A c \in Boundary(t) : st =< c => O[b + 1] < m[c + 1]
        BY <2>1, <3>1, <1>12 DEF CoversSoFar, n
      <3>3. ASSUME NEW c \in Boundary(T), b < c
            PROVE  O[b + 1] < M[c + 1]
        <4>1. CASE c < n /\ IsLead(t2[c + 1]) /\ M[c + 1] = m2[c + 1]
          <5>1. c + 1 \in 1..n /\ b + 1 < c + 1
            BY <4>1, <3>3, <2>0, <1>1, <1>9
          <5>2. QED
            BY <4>1, <5>1, <3>2
        <4>2. CASE /\ n =< c /\ st + (c - n) \in Boundary(t)
                   /\ M[c + 1] = m[st + (c - n) + 1]
          <5>1. st =< st + (c - n)
            BY <4>2, <1>1, <1>9
          <5>2. QED
            BY <4>2, <5>1, <3>2
        <4>3. QED
          BY <4>1, <4>2, <3>3, <1>8
      <3>4. \A c \in Boundary(T) : b < c => Z[c + 1] = M[c + 1]
        BY <2>0, <1>9, <1>10
      <3>5. Z[b + 1] = 0 \/ Z[b + 1] = M[b + 1]
        BY <1>10, <1>12
      <3>6. Z[b + 1] =< O[b + 1]
        BY <3>1, <3>2, <3>5
      <3>7. QED
        BY <3>3, <3>4, <3>6
    <2>2. CASE /\ n =< b /\ st + (b - n) \in Boundary(t)
               /\ M[b + 1] = m[st + (b - n) + 1]
      <3> DEFINE a == st + (b - n)
      <3>1. /\ (b - n) + 1 \in 1..e /\ n + ((b - n) + 1) = b + 1
            /\ st + ((b - n) + 1) = a + 1 /\ a < Len(t) /\ a + 1 \in 1..Len(t)
            /\ a \in Nat
        BY <2>0, <2>2, <1>1 DEF e
      <3>2. O[b + 1] = o[a + 1] /\ o[a + 1] \in Nat
        BY <3>1, <1>4, <1>6, <1>12 DEF Origin
      <3> HIDE DEF a
      <3>3. a \in Boundary(t) /\ M[b + 1] = m[a + 1]
        BY <2>2 DEF a
      <3>4. /\ m[a + 1] =< o[a + 1]
            /\ \A c \in Boundary(t) : a < c => o[a + 1] < m[c + 1]
        BY <3>1, <3>2, <3>3, <1>12 DEF Covers
      <3>5. ASSUME NEW c \in Boundary(T), b < c
            PROVE  O[b + 1] < M[c + 1]
        <4>1. c \in Nat /\ n =< c
          BY <3>5, <2>0, <2>2, <1>1, <1>9
        <4>2. /\ st + (c - n) \in Boundary(t)
              /\ M[c + 1] = m[st + (c - n) + 1]
          BY <4>1, <3>5, <1>1, <1>8
        <4>3. a < st + (c - n)
          BY <4>1, <3>5, <2>0, <1>1 DEF a
        <4>4. QED
          BY <4>2, <4>3, <3>2, <3>4
      <3>6. \A c \in Boundary(T) : b < c => Z[c + 1] = M[c + 1]
        BY <2>0, <1>9, <1>10
      <3>7. Z[b + 1] = 0 \/ Z[b + 1] = M[b + 1]
        BY <1>10, <1>12
      <3>8. Z[b + 1] =< O[b + 1]
        BY <3>2, <3>3, <3>4, <3>7
      <3>9. QED
        BY <3>5, <3>6, <3>8
    <2>3. QED
      BY <2>1, <2>2, <1>12, <1>8
  <1>13. QED
    BY <1>10, <1>11, <1>12 DEF Covers, T, Z, M, O

\* The edits are at boundaries of the text, and every token covers its own
\* bytes, in the text and in what resolve_edits has written of the next one.
EditsOnBoundary ==
    \A k \in 1..Len(replaces) : /\ replaces[k].from \in Boundary(modified)
                                /\ replaces[k].to \in Boundary(modified)

TextCovered ==
    state # "Clean" => Covers(modified, m2o, origin, Boundary(original))

TargetCovered ==
    pc = "resolving" =>
        CoversSoFar(modified_2, m2o_2, origin_2, modified, m2o, start,
                    Boundary(original))

CoverInv == IsText(original) /\ EditsOnBoundary /\ TextCovered /\ TargetCovered

\* TextCovered is TokensCovered in the form the edits preserve.
LEMMA CoverGivesTokens == IInv /\ CoverInv => TokensCovered
  <1>1. SUFFICES ASSUME IInv, CoverInv, state # "Clean"
                 PROVE  /\ \A b \in Boundary(modified) : m2o[b + 1] \in Boundary(original)
                        /\ \A b \in Boundary(modified) \ {Len(modified)} :
                              origin[b + 1] # NoOrigin =>
                                  /\ m2o[b + 1] =< origin[b + 1]
                                  /\ \A c \in Boundary(modified) :
                                        c > b => origin[b + 1] < m2o[c + 1]
    BY DEF TokensCovered, SlicesOnBoundary, SurvivorsCovered
  <1>2. modified \in Seq(Byte) /\ Covers(modified, m2o, origin, Boundary(original))
    BY <1>1 DEF IInv, TypeOK, CoverInv, TextCovered
  <1>3. \A b \in Boundary(modified) \ {Len(modified)} : b < Len(modified)
    BY <1>2 DEF Boundary
  <1>4. \A b, c \in Boundary(modified) : c > b <=> b < c
    BY <1>2 DEF Boundary
  <1>5. QED
    BY <1>2, <1>3, <1>4 DEF Covers

\* Before any edit every byte stands for itself.
LEMMA StartBuildCovers ==
    ASSUME IInv, CoverInv, StartBuild
    PROVE  CoverInv'
  <1> DEFINE t == original
  <1>1. /\ t \in Seq(Byte) /\ Len(t) \in Nat /\ modified' = t /\ original' = t
        /\ m2o' = [i \in 1..Len(t) + 1 |-> i - 1]
        /\ origin' = [i \in 1..Len(t) |-> i - 1]
        /\ pc' = "idle" /\ replaces' = <<>>
    BY DEF IInv, TypeOK, QueueOK, StartBuild, Identity, locals
  <1> HIDE DEF t
  <1>2. \A b \in Boundary(t) : b \in Nat /\ b =< Len(t)
    BY <1>1 DEF Boundary
  <1>3. \A b \in Boundary(t) : m2o'[b + 1] = b /\ (b < Len(t) => origin'[b + 1] = b)
    BY <1>1, <1>2
  <1>4. Covers(t, m2o', origin', Boundary(t))
    BY <1>2, <1>3 DEF Covers
  <1>5. QED
    BY <1>1, <1>4 DEF CoverInv, EditsOnBoundary, TextCovered, TargetCovered, t

\* The plugins replace whole characters.
LEMMA ReplaceCovers ==
    ASSUME IInv, CoverInv, NEW from \in 0..Len(modified),
           NEW to \in 0..Len(modified), NEW with \in Replacements,
           Replace(from, to, with)
    PROVE  CoverInv'
  <1> DEFINE op == [from |-> from, to |-> to, with |-> with]
  <1>1. replaces \in Seq(Op) /\ op \in Op
    BY DEF IInv, TypeOK, Op
  <1>2. /\ Len(replaces') = Len(replaces) + 1
        /\ replaces'[Len(replaces) + 1] = op
        /\ \A k \in 1..Len(replaces) : replaces'[k] = replaces[k]
    BY <1>1 DEF Replace
  <1>3. modified' = modified /\ from \in Boundary(modified) /\ to \in Boundary(modified)
    BY DEF Replace, texts
  <1>4. EditsOnBoundary'
    <2>1. SUFFICES ASSUME NEW k \in 1..Len(replaces) + 1
                   PROVE  /\ replaces'[k].from \in Boundary(modified)
                          /\ replaces'[k].to \in Boundary(modified)
      BY <1>2, <1>3 DEF EditsOnBoundary
    <2>2. CASE k \in 1..Len(replaces)
      BY <2>2, <1>2 DEF CoverInv, EditsOnBoundary
    <2>3. CASE k = Len(replaces) + 1
      BY <2>3, <1>2, <1>3
    <2>4. QED
      BY <2>1, <2>2, <2>3, <1>1
  <1>5. QED
    BY <1>4 DEF CoverInv, TextCovered, TargetCovered, Replace, texts, targets, locals

\* resolve_edits writes the kept characters before an edit, and the edit.
LEMMA ResolveEditCovers ==
    ASSUME IInv, CoverInv, ResolveEdit
    PROVE  CoverInv'
  <1> DEFINE op == replaces[1]
             f == op.from
             to == op.to
             w == op.with
             r == ReplacementMapping(op)
             h == [k \in 1..Len(w) |-> NoOrigin]
             on == Boundary(original)
  <1>1. /\ pc = "resolving" /\ state = "RW" /\ replaces # <<>>
        /\ replaces \in Seq(Op) /\ Len(replaces) \in Nat \ {0}
    <2>1. /\ pc = "resolving" /\ replaces # <<>>
          /\ pc = "resolving" => state = "RW"
          /\ replaces \in Seq(Op)
      BY DEF IInv, TypeOK, QueueOK, ResolveEdit, Op
    <2>2. QED
      BY <2>1
  <1>2. op \in Op /\ 1 \in 1..Len(replaces) /\ Head(replaces) = op
    BY <1>1
  <1>3. /\ w \in Seq(Byte) /\ f \in Boundary(modified) /\ to \in Boundary(modified)
        /\ start =< f /\ f < to /\ to =< Len(modified) /\ f \in Nat /\ to \in Nat
    BY <1>1, <1>2, TextAssumption
       DEF Op, IsText, CoverInv, EditsOnBoundary, IInv, QueueOK, LoopOK
  <1>4. /\ modified \in Seq(Byte) /\ m2o \in Seq(Nat) /\ origin \in Seq(Origin)
        /\ Len(m2o) = Len(modified) + 1 /\ Len(origin) = Len(modified)
        /\ modified_2 \in Seq(Byte) /\ m2o_2 \in Seq(Nat)
        /\ origin_2 \in Seq(Origin) /\ Len(m2o_2) = Len(modified_2)
        /\ Len(origin_2) = Len(modified_2) /\ start \in Nat
    BY <1>1 DEF IInv, TypeOK, HistoryOK, LoopOK, SurfacesTile, Origin
  <1>5. /\ Covers(modified, m2o, origin, on)
        /\ CoversSoFar(modified_2, m2o_2, origin_2, modified, m2o, start, on)
    BY <1>1 DEF CoverInv, TextCovered, TargetCovered
  <1>6. /\ modified_2' = Written(modified_2, modified, start, f, w)
        /\ m2o_2' = Written(m2o_2, m2o, start, f, r)
        /\ origin_2' = Written(origin_2, origin, start, f, h)
    BY <1>2 DEF ResolveEdit, Written
  <1>7. /\ \/ start' = to /\ pc' = pc /\ replaces' = Tail(replaces)
           \/ pc' = "idle" /\ replaces' = <<>>
        /\ modified' = modified /\ m2o' = m2o /\ origin' = origin
        /\ original' = original /\ state' = state
    BY <1>2 DEF ResolveEdit, texts
  <1>8. /\ r \in Seq(Nat) /\ Len(r) = Len(w) /\ StandsFor(r, m2o, f, to)
    <2>1. f + 1 \in 1..Len(m2o) /\ to + 1 \in 1..Len(m2o)
      <3> HIDE DEF f, to
      <3>1. QED
        BY <1>3, <1>4
    <2>2. m2o[f + 1] \in Nat /\ m2o[to + 1] \in Nat
      <3> HIDE DEF f, to
      <3>1. QED
        BY <2>1, <1>4
    <2> HIDE DEF op
    <2>3. QED
      BY <2>2, <1>3 DEF ReplacementMapping, StandsFor
  <1>9. h \in Seq(Origin) /\ Len(h) = Len(w) /\ \A k \in 1..Len(w) : h[k] = NoOrigin
    <2> HIDE DEF w
    <2>1. QED
      BY <1>3 DEF Origin
  <1> HIDE DEF op, f, to, w, r, h, on
  <1>10. CoversSoFar(modified_2', m2o_2', origin_2', modified, m2o, to, on)
    BY <1>3, <1>4, <1>5, <1>6, <1>8, <1>9, EditCovers
  <1>11. TargetCovered'
    BY <1>7, <1>10 DEF TargetCovered, on
  <1>12. EditsOnBoundary'
    <2>1. CASE replaces' = Tail(replaces)
      <3>1. /\ Len(replaces') = Len(replaces) - 1
            /\ \A k \in 1..Len(replaces') : /\ replaces'[k] = replaces[k + 1]
                                            /\ k + 1 \in 1..Len(replaces)
        BY <2>1, <1>1
      <3>2. QED
        BY <3>1, <1>7 DEF CoverInv, EditsOnBoundary
    <2>2. CASE replaces' = <<>>
      BY <2>2 DEF EditsOnBoundary
    <2>3. QED
      BY <2>1, <2>2, <1>7
  <1>13. QED
    BY <1>7, <1>11, <1>12 DEF CoverInv, TextCovered

\* The new text covers its bytes as the old one did.
LEMMA ResolveEndCovers ==
    ASSUME IInv, CoverInv, ResolveEnd
    PROVE  CoverInv'
  <1> DEFINE on == Boundary(original)
  <1>1. /\ pc = "resolving" /\ state = "RW" /\ replaces = <<>>
    BY DEF IInv, QueueOK, ResolveEnd
  <1>2. /\ modified \in Seq(Byte) /\ m2o \in Seq(Nat) /\ origin \in Seq(Origin)
        /\ Len(m2o) = Len(modified) + 1 /\ Len(origin) = Len(modified)
        /\ modified_2 \in Seq(Byte) /\ m2o_2 \in Seq(Nat)
        /\ origin_2 \in Seq(Origin) /\ Len(m2o_2) = Len(modified_2)
        /\ Len(origin_2) = Len(modified_2)
        /\ start \in Nat /\ start =< Len(modified)
    BY <1>1 DEF IInv, TypeOK, HistoryOK, LoopOK, SurfacesTile, Origin
  <1>3. /\ Covers(modified, m2o, origin, on)
        /\ CoversSoFar(modified_2, m2o_2, origin_2, modified, m2o, start, on)
    BY <1>1 DEF CoverInv, TextCovered, TargetCovered
  <1>4. /\ modified' = Finished(modified_2, modified, start)
        /\ m2o' = [Finished(m2o_2, m2o, start) EXCEPT ![1] = 0]
        /\ origin' = Finished(origin_2, origin, start)
        /\ pc' = "idle" /\ replaces' = <<>> /\ original' = original
    BY <1>1 DEF ResolveEnd, Finished
  <1>5. 0 \in on
    BY DEF CoverInv, IsText, Boundary
  <1> HIDE DEF on
  <1>6. Covers(modified', m2o', origin', on)
    BY <1>2, <1>3, <1>4, <1>5, RestCovers
  <1>7. QED
    BY <1>4, <1>6
       DEF CoverInv, EditsOnBoundary, TextCovered, TargetCovered, on

\* The other calls leave the text, or start over with a clean one.
LEMMA OtherCovers ==
    ASSUME IInv, CoverInv,
           \/ \E t \in Texts : Reset(t)
           \/ StartBuildTooLong
           \/ \E usesChars \in BOOLEAN : Rewrite(usesChars)
           \/ PluginFails
           \/ CommitNothing
           \/ CommitStart
           \/ Build
           \/ UNCHANGED vars
    PROVE  CoverInv'
  <1>1. CASE \E t \in Texts : Reset(t)
    <2>1. PICK t \in Texts : Reset(t)
      BY <1>1
    <2>2. IsText(t) /\ original' = t /\ state' = "Clean"
      BY <2>1, TextAssumption DEF Reset
    <2>3. pc' = "idle" /\ replaces' = <<>>
      BY <2>1 DEF Reset, IInv, QueueOK
    <2>4. QED
      BY <2>2, <2>3 DEF CoverInv, EditsOnBoundary, TextCovered, TargetCovered
  <1>2. CASE CommitStart
    <2>1. modified_2' = <<>> /\ UNCHANGED <<state, texts, replaces>>
      BY <1>2 DEF CommitStart
    <2>2. TargetCovered'
      BY <2>1 DEF TargetCovered, CoversSoFar
    <2>3. QED
      BY <2>1, <2>2 DEF CoverInv, EditsOnBoundary, TextCovered, texts
  <1>3. CASE Build
    <2>1. /\ state = "RW" /\ pc' = "idle"
          /\ UNCHANGED <<original, modified, m2o, origin, replaces>>
      BY <1>3 DEF Build, texts
    <2>2. QED
      BY <2>1 DEF CoverInv, EditsOnBoundary, TextCovered, TargetCovered
  <1>4. CASE \/ StartBuildTooLong
             \/ \E usesChars \in BOOLEAN : Rewrite(usesChars)
             \/ PluginFails
             \/ CommitNothing
    <2>1. /\ UNCHANGED <<state, original, modified, m2o, origin>>
          /\ replaces' = replaces \/ replaces' = <<>>
          /\ pc' # "resolving"
      BY <1>4 DEF StartBuildTooLong, Rewrite, PluginFails, CommitNothing, texts
    <2>2. QED
      BY <2>1 DEF CoverInv, EditsOnBoundary, TextCovered, TargetCovered
  <1>5. CASE UNCHANGED vars
    BY <1>5 DEF CoverInv, EditsOnBoundary, TextCovered, TargetCovered, vars, texts,
                targets, locals
  <1>6. QED
    BY <1>1, <1>2, <1>3, <1>4, <1>5

\* A step keeps the cover, given the invariant of the buffer.
LEMMA StepCovers == IInv /\ CoverInv /\ [Next]_vars => CoverInv'
  <1>1. SUFFICES ASSUME IInv, CoverInv, [Next]_vars PROVE CoverInv'
    OBVIOUS
  <1>2. CASE StartBuild
    BY <1>1, <1>2, StartBuildCovers
  <1>3. CASE \E from, to \in 0..Len(modified), with \in Replacements :
                Replace(from, to, with)
    BY <1>1, <1>3, ReplaceCovers
  <1>4. CASE ResolveEdit
    BY <1>1, <1>4, ResolveEditCovers
  <1>5. CASE ResolveEnd
    BY <1>1, <1>5, ResolveEndCovers
  <1>6. QED
    BY <1>1, <1>2, <1>3, <1>4, <1>5, OtherCovers DEF Next

\* orig_slice_c: whatever the plugins replaced, the slice of a token begins and
\* ends on characters of the original text, and contains every character of the
\* token that was not replaced.
THEOREM TokensCoveredCorrect == Spec => []TokensCovered
  <1>1. Init => CoverInv
    BY DEF Init, CoverInv, EditsOnBoundary, TextCovered, TargetCovered, IsText
  <1>2. QED
    BY <1>1, Invariance, StepCovers, CoverGivesTokens, PTL DEF Spec

\* commit swaps the two pairs at once: no call that fails, and no step inside of
\* one, changes the text or its mapping.
THEOREM EditAtomicCorrect == Spec => EditAtomic
  <1>1. [Next]_vars =>
            [pc' # "idle" \/ result' # "Ok" => UNCHANGED <<modified, m2o>>]_vars
    <2>1. SUFFICES ASSUME Next, pc' # "idle" \/ result' # "Ok"
                   PROVE  UNCHANGED <<modified, m2o>>
      OBVIOUS
    <2>2. ~ \E t \in Texts : Reset(t)
      BY <2>1 DEF Reset
    <2>3. ~ StartBuild
      BY <2>1 DEF StartBuild
    <2>4. ~ ResolveEnd
      BY <2>1 DEF ResolveEnd
    <2>5. QED
      BY <2>1, <2>2, <2>3, <2>4
         DEF Next, StartBuildTooLong, Rewrite, Replace, PluginFails, CommitNothing,
             CommitStart, ResolveEdit, Build, texts
  <1>2. QED
    BY <1>1, PTL DEF Spec, EditAtomic

----------------------------------------------------------------------------
(* The characters of a text.                                               *)

\* o are the offsets of the lead bytes among the first i, in order.
AreOffsets(o, t, i) ==
    /\ o \in Seq(Nat)
    /\ \A k \in 1..Len(o) : o[k] < i /\ IsLead(t[o[k] + 1])
    /\ \A k, l \in 1..Len(o) : k < l => o[k] < o[l]
    /\ \A j \in 1..i : IsLead(t[j]) => \E k \in 1..Len(o) : o[k] = j - 1

LEMMA OffsetsGrow ==
    ASSUME NEW t, NEW i \in Nat, NEW o, AreOffsets(o, t, i)
    PROVE  AreOffsets(IF IsLead(t[i + 1]) THEN Append(o, i) ELSE o, t, i + 1)
  <1>1. /\ o \in Seq(Nat) /\ Len(o) \in Nat
        /\ \A k \in 1..Len(o) : o[k] \in Nat /\ o[k] < i /\ IsLead(t[o[k] + 1])
        /\ \A k, l \in 1..Len(o) : k < l => o[k] < o[l]
        /\ \A j \in 1..i : IsLead(t[j]) => \E k \in 1..Len(o) : o[k] = j - 1
    BY DEF AreOffsets
  <1>2. CASE ~ IsLead(t[i + 1])
    <2>1. \A k \in 1..Len(o) : o[k] < i + 1
      BY <1>1
    <2>2. \A j \in 1..i + 1 : j \in 1..i \/ j = i + 1
      OBVIOUS
    <2>3. QED
      BY <1>1, <1>2, <2>1, <2>2 DEF AreOffsets
  <1>3. CASE IsLead(t[i + 1])
    <2> DEFINE q == Append(o, i)
    <2>1. /\ q \in Seq(Nat) /\ Len(q) = Len(o) + 1 /\ q[Len(o) + 1] = i
          /\ \A k \in 1..Len(o) : q[k] = o[k]
      BY <1>1, AppendFacts
    <2> HIDE DEF q
    <2>2. \A k \in 1..Len(q) : k \in 1..Len(o) \/ k = Len(o) + 1
      BY <1>1, <2>1
    <2>3. ASSUME NEW k \in 1..Len(q) PROVE q[k] < i + 1 /\ IsLead(t[q[k] + 1])
      <3>1. CASE k \in 1..Len(o)
        <4>1. q[k] = o[k] /\ o[k] \in Nat /\ o[k] < i /\ IsLead(t[o[k] + 1])
          BY <1>1, <2>1, <3>1
        <4>2. QED
          BY <4>1
      <3>2. CASE k = Len(o) + 1
        <4>1. q[k] = i
          BY <2>1, <3>2
        <4>2. QED
          BY <1>3, <4>1
      <3>3. QED
        BY <2>2, <3>1, <3>2
    <2>4. ASSUME NEW k \in 1..Len(q), NEW l \in 1..Len(q), k < l PROVE q[k] < q[l]
      <3>1. k \in 1..Len(o)
        BY <1>1, <2>1, <2>4
      <3>2. CASE l \in 1..Len(o)
        BY <1>1, <2>1, <2>4, <3>1, <3>2
      <3>3. CASE l = Len(o) + 1
        BY <1>1, <2>1, <3>1, <3>3
      <3>4. QED
        BY <2>2, <3>2, <3>3
    <2>5. ASSUME NEW j \in 1..i + 1, IsLead(t[j]) PROVE \E k \in 1..Len(q) : q[k] = j - 1
      <3>1. CASE j \in 1..i
        <4>1. PICK k \in 1..Len(o) : o[k] = j - 1
          BY <1>1, <2>5, <3>1
        <4>2. k \in 1..Len(q) /\ q[k] = j - 1
          BY <1>1, <2>1, <4>1
        <4>3. QED
          BY <4>2
      <3>2. CASE j = i + 1
        <4>1. Len(o) + 1 \in 1..Len(q) /\ q[Len(o) + 1] = j - 1
          BY <1>1, <2>1, <3>2
        <4>2. QED
          BY <4>1
      <3>3. QED
        BY <3>1, <3>2
    <2>6. AreOffsets(q, t, i + 1)
      BY <2>1, <2>3, <2>4, <2>5 DEF AreOffsets
    <2>7. QED
      BY <1>3, <2>6 DEF q
  <1>4. QED
    BY <1>2, <1>3

\* char_indices finds them all.
LEMMA CharOffsetsAre ==
    ASSUME NEW t \in Seq(Byte)
    PROVE  AreOffsets(CharOffsets(t), t, Len(t))
  <1> DEFINE n == Len(t)
             Rec(g) == [i \in 0..n |->
                           IF i = 0 THEN <<>>
                           ELSE IF IsLead(t[i]) THEN Append(g[i - 1], i - 1)
                           ELSE g[i - 1]]
             before == CHOOSE g : g = Rec(g)
  <1>1. n \in Nat
    OBVIOUS
  <1>2. \E g : g = Rec(g)
    <2> DEFINE D == Seq(Nat)
               step == [p \in D \X Nat |->
                           IF p[2] \in 1..n /\ IsLead(t[p[2]]) THEN Append(p[1], p[2] - 1)
                           ELSE p[1]]
    <2>1. step \in [D \X Nat -> D]
      <3>1. ASSUME NEW p \in D \X Nat
            PROVE (IF p[2] \in 1..n /\ IsLead(t[p[2]]) THEN Append(p[1], p[2] - 1) ELSE p[1]) \in D
        <4>1. p[1] \in Seq(Nat) /\ p[2] \in Nat
          OBVIOUS
        <4>2. CASE p[2] \in 1..n
          <5>1. p[2] - 1 \in Nat
            BY <4>1, <4>2
          <5>2. Append(p[1], p[2] - 1) \in Seq(Nat)
            BY <4>1, <5>1
          <5>3. QED
            BY <4>1, <5>2
        <4>3. QED
          BY <4>1, <4>2
      <3>2. QED
        BY <3>1
    <2>2. <<>> \in D
      OBVIOUS
    <2>3. \A a \in D : \A i \in 1..n :
             step[<<a, i>>] = IF IsLead(t[i]) THEN Append(a, i - 1) ELSE a
      OBVIOUS
    <2> HIDE DEF step, D
    <2>4. PICK g : IsRecursion(g, D, <<>>, step, n)
      BY <1>1, <2>1, <2>2, Recursion
    <2>5. g \in [0..n -> D] /\ g[0] = <<>> /\ \A i \in 1..n : g[i] = step[<<g[i - 1], i>>]
      BY <2>4 DEF IsRecursion
    <2>6. \A i \in 1..n : g[i] = IF IsLead(t[i]) THEN Append(g[i - 1], i - 1) ELSE g[i - 1]
      <3>1. ASSUME NEW i \in 1..n PROVE g[i - 1] \in D
        <4>1. i - 1 \in 0..n
          BY <1>1
        <4>2. QED
          BY <4>1, <2>5
      <3>2. QED
        BY <3>1, <2>3, <2>5
    <2> HIDE DEF n
    <2>7. \A i \in 0..n : g[i] = Rec(g)[i]
      <3>1. \A i \in 0..n : i = 0 \/ i \in 1..n
        BY <1>1
      <3>2. QED
        BY <3>1, <2>5, <2>6
    <2>8. g = Rec(g)
      BY <2>5, <2>7
    <2>9. QED
      BY <2>8
  <1>3. before = Rec(before)
    BY <1>2
  <1>4. CharOffsets(t) = before[n]
    BY DEF CharOffsets
  <1> HIDE DEF before
  <1>5. before[0] = <<>> /\ \A i \in 1..n :
            before[i] = IF IsLead(t[i]) THEN Append(before[i - 1], i - 1) ELSE before[i - 1]
    <2>1. 0 \in 0..n /\ \A i \in 1..n : i \in 0..n /\ i # 0
      BY <1>1
    <2> HIDE DEF n
    <2>2. QED
      BY <1>3, <2>1
  <1> HIDE DEF n
  <1> DEFINE T == {i \in 0..n : ~ AreOffsets(before[i], t, i)}
  <1>6. CASE T # {}
    <2>1. PICK m \in T : \A j \in T : m =< j
      <3>1. T \in SUBSET Nat
        BY <1>1
      <3> HIDE DEF T
      <3>2. QED
        BY <3>1, <1>6, MinNat
    <2>2. CASE m = 0
      <3>1. AreOffsets(<<>>, t, 0)
        BY DEF AreOffsets
      <3>2. QED
        BY <2>2, <3>1, <1>5
    <2>3. CASE m # 0
      <3>1. m - 1 \in 0..n /\ m \in 1..n /\ m - 1 \in Nat /\ m = (m - 1) + 1 /\ ~(m =< m - 1)
        BY <1>1, <2>3
      <3>2. AreOffsets(before[m - 1], t, m - 1)
        BY <2>1, <3>1
      <3>3. before[m] = IF IsLead(t[(m - 1) + 1]) THEN Append(before[m - 1], m - 1)
                        ELSE before[m - 1]
        BY <1>5, <3>1
      <3>4. AreOffsets(before[m], t, (m - 1) + 1)
        BY <3>1, <3>2, <3>3, OffsetsGrow
      <3>5. QED
        BY <3>1, <3>4
    <2>4. QED
      BY <2>2, <2>3
  <1>7. CASE T = {}
    <2>1. n \in 0..n
      BY <1>1
    <2>2. QED
      BY <2>1, <1>4, <1>7 DEF n
  <1>8. QED
    BY <1>6, <1>7

\* mod_c2b: the offsets of the characters and of the end of the text, where a
\* replacement may begin and end.
LEMMA CharToByteIs ==
    ASSUME NEW t \in Seq(Byte)
    PROVE  LET n == Len(CharsOf(t))
               o == CharToByte(t)
           IN  /\ n \in Nat /\ CharsOf(t) \in Seq(Char)
               /\ DOMAIN o = 1..n + 1
               /\ \A k \in 0..n : o[k + 1] \in Boundary(t) /\ o[k + 1] \in Nat
               /\ \A k, l \in 0..n : k < l => o[k + 1] < o[l + 1]
  <1> DEFINE p == CharOffsets(t)
             n == Len(p)
             o == Append(p, Len(t))
             chars == [k \in 1..n |-> t[p[k] + 1].ch]
  <1>1. /\ p \in Seq(Nat) /\ n \in Nat /\ Len(t) \in Nat
        /\ \A k \in 1..n : p[k] \in Nat /\ p[k] < Len(t) /\ IsLead(t[p[k] + 1])
        /\ \A k, l \in 1..n : k < l => p[k] < p[l]
    <2>1. AreOffsets(p, t, Len(t))
      BY CharOffsetsAre
    <2> HIDE DEF p
    <2>2. QED
      BY <2>1 DEF AreOffsets
  <1>2. CharsOf(t) = chars /\ CharToByte(t) = o
    BY DEF CharsOf, CharToByte
  <1> HIDE DEF p
  <1>3. chars \in Seq(Char) /\ Len(chars) = n
    <2>1. ASSUME NEW k \in 1..n PROVE t[p[k] + 1].ch \in Char
      <3>1. p[k] + 1 \in 1..Len(t)
        BY <1>1
      <3>2. t[p[k] + 1] \in Byte
        BY <3>1
      <3>3. QED
        BY <3>2 DEF Byte
    <2>2. chars \in [1..n -> Char]
      BY <2>1
    <2> HIDE DEF chars, n
    <2>3. chars \in Seq(Char)
      BY <2>2, <1>1, FunctionIsSeq
    <2>4. QED
      BY <2>2, <2>3, <1>1
  <1>4. /\ o[n + 1] = Len(t) /\ \A k \in 1..n : o[k] = p[k]
    BY <1>1, AppendFacts
  <1>a. DOMAIN o = 1..n + 1
    <2>1. o \in Seq(Nat) /\ Len(o) = n + 1
      BY <1>1, AppendFacts
    <2> HIDE DEF o, n
    <2>2. QED
      BY <2>1
  <1> HIDE DEF o, chars, n
  <1>5. \A k \in 0..n : k = n \/ k + 1 \in 1..n
    BY <1>1
  <1>6. ASSUME NEW k \in 0..n PROVE o[k + 1] \in Boundary(t) /\ o[k + 1] \in Nat
    <2>1. CASE k = n
      <3>1. o[k + 1] = Len(t)
        BY <2>1, <1>4
      <3>2. QED
        BY <3>1, <1>1 DEF Boundary
    <2>2. CASE k + 1 \in 1..n
      <3>1. o[k + 1] = p[k + 1]
        BY <2>2, <1>4
      <3>2. p[k + 1] \in Nat /\ p[k + 1] < Len(t) /\ IsLead(t[p[k + 1] + 1])
        BY <2>2, <1>1
      <3>3. p[k + 1] \in 0..Len(t)
        BY <3>2, <1>1
      <3>4. QED
        BY <3>1, <3>2, <3>3 DEF Boundary
    <2>3. QED
      BY <1>5, <2>1, <2>2
  <1>7. ASSUME NEW k \in 0..n, NEW l \in 0..n, k < l PROVE o[k + 1] < o[l + 1]
    <2>1. k + 1 \in 1..n /\ o[k + 1] = p[k + 1]
      BY <1>1, <1>4, <1>7
    <2>2. CASE l = n
      <3>1. o[l + 1] = Len(t)
        BY <2>2, <1>4
      <3>2. QED
        BY <2>1, <3>1, <1>1
    <2>3. CASE l + 1 \in 1..n
      <3>1. o[l + 1] = p[l + 1] /\ k + 1 < l + 1
        BY <2>3, <1>4, <1>7
      <3>2. QED
        BY <2>1, <2>3, <3>1, <1>1
    <2>4. QED
      BY <1>5, <2>2, <2>3
  <1>8. QED
    BY <1>1, <1>2, <1>3, <1>a, <1>6, <1>7

----------------------------------------------------------------------------
(* What a plugin finds.                                                    *)

\* A match in a text of n characters.
MatchOK(m, n) ==
    /\ m.start \in Nat /\ m.from \in Nat /\ m.to \in Nat
    /\ m.start =< m.from /\ m.from < m.to /\ m.to =< n
    /\ Utf8(m.with) \in Replacements

LEMMA SpanMatch ==
    ASSUME NEW chars \in Seq(Char), NEW r \in Spans(chars), NEW w,
           Utf8(w) \in Replacements
    PROVE  MatchOK(Match(r[1], r[2], w), Len(chars))
  BY DEF Spans, MatchOK, Match

\* Every bundled plugin replaces characters the text has, by a text it may put
\* there, and never before the beginning of its match.
LEMMA MatchesOK ==
    ASSUME NEW chars \in Seq(Char), NEW plugin, NEW m \in Matches(plugin, chars)
    PROVE  MatchOK(m, Len(chars))
  <1>0. Len(chars) \in Nat /\ DOMAIN chars = 1..Len(chars)
    OBVIOUS
  <1>1. ASSUME NEW k \in KeyMatches(chars) PROVE MatchOK(k, Len(chars))
    <2>1. PICK r \in Spans(chars) :
              /\ Span(chars, r[1], r[2]) \in DOMAIN ReplaceCharMap
              /\ k = Match(r[1], r[2], ReplaceCharMap[Span(chars, r[1], r[2])])
      BY <1>1 DEF KeyMatches
    <2>2. Utf8(ReplaceCharMap[Span(chars, r[1], r[2])]) \in Replacements
      BY <2>1, RewriteAssumption
    <2>3. QED
      BY <2>1, <2>2, SpanMatch
  <1>2. ASSUME NEW k \in SlowMatches(chars) PROVE MatchOK(k, Len(chars))
    <2>1. CASE k \in KeyMatches(chars)
      BY <2>1, <1>1
    <2>2. CASE k \notin KeyMatches(chars)
      <3>1. PICK j \in DOMAIN chars : /\ Normalized(chars[j])[1] # chars[j]
                                      /\ k = Match(j - 1, j, Normalized(chars[j]))
        BY <1>2, <2>2 DEF SlowMatches
      <3>2. chars[j] \in Char
        BY <1>0
      <3>3. Utf8(Normalized(chars[j])) \in Replacements
        BY <3>1, <3>2, RewriteAssumption
      <3>4. j \in Nat /\ j - 1 \in Nat /\ j - 1 < j /\ j =< Len(chars)
        BY <1>0
      <3>5. QED
        BY <3>1, <3>3, <3>4 DEF MatchOK, Match
    <2>3. QED
      BY <2>1, <2>2
  <1>3. CASE plugin = "default"
    <2>1. m \in KeyMatches(chars) \cup SlowMatches(chars)
      BY <1>3 DEF Matches, DefaultMatches
    <2>2. QED
      BY <2>1, <1>1, <1>2
  <1>4. CASE plugin = "prolonged"
    <2>1. PICK r \in Spans(chars) : m = Match(r[1], r[2], Symbol)
      BY <1>4 DEF Matches, ProlongedMatches
    <2>2. Utf8(Symbol) \in Replacements
      BY RewriteAssumption
    <2>3. QED
      BY <2>1, <2>2, SpanMatch
  <1>5. CASE plugin = "yomigana"
    <2>1. PICK r \in Spans(chars) :
              /\ IsYomigana(Span(chars, r[1], r[2]), Kanji, Reading)
              /\ m = [start |-> r[1], from |-> r[1] + 1, to |-> r[2], with |-> <<>>]
      BY <1>5 DEF Matches, YomiganaMatches
    <2>2. r[1] \in Nat /\ r[2] \in Nat /\ r[1] < r[2] /\ r[2] =< Len(chars)
      BY <1>0 DEF Spans
    <2>3. Len(Span(chars, r[1], r[2])) = r[2] - r[1]
      BY <2>2, Slice DEF Span
    <2>4. r[2] - r[1] >= 4
      BY <2>1, <2>3 DEF IsYomigana
    <2>5. Utf8(<<>>) \in Replacements
      BY RewriteAssumption
    <2>6. QED
      BY <2>1, <2>2, <2>4, <2>5 DEF MatchOK
  <1>6. CASE plugin \notin {"default", "prolonged", "yomigana"}
    BY <1>6 DEF Matches
  <1>7. QED
    BY <1>3, <1>4, <1>5, <1>6

\* The search finds the leftmost match, the longest of those.
LEMMA LeftmostIsMatch ==
    ASSUME NEW n \in Nat, NEW S, S # {}, \A m \in S : MatchOK(m, n)
    PROVE  Leftmost(S) \in S
  <1> DEFINE T == {m.start : m \in S}
  <1>1. T \in SUBSET Nat /\ T # {}
    BY DEF MatchOK
  <1>2. PICK a \in T : \A b \in T : a =< b
    <2> HIDE DEF T
    <2> QED BY <1>1, MinNat
  <1> DEFINE U == {n - m.to : m \in {k \in S : k.start = a}}
  <1>3. U \in SUBSET Nat /\ U # {}
    <2>1. ASSUME NEW m \in S PROVE n - m.to \in Nat
      BY DEF MatchOK
    <2>2. \E m \in S : m.start = a
      BY <1>2
    <2>3. QED
      BY <2>1, <2>2
  <1>4. PICK b \in U : \A c \in U : b =< c
    <2> HIDE DEF U
    <2> QED BY <1>3, MinNat
  <1>5. PICK m \in S : m.start = a /\ n - m.to = b
    BY <1>4
  <1>6. ASSUME NEW k \in S
        PROVE  m.start < k.start \/ (m.start = k.start /\ m.to >= k.to)
    <2>1. /\ m.start \in Nat /\ m.to \in Nat /\ k.start \in Nat /\ k.to \in Nat
      BY DEF MatchOK
    <2>2. m.start =< k.start
      BY <1>2, <1>5
    <2>3. CASE k.start = m.start
      <3>1. n - k.to \in U
        BY <1>5, <2>3
      <3>2. n - m.to =< n - k.to
        <4> HIDE DEF U
        <4> QED BY <3>1, <1>4, <1>5
      <3>3. QED
        BY <3>2, <2>1, <2>3
    <2>4. QED
      BY <2>1, <2>2, <2>3
  <1>7. QED
    BY <1>6 DEF Leftmost

----------------------------------------------------------------------------
(* The plugins keep the contract of the editor.                            *)

\* What a bundled plugin has asked for ends where its search goes on.
TextInv ==
    pc = "editing" /\ Plugin # "other" =>
        /\ at \in 0..Len(CharsOf(modified))
        /\ replaces # <<>> =>
              replaces[Len(replaces)].to =< CharToByte(modified)[at + 1]

\* One iteration of a bundled plugin's loop asks for what the editor allows.
LEMMA AskReplaces ==
    ASSUME IInv, TextInv, Ask
    PROVE  /\ \E from, to \in 0..Len(modified), with \in Replacements :
                 Replace(from, to, with)
           /\ TextInv'
  <1> DEFINE chars == CharsOf(modified)
             n == Len(chars)
             o == CharToByte(modified)
             m == Leftmost(Remaining)
             from == o[m.from + 1]
             to == o[m.to + 1]
             op == [from |-> from, to |-> to, with |-> Utf8(m.with)]
  <1>1. /\ modified \in Seq(Byte) /\ Len(modified) \in Nat
        /\ replaces \in Seq(Op)
    BY DEF IInv, TypeOK, Op
  <1>2. /\ n \in Nat /\ chars \in Seq(Char)
        /\ \A k \in 0..n : o[k + 1] \in Boundary(modified) /\ o[k + 1] \in Nat
        /\ \A k, l \in 0..n : k < l => o[k + 1] < o[l + 1]
    BY <1>1, CharToByteIs
  <1>3. /\ pc = "editing" /\ Remaining # {} /\ edits < MaxEdits
        /\ replaces' = Append(replaces, op) /\ at' = m.to
        /\ edits' = edits + 1
        /\ UNCHANGED <<state, texts, targets, mod_chars, index, pc, locals, result>>
        /\ UNCHANGED <<plugins, lines, table, next>>
    BY DEF Ask, Resume
  <1>4. m \in Remaining
    <2>1. \A k \in Remaining : MatchOK(k, n)
      BY <1>2, MatchesOK DEF Remaining
    <2>2. QED
      BY <1>2, <1>3, <2>1, LeftmostIsMatch
  <1>5. m.start >= at /\ MatchOK(m, n)
    <2> HIDE DEF m
    <2>1. QED
      BY <1>2, <1>4, MatchesOK DEF Remaining
  <1>6. Plugin # "other"
    <2> HIDE DEF m
    <2>1. QED
      BY <1>4 DEF Remaining, Matches
  <1> HIDE DEF m, n, chars, o
  <1>7. at \in 0..n /\ (replaces # <<>> => replaces[Len(replaces)].to =< o[at + 1])
    BY <1>3, <1>6 DEF TextInv, n, o, chars
  <1>8. /\ m.from \in 0..n /\ m.to \in 0..n /\ m.from < m.to /\ at =< m.from
        /\ Utf8(m.with) \in Replacements
    BY <1>2, <1>5, <1>7 DEF MatchOK
  <1>9. /\ from \in Boundary(modified) /\ to \in Boundary(modified) /\ from < to
        /\ from \in Nat /\ to \in Nat /\ o[at + 1] =< from
    <2>1. at = m.from \/ at < m.from
      BY <1>7, <1>8
    <2>2. o[at + 1] \in Nat /\ from \in Nat /\ to \in Nat
      BY <1>2, <1>7, <1>8
    <2>3. o[at + 1] =< from
      BY <1>2, <1>7, <1>8, <2>1, <2>2
    <2>4. QED
      BY <1>2, <1>8, <2>2, <2>3
  <1> HIDE DEF from, to
  <1>10. replaces # <<>> => replaces[Len(replaces)].to =< from
    <2>1. replaces # <<>> => Len(replaces) \in 1..Len(replaces)
      BY <1>1
    <2>2. replaces # <<>> => replaces[Len(replaces)].to \in Nat
      <3>1. \A k \in 1..Len(replaces) : replaces[k] \in Op
        BY <1>1
      <3>2. \A x \in Op : x.to \in Nat
        BY DEF Op
      <3>3. QED
        BY <2>1, <3>1, <3>2
    <2>3. o[at + 1] \in Nat
      BY <1>2, <1>7
    <2>4. QED
      BY <1>7, <1>9, <2>2, <2>3
  <1>11. Replace(from, to, Utf8(m.with))
    BY <1>3, <1>9, <1>10 DEF Replace
  <1>12. from \in 0..Len(modified) /\ to \in 0..Len(modified)
    BY <1>9 DEF Boundary
  <1>13. TextInv'
    <2>1. op \in Op
      BY <1>8, <1>9 DEF Op
    <2> HIDE DEF op
    <2>2. replaces'[Len(replaces')] = op
      BY <1>1, <1>3, <2>1, AppendFacts
    <2>3. /\ modified' = modified /\ Plugin' = Plugin
          /\ CharsOf(modified)' = chars /\ CharToByte(modified)' = o
      BY <1>3 DEF texts, Plugin, chars, o
    <2>4. at' \in 0..n /\ op.to = o[at' + 1]
      BY <1>3, <1>8 DEF op, to
    <2>5. o[at' + 1] \in Nat
      BY <1>2, <2>4
    <2>6. replaces'[Len(replaces')].to =< CharToByte(modified)'[at' + 1]
      BY <2>2, <2>3, <2>4, <2>5
    <2>7. at' \in 0..Len(CharsOf(modified)')
      BY <2>3, <2>4 DEF n
    <2>8. QED
      BY <2>6, <2>7 DEF TextInv
  <1>14. QED
    BY <1>8, <1>11, <1>12, <1>13

\* Every step of the plugins is a step of the buffer.
LEMMA TextStep ==
    ASSUME IInv, TextInv, [TextNext]_text_vars
    PROVE  [Next]_vars /\ TextInv'
  <1>1. CASE Ask
    BY <1>1, AskReplaces DEF Next
  <1>2. CASE RunPlugin
    <2>1. PICK usesChars \in BOOLEAN : Rewrite(usesChars)
      BY <1>2 DEF RunPlugin
    <2>2. at' = 0 /\ modified' = modified /\ replaces' = <<>> /\ modified \in Seq(Byte)
      BY <1>2, <2>1 DEF RunPlugin, Rewrite, texts, IInv, TypeOK, QueueOK
    <2>3. Len(CharsOf(modified)') \in Nat
      BY <2>2, CharToByteIs
    <2>4. QED
      BY <2>1, <2>2, <2>3 DEF Next, TextInv
  <1>3. CASE \E from, to \in 0..Len(modified), with \in OtherTexts : AskOther(from, to, with)
    <2>1. PICK from \in 0..Len(modified), to \in 0..Len(modified), with \in OtherTexts :
              AskOther(from, to, with)
      BY <1>3
    <2>2. Replace(from, to, with) /\ with \in Replacements
      BY <2>1, RewriteAssumption DEF AskOther
    <2>3. Plugin' = Plugin /\ Plugin = "other"
      BY <2>1 DEF AskOther, plugin_vars, Plugin
    <2>4. QED
      BY <2>2, <2>3 DEF Next, TextInv
  <1>4. CASE \E t \in Texts : NextText(t)
    <2>1. PICK t \in Texts : Reset(t)
      BY <1>4 DEF NextText
    <2>2. QED
      BY <2>1 DEF Next, TextInv, Reset
  <1>5. CASE Start
    BY <1>5 DEF Start, Next, TextInv, StartBuild, StartBuildTooLong
  <1>6. CASE OtherFails
    BY <1>6 DEF OtherFails, Next, TextInv, PluginFails
  <1>7. CASE Commit
    BY <1>7 DEF Commit, Next, TextInv, CommitNothing, CommitStart
  <1>8. CASE Resolve
    BY <1>8 DEF Resolve, Next, TextInv, ResolveEdit, ResolveEnd
  <1>9. CASE BuildText
    BY <1>9 DEF BuildText, Next, TextInv, Build
  <1>10. CASE UNCHANGED text_vars
    <2>1. UNCHANGED vars /\ UNCHANGED plugin_vars
      BY <1>10 DEF text_vars
    <2>2. UNCHANGED <<pc, replaces, modified, at, plugins, next>>
      BY <2>1 DEF vars, texts, plugin_vars
    <2>3. TextInv'
      BY <2>2 DEF TextInv, Plugin
    <2>4. QED
      BY <2>1, <2>3
  <1>11. QED
    BY <1>1, <1>2, <1>3, <1>4, <1>5, <1>6, <1>7, <1>8, <1>9, <1>10 DEF TextNext

\* The bundled plugins, and others that ask for any allowed replacements, are
\* callers the editor of the buffer can trust: replacements do not overlap, are
\* sorted, and are of whole characters of the text as it is (edit.rs).
THEOREM PluginsRefineBuffer == TextSpec => BufferSpec
  <1>1. TextInit => Init /\ TextInv
    BY DEF TextInit, Init, TextInv
  <1>2. QED
    BY <1>1, InitInv, StepInv, TextStep, PTL DEF TextSpec, BufferSpec, Spec

\* So all that was proved of the buffer holds of every text these plugins make.
THEOREM PluginsKeepMapping ==
    TextSpec => [](SurfacesTile /\ TokensCovered /\ CharsFresh /\ LengthBounded)
  BY PluginsRefineBuffer, SurfacesTileCorrect, TokensCoveredCorrect,
     CharsFreshCorrect, LengthBoundedCorrect, PTL DEF BufferSpec

----------------------------------------------------------------------------
(* The indices of build.                                                   *)

\* The lead bytes among the first i.
LeadsIn(t, i) == {j \in 1..i : IsLead(t[j])}

LEMMA LeadsCount ==
    ASSUME NEW t, NEW i \in Nat
    PROVE  /\ IsFiniteSet(LeadsIn(t, i)) /\ Cardinality(LeadsIn(t, i)) \in Nat
           /\ \A j \in 0..i : Cardinality(LeadsIn(t, j)) =< Cardinality(LeadsIn(t, i))
           /\ \A j \in 1..i : IsLead(t[j]) => 1 =< Cardinality(LeadsIn(t, j))
  <1>1. \A j \in 0..i : IsFiniteSet(LeadsIn(t, j))
    <2>1. ASSUME NEW j \in 0..i PROVE IsFiniteSet(LeadsIn(t, j))
      <3>1. IsFiniteSet(1..j) /\ LeadsIn(t, j) \subseteq 1..j
        BY FS_Interval DEF LeadsIn
      <3>2. QED
        BY <3>1, FS_Subset
    <2>2. QED
      BY <2>1
  <1>2. \A j \in 0..i : Cardinality(LeadsIn(t, j)) \in Nat
    BY <1>1, FS_CardinalityType
  <1>3. \A j \in 0..i : Cardinality(LeadsIn(t, j)) =< Cardinality(LeadsIn(t, i))
    <2>1. ASSUME NEW j \in 0..i
          PROVE  Cardinality(LeadsIn(t, j)) =< Cardinality(LeadsIn(t, i))
      <3>1. LeadsIn(t, j) \subseteq LeadsIn(t, i)
        BY DEF LeadsIn
      <3>2. i \in 0..i
        OBVIOUS
      <3>3. QED
        BY <1>1, <3>1, <3>2, FS_Subset
    <2>2. QED
      BY <2>1
  <1>4. ASSUME NEW j \in 1..i, IsLead(t[j]) PROVE 1 =< Cardinality(LeadsIn(t, j))
    <2>1. j \in LeadsIn(t, j) /\ j \in 0..i
      BY <1>4 DEF LeadsIn
    <2>2. Cardinality(LeadsIn(t, j)) # 0
      BY <1>1, <2>1, FS_EmptySet
    <2>3. QED
      BY <1>2, <2>1, <2>2
  <1>5. i \in 0..i
    OBVIOUS
  <1>6. QED
    BY <1>1, <1>2, <1>3, <1>4, <1>5

\* The k-th offset has k lead bytes up to it, and the end of the text has all.
LEMMA OffsetsCount ==
    ASSUME NEW t \in Seq(Byte)
    PROVE  LET o == CharOffsets(t)
           IN  /\ \A k \in 1..Len(o) : Cardinality(LeadsIn(t, o[k] + 1)) = k
               /\ Cardinality(LeadsIn(t, Len(t))) = Len(o)
  <1> DEFINE o == CharOffsets(t)
             n == Len(o)
  <1>1. /\ o \in Seq(Nat) /\ n \in Nat /\ Len(t) \in Nat
        /\ \A k \in 1..n : o[k] \in Nat /\ o[k] < Len(t) /\ IsLead(t[o[k] + 1])
        /\ \A k, l \in 1..n : k < l => o[k] < o[l]
        /\ \A j \in 1..Len(t) : IsLead(t[j]) => \E k \in 1..n : o[k] = j - 1
    <2>1. AreOffsets(o, t, Len(t))
      BY CharOffsetsAre
    <2> HIDE DEF o
    <2>2. QED
      BY <2>1 DEF AreOffsets
  <1> HIDE DEF o, n
  <1>2. ASSUME NEW k \in 0..n, NEW i \in 0..Len(t),
               \A l \in 1..k : o[l] < i, \A l \in 1..n : l > k => i =< o[l]
        PROVE  Cardinality(LeadsIn(t, i)) = k
    <2> DEFINE f == [l \in 1..k |-> o[l] + 1]
    <2>1. \A l \in 1..k : l \in 1..n
      BY <1>1
    <2>2. ASSUME NEW l \in 1..k PROVE o[l] + 1 \in LeadsIn(t, i)
      BY <1>1, <1>2, <2>1 DEF LeadsIn
    <2>3. f \in [1..k -> LeadsIn(t, i)]
      BY <2>2
    <2>4. ASSUME NEW a \in 1..k, NEW b \in 1..k, a # b PROVE f[a] # f[b]
      <3>1. o[a] \in Nat /\ o[b] \in Nat /\ (a < b \/ b < a)
        BY <1>1, <2>1, <2>4
      <3>2. o[a] # o[b]
        BY <1>1, <2>1, <3>1
      <3>3. QED
        BY <3>1, <3>2
    <2>5. ASSUME NEW j \in LeadsIn(t, i) PROVE \E l \in 1..k : f[l] = j
      <3>1. j \in 1..Len(t) /\ j =< i /\ IsLead(t[j])
        BY <1>1 DEF LeadsIn
      <3>2. PICK l \in 1..n : o[l] = j - 1
        BY <1>1, <3>1
      <3>3. o[l] < i
        BY <3>1, <3>2
      <3>4. l \in 1..k
        BY <1>1, <1>2, <3>2, <3>3
      <3>5. QED
        BY <3>1, <3>2, <3>4
    <2>6. ExistsBijection(1..k, LeadsIn(t, i))
      <3> HIDE DEF f
      <3>1. IsInjective(f) /\ \A j \in LeadsIn(t, i) : \E l \in 1..k : f[l] = j
        BY <2>3, <2>4, <2>5 DEF IsInjective
      <3>2. f \in Bijection(1..k, LeadsIn(t, i))
        BY <2>3, <3>1 DEF Bijection, Injection, Surjection
      <3>3. QED
        BY <3>2 DEF ExistsBijection
    <2>7. IsFiniteSet(LeadsIn(t, i))
      BY LeadsCount
    <2>8. k \in Nat
      BY <1>1
    <2>9. QED
      BY <2>6, <2>7, <2>8, FS_CountingElements
  <1>3. ASSUME NEW k \in 1..n PROVE Cardinality(LeadsIn(t, o[k] + 1)) = k
    <2>1. o[k] + 1 \in 0..Len(t) /\ k \in 0..n
      BY <1>1
    <2>2. \A l \in 1..k : o[l] < o[k] + 1
      <3>1. ASSUME NEW l \in 1..k PROVE o[l] < o[k] + 1
        <4>1. l \in 1..n /\ (l < k \/ l = k)
          BY <1>1
        <4>2. QED
          BY <4>1, <1>1
      <3>2. QED
        BY <3>1
    <2>3. \A l \in 1..n : l > k => o[k] + 1 =< o[l]
      BY <1>1
    <2>4. QED
      BY <1>2, <2>1, <2>2, <2>3
  <1>4. Cardinality(LeadsIn(t, Len(t))) = n
    <2>1. n \in 0..n /\ Len(t) \in 0..Len(t) /\ \A l \in 1..n : ~(l > n)
      BY <1>1
    <2>2. QED
      BY <1>1, <1>2, <2>1
  <1>5. QED
    BY <1>3, <1>4 DEF n, o

LEMMA ByteToCharIs ==
    ASSUME NEW t \in Seq(Byte)
    PROVE  LET n == Len(CharOffsets(t))
               c == ByteToChar(t)
           IN  /\ Len(c) = Len(t) + 1
               /\ \A i \in 1..Len(t) : c[i] = Cardinality(LeadsIn(t, i)) - 1
               /\ c[Len(t) + 1] = IF n = 0 THEN 1 ELSE n
  <1> DEFINE N == Cardinality(LeadsIn(t, Len(t)))
             c == [i \in 1..Len(t) + 1 |->
                     IF i =< Len(t) THEN Cardinality(LeadsIn(t, i)) - 1
                     ELSE IF N = 0 THEN 1 ELSE N]
  <1>1. ByteToChar(t) = c
    BY DEF ByteToChar, LeadsIn
  <1>2. N = Len(CharOffsets(t))
    BY OffsetsCount
  <1>3. Len(t) \in Nat /\ Len(t) + 1 \in Nat
    OBVIOUS
  <1> HIDE DEF N
  <1>4. /\ Len(c) = Len(t) + 1
        /\ \A i \in 1..Len(t) : c[i] = Cardinality(LeadsIn(t, i)) - 1
        /\ c[Len(t) + 1] = IF N = 0 THEN 1 ELSE N
    BY <1>3
  <1>5. QED
    BY <1>1, <1>2, <1>4

\* mod_b2c undoes mod_c2b.
LEMMA BackToChar ==
    ASSUME NEW t, IsText(t), t # <<>>
    PROVE  /\ Len(CharToByte(t)) = Len(CharsOf(t)) + 1
           /\ Len(ByteToChar(t)) = Len(t) + 1
           /\ \A k \in DOMAIN CharToByte(t) : ByteToChar(t)[CharToByte(t)[k] + 1] = k - 1
  <1> DEFINE p == CharOffsets(t)
             n == Len(p)
             o == CharToByte(t)
             c == ByteToChar(t)
  <1>1. t \in Seq(Byte) /\ Len(t) \in Nat /\ 1 \in 1..Len(t) /\ IsLead(t[1])
    BY DEF IsText
  <1>2. /\ p \in Seq(Nat) /\ n \in Nat /\ n # 0
        /\ \A k \in 1..n : p[k] \in Nat /\ p[k] < Len(t)
    <2>1. AreOffsets(p, t, Len(t))
      BY <1>1, CharOffsetsAre
    <2> HIDE DEF p
    <2>2. \E k \in 1..n : p[k] = 1 - 1
      BY <1>1, <2>1 DEF AreOffsets
    <2>3. QED
      BY <2>1, <2>2 DEF AreOffsets
  <1>3. /\ \A k \in 1..n : Cardinality(LeadsIn(t, p[k] + 1)) = k
    BY <1>1, OffsetsCount
  <1>4. /\ Len(c) = Len(t) + 1
        /\ \A i \in 1..Len(t) : c[i] = Cardinality(LeadsIn(t, i)) - 1
        /\ c[Len(t) + 1] = IF n = 0 THEN 1 ELSE n
    BY <1>1, ByteToCharIs
  <1>5. o = Append(p, Len(t))
    BY DEF CharToByte
  <1>6. Len(CharsOf(t)) = n
    <2> DEFINE chars == [k \in 1..n |-> t[p[k] + 1].ch]
    <2>1. CharsOf(t) = chars
      BY DEF CharsOf
    <2> HIDE DEF p, n
    <2>2. Len(chars) = n
      BY <1>2
    <2>3. QED
      BY <2>1, <2>2
  <1> HIDE DEF p, n, o, c
  <1>7. /\ Len(o) = n + 1 /\ o[n + 1] = Len(t) /\ \A k \in 1..n : o[k] = p[k]
        /\ DOMAIN o = 1..n + 1
    <2>1. o \in Seq(Nat)
      BY <1>1, <1>2, <1>5
    <2>2. Len(o) = Len(p) + 1 /\ o[Len(p) + 1] = Len(t) /\ \A k \in 1..Len(p) : o[k] = p[k]
      BY <1>1, <1>2, <1>5, AppendFacts
    <2>3. QED
      BY <2>1, <2>2 DEF n
  <1>8. ASSUME NEW k \in 1..n + 1 PROVE c[o[k] + 1] = k - 1
    <2>1. CASE k \in 1..n
      <3>1. o[k] = p[k] /\ p[k] + 1 \in 1..Len(t)
        BY <2>1, <1>1, <1>2, <1>7
      <3>2. c[p[k] + 1] = k - 1
        BY <2>1, <3>1, <1>3, <1>4
      <3>3. QED
        BY <3>1, <3>2
    <2>2. CASE k = n + 1
      BY <2>2, <1>2, <1>4, <1>7
    <2>3. QED
      BY <2>1, <2>2, <1>2
  <1>9. QED
    BY <1>4, <1>6, <1>7, <1>8 DEF o, c

\* fill_orig_b2c knows the character of every boundary, in order.
LEMMA OrigCharsKnown ==
    ASSUME NEW t \in Seq(Byte)
    PROVE  LET c == OrigByteToChar(t)
           IN  /\ \A b \in Boundary(t) : c[b + 1] \in Nat
               /\ \A a, b \in Boundary(t) : a =< b => c[a + 1] =< c[b + 1]
  <1> DEFINE N == Len(CharOffsets(t))
             r == ByteToChar(t)
             c == OrigByteToChar(t)
             L(i) == Cardinality(LeadsIn(t, i))
  <1>1. Len(t) \in Nat
    OBVIOUS
  <1>2. /\ \A b \in Boundary(t) : b \in Nat /\ b =< Len(t)
        /\ \A b \in Boundary(t) : b < Len(t) => IsLead(t[b + 1])
    BY LeadBoundary
  <1>3. \A b \in Boundary(t) : c[b + 1] = r[b + 1]
    <2>1. ASSUME NEW b \in Boundary(t) PROVE c[b + 1] = r[b + 1]
      <3>1. b + 1 \in 1..Len(t) + 1 /\ (b + 1) - 1 = b
        BY <1>1, <1>2
      <3>2. QED
        BY <3>1 DEF OrigByteToChar
    <2>2. QED
      BY <2>1
  <1>4. /\ \A i \in 1..Len(t) : r[i] = L(i) - 1
        /\ r[Len(t) + 1] = IF N = 0 THEN 1 ELSE N
    BY ByteToCharIs
  <1>5. N = L(Len(t)) /\ N \in Nat
    BY <1>1, OffsetsCount, LeadsCount
  <1>6. \A i \in 1..Len(t) : \A j \in 1..i : L(j) =< L(i) /\ L(i) \in Nat /\ L(j) \in Nat
    <2>1. ASSUME NEW i \in 1..Len(t), NEW j \in 1..i
          PROVE  L(j) =< L(i) /\ L(i) \in Nat /\ L(j) \in Nat
      <3>1. i \in Nat /\ j \in Nat /\ j \in 0..i
        OBVIOUS
      <3>2. QED
        BY <3>1, LeadsCount
    <2>2. QED
      BY <2>1
  <1>7. \A i \in 1..Len(t) : IsLead(t[i]) => 1 =< L(i)
    BY <1>1, LeadsCount
  <1> HIDE DEF N, r, c, L
  <1>8. ASSUME NEW b \in Boundary(t), b < Len(t)
        PROVE  r[b + 1] = L(b + 1) - 1 /\ L(b + 1) \in Nat /\ 1 =< L(b + 1) /\ L(b + 1) =< N
    <2>1. b + 1 \in 1..Len(t) /\ Len(t) \in 1..Len(t) /\ b + 1 \in 1..Len(t) /\ b + 1 \in 1..b + 1
      BY <1>1, <1>2, <1>8
    <2>2. QED
      BY <2>1, <1>2, <1>4, <1>5, <1>6, <1>7, <1>8
  <1>9. ASSUME NEW b \in Boundary(t) PROVE r[b + 1] \in Nat
    <2>1. CASE b < Len(t)
      BY <2>1, <1>8
    <2>2. CASE b = Len(t)
      BY <2>2, <1>4, <1>5
    <2>3. QED
      BY <2>1, <2>2, <1>1, <1>2
  <1>10. ASSUME NEW a \in Boundary(t), NEW b \in Boundary(t), a =< b
         PROVE  r[a + 1] =< r[b + 1]
    <2>1. CASE b < Len(t)
      <3>1. a < Len(t)
        BY <2>1, <1>1, <1>2, <1>10
      <3>2. b + 1 \in 1..Len(t) /\ a + 1 \in 1..b + 1
        BY <2>1, <1>1, <1>2, <1>10
      <3>3. L(a + 1) =< L(b + 1)
        BY <3>2, <1>6
      <3>4. QED
        BY <2>1, <3>1, <3>3, <1>8
    <2>2. CASE b = Len(t) /\ a < Len(t)
      <3>1. r[a + 1] = L(a + 1) - 1 /\ L(a + 1) =< N /\ 1 =< L(a + 1) /\ L(a + 1) \in Nat
        BY <2>2, <1>8
      <3>2. r[b + 1] = IF N = 0 THEN 1 ELSE N
        BY <2>2, <1>4
      <3>3. QED
        BY <3>1, <3>2, <1>5
    <2>3. CASE b = Len(t) /\ a = Len(t)
      BY <2>3, <1>9
    <2>4. QED
      BY <2>1, <2>2, <2>3, <1>1, <1>2, <1>10
  <1>11. QED
    BY <1>3, <1>9, <1>10 DEF c

\* The run that is measured from a character on, and that there is one.
LEMMA RunLengthIs ==
    ASSUME NEW cats, Len(cats) \in Nat, NEW i \in 1..Len(cats)
    PROVE  LET r == RunLength(cats, i)
           IN  /\ r \in 1..Len(cats) - i + 1
               /\ r = 1 \/ Common(cats, i, i + r - 1) # {}
               /\ i + r =< Len(cats) => Common(cats, i, i + r) = {}
  <1> DEFINE n == Len(cats)
             Shared(m) == m = 1 \/ Common(cats, i, i + m - 1) # {}
             U == {n - m : m \in {k \in 1..n - i + 1 : Shared(k)}}
  <1>1. n \in Nat /\ i \in Nat /\ 1 =< i /\ i =< n
    OBVIOUS
  <1>2. U \in SUBSET Nat /\ U # {}
    <2>1. 1 \in 1..n - i + 1 /\ Shared(1)
      BY <1>1
    <2>2. \A m \in 1..n - i + 1 : n - m \in Nat
      BY <1>1
    <2> HIDE DEF Shared, n
    <2>3. QED
      BY <2>1, <2>2
  <1>3. PICK u \in U : \A v \in U : u =< v
    <2> HIDE DEF U
    <2> QED BY <1>2, MinNat
  <1>4. PICK m \in 1..n - i + 1 : Shared(m) /\ u = n - m
    OBVIOUS
  <1>5. ASSUME i + m =< n PROVE Common(cats, i, i + m) = {}
    <2>1. m + 1 \in 1..n - i + 1 /\ m \in Nat /\ ~(n - m =< n - (m + 1))
      BY <1>1, <1>5
    <2>2. n - (m + 1) \notin U
      <3> HIDE DEF U, n
      <3>1. QED
        BY <1>3, <1>4, <2>1
    <2>3. ~ Shared(m + 1)
      <3> HIDE DEF Shared, n
      <3>1. QED
        BY <2>1, <2>2
    <2>4. i + (m + 1) - 1 = i + m
      BY <1>1, <2>1
    <2>5. QED
      BY <2>3, <2>4
  <1>6. \E r \in 1..n - i + 1 :
            /\ r = 1 \/ Common(cats, i, i + r - 1) # {}
            /\ i + r =< n => Common(cats, i, i + r) = {}
    BY <1>4, <1>5
  <1>7. QED
    BY <1>6 DEF RunLength

\* fill_cat_continuity counts down in a run.
LEMMA ContinuityIs ==
    ASSUME NEW cats, Len(cats) \in Nat
    PROVE  LET cont == ContinuityOf(cats)
           IN  /\ Len(cont) = Len(cats) /\ DOMAIN cont = 1..Len(cats)
               /\ \A i \in 1..Len(cats) :
                     /\ cont[i] \in Nat
                     /\ cont[i] = IF i > 1 /\ cont[i - 1] > 1 THEN cont[i - 1] - 1
                                  ELSE RunLength(cats, i)
  <1> DEFINE n == Len(cats)
             Rec(g) == [i \in 1..n |-> IF i > 1 /\ g[i - 1] > 1 THEN g[i - 1] - 1
                                       ELSE RunLength(cats, i)]
             f == CHOOSE g : g = Rec(g)
             step == [p \in Nat \X Nat |->
                         IF p[2] > 1 /\ p[1] > 1 THEN p[1] - 1
                         ELSE IF p[2] \in 1..n THEN RunLength(cats, p[2]) ELSE 0]
  <1>1. n \in Nat
    OBVIOUS
  <1>2. \A i \in 1..n : RunLength(cats, i) \in Nat
    BY RunLengthIs
  <1> HIDE DEF n
  <1>3. step \in [Nat \X Nat -> Nat]
    BY <1>2
  <1>4. \A a \in Nat : \A i \in 1..n :
            step[<<a, i>>] = IF i > 1 /\ a > 1 THEN a - 1 ELSE RunLength(cats, i)
    BY <1>1
  <1> HIDE DEF step
  <1>5. PICK h : IsRecursion(h, Nat, 0, step, n)
    BY <1>1, <1>3, Recursion
  <1>6. h \in [0..n -> Nat] /\ \A i \in 1..n : h[i] = step[<<h[i - 1], i>>]
    BY <1>5 DEF IsRecursion
  <1>7. ASSUME NEW i \in 1..n
        PROVE  /\ h[i] \in Nat
               /\ h[i] = IF i > 1 /\ h[i - 1] > 1 THEN h[i - 1] - 1 ELSE RunLength(cats, i)
    <2>1. i \in 0..n /\ i - 1 \in 0..n
      BY <1>1
    <2>2. h[i - 1] \in Nat /\ h[i] \in Nat
      BY <2>1, <1>6
    <2>3. QED
      BY <2>2, <1>4, <1>6
  <1> DEFINE g == [i \in 1..n |-> h[i]]
  <1>8. g = Rec(g)
    <2>1. ASSUME NEW i \in 1..n PROVE g[i] = Rec(g)[i]
      <3>1. CASE i > 1
        <4>1. i - 1 \in 1..n /\ g[i - 1] = h[i - 1] /\ g[i] = h[i]
          BY <1>1, <3>1
        <4> HIDE DEF g
        <4>2. QED
          BY <4>1, <1>7
      <3>2. CASE ~(i > 1)
        <4>1. g[i] = h[i]
          OBVIOUS
        <4> HIDE DEF g
        <4>2. QED
          BY <4>1, <3>2, <1>7
      <3>3. QED
        BY <3>1, <3>2
    <2>2. QED
      BY <2>1
  <1>9. f = Rec(f)
    BY <1>8
  <1>10. ContinuityOf(cats) = [i \in 1..n |-> f[i]]
    BY DEF ContinuityOf, n
  <1> HIDE DEF f, g
  <1>11. \A i \in 1..n : f[i] = IF i > 1 /\ f[i - 1] > 1 THEN f[i - 1] - 1
                                ELSE RunLength(cats, i)
    BY <1>9
  <1> DEFINE T == {i \in 1..n : f[i] \notin Nat}
  <1>12. CASE T # {}
    <2>1. PICK m \in T : \A j \in T : m =< j
      <3>1. T \in SUBSET Nat
        BY <1>1
      <3> HIDE DEF T
      <3>2. QED
        BY <3>1, <1>12, MinNat
    <2>2. m \in 1..n /\ f[m] \notin Nat
      OBVIOUS
    <2>3. m > 1 /\ f[m - 1] > 1 /\ f[m] = f[m - 1] - 1
      BY <2>2, <1>2, <1>11
    <2>4. m - 1 \in 1..n /\ ~(m =< m - 1)
      BY <2>2, <2>3, <1>1
    <2>5. f[m - 1] \in Nat
      BY <2>1, <2>4
    <2>6. f[m - 1] - 1 \in Nat
      BY <2>3, <2>5
    <2>7. QED
      BY <2>2, <2>3, <2>6
  <1>13. CASE T = {}
    <2> DEFINE cont == [i \in 1..n |-> f[i]]
    <2>1. \A i \in 1..n : f[i] \in Nat
      BY <1>13
    <2>2. Len(cont) = n /\ DOMAIN cont = 1..n
      BY <1>1
    <2>3. ASSUME NEW i \in 1..n
          PROVE  /\ cont[i] \in Nat
                 /\ cont[i] = IF i > 1 /\ cont[i - 1] > 1 THEN cont[i - 1] - 1
                              ELSE RunLength(cats, i)
      <3>1. CASE i > 1
        <4>1. i - 1 \in 1..n /\ cont[i - 1] = f[i - 1] /\ cont[i] = f[i]
          BY <1>1, <3>1
        <4> HIDE DEF cont
        <4>2. QED
          BY <4>1, <2>1, <1>11
      <3>2. CASE ~(i > 1)
        <4>1. cont[i] = f[i]
          OBVIOUS
        <4> HIDE DEF cont
        <4>2. QED
          BY <4>1, <3>2, <2>1, <1>11
      <3>3. QED
        BY <3>1, <3>2
    <2>4. QED
      BY <2>2, <2>3, <1>10 DEF n
  <1>14. QED
    BY <1>12, <1>13

\* What the lengths must say of the runs of cats.
RunsMarked(cont, cat) ==
    LET First(k) == k = 1 \/ cont[k] + 1 # cont[k - 1]
    IN  \A k \in DOMAIN cont :
            /\ cont[k] >= 1 /\ k + cont[k] - 1 =< Len(cont)
            /\ First(k) =>
                   /\ \A j \in k + 1..k + cont[k] - 1 : ~First(j)
                   /\ cont[k] > 1 => Common(cat, k, k + cont[k] - 1) # {}
                   /\ k + cont[k] =< Len(cont) =>
                         /\ First(k + cont[k])
                         /\ Common(cat, k, k + cont[k]) = {}

LEMMA ContinuityMarks ==
    ASSUME NEW cats, Len(cats) \in Nat
    PROVE  RunsMarked(ContinuityOf(cats), cats)
  <1> DEFINE n == Len(cats)
             cont == ContinuityOf(cats)
             First(k) == k = 1 \/ cont[k] + 1 # cont[k - 1]
             r(i) == RunLength(cats, i)
             In(i) == cont[i] >= 1 /\ i + cont[i] - 1 =< n
  <1>1. n \in Nat
    OBVIOUS
  <1>2. /\ Len(cont) = n /\ DOMAIN cont = 1..n
        /\ \A i \in 1..n : /\ cont[i] \in Nat
                           /\ cont[i] = IF i > 1 /\ cont[i - 1] > 1 THEN cont[i - 1] - 1
                                        ELSE r(i)
    BY ContinuityIs
  <1>3. \A i \in 1..n : /\ r(i) \in Nat /\ 1 =< r(i) /\ i + r(i) - 1 =< n
                        /\ r(i) = 1 \/ Common(cats, i, i + r(i) - 1) # {}
                        /\ i + r(i) =< n => Common(cats, i, i + r(i)) = {}
    <2>1. ASSUME NEW i \in 1..n
          PROVE /\ r(i) \in Nat /\ 1 =< r(i) /\ i + r(i) - 1 =< n
                /\ r(i) = 1 \/ Common(cats, i, i + r(i) - 1) # {}
                /\ i + r(i) =< n => Common(cats, i, i + r(i)) = {}
      <3>1. /\ r(i) \in 1..n - i + 1
            /\ r(i) = 1 \/ Common(cats, i, i + r(i) - 1) # {}
            /\ i + r(i) =< n => Common(cats, i, i + r(i)) = {}
        BY RunLengthIs
      <3> HIDE DEF r, n
      <3>2. i \in Nat /\ i =< n /\ r(i) \in Nat /\ r(i) =< n - i + 1 /\ 1 =< r(i)
        BY <1>1, <3>1
      <3>3. i + r(i) - 1 =< n
        BY <1>1, <3>2
      <3>4. QED
        BY <3>1, <3>2, <3>3
    <2>2. QED
      BY <2>1
  <1> HIDE DEF n, cont, r
  <1>4. \A i \in 1..n : In(i)
    <2> DEFINE T == {i \in 1..n : ~ In(i)}
    <2>1. CASE T # {}
      <3>1. PICK m \in T : \A j \in T : m =< j
        <4>1. T \in SUBSET Nat
          BY <1>1
        <4> HIDE DEF T
        <4>2. QED
          BY <4>1, <2>1, MinNat
      <3>2. m \in 1..n /\ ~ In(m)
        OBVIOUS
      <3>3. CASE m > 1 /\ cont[m - 1] > 1
        <4>1. m - 1 \in 1..n /\ ~(m =< m - 1)
          BY <1>1, <3>2, <3>3
        <4>2. In(m - 1)
          <5> HIDE DEF In
          <5>1. m - 1 \notin T
            <6> HIDE DEF T
            <6>1. QED
              BY <3>1, <4>1
          <5>2. QED
            BY <4>1, <5>1
        <4>3. cont[m] = cont[m - 1] - 1 /\ cont[m - 1] \in Nat
          BY <1>2, <3>2, <3>3, <4>1
        <4>4. m \in Nat /\ (m - 1) + cont[m - 1] - 1 =< n
          BY <3>2, <4>2
        <4>5. m + cont[m] - 1 =< n /\ cont[m] >= 1
          BY <1>1, <3>3, <4>3, <4>4
        <4>6. QED
          BY <3>2, <4>5
      <3>4. CASE ~(m > 1 /\ cont[m - 1] > 1)
        <4>1. cont[m] = r(m)
          BY <1>2, <3>2, <3>4
        <4>2. r(m) \in Nat /\ 1 =< r(m) /\ m + r(m) - 1 =< n
          BY <1>3, <3>2
        <4>3. QED
          BY <3>2, <4>1, <4>2
      <3>5. QED
        BY <3>3, <3>4
    <2>2. QED
      BY <2>1
  <1>5. \A k \in 1..n : First(k) => cont[k] = r(k)
    <2>1. ASSUME NEW k \in 1..n, First(k), k > 1, cont[k - 1] > 1 PROVE FALSE
      <3>1. k - 1 \in 1..n
        BY <1>1, <2>1
      <3>2. cont[k] = cont[k - 1] - 1 /\ cont[k - 1] \in Nat
        BY <1>2, <2>1, <3>1
      <3>3. QED
        BY <2>1, <3>2
    <2> HIDE DEF First
    <2>2. QED
      BY <2>1, <1>2
  <1>6. ASSUME NEW k \in 1..n, First(k), NEW j \in k..k + cont[k] - 1
        PROVE  j \in 1..n /\ cont[j] = cont[k] - (j - k)
    <2> DEFINE T == {i \in k..k + cont[k] - 1 : cont[i] # cont[k] - (i - k)}
    <2>1. k \in Nat /\ 1 =< k /\ cont[k] \in Nat /\ k + cont[k] - 1 =< n
      BY <1>2, <1>4
    <2>2. CASE T # {}
      <3>1. PICK m \in T : \A i \in T : m =< i
        <4>1. T \in SUBSET Nat
          BY <2>1
        <4> HIDE DEF T
        <4>2. QED
          BY <4>1, <2>2, MinNat
      <3>2. m \in k..k + cont[k] - 1 /\ cont[m] # cont[k] - (m - k)
        OBVIOUS
      <3>3. m > k
        BY <2>1, <3>2
      <3>4. m - 1 \in k..k + cont[k] - 1 /\ ~(m =< m - 1) /\ m \in 1..n /\ m > 1
        BY <1>1, <2>1, <3>2, <3>3
      <3>5. cont[m - 1] = cont[k] - ((m - 1) - k)
        <4>1. m - 1 \notin T
          <5> HIDE DEF T
          <5>1. QED
            BY <3>1, <3>4
        <4>2. QED
          BY <3>4, <4>1
      <3>6. cont[m - 1] > 1
        BY <2>1, <3>2, <3>3, <3>5
      <3>7. cont[m] = cont[m - 1] - 1
        BY <1>2, <3>4, <3>6
      <3>8. QED
        BY <2>1, <3>2, <3>4, <3>5, <3>7
    <2>3. CASE T = {}
      <3>1. cont[j] = cont[k] - (j - k)
        BY <2>3
      <3>2. j \in 1..n
        BY <1>1, <2>1
      <3>3. QED
        BY <3>1, <3>2
    <2>4. QED
      BY <2>2, <2>3
  <1>7. ASSUME NEW k \in 1..n, First(k)
        PROVE  /\ \A j \in k + 1..k + cont[k] - 1 : ~First(j)
               /\ cont[k] > 1 => Common(cats, k, k + cont[k] - 1) # {}
               /\ k + cont[k] =< n =>
                     First(k + cont[k]) /\ Common(cats, k, k + cont[k]) = {}
    <2>0. k \in Nat /\ 1 =< k /\ cont[k] \in Nat /\ cont[k] >= 1 /\ k + cont[k] - 1 =< n
      BY <1>2, <1>4
    <2>1. cont[k] = r(k)
      BY <1>5, <1>7
    <2>2. ASSUME NEW j \in k + 1..k + cont[k] - 1 PROVE ~First(j)
      <3>1. j \in k..k + cont[k] - 1 /\ j - 1 \in k..k + cont[k] - 1 /\ j > 1
        BY <2>0
      <3>2. cont[j] = cont[k] - (j - k) /\ cont[j - 1] = cont[k] - ((j - 1) - k)
        BY <1>6, <1>7, <3>1
      <3>3. cont[j] + 1 = cont[j - 1]
        BY <2>0, <3>1, <3>2
      <3>4. QED
        BY <3>1, <3>3
    <2>3. ASSUME k + cont[k] =< n PROVE First(k + cont[k])
      <3>1. /\ k + cont[k] - 1 \in k..k + cont[k] - 1 /\ k + cont[k] \in 1..n
            /\ (k + cont[k]) - 1 = k + cont[k] - 1
        BY <2>0, <2>3
      <3>2. cont[k + cont[k] - 1] = cont[k] - ((k + cont[k] - 1) - k)
        BY <1>6, <1>7, <3>1
      <3>3. cont[k + cont[k] - 1] = 1
        BY <2>0, <3>2
      <3>4. cont[k + cont[k]] \in Nat /\ cont[k + cont[k]] >= 1
        BY <1>2, <1>4, <3>1
      <3>5. QED
        BY <3>1, <3>3, <3>4
    <2>4. r(k) = 1 \/ Common(cats, k, k + r(k) - 1) # {}
      BY <1>3
    <2>5. k + r(k) =< n => Common(cats, k, k + r(k)) = {}
      BY <1>3
    <2> HIDE DEF First
    <2>6. QED
      BY <2>0, <2>1, <2>2, <2>3, <2>4, <2>5
  <1>8. QED
    BY <1>2, <1>4, <1>7 DEF RunsMarked, cont

----------------------------------------------------------------------------
(* The indices belong to the text.                                         *)

IndexOK ==
    state = "RO" =>
        /\ index.c2b = CharToByte(modified)
        /\ index.b2c = ByteToChar(modified)
        /\ index.cat = CatsOf(modified)
        /\ index.cont = ContinuityOf(CatsOf(modified))
        /\ m2o_2 = OrigByteToChar(original)

\* A text begins with a character, also what resolve_edits has written of it.
LeadOK ==
    /\ IsText(modified)
    /\ pc = "resolving" =>
          /\ start \in Boundary(modified)
          /\ modified_2 # <<>> => IsLead(modified_2[1])

IndexInv == IndexOK /\ LeadOK

\* resolve_edits: what is written next begins with a character.
LEMMA JoinLeads ==
    ASSUME NEW s, NEW g \in Seq(Byte), NEW m \in Seq(Byte), NEW st \in Boundary(m),
           NEW f \in Nat, st =< f, f =< Len(m), NEW r, Len(r) \in Nat,
           Len(r) > 0 => IsLead(r[1]),
           Joins(s, g, m, st, f, r), g # <<>> => IsLead(g[1]), Len(s) > 0
    PROVE  IsLead(s[1])
  <1>1. /\ Len(s) = Len(g) + (f - st) + Len(r)
        /\ \A k \in 1..Len(g) : s[k] = g[k]
        /\ \A k \in 1..f - st : s[Len(g) + k] = m[st + k]
        /\ \A k \in 1..Len(r) : s[Len(g) + (f - st) + k] = r[k]
    BY DEF Joins
  <1>2. Len(g) \in Nat /\ st \in Nat /\ (st < Len(m) => IsLead(m[st + 1]))
    BY LeadBoundary
  <1>3. CASE Len(g) > 0
    <2>1. g # <<>> /\ 1 \in 1..Len(g)
      BY <1>2, <1>3
    <2>2. QED
      BY <1>1, <2>1
  <1>4. CASE Len(g) = 0 /\ st < f
    <2>1. 1 \in 1..f - st /\ Len(g) + 1 = 1 /\ st < Len(m)
      BY <1>2, <1>4
    <2>2. s[1] = m[st + 1]
      BY <1>1, <2>1
    <2>3. QED
      BY <1>2, <2>1, <2>2
  <1>5. CASE Len(g) = 0 /\ st = f
    <2>1. 1 \in 1..Len(r) /\ Len(g) + (f - st) + 1 = 1
      BY <1>1, <1>2, <1>5
    <2>2. s[1] = r[1]
      BY <1>1, <2>1
    <2>3. QED
      BY <2>1, <2>2
  <1>6. QED
    BY <1>2, <1>3, <1>4, <1>5

LEMMA ResolveEditLeads ==
    ASSUME IInv, CoverInv, IndexInv, ResolveEdit
    PROVE  IndexInv'
  <1> DEFINE op == replaces[1]
             f == op.from
             to == op.to
             w == op.with
  <1>1. /\ pc = "resolving" /\ state = "RW" /\ replaces # <<>>
        /\ replaces \in Seq(Op)
    BY DEF IInv, TypeOK, QueueOK, ResolveEdit, Op
  <1>2. op \in Op /\ 1 \in 1..Len(replaces) /\ Head(replaces) = op
    BY <1>1
  <1>3. /\ IsText(w) /\ f \in Boundary(modified) /\ to \in Boundary(modified)
        /\ start =< f /\ f \in Nat /\ f =< Len(modified)
    <2>1. IsText(w)
      BY <1>2, TextAssumption DEF Op
    <2>2. f \in Boundary(modified) /\ to \in Boundary(modified)
      BY <1>2 DEF CoverInv, EditsOnBoundary
    <2>3. start =< f
      BY <1>1, <1>2 DEF IInv, LoopOK
    <2>4. modified \in Seq(Byte)
      BY DEF IInv, TypeOK
    <2> HIDE DEF f, to, w
    <2>5. f \in Nat /\ f =< Len(modified)
      BY <2>2, <2>4, LeadBoundary
    <2>6. QED
      BY <2>1, <2>2, <2>3, <2>5
  <1>4. /\ modified \in Seq(Byte) /\ modified_2 \in Seq(Byte)
        /\ start \in Boundary(modified) /\ IsText(modified)
        /\ modified_2 # <<>> => IsLead(modified_2[1])
    BY <1>1 DEF IInv, TypeOK, IndexInv, LeadOK
  <1>5. modified_2' = Written(modified_2, modified, start, f, w)
    BY <1>2 DEF ResolveEdit, Written
  <1>6. /\ (start' = to /\ pc' = pc) \/ pc' = "idle"
        /\ modified' = modified /\ state' = state
    BY <1>2 DEF ResolveEdit, texts
  <1> HIDE DEF op, f, to, w
  <1>7. w \in Seq(Byte) /\ Len(w) \in Nat /\ (Len(w) > 0 => IsLead(w[1]))
    BY <1>3 DEF IsText
  <1>8. start \in Nat
    BY <1>4, LeadBoundary
  <1>9. Joins(modified_2', modified_2, modified, start, f, w)
    BY <1>3, <1>4, <1>5, <1>7, <1>8, WrittenAt
  <1>10. Len(modified_2') > 0 => IsLead(modified_2'[1])
    BY <1>3, <1>4, <1>7, <1>9, JoinLeads
  <1>11. modified_2' # <<>> => Len(modified_2') > 0
    <2>1. modified_2' \in Seq(Byte)
      BY StepInv DEF Next, IInv, TypeOK
    <2>2. QED
      BY <2>1
  <1>12. QED
    BY <1>1, <1>3, <1>4, <1>6, <1>10, <1>11 DEF IndexInv, IndexOK, LeadOK

LEMMA ResolveEndLeads ==
    ASSUME IInv, IndexInv, ResolveEnd
    PROVE  IndexInv'
  <1>1. /\ pc = "resolving" /\ state = "RW"
        /\ modified \in Seq(Byte) /\ modified_2 \in Seq(Byte)
        /\ start \in Boundary(modified)
        /\ modified_2 # <<>> => IsLead(modified_2[1])
    BY DEF IInv, TypeOK, QueueOK, ResolveEnd, IndexInv, LeadOK
  <1>2. modified' = Finished(modified_2, modified, start) /\ pc' = "idle" /\ state' = state
    BY DEF ResolveEnd, Finished
  <1>3. start \in Nat /\ start =< Len(modified) /\ Len(modified) \in Nat
    BY <1>1, LeadBoundary
  <1>4. Joins(modified', modified_2, modified, start, Len(modified), <<>>)
    BY <1>1, <1>2, <1>3, FinishedAt
  <1>5. Len(modified') > 0 => IsLead(modified'[1])
    BY <1>1, <1>3, <1>4, JoinLeads
  <1>6. modified' \in Seq(Byte)
    BY StepInv DEF Next, IInv, TypeOK
  <1>7. QED
    BY <1>1, <1>2, <1>5, <1>6 DEF IndexInv, IndexOK, LeadOK, IsText

\* The other calls: build computes the indices, and nothing changes the text
\* they were computed for.
LEMMA StepIndex == IInv /\ CoverInv /\ IndexInv /\ [Next]_vars => IndexInv'
  <1>1. SUFFICES ASSUME IInv, CoverInv, IndexInv, [Next]_vars PROVE IndexInv'
    OBVIOUS
  <1>2. CASE \E t \in Texts : Reset(t)
    <2>1. modified' = <<>> /\ state' = "Clean" /\ pc' = "idle"
      BY <1>2 DEF Reset
    <2>2. QED
      BY <2>1 DEF IndexInv, IndexOK, LeadOK, IsText
  <1>3. CASE StartBuild
    <2>1. modified' = original /\ state' = "RW" /\ pc' = "idle" /\ IsText(original)
      BY <1>1, <1>3 DEF StartBuild, CoverInv
    <2>2. QED
      BY <2>1 DEF IndexInv, IndexOK, LeadOK
  <1>4. CASE CommitStart
    <2>1. /\ modified' = modified /\ state' = state /\ modified_2' = <<>> /\ start' = 0
          /\ state = "RW"
      BY <1>1, <1>4 DEF CommitStart, texts, IInv, QueueOK
    <2>2. IsText(modified) /\ Len(modified) \in Nat
      BY <1>1 DEF IndexInv, LeadOK, IsText
    <2>3. 0 \in Boundary(modified)
      BY <2>2 DEF Boundary, IsText
    <2>4. QED
      BY <2>1, <2>2, <2>3 DEF IndexInv, IndexOK, LeadOK
  <1>5. CASE ResolveEdit
    BY <1>1, <1>5, ResolveEditLeads
  <1>6. CASE ResolveEnd
    BY <1>1, <1>6, ResolveEndLeads
  <1>7. CASE Build
    <2>1. /\ modified' = modified /\ original' = original /\ pc' = "idle"
          /\ m2o_2' = OrigByteToChar(original)
          /\ index' = [c2b  |-> CharToByte(modified),
                       b2c  |-> ByteToChar(modified),
                       bow  |-> BowOf(modified),
                       cat  |-> CatsOf(modified),
                       cont |-> ContinuityOf(CatsOf(modified))]
      BY <1>7 DEF Build, texts
    <2>2. /\ CharToByte(modified)' = CharToByte(modified)
          /\ ByteToChar(modified)' = ByteToChar(modified)
          /\ CatsOf(modified)' = CatsOf(modified)
          /\ ContinuityOf(CatsOf(modified))' = ContinuityOf(CatsOf(modified))
          /\ OrigByteToChar(original)' = OrigByteToChar(original)
      BY <2>1
    <2>3. QED
      BY <1>1, <2>1, <2>2 DEF IndexInv, IndexOK, LeadOK
  <1>8. CASE \/ StartBuildTooLong
             \/ \E usesChars \in BOOLEAN : Rewrite(usesChars)
             \/ \E from, to \in 0..Len(modified), with \in Replacements :
                    Replace(from, to, with)
             \/ PluginFails
             \/ CommitNothing
             \/ UNCHANGED vars
    <2>1. /\ UNCHANGED <<state, original, modified, modified_2, m2o_2, index>>
          /\ pc' # "resolving" \/ UNCHANGED <<pc, start>>
      BY <1>8 DEF StartBuildTooLong, Rewrite, Replace, PluginFails, CommitNothing, texts,
                  targets, locals, vars
    <2>2. QED
      BY <1>1, <2>1 DEF IndexInv, IndexOK, LeadOK
  <1>9. QED
    BY <1>1, <1>2, <1>3, <1>4, <1>5, <1>6, <1>7, <1>8 DEF Next

LEMMA IndexGivesAgreement ==
    ASSUME IInv, TokensCovered, IndexInv
    PROVE  IndicesAgree
  <1>1. modified \in Seq(Byte) /\ original \in Seq(Byte) /\ m2o \in Seq(Nat)
    BY DEF IInv, TypeOK
  <1>2. IndexRoundTrip
    <2>1. SUFFICES ASSUME state = "RO", modified # <<>>
                   PROVE  /\ Len(index.c2b) = Len(CharsOf(modified)) + 1
                          /\ Len(index.b2c) = Len(modified) + 1
                          /\ \A k \in DOMAIN index.c2b : index.b2c[index.c2b[k] + 1] = k - 1
      BY DEF IndexRoundTrip
    <2>2. index.c2b = CharToByte(modified) /\ index.b2c = ByteToChar(modified)
          /\ IsText(modified)
      BY <2>1 DEF IndexInv, IndexOK, LeadOK
    <2>3. QED
      BY <2>1, <2>2, BackToChar
  <1>3. OrigCharDefined
    <2> DEFINE o == CharToByte(modified)
               c == OrigByteToChar(original)
               n == Len(CharsOf(modified))
               OrigChar(k) == c[m2o[o[k] + 1] + 1]
    <2>1. SUFFICES ASSUME state = "RO"
                   PROVE  \A k \in DOMAIN o :
                             /\ OrigChar(k) # Undefined
                             /\ k > 1 => OrigChar(k - 1) =< OrigChar(k)
      BY DEF OrigCharDefined, IndexInv, IndexOK
    <2>2. /\ n \in Nat /\ DOMAIN o = 1..n + 1
          /\ \A k \in 0..n : o[k + 1] \in Boundary(modified) /\ o[k + 1] \in Nat
          /\ \A k, l \in 0..n : k < l => o[k + 1] < o[l + 1]
      BY <1>1, CharToByteIs
    <2>3. /\ \A b \in Boundary(original) : c[b + 1] \in Nat
          /\ \A a, b \in Boundary(original) : a =< b => c[a + 1] =< c[b + 1]
      BY <1>1, OrigCharsKnown
    <2>4. \A b \in Boundary(modified) : m2o[b + 1] \in Boundary(original)
      BY <2>1 DEF TokensCovered, SlicesOnBoundary
    <2>5. \A a, b \in Boundary(modified) : a =< b => m2o[a + 1] =< m2o[b + 1]
      <3>1. /\ Len(m2o) = Len(modified) + 1
            /\ \A i, j \in 1..Len(m2o) : i =< j => m2o[i] =< m2o[j]
        BY <2>1 DEF IInv, SurfacesTile, Monotone
      <3>2. \A b \in Boundary(modified) : b \in Nat /\ b + 1 \in 1..Len(m2o)
        BY <1>1, <3>1, LeadBoundary
      <3>3. QED
        BY <3>1, <3>2
    <2> HIDE DEF o, c, n
    <2>6. ASSUME NEW k \in 1..n + 1 PROVE o[k] \in Boundary(modified)
      <3>1. k - 1 \in 0..n /\ (k - 1) + 1 = k
        BY <2>2
      <3>2. QED
        BY <2>2, <3>1
    <2>7. ASSUME NEW k \in 1..n + 1, k > 1 PROVE o[k - 1] =< o[k] /\ k - 1 \in 1..n + 1
      <3>1. /\ k - 1 \in 0..n /\ (k - 1) + 1 = k /\ k - 2 \in 0..n /\ (k - 2) + 1 = k - 1
            /\ k - 2 < k - 1
        BY <2>2, <2>7
      <3>2. o[k - 1] < o[k] /\ o[k - 1] \in Nat /\ o[k] \in Nat
        BY <2>2, <3>1
      <3>3. QED
        BY <2>2, <2>7, <3>2
    <2>8. ASSUME NEW k \in 1..n + 1 PROVE OrigChar(k) \in Nat
      BY <2>3, <2>4, <2>6
    <2>9. ASSUME NEW k \in 1..n + 1, k > 1 PROVE OrigChar(k - 1) =< OrigChar(k)
      <3>1. o[k - 1] \in Boundary(modified) /\ o[k] \in Boundary(modified) /\ o[k - 1] =< o[k]
        BY <2>6, <2>7, <2>9
      <3>2. m2o[o[k - 1] + 1] =< m2o[o[k] + 1]
        BY <2>5, <3>1
      <3>3. QED
        BY <2>3, <2>4, <3>1, <3>2
    <2>10. \A x \in Nat : x # Undefined
      BY DEF Undefined
    <2> HIDE DEF OrigChar
    <2>11. QED
      BY <2>2, <2>8, <2>9, <2>10
  <1>4. ContinuityMarksRuns
    <2>1. SUFFICES ASSUME state = "RO" PROVE RunsMarked(index.cont, index.cat)
      BY DEF ContinuityMarksRuns, RunsMarked
    <2>2. index.cat = CatsOf(modified) /\ index.cont = ContinuityOf(CatsOf(modified))
      BY <2>1 DEF IndexInv, IndexOK
    <2>3. Len(CatsOf(modified)) \in Nat
      <3> DEFINE n == Len(CharsOf(modified))
                 cats == [k \in 1..n |-> Cat[CharsOf(modified)[k]]]
      <3>1. n \in Nat /\ CharsOf(modified) \in Seq(Char)
        BY <1>1, CharToByteIs
      <3>2. DOMAIN CharsOf(modified) = 1..n
        BY <3>1
      <3>3. CatsOf(modified) = cats
        BY <3>2 DEF CatsOf
      <3> HIDE DEF n
      <3>4. Len(cats) = n
        BY <3>1
      <3>5. QED
        BY <3>1, <3>3, <3>4
    <2>4. QED
      BY <2>2, <2>3, ContinuityMarks
  <1>5. QED
    BY <1>2, <1>3, <1>4 DEF IndicesAgree

\* build: characters and bytes are translated into each other without loss, the
\* ends of every token have a character of the original text, in order, and the
\* continuities split the text into its runs (fill_orig_b2c, fill_cat_continuity).
THEOREM IndicesAgreeCorrect == Spec => []IndicesAgree
  <1>1. Init => IndexInv
    BY DEF Init, IndexInv, IndexOK, LeadOK, IsText
  <1>2. Init => CoverInv
    BY DEF Init, CoverInv, EditsOnBoundary, TextCovered, TargetCovered, IsText
  <1>3. Spec => []CoverInv
    BY <1>2, Invariance, StepCovers, PTL DEF Spec
  <1>4. Spec => []IndexInv
    BY <1>1, <1>3, Invariance, StepIndex, PTL DEF Spec
  <1>5. QED
    BY <1>4, Invariance, TokensCoveredCorrect, IndexGivesAgreement, PTL
=============================================================================
