------------------------ MODULE DictionaryLoadProofs -----------------------
(***************************************************************************)
(* Proofs about DictionaryLoad, for every configuration, number of         *)
(* dictionaries and number of POS.  The ids of parts of speech keep their  *)
(* meaning while plugins and user dictionaries add their own (IInv).  Word *)
(* costs are estimated with the dictionaries before, and what a dictionary *)
(* answers about a word, by its id or through the cursor, is what its      *)
(* lexicon said (ReadInv), if the files are what the builder makes of a    *)
(* lexicon (BuiltAssumption): the entries are where the ids say            *)
(* (OffsetsAre, WordsOf), the parser gives back what was written           *)
(* (ParsedAsWritten), and the scan goes from one to the next (EntriesFit). *)
(***************************************************************************)
EXTENDS DictionaryLoad, FiniteSetTheorems, SequenceFacts

(* The list of POS only grows: t begins with s.                            *)
Extends(t, s) == Len(s) <= Len(t) /\ \A i \in 1..Len(s) : t[i] = s[i]

(* The POS of part are in list behind the first offset ones.               *)
PlacedAt(list, offset, part) ==
  /\ offset + Len(part) <= Len(list)
  /\ \A i \in 1..Len(part) : list[offset + i] = part[i]

(* Names are strings, ids of parts of speech are naturals.                 *)
TypeOK ==
  /\ config \in Configs
  /\ phase \in {"system", "plugins", "users", "ready", "failed"}
  /\ pos \in Seq(STRING)
  /\ numSystemPos \in Nat
  /\ posOffsets \in Seq(Nat)
  /\ toSetUp \in Seq(Plugin)
  /\ held \in SUBSET [name : STRING, id : Nat]

(* A dictionary is there from when its system dictionary is loaded, until  *)
(* an error drops it.                                                      *)
LoadedByPhase ==
  IF phase \in {"system", "failed"}
  THEN posOffsets = <<>> /\ held = {}
  ELSE posOffsets # <<>>

(* Where the POS of the dictionaries are: those of the system dictionary   *)
(* first, those of each user dictionary at its offset.                     *)
PosPlaced ==
  /\ posOffsets # <<>> =>
       /\ numSystemPos = Len(config.system.pos)
       /\ PlacedAt(pos, 0, config.system.pos)
  /\ \A k \in 1..(Len(posOffsets) - 1) :
       /\ k <= Len(config.users)
       /\ PlacedAt(pos, posOffsets[k + 1], config.users[k].pos)

(* The inductive invariant: a plugin's id stays the place of its POS only  *)
(* because nothing that is in the list moves.                              *)
IInv == TypeOK /\ LoadedByPhase /\ PosPlaced /\ PluginPosKept

---------------------------------------------------------------------------
LEMMA ConcatExtends ==
  ASSUME NEW S, NEW s \in Seq(S), NEW t \in Seq(S)
  PROVE  /\ s \o t \in Seq(S)
         /\ Extends(s \o t, s)
         /\ PlacedAt(s \o t, Len(s), t)
  BY DEF Extends, PlacedAt

LEMMA AppendExtends ==
  ASSUME NEW S, NEW s \in Seq(S), NEW e \in S
  PROVE  Append(s, e) \in Seq(S) /\ Extends(Append(s, e), s) /\ Append(s, e)[Len(s) + 1] = e
  BY DEF Extends

LEMMA ExtendsKeepsPlaced ==
  ASSUME NEW S, NEW s \in Seq(S), NEW t \in Seq(S), NEW part \in Seq(S), NEW offset \in Nat,
         Extends(t, s), PlacedAt(s, offset, part)
  PROVE  PlacedAt(t, offset, part)
  BY DEF Extends, PlacedAt

LEMMA SmallMod ==
  ASSUME NEW n \in Nat, NEW m \in Nat \ {0}, n < m
  PROVE  n % m = n
  OBVIOUS

---------------------------------------------------------------------------
LEMMA InitEstablishes == Init => IInv
  BY SMT DEF Init, IInv, TypeOK, LoadedByPhase, PosPlaced, PluginPosKept, PlacedAt

(* The files a configuration names.                                        *)
LEMMA Files ==
  ASSUME config \in Configs
  PROVE  /\ config.system.pos \in Seq(STRING)
         /\ Len(config.users) \in Nat
         /\ \A k \in 1..Len(config.users) : config.users[k].pos \in Seq(STRING)
  BY LoadAssumption

LEMMA PluginsInOrder ==
  ASSUME config \in Configs
  PROVE  InLoadOrder(config.plugins) \in Seq(Plugin)
<1>1. /\ config.plugins.connect \in Seq(Plugin) /\ config.plugins.input \in Seq(Plugin)
      /\ config.plugins.oov \in Seq(Plugin) /\ config.plugins.path \in Seq(Plugin)
  <2>1. \A category \in {"connect", "input", "oov", "path"} :
          config.plugins[category] \in Seq(Plugin)
    BY LoadAssumption
  <2> QED BY <2>1
<1>2. ASSUME NEW s \in Seq(Plugin), NEW t \in Seq(Plugin) PROVE s \o t \in Seq(Plugin)
  OBVIOUS
<1> QED BY <1>1, <1>2 DEF InLoadOrder

LEMMA LoadSystemPreserves ==
  ASSUME IInv, LoadSystem PROVE IInv'
<1>1. TypeOK'
  <2>1. config.system.pos \in Seq(STRING) /\ InLoadOrder(config.plugins) \in Seq(Plugin)
    BY Files, PluginsInOrder DEF IInv, TypeOK
  <2> QED BY <2>1 DEF IInv, TypeOK, LoadSystem
<1>2. LoadedByPhase'
  BY DEF LoadSystem, LoadedByPhase
<1>3. PosPlaced'
  BY Files DEF IInv, TypeOK, PosPlaced, LoadSystem, PlacedAt
<1>4. PluginPosKept'
  BY DEF IInv, LoadedByPhase, LoadSystem, PluginPosKept
<1> QED BY <1>1, <1>2, <1>3, <1>4 DEF IInv

(* What the list of POS keeps when it only grows.                          *)
LEMMA GrowthKeeps ==
  ASSUME IInv, pos' \in Seq(STRING), Extends(pos', pos)
  PROVE  /\ \A offset \in Nat : \A part \in Seq(STRING) :
              PlacedAt(pos, offset, part) => PlacedAt(pos', offset, part)
         /\ \A h \in held : h.id < Len(pos') /\ pos'[h.id + 1] = h.name
<1>1. pos \in Seq(STRING) /\ held \in SUBSET [name : STRING, id : Nat] /\ PluginPosKept
  BY DEF IInv, TypeOK
<1>2. \A offset \in Nat : \A part \in Seq(STRING) :
        PlacedAt(pos, offset, part) => PlacedAt(pos', offset, part)
  BY <1>1, ExtendsKeepsPlaced
<1>3. ASSUME NEW h \in held PROVE h.id < Len(pos') /\ pos'[h.id + 1] = h.name
  <2>1. h.id \in Nat /\ h.id < Len(pos) /\ pos[h.id + 1] = h.name
    BY <1>1 DEF PluginPosKept
  <2>2. h.id + 1 \in 1..Len(pos)
    BY <1>1, <2>1
  <2> QED BY <1>1, <2>1, <2>2 DEF Extends
<1> QED BY <1>2, <1>3

(* The id a plugin finds names the POS it looked for.                      *)
LEMMA PosIndexNames ==
  ASSUME pos \in Seq(STRING), NEW name \in STRING, NEW id \in PosIndex(name)
  PROVE  id \in Nat /\ id < Len(pos) /\ pos[id + 1] = name
<1>1. DOMAIN pos = 1..Len(pos) /\ Len(pos) \in Nat
  OBVIOUS
<1>2. PICK i \in 1..Len(pos) : pos[i] = name /\ id = i - 1
  BY <1>1 DEF PosIndex
<1>3. i = id + 1 /\ id \in Nat /\ id < Len(pos)
  BY <1>1, <1>2
<1> QED BY <1>2, <1>3

LEMMA SetUpPluginPreserves ==
  ASSUME IInv, SetUpPlugin PROVE IInv'
<1> DEFINE plugin == Head(toSetUp)
<1>1. /\ pos \in Seq(STRING) /\ held \in SUBSET [name : STRING, id : Nat]
      /\ toSetUp \in Seq(Plugin) /\ toSetUp # <<>>
  BY DEF IInv, TypeOK, SetUpPlugin
<1>2. plugin.pos \in STRING /\ toSetUp' \in Seq(Plugin)
  <2>1. Head(toSetUp) \in Plugin /\ Tail(toSetUp) \in Seq(Plugin)
    BY <1>1
  <2> QED BY <2>1 DEF Plugin, SetUpPlugin
<1>3. \/ pos' = pos /\ held' = held
      \/ /\ pos' = pos
         /\ \E id \in PosIndex(plugin.pos) : held' = held \cup {[name |-> plugin.pos, id |-> id]}
      \/ /\ pos' = Append(pos, plugin.pos)
         /\ held' = held \cup {[name |-> plugin.pos, id |-> Len(pos)]}
  BY DEF SetUpPlugin
<1>4. pos' \in Seq(STRING) /\ Extends(pos', pos)
  <2>1. Extends(pos, pos)
    BY <1>1 DEF Extends
  <2>2. Append(pos, plugin.pos) \in Seq(STRING) /\ Extends(Append(pos, plugin.pos), pos)
    BY <1>1, <1>2, AppendExtends
  <2> QED BY <1>1, <1>3, <2>1, <2>2
<1>5. \/ held' = held
      \/ \E id \in Nat : /\ held' = held \cup {[name |-> plugin.pos, id |-> id]}
                         /\ id < Len(pos') /\ pos'[id + 1] = plugin.pos
  <2>1. CASE pos' = pos /\ held' = held
    BY <2>1
  <2>2. CASE /\ pos' = pos
             /\ \E id \in PosIndex(plugin.pos) :
                  held' = held \cup {[name |-> plugin.pos, id |-> id]}
    <3>1. \A id \in PosIndex(plugin.pos) : id \in Nat /\ id < Len(pos) /\ pos[id + 1] = plugin.pos
      BY <1>1, <1>2, PosIndexNames
    <3> HIDE DEF plugin
    <3> QED BY <2>2, <3>1
  <2>3. CASE /\ pos' = Append(pos, plugin.pos)
             /\ held' = held \cup {[name |-> plugin.pos, id |-> Len(pos)]}
    <3>1. /\ Append(pos, plugin.pos)[Len(pos) + 1] = plugin.pos
          /\ Len(pos) \in Nat /\ Len(pos) < Len(Append(pos, plugin.pos))
      BY <1>1, <1>2
    <3> HIDE DEF plugin
    <3> QED BY <2>3, <3>1
  <2> HIDE DEF plugin
  <2> QED BY <1>3, <2>1, <2>2, <2>3
<1>6. TypeOK'
  <2>1. held' \in SUBSET [name : STRING, id : Nat]
    <3> HIDE DEF plugin
    <3> QED BY <1>1, <1>2, <1>5
  <2> QED BY <1>2, <1>4, <2>1 DEF IInv, TypeOK, SetUpPlugin
<1>7. LoadedByPhase'
  BY DEF IInv, SetUpPlugin, LoadedByPhase
<1>8. PosPlaced'
  <2>1. \A offset \in Nat : \A part \in Seq(STRING) :
          PlacedAt(pos, offset, part) => PlacedAt(pos', offset, part)
    BY <1>4, GrowthKeeps
  <2>2. UNCHANGED <<config, numSystemPos, posOffsets>>
    BY DEF SetUpPlugin
  <2>3. /\ config.system.pos \in Seq(STRING) /\ posOffsets \in Seq(Nat)
        /\ Len(config.users) \in Nat /\ Len(posOffsets) \in Nat
        /\ \A k \in 1..Len(config.users) : config.users[k].pos \in Seq(STRING)
    BY Files DEF IInv, TypeOK
  <2>4. \A k \in 1..(Len(posOffsets) - 1) : posOffsets[k + 1] \in Nat /\ k \in Nat
    BY <2>3
  <2>5. PosPlaced
    BY DEF IInv
  <2> QED BY <2>1, <2>2, <2>3, <2>4, <2>5 DEF PosPlaced
<1>9. PluginPosKept'
  <2>1. \A h \in held : h.id < Len(pos') /\ pos'[h.id + 1] = h.name
    BY <1>4, GrowthKeeps
  <2> HIDE DEF plugin
  <2> QED BY <1>5, <2>1 DEF PluginPosKept
<1> QED BY <1>6, <1>7, <1>8, <1>9 DEF IInv

LEMMA AddUserPreserves ==
  ASSUME IInv, AddUser PROVE IInv'
<1> DEFINE n == Len(posOffsets)
           part == config.users[n].pos
<1>1. /\ pos \in Seq(STRING) /\ posOffsets \in Seq(Nat) /\ n \in Nat
      /\ n <= Len(config.users) /\ Len(config.users) \in Nat
      /\ posOffsets' = Append(posOffsets, Len(pos))
  BY Files DEF IInv, TypeOK, AddUser, NextUser
<1>2. n # 0 /\ n \in 1..Len(config.users) /\ part \in Seq(STRING)
  <2>1. posOffsets # <<>>
    BY DEF IInv, LoadedByPhase, AddUser
  <2>2. n # 0
    BY <1>1, <2>1
  <2> QED BY <1>1, <2>2, Files DEF IInv, TypeOK
<1>3. pos' = pos \o part
  BY <1>2 DEF AddUser, MergePos, FileOf, NextUser
<1>4. /\ pos' \in Seq(STRING) /\ Extends(pos', pos) /\ PlacedAt(pos', Len(pos), part)
  <2> HIDE DEF part
  <2> QED BY <1>1, <1>2, <1>3, ConcatExtends
<1>5. TypeOK'
  BY <1>1, <1>4 DEF IInv, TypeOK, AddUser
<1>6. LoadedByPhase'
  BY <1>1 DEF IInv, LoadedByPhase, AddUser
<1>7. PosPlaced'
  <2>1. \A offset \in Nat : \A p \in Seq(STRING) :
          PlacedAt(pos, offset, p) => PlacedAt(pos', offset, p)
    BY <1>4, GrowthKeeps
  <2>2. /\ UNCHANGED <<config, numSystemPos>> /\ posOffsets # <<>> /\ PosPlaced
        /\ config.system.pos \in Seq(STRING)
        /\ \A k \in 1..Len(config.users) : config.users[k].pos \in Seq(STRING)
    BY <1>1, <1>2, Files DEF IInv, TypeOK, AddUser
  <2>3. numSystemPos' = Len(config'.system.pos) /\ PlacedAt(pos', 0, config'.system.pos)
    BY <2>1, <2>2 DEF PosPlaced
  <2>4. ASSUME NEW k \in 1..(Len(posOffsets') - 1)
        PROVE  /\ k <= Len(config'.users)
               /\ PlacedAt(pos', posOffsets'[k + 1], config'.users[k].pos)
    <3>1. k \in 1..n
      BY <1>1, <2>4
    <3>2. CASE k = n
      <4>1. posOffsets'[k + 1] = Len(pos)
        BY <1>1, <3>2
      <4> QED BY <1>1, <1>4, <2>2, <3>2, <4>1
    <3>3. CASE k # n
      <4>1. /\ k \in 1..(Len(posOffsets) - 1) /\ k + 1 \in 1..Len(posOffsets)
            /\ posOffsets'[k + 1] = posOffsets[k + 1] /\ posOffsets[k + 1] \in Nat
            /\ k \in 1..Len(config.users)
        BY <1>1, <3>1, <3>3, SMTT(30)
      <4>2. PlacedAt(pos, posOffsets[k + 1], config.users[k].pos)
        BY <2>2, <4>1 DEF PosPlaced
      <4> QED BY <2>1, <2>2, <4>1, <4>2
    <3> QED BY <3>2, <3>3
  <2> QED BY <2>3, <2>4 DEF PosPlaced
<1>8. PluginPosKept'
  BY <1>4, GrowthKeeps DEF AddUser, PluginPosKept
<1> QED BY <1>5, <1>6, <1>7, <1>8 DEF IInv

LEMMA RefusePreserves ==
  ASSUME IInv, Refuse PROVE IInv'
  BY DEF IInv, TypeOK, LoadedByPhase, PosPlaced, PluginPosKept, Refuse

(* The other steps change nothing that the invariant speaks of but phase.  *)
LEMMA OthersPreserve ==
  ASSUME IInv, UNCHANGED <<config, pos, numSystemPos, posOffsets, toSetUp, held>>,
         \/ phase' = phase
         \/ phase \in {"plugins", "users"} /\ phase' \in {"users", "ready"}
  PROVE  IInv'
<1>1. TypeOK' /\ LoadedByPhase'
  BY DEF IInv, TypeOK, LoadedByPhase
<1>2. PosPlaced' /\ PluginPosKept'
  BY DEF IInv, PosPlaced, PluginPosKept
<1> QED BY <1>1, <1>2 DEF IInv

LEMMA NextPreserves == IInv /\ [Next]_vars => IInv'
<1> SUFFICES ASSUME IInv, [Next]_vars PROVE IInv'
  OBVIOUS
<1>1. CASE LoadSystem
  BY <1>1, LoadSystemPreserves
<1>2. CASE SetUpPlugin
  BY <1>2, SetUpPluginPreserves
<1>3. CASE EditConnections
  BY <1>3, OthersPreserve DEF EditConnections
<1>4. CASE AddUser
  BY <1>4, AddUserPreserves
<1>5. CASE Finish
  BY <1>5, OthersPreserve DEF Finish
<1>6. CASE Refuse
  BY <1>6, RefusePreserves
<1>7. CASE \E dict \in Merged : \E entry \in EntriesOf(dict) : \E subset \in Subsets :
             Ask(dict, entry, subset)
  BY <1>7, OthersPreserve DEF Ask, dictionary
<1>8. CASE StartScan
  BY <1>8, OthersPreserve DEF StartScan, dictionary
<1>9. CASE NextWordId
  BY <1>9, OthersPreserve DEF NextWordId, dictionary
<1>10. CASE UNCHANGED vars
  BY <1>10, OthersPreserve DEF vars
<1> QED BY <1>1, <1>2, <1>3, <1>4, <1>5, <1>6, <1>7, <1>8, <1>9, <1>10 DEF Next

LEMMA Inductive == Spec => []IInv
  BY InitEstablishes, NextPreserves, PTL DEF Spec

(* The state of a dictionary that is being put together is well-typed,     *)
(* for every set of configurations.                                        *)
THEOREM TypeCorrect == Spec => []TypeOK
  BY Inductive, PTL DEF IInv

(* The id that a plugin got for its POS when it was set up names this POS  *)
(* for as long as the dictionary is there (grammar.rs:110-147): no user    *)
(* dictionary that is merged later moves it.                               *)
THEOREM PluginPosKeptCorrect == Spec => []PluginPosKept
  BY Inductive, PTL DEF IInv

(* Every id of a POS in a dictionary file is resolved to the POS the file  *)
(* gives it (data.rs:50-58): an id below num_system_pos names the POS the  *)
(* system dictionary has there, whatever plugins added behind, and any     *)
(* other one counts from the offset at which the dictionary was merged;    *)
(* while there are no more POS than ids the sum in 16 bits is the sum.     *)
LEMMA ResolvedInOwnTable ==
  ASSUME IInv, Len(pos) <= PosIds, NEW k \in Merged,
         NEW id \in Nat,
         k = 0 => id < Len(config.system.pos),
         k # 0 => id < Len(config.system.pos) + Len(config.users[k].pos)
  PROVE  /\ ResolvedPos(id, k) \in 0..(Len(pos) - 1)
         /\ pos[ResolvedPos(id, k) + 1] =
               IF id < Len(config.system.pos) THEN config.system.pos[id + 1]
               ELSE config.users[k].pos[id - Len(config.system.pos) + 1]
<1> DEFINE num == Len(config.system.pos)
<1>1. /\ pos \in Seq(STRING) /\ Len(pos) \in Nat /\ posOffsets \in Seq(Nat)
      /\ config.system.pos \in Seq(STRING) /\ num \in Nat /\ Len(config.users) \in Nat
      /\ \A j \in 1..Len(config.users) : config.users[j].pos \in Seq(STRING)
  BY Files DEF IInv, TypeOK
<1>2. k \in 0..(Len(posOffsets) - 1) /\ posOffsets # <<>> /\ k \in Nat
  BY <1>1 DEF Merged
<1>3. numSystemPos = num /\ PlacedAt(pos, 0, config.system.pos) /\ num \in Nat
  BY <1>1, <1>2 DEF IInv, PosPlaced
<1>4. CASE id < num
  <2>1. ResolvedPos(id, k) = id
    BY <1>3, <1>4 DEF ResolvedPos
  <2>2. id + 1 \in 1..num /\ 0 + num <= Len(pos)
    BY <1>3, <1>4 DEF PlacedAt
  <2>3. pos[0 + (id + 1)] = config.system.pos[id + 1]
    BY <1>3, <2>2 DEF PlacedAt
  <2>4. 0 + (id + 1) = id + 1
    OBVIOUS
  <2> QED BY <1>1, <1>4, <2>1, <2>2, <2>3, <2>4
<1>5. CASE id >= num
  <2> DEFINE part == config.users[k].pos
             offset == posOffsets[k + 1]
             own == id - num
  <2>1. k # 0
    BY <1>1, <1>5
  <2>2. /\ k \in 1..(Len(posOffsets) - 1) /\ k \in 1..Len(config.users)
        /\ PlacedAt(pos, offset, part) /\ offset \in Nat /\ part \in Seq(STRING)
    BY <1>1, <1>2, <2>1 DEF IInv, PosPlaced
  <2>3. own \in Nat /\ own + 1 \in 1..Len(part) /\ Len(part) \in Nat
    <3>1. id < num + Len(part)
      BY <2>1
    <3>2. Len(part) \in Nat
      BY <2>2
    <3> HIDE DEF num, part
    <3> QED BY <1>1, <1>5, <3>1, <3>2
  <2>4. offset + Len(part) <= Len(pos) /\ pos[offset + (own + 1)] = part[own + 1]
    BY <2>2, <2>3 DEF PlacedAt
  <2>5. offset + own \in Nat /\ offset + own < Len(pos) /\ Len(pos) \in Nat
    <3> HIDE DEF own, offset, part
    <3> QED BY <1>1, <2>2, <2>3, <2>4
  <2>6. (offset + own) % PosIds = offset + own
    BY <2>5, LoadAssumption, SmallMod
  <2>7. ResolvedPos(id, k) = (offset + own) % PosIds
    BY <1>3, <1>5, <2>1 DEF ResolvedPos
  <2>8. ResolvedPos(id, k) = offset + own
    BY <2>6, <2>7
  <2>9. (offset + own) + 1 = offset + (own + 1)
    <3> HIDE DEF own, offset
    <3> QED BY <2>2, <2>3
  <2>10. ResolvedPos(id, k) \in 0..(Len(pos) - 1)
    <3> HIDE DEF own, offset
    <3> QED BY <2>5, <2>8
  <2>11. pos[ResolvedPos(id, k) + 1] = part[own + 1]
    BY <2>4, <2>8, <2>9
  <2>12. ~(id < num)
    BY <1>1, <1>5
  <2> QED BY <2>10, <2>11, <2>12
<1>6. id < num \/ id >= num
  BY <1>1
<1> QED BY <1>4, <1>5, <1>6

LEMMA PosResolvedFollows == IInv => PosResolved
<1> SUFFICES ASSUME IInv, Len(pos) <= PosIds, NEW k \in Merged PROVE
      LET table == IF k = 0 THEN FileOf(0).pos ELSE FileOf(0).pos \o FileOf(k).pos
      IN  \A id \in 0..(Len(table) - 1) :
            /\ ResolvedPos(id, k) \in 0..(Len(pos) - 1)
            /\ pos[ResolvedPos(id, k) + 1] = table[id + 1]
  BY DEF PosResolved
<1> DEFINE own == config.system.pos
           part == config.users[k].pos
           table == IF k = 0 THEN own ELSE own \o part
<1>1. own \in Seq(STRING) /\ (k # 0 => part \in Seq(STRING))
  <2>1. k # 0 => k \in 1..(Len(posOffsets) - 1) /\ k \in 1..Len(config.users)
    BY Files DEF IInv, TypeOK, PosPlaced, Merged
  <2> QED BY <2>1, Files DEF IInv, TypeOK
<1>2. table = IF k = 0 THEN FileOf(0).pos ELSE FileOf(0).pos \o FileOf(k).pos
  BY DEF FileOf
<1>3. ASSUME NEW id \in 0..(Len(table) - 1)
      PROVE  /\ id \in Nat /\ (k = 0 => id < Len(own)) /\ (k # 0 => id < Len(own) + Len(part))
             /\ table[id + 1] = IF id < Len(own) THEN own[id + 1] ELSE part[id - Len(own) + 1]
  <2> HIDE DEF own, part
  <2> QED BY <1>1, <1>3
<1>4. ASSUME NEW id \in 0..(Len(table) - 1)
      PROVE  /\ ResolvedPos(id, k) \in 0..(Len(pos) - 1)
             /\ pos[ResolvedPos(id, k) + 1] = table[id + 1]
  <2>1. /\ id \in Nat /\ (k = 0 => id < Len(own)) /\ (k # 0 => id < Len(own) + Len(part))
        /\ table[id + 1] = IF id < Len(own) THEN own[id + 1] ELSE part[id - Len(own) + 1]
    BY <1>3
  <2> HIDE DEF table
  <2>2. /\ ResolvedPos(id, k) \in 0..(Len(pos) - 1)
        /\ pos[ResolvedPos(id, k) + 1] =
             IF id < Len(own) THEN own[id + 1] ELSE part[id - Len(own) + 1]
    BY <2>1, ResolvedInOwnTable
  <2> QED BY <2>1, <2>2
<1> HIDE DEF table
<1> QED BY <1>2, <1>4

(* Whatever plugins registered, and in whatever order user dictionaries    *)
(* were merged, the part of speech of an entry is resolved (data.rs:50) to *)
(* the one its dictionary was built with.                                  *)
THEOREM PosResolvedCorrect == Spec => []PosResolved
  BY Inductive, PosResolvedFollows, PTL

---------------------------------------------------------------------------
(* What an entry occupies in the block, and what is read of it.            *)

(* What is used of an entry that the builder has written.                  *)
IsEntry(e) ==
  /\ e.pos \in Nat /\ e.syn \in Nat /\ e.user \in Nat
  /\ \A f \in UnitFields : e[f] \in Seq(WordReference)

AreEntries(entries) ==
  /\ Len(entries) \in Nat /\ entries = [i \in 1..Len(entries) |-> entries[i]]
  /\ \A i \in 1..Len(entries) : IsEntry(entries[i])

LEMMA UnitsOf ==
  ASSUME NEW e, IsEntry(e)
  PROVE  /\ e.c \in Seq(WordReference) /\ e.b \in Seq(WordReference)
         /\ e.a \in Seq(WordReference) /\ e.ws \in Seq(WordReference)
         /\ Len(e.c) \in Nat /\ Len(e.b) \in Nat /\ Len(e.a) \in Nat /\ Len(e.ws) \in Nat
<1>1. /\ e.c \in Seq(WordReference) /\ e.b \in Seq(WordReference)
      /\ e.a \in Seq(WordReference) /\ e.ws \in Seq(WordReference)
  BY DEF IsEntry, UnitFields
<1> QED BY <1>1

LEMMA RoundedUp ==
  ASSUME NEW n \in Nat, n > 0
  PROVE  ((n + Alignment - 1) \div Alignment) \in Nat \ {0}
  BY DEF Alignment

(* An entry has a size, in units of the alignment.                         *)
LEMMA EntrySizeIs ==
  ASSUME NEW e, IsEntry(e)
  PROVE  \E q \in Nat \ {0} : EntrySize(e) = q * Alignment
<1> DEFINE own(x, y) == IF x = y THEN 0 ELSE Len(x)
           units == Len(e.c) + own(e.b, e.c) + own(e.a, e.b) + own(e.ws, e.a) + e.syn
           text == IF e.user = 0 THEN 0 ELSE 2 + 2 * e.user
           size == FixedPart + 4 * units + text
<1>1. own(e.b, e.c) \in Nat /\ own(e.a, e.b) \in Nat /\ own(e.ws, e.a) \in Nat
  BY UnitsOf
<1>2. Len(e.c) \in Nat /\ e.syn \in Nat /\ text \in Nat
  BY UnitsOf DEF IsEntry
<1>3. units \in Nat
  <2> HIDE DEF own
  <2> QED BY <1>1, <1>2
<1>4. size \in Nat /\ size > 0
  <2> HIDE DEF units, text
  <2> QED BY <1>2, <1>3 DEF FixedPart
<1>5. EntrySize(e) = ((size + Alignment - 1) \div Alignment) * Alignment
  BY DEF EntrySize
<1> HIDE DEF size
<1> QED BY <1>4, <1>5, RoundedUp

(* The reader finds the size the writer wrote from the lengths alone       *)
(* (infos.rs:124-159): the length of shared units stands for none.         *)
LEMMA SameSize ==
  ASSUME NEW e, IsEntry(e)
  PROVE  StoredSize(Stored(e)) = EntrySize(e)
<1> DEFINE own(x, y) == IF x = y THEN 0 ELSE Len(x)
           lengthOf(x, y) == IF x = y THEN Shared ELSE Len(x)
           lens == Stored(e).fixed.lens
<1>1. ASSUME NEW x, NEW y, Len(x) \in Nat PROVE EmbeddedLength(lengthOf(x, y)) = own(x, y)
  BY <1>1 DEF EmbeddedLength, Shared
<1>2. /\ lens.c = Len(e.c) /\ lens.b = lengthOf(e.b, e.c) /\ lens.a = lengthOf(e.a, e.b)
      /\ lens.ws = lengthOf(e.ws, e.a) /\ lens.syn = e.syn
  BY DEF Stored
<1>3. /\ EmbeddedLength(lens.b) = own(e.b, e.c) /\ EmbeddedLength(lens.a) = own(e.a, e.b)
      /\ EmbeddedLength(lens.ws) = own(e.ws, e.a)
  <2> HIDE DEF lens, lengthOf, own
  <2> QED BY <1>1, <1>2, UnitsOf
<1>4. Stored(e).fixed.hasUser = (e.user > 0) /\ Stored(e).tail = e.user
  BY DEF Stored
<1>5. (IF Stored(e).fixed.hasUser THEN 2 + 2 * Stored(e).tail ELSE 0)
        = IF e.user = 0 THEN 0 ELSE 2 + 2 * e.user
  <2>1. CASE e.user = 0
    <3>1. ~(e.user > 0)
      BY <2>1
    <3> QED BY <1>4, <2>1, <3>1
  <2>2. CASE e.user # 0
    <3>1. e.user > 0
      BY <2>2 DEF IsEntry
    <3>2. Stored(e).fixed.hasUser = TRUE
      BY <1>4, <3>1
    <3> QED BY <1>4, <2>2, <3>2
  <2> QED BY <2>1, <2>2
<1> QED BY <1>2, <1>3, <1>5 DEF StoredSize, EntrySize

LEMMA SubSeqOfLeft ==
  ASSUME NEW X, NEW s \in Seq(X), NEW t \in Seq(X), NEW m \in Nat \ {0}, NEW n \in 0..Len(s)
  PROVE  SubSeq(s \o t, m, n) = SubSeq(s, m, n)
  OBVIOUS

LEMMA SubSeqOfRight ==
  ASSUME NEW X, NEW s \in Seq(X), NEW t \in Seq(X)
  PROVE  SubSeq(s \o t, Len(s) + 1, Len(s) + Len(t)) = t
  OBVIOUS

(* The parts of a sequence that was put together from five.                *)
ArePartsOf(whole, p, q, r, s, t) ==
  /\ SubSeq(whole, 0 + 1, Len(p)) = p
  /\ SubSeq(whole, Len(p) + 1, Len(p) + Len(q)) = q
  /\ SubSeq(whole, Len(p) + Len(q) + 1, Len(p) + Len(q) + Len(r)) = r
  /\ SubSeq(whole, Len(p) + Len(q) + Len(r) + 1, Len(p) + Len(q) + Len(r) + Len(s)) = s
  /\ SubSeq(whole, Len(p) + Len(q) + Len(r) + Len(s) + 1,
            Len(p) + Len(q) + Len(r) + Len(s) + Len(t)) = t

LEMMA FiveParts ==
  ASSUME NEW X, NEW p \in Seq(X), NEW q \in Seq(X), NEW r \in Seq(X), NEW s \in Seq(X),
         NEW t \in Seq(X)
  PROVE  ArePartsOf(p \o q \o r \o s \o t, p, q, r, s, t)
<1> DEFINE pq == p \o q
           pqr == pq \o r
           pqrs == pqr \o s
           whole == pqrs \o t
<1>1. pq \in Seq(X) /\ Len(pq) = Len(p) + Len(q)
  OBVIOUS
<1>2. pqr \in Seq(X) /\ Len(pqr) = Len(pq) + Len(r)
  <2> HIDE DEF pq
  <2> QED BY <1>1, ConcatProperties
<1>3. pqrs \in Seq(X) /\ Len(pqrs) = Len(pqr) + Len(s)
  <2> HIDE DEF pqr
  <2> QED BY <1>2, ConcatProperties
<1>4. /\ Len(p) \in Nat /\ Len(q) \in Nat /\ Len(r) \in Nat /\ Len(s) \in Nat /\ Len(t) \in Nat
      /\ Len(pq) \in Nat /\ Len(pqr) \in Nat /\ Len(pqrs) \in Nat
  <2> HIDE DEF pq, pqr, pqrs
  <2> QED BY <1>1, <1>2, <1>3
<1>5. \A m \in Nat \ {0} : \A n \in 0..Len(pqrs) : SubSeq(whole, m, n) = SubSeq(pqrs, m, n)
  <2> HIDE DEF pqrs
  <2> QED BY <1>3, SubSeqOfLeft
<1>6. \A m \in Nat \ {0} : \A n \in 0..Len(pqr) : SubSeq(pqrs, m, n) = SubSeq(pqr, m, n)
  <2> HIDE DEF pqr
  <2> QED BY <1>2, SubSeqOfLeft
<1>7. \A m \in Nat \ {0} : \A n \in 0..Len(pq) : SubSeq(pqr, m, n) = SubSeq(pq, m, n)
  <2> HIDE DEF pq
  <2> QED BY <1>1, SubSeqOfLeft
<1>8. \A m \in Nat \ {0} : \A n \in 0..Len(p) : SubSeq(pq, m, n) = SubSeq(p, m, n)
  BY SubSeqOfLeft
<1>9. SubSeq(p, 1, Len(p)) = p
  OBVIOUS
<1>10. SubSeq(pq, Len(p) + 1, Len(p) + Len(q)) = q
  BY SubSeqOfRight
<1>11. SubSeq(pqr, Len(pq) + 1, Len(pq) + Len(r)) = r
  <2> HIDE DEF pq
  <2> QED BY <1>1, SubSeqOfRight
<1>12. SubSeq(pqrs, Len(pqr) + 1, Len(pqr) + Len(s)) = s
  <2> HIDE DEF pqr
  <2> QED BY <1>2, SubSeqOfRight
<1>13. SubSeq(whole, Len(pqrs) + 1, Len(pqrs) + Len(t)) = t
  <2> HIDE DEF pqrs
  <2> QED BY <1>3, SubSeqOfRight
<1> HIDE DEF pq, pqr, pqrs
<1>14. SubSeq(whole, 0 + 1, Len(p)) = p
  <2>1. /\ 1 \in Nat \ {0} /\ Len(p) \in 0..Len(p) /\ Len(p) \in 0..Len(pq)
        /\ Len(p) \in 0..Len(pqr) /\ Len(p) \in 0..Len(pqrs)
    BY <1>1, <1>2, <1>3, <1>4
  <2>2. SubSeq(whole, 1, Len(p)) = SubSeq(pqrs, 1, Len(p))
    <3> HIDE DEF whole
    <3> QED BY <2>1, <1>5
  <2>3. SubSeq(pqrs, 1, Len(p)) = SubSeq(pqr, 1, Len(p))
    BY <2>1, <1>6
  <2>4. SubSeq(pqr, 1, Len(p)) = SubSeq(pq, 1, Len(p)) /\ SubSeq(pq, 1, Len(p)) = p
    BY <2>1, <1>7, <1>8, <1>9
  <2>5. 0 + 1 = 1
    OBVIOUS
  <2> HIDE DEF whole
  <2> QED BY <2>2, <2>3, <2>4, <2>5
<1>15. SubSeq(whole, Len(p) + 1, Len(pq)) = q
  <2>1. /\ Len(p) + 1 \in Nat \ {0} /\ Len(pq) \in 0..Len(pq)
        /\ Len(pq) \in 0..Len(pqr) /\ Len(pq) \in 0..Len(pqrs)
    BY <1>1, <1>2, <1>3, <1>4
  <2>2. SubSeq(whole, Len(p) + 1, Len(pq)) = SubSeq(pq, Len(p) + 1, Len(pq))
    <3> HIDE DEF whole
    <3> QED BY <2>1, <1>5, <1>6, <1>7
  <2> QED BY <2>2, <1>1, <1>10
<1>16. SubSeq(whole, Len(pq) + 1, Len(pqr)) = r
  <2>1. /\ Len(pq) + 1 \in Nat \ {0} /\ Len(pqr) \in 0..Len(pqr) /\ Len(pqr) \in 0..Len(pqrs)
    BY <1>1, <1>2, <1>3, <1>4
  <2>2. SubSeq(whole, Len(pq) + 1, Len(pqr)) = SubSeq(pqr, Len(pq) + 1, Len(pqr))
    <3> HIDE DEF whole
    <3> QED BY <2>1, <1>5, <1>6
  <2> QED BY <2>2, <1>2, <1>11
<1>17. SubSeq(whole, Len(pqr) + 1, Len(pqrs)) = s
  <2>1. Len(pqr) + 1 \in Nat \ {0} /\ Len(pqrs) \in 0..Len(pqrs)
    BY <1>4
  <2>2. SubSeq(whole, Len(pqr) + 1, Len(pqrs)) = SubSeq(pqrs, Len(pqr) + 1, Len(pqrs))
    <3> HIDE DEF whole
    <3> QED BY <2>1, <1>5
  <2> QED BY <2>2, <1>3, <1>12
<1> HIDE DEF whole
<1> QED BY <1>1, <1>2, <1>3, <1>13, <1>14, <1>15, <1>16, <1>17
        DEF whole, pqrs, pqr, pq, ArePartsOf

(* The units and synonyms of an entry as they are in the block: those that *)
(* are shared are not there.                                               *)
Behind(e, f) == IF Stored(e).fixed.lens[f] > 0 THEN e[f] ELSE <<>>

Word == WordReference \cup {[synonym |-> k] : k \in Nat}

LEMMA BehindIs ==
  ASSUME NEW e, IsEntry(e), NEW f \in UnitFields
  PROVE  /\ Behind(e, f) \in Seq(Word)
         /\ Len(Behind(e, f)) = EmbeddedLength(Stored(e).fixed.lens[f])
         /\ Stored(e).fixed.lens[f] >= 0 => Behind(e, f) = e[f]
<1> DEFINE n == Stored(e).fixed.lens[f]
<1>1. n = Len(e[f]) \/ n = Shared
  BY DEF Stored, UnitFields
<1>2. e[f] \in Seq(WordReference) /\ Len(e[f]) \in Nat
  BY DEF IsEntry
<1>3. e[f] \in Seq(Word) /\ <<>> \in Seq(Word)
  BY <1>2 DEF Word
<1>4. Behind(e, f) = IF n > 0 THEN e[f] ELSE <<>>
  BY DEF Behind
<1> HIDE DEF n
<1>5. CASE n = Shared
  BY <1>3, <1>4, <1>5 DEF Shared, EmbeddedLength, n
<1>6. CASE n = Len(e[f]) /\ Len(e[f]) > 0
  BY <1>2, <1>3, <1>4, <1>6 DEF EmbeddedLength, n
<1>7. CASE n = Len(e[f]) /\ Len(e[f]) = 0
  <2>1. e[f] = <<>>
    BY <1>2, <1>7
  <2> QED BY <1>3, <1>4, <1>7, <2>1 DEF EmbeddedLength, n
<1> QED BY <1>1, <1>2, <1>5, <1>6, <1>7

Synonyms(e) == [k \in 1..e.syn |-> [synonym |-> k]]

LEMMA PayloadIs ==
  ASSUME NEW e, IsEntry(e)
  PROVE  /\ Stored(e).payload = Behind(e, "c") \o Behind(e, "b") \o Behind(e, "a")
                                 \o Behind(e, "ws") \o Synonyms(e)
         /\ Synonyms(e) \in Seq(Word) /\ Len(Synonyms(e)) = e.syn
<1>1. \A k \in 1..e.syn : [synonym |-> k] \in Word
  <2>1. 1..e.syn \subseteq Nat
    BY DEF IsEntry
  <2>2. \A k \in Nat : [synonym |-> k] \in Word
    BY DEF Word
  <2> QED BY <2>1, <2>2
<1>2. Synonyms(e) \in [1..e.syn -> Word] /\ e.syn \in Nat
  BY <1>1 DEF Synonyms, IsEntry
<1>3. Synonyms(e) \in Seq(Word) /\ Len(Synonyms(e)) = e.syn
  BY <1>2
<1>4. Stored(e).payload = Behind(e, "c") \o Behind(e, "b") \o Behind(e, "a")
                                 \o Behind(e, "ws") \o Synonyms(e)
  BY DEF Stored, Behind, Synonyms
<1> QED BY <1>3, <1>4

(* The reader gets the units of a mode back that are in its plan: those it *)
(* skips still move it on, and shared ones are those it has just read, as  *)
(* its plan then has the mode before (parse.rs:32-47, 105-151).            *)
LEMMA UnitsRead ==
  ASSUME NEW e, IsEntry(e), NEW plan,
         "ws" \in plan => "a" \in plan, "a" \in plan => "b" \in plan,
         "b" \in plan => "c" \in plan
  PROVE  LET units == ReadUnits(Stored(e), plan)
         IN  /\ \A f \in UnitFields : f \in plan => units[f] = e[f]
             /\ SubSeq(Stored(e).payload, units.at + 1, units.at + e.syn) = Synonyms(e)
<1> DEFINE payload == Stored(e).payload
           lens == Stored(e).fixed.lens
           n(f) == Len(Behind(e, f))
           second == n("c") + n("b")
           third == second + n("a")
           fourth == third + n("ws")
           read(f, at, end, last) ==
             CASE f \notin plan -> <<>>
               [] f \in plan /\ lens[f] < 0 -> last
               [] OTHER -> SubSeq(payload, at + 1, end)
           c == read("c", 0, n("c"), <<>>)
           b == read("b", n("c"), second, c)
           a == read("a", second, third, b)
           ws == read("ws", third, fourth, a)
<1>1. /\ EmbeddedLength(lens["c"]) = n("c") /\ EmbeddedLength(lens["b"]) = n("b")
      /\ EmbeddedLength(lens["a"]) = n("a") /\ EmbeddedLength(lens["ws"]) = n("ws")
      /\ Behind(e, "c") \in Seq(Word) /\ Behind(e, "b") \in Seq(Word)
      /\ Behind(e, "a") \in Seq(Word) /\ Behind(e, "ws") \in Seq(Word)
      /\ n("c") \in Nat /\ n("b") \in Nat /\ n("a") \in Nat /\ n("ws") \in Nat
  BY BehindIs DEF UnitFields
<1>2. ReadUnits(Stored(e), plan) = [c |-> c, b |-> b, a |-> a, ws |-> ws, at |-> fourth]
  <2>1. 0 + n("c") = n("c")
    BY <1>1
  <2> HIDE DEF n
  <2> QED BY <1>1, <2>1 DEF ReadUnits
<1>3. /\ SubSeq(payload, 0 + 1, n("c")) = Behind(e, "c")
      /\ SubSeq(payload, n("c") + 1, second) = Behind(e, "b")
      /\ SubSeq(payload, second + 1, third) = Behind(e, "a")
      /\ SubSeq(payload, third + 1, fourth) = Behind(e, "ws")
      /\ SubSeq(payload, fourth + 1, fourth + e.syn) = Synonyms(e)
  <2>1. ArePartsOf(payload, Behind(e, "c"), Behind(e, "b"), Behind(e, "a"), Behind(e, "ws"),
                   Synonyms(e))
    BY <1>1, FiveParts, PayloadIs
  <2> QED BY <2>1, PayloadIs DEF ArePartsOf
<1>4. \A f \in UnitFields : lens[f] >= 0 => Behind(e, f) = e[f]
  BY BehindIs
<1>5. /\ lens["c"] = Len(e["c"])
      /\ lens["b"] = IF e["b"] = e["c"] THEN Shared ELSE Len(e["b"])
      /\ lens["a"] = IF e["a"] = e["b"] THEN Shared ELSE Len(e["a"])
      /\ lens["ws"] = IF e["ws"] = e["a"] THEN Shared ELSE Len(e["ws"])
  BY DEF Stored
<1>6. /\ Len(e["c"]) \in Nat /\ Len(e["b"]) \in Nat /\ Len(e["a"]) \in Nat /\ Len(e["ws"]) \in Nat
      /\ Shared < 0
  BY UnitsOf DEF Shared
<1> HIDE DEF payload, lens, n, second, third, fourth
<1>7. "c" \in plan => c = e["c"]
  <2>1. ~(lens["c"] < 0) /\ lens["c"] >= 0
    BY <1>5, <1>6
  <2> QED BY <2>1, <1>3, <1>4 DEF UnitFields
<1> HIDE DEF c
<1>8. "b" \in plan => b = e["b"]
  <2> SUFFICES ASSUME "b" \in plan PROVE b = e["b"]
    OBVIOUS
  <2>1. CASE e["b"] = e["c"]
    BY <1>5, <1>6, <1>7, <2>1
  <2>2. CASE e["b"] # e["c"]
    <3>1. ~(lens["b"] < 0) /\ lens["b"] >= 0
      BY <1>5, <1>6, <2>2
    <3> QED BY <3>1, <1>3, <1>4 DEF UnitFields
  <2> QED BY <2>1, <2>2
<1> HIDE DEF b
<1>9. "a" \in plan => a = e["a"]
  <2> SUFFICES ASSUME "a" \in plan PROVE a = e["a"]
    OBVIOUS
  <2>1. CASE e["a"] = e["b"]
    BY <1>5, <1>6, <1>8, <2>1
  <2>2. CASE e["a"] # e["b"]
    <3>1. ~(lens["a"] < 0) /\ lens["a"] >= 0
      BY <1>5, <1>6, <2>2
    <3> QED BY <3>1, <1>3, <1>4 DEF UnitFields
  <2> QED BY <2>1, <2>2
<1> HIDE DEF a
<1>10. "ws" \in plan => ws = e["ws"]
  <2> SUFFICES ASSUME "ws" \in plan PROVE ws = e["ws"]
    OBVIOUS
  <2>1. CASE e["ws"] = e["a"]
    BY <1>5, <1>6, <1>9, <2>1
  <2>2. CASE e["ws"] # e["a"]
    <3>1. ~(lens["ws"] < 0) /\ lens["ws"] >= 0
      BY <1>5, <1>6, <2>2
    <3> QED BY <3>1, <1>3, <1>4 DEF UnitFields
  <2> QED BY <2>1, <2>2
<1> HIDE DEF ws
<1>11. \A f \in UnitFields : f \in plan => ReadUnits(Stored(e), plan)[f] = e[f]
  BY <1>2, <1>7, <1>8, <1>9, <1>10 DEF UnitFields
<1>12. ReadUnits(Stored(e), plan).at = fourth
  BY <1>2
<1> QED BY <1>3, <1>11, <1>12 DEF payload

(* Whatever else is asked for, a field that is asked for is the one that   *)
(* was written.                                                            *)
LEMMA ParsedAsWritten ==
  ASSUME NEW e, IsEntry(e), NEW subset, NEW f \in subset \cap Field
  PROVE  ParseInfo(Stored(e), subset)[f] = e[f]
<1> DEFINE wanted == NormalizedSubset(subset)
           plan == ReadPlan(wanted)
           units == ReadUnits(Stored(e), plan)
           info == ParseInfo(Stored(e), subset)
<1>1. f \in wanted /\ f \in Field
  BY DEF NormalizedSubset
<1>2. CASE f \in FixedField
  <2>1. info[f] = Stored(e).fixed[f]
    BY <1>1, <1>2 DEF ParseInfo, FixedField, UnitFields
  <2>2. Stored(e).fixed[f] = e[f]
    BY <1>2 DEF Stored, FixedField
  <2> QED BY <2>1, <2>2
<1>3. CASE f \in UnitFields
  <2>1. /\ "ws" \in plan => "a" \in plan
        /\ "a" \in plan => "b" \in plan
        /\ "b" \in plan => "c" \in plan
        /\ f \in plan
    <3> HIDE DEF wanted
    <3> QED BY <1>1, <1>3 DEF ReadPlan, UnitFields
  <2>2. units[f] = e[f]
    <3> HIDE DEF plan
    <3> QED BY <1>3, <2>1, UnitsRead
  <2>3. info[f] = units[f]
    BY <1>1, <1>3 DEF ParseInfo, FixedField, UnitFields
  <2> QED BY <2>2, <2>3
<1>4. CASE f = "syn"
  <2>1. /\ "ws" \in plan => "a" \in plan
        /\ "a" \in plan => "b" \in plan
        /\ "b" \in plan => "c" \in plan
    <3> HIDE DEF wanted
    <3> QED BY DEF ReadPlan, UnitFields
  <2>2. SubSeq(Stored(e).payload, units.at + 1, units.at + e.syn) = Synonyms(e)
    <3> HIDE DEF plan
    <3> QED BY <2>1, UnitsRead
  <2>3. Stored(e).fixed.lens.syn = e.syn
    BY DEF Stored
  <2>4. info[f] = Len(SubSeq(Stored(e).payload, units.at + 1, units.at + e.syn))
    BY <1>1, <1>4, <2>3 DEF ParseInfo, FixedField, UnitFields, Field
  <2> QED BY <1>4, <2>2, <2>4, PayloadIs
<1>5. CASE f = "user"
  <2>1. info[f] = IF Stored(e).fixed.hasUser THEN Stored(e).tail ELSE 0
    BY <1>1, <1>5 DEF ParseInfo, FixedField, UnitFields, Field
  <2>2. Stored(e).tail = e.user /\ Stored(e).fixed.hasUser = (e.user > 0)
    BY DEF Stored
  <2>3. CASE e.user = 0
    BY <1>5, <2>1, <2>2, <2>3
  <2>4. CASE e.user # 0
    <3>1. e.user > 0
      BY <2>4 DEF IsEntry
    <3>2. Stored(e).fixed.hasUser = TRUE
      BY <2>2, <3>1
    <3> QED BY <1>5, <2>1, <2>2, <3>2
  <2> QED BY <2>3, <2>4
<1> QED BY <1>1, <1>2, <1>3, <1>4, <1>5 DEF Field, FixedField, UnitFields

---------------------------------------------------------------------------
(* Where the entries of a block begin.                                     *)

IsRunning(g, v, n) == g \in [0..n -> Nat] /\ \A i \in 1..n : g[i] = g[i - 1] + v[i]

LEMMA RunningIncreases ==
  ASSUME NEW n \in Nat, NEW v \in [1..n -> Nat \ {0}], NEW g, IsRunning(g, v, n)
  PROVE  \A i, j \in 0..n : i < j => g[i] < g[j]
<1> DEFINE T == {j \in 0..n : \E i \in 0..n : i < j /\ ~(g[i] < g[j])}
<1>1. CASE T = {}
  BY <1>1
<1>2. CASE T # {}
  <2>1. PICK m \in T : \A j \in T : m <= j
    <3>1. T \in SUBSET Nat
      OBVIOUS
    <3> HIDE DEF T
    <3> QED BY <1>2, <3>1, MinNat
  <2>2. PICK i \in 0..n : i < m /\ ~(g[i] < g[m])
    OBVIOUS
  <2>3. m \in 1..n /\ m - 1 \in 0..n /\ m - 1 \notin T /\ v[m] \in Nat \ {0}
    <3>1. m \in 1..n /\ m - 1 \in 0..n /\ ~(m <= m - 1)
      BY <2>2
    <3> HIDE DEF T
    <3> QED BY <2>1, <3>1
  <2>4. g[m] = g[m - 1] + v[m] /\ g[m - 1] \in Nat /\ g[i] \in Nat
    BY <2>2, <2>3 DEF IsRunning
  <2>5. CASE i = m - 1
    BY <2>2, <2>3, <2>4, <2>5
  <2>6. CASE i # m - 1
    <3>1. i < m - 1
      BY <2>2, <2>3, <2>6
    <3>2. g[i] < g[m - 1]
      BY <2>2, <2>3, <3>1
    <3> QED BY <2>2, <2>3, <2>4, <3>2
  <2> QED BY <2>5, <2>6
<1> QED BY <1>1, <1>2

(* The entries of a block begin one behind the other, each at a multiple   *)
(* of the alignment, so that their ids increase and give the places back   *)
(* (lexicon.rs:174-180, infos.rs:111-122).                                 *)
AreOffsets(begins, ids, entries, n) ==
  /\ begins \in [1..(n + 1) -> Nat] /\ begins[1] = InitialOffset
  /\ \A i \in 1..n : begins[i + 1] = begins[i] + EntrySize(entries[i])
  /\ ids \in [1..n -> Nat] /\ \A i \in 1..n : begins[i] = ids[i] * Alignment
  /\ \A i, j \in 1..n : i < j => ids[i] < ids[j]

LEMMA OffsetsAre ==
  ASSUME NEW entries, AreEntries(entries)
  PROVE  AreOffsets(Offsets(entries), EntryIds(entries), entries, Len(entries))
<1> DEFINE n == Len(entries)
           begins == Offsets(entries)
           next(b) == [i \in 1..(n + 1) |->
                         IF i = 1 THEN InitialOffset ELSE b[i - 1] + EntrySize(entries[i - 1])]
<1>1. n \in Nat /\ DOMAIN entries = 1..n /\ \A i \in 1..n : IsEntry(entries[i])
  BY DEF AreEntries
<1>2. PICK v \in [1..n -> Nat \ {0}] : \A i \in 1..n : EntrySize(entries[i]) = v[i] * Alignment
  <2>1. \A i \in 1..n : \E q \in Nat \ {0} : EntrySize(entries[i]) = q * Alignment
    BY <1>1, EntrySizeIs
  <2> DEFINE v == [i \in 1..n |-> CHOOSE q \in Nat \ {0} : EntrySize(entries[i]) = q * Alignment]
  <2>2. \A i \in 1..n : v[i] \in Nat \ {0} /\ EntrySize(entries[i]) = v[i] * Alignment
    BY <2>1
  <2>3. v \in [1..n -> Nat \ {0}]
    BY <2>2
  <2> HIDE DEF v, n
  <2> QED BY <2>2, <2>3
<1>3. PICK g : IsRunning(g, v, n) /\ g[0] = 4
  <2>1. v \in [1..n -> Nat] /\ 4 \in Nat
    OBVIOUS
  <2> HIDE DEF n
  <2>2. \E g \in [0..n -> Nat] : g[0] = 4 /\ \A i \in 1..n : g[i] = g[i - 1] + v[i]
    BY <1>1, <2>1, RunningSum
  <2> QED BY <2>2 DEF IsRunning
<1>4. begins = next(begins)
  <2> DEFINE h == [i \in 1..(n + 1) |-> g[i - 1] * Alignment]
  <2>1. ASSUME NEW i \in 1..(n + 1) PROVE h[i] = next(h)[i]
    <3>1. CASE i = 1
      BY <1>3, <2>1, <3>1 DEF InitialOffset, Alignment
    <3>2. CASE i # 1
      <4>1. i - 1 \in 1..n /\ i - 1 \in 1..(n + 1) /\ i - 2 \in 0..n /\ i - 1 - 1 = i - 2
        BY <1>1, <3>2
      <4>2. g[i - 1] = g[i - 2] + v[i - 1] /\ g[i - 2] \in Nat /\ v[i - 1] \in Nat
        BY <1>3, <4>1 DEF IsRunning
      <4>3. h[i - 1] = g[i - 2] * Alignment /\ h[i] = g[i - 1] * Alignment
        BY <4>1
      <4>4. next(h)[i] = h[i - 1] + v[i - 1] * Alignment
        BY <1>2, <3>2, <4>1
      <4> HIDE DEF h, next
      <4> QED BY <4>2, <4>3, <4>4 DEF Alignment
    <3> QED BY <3>1, <3>2
  <2>2. h = next(h)
    <3>1. next(h) = [i \in 1..(n + 1) |-> next(h)[i]]
      OBVIOUS
    <3>2. h = [i \in 1..(n + 1) |-> h[i]]
      OBVIOUS
    <3> HIDE DEF h, next
    <3> QED BY <2>1, <3>1, <3>2
  <2>3. begins = CHOOSE b : b = next(b)
    BY DEF Offsets
  <2> HIDE DEF h, next, begins
  <2> QED BY <2>2, <2>3
<1>5. /\ begins[1] = InitialOffset /\ DOMAIN begins = 1..(n + 1)
      /\ begins = [i \in 1..(n + 1) |-> begins[i]]
      /\ \A i \in 1..n : begins[i + 1] = begins[i] + EntrySize(entries[i])
  <2> DEFINE b == begins
  <2>0. b = next(b)
    BY <1>4
  <2> HIDE DEF b
  <2>1. 1 \in 1..(n + 1) /\ \A i \in 1..n : i + 1 \in 1..(n + 1) /\ i + 1 # 1 /\ (i + 1) - 1 = i
    BY <1>1
  <2>2. DOMAIN b = 1..(n + 1) /\ b = [i \in 1..(n + 1) |-> b[i]]
    BY <2>0
  <2>3. \A i \in 1..(n + 1) :
          b[i] = IF i = 1 THEN InitialOffset ELSE b[i - 1] + EntrySize(entries[i - 1])
    BY <2>0
  <2>4. b[1] = InitialOffset /\ \A i \in 1..n : b[i + 1] = b[i] + EntrySize(entries[i])
    BY <2>1, <2>3
  <2> QED BY <2>2, <2>4 DEF b
<1> HIDE DEF begins, n
<1>6. \A i \in 1..(n + 1) : begins[i] = g[i - 1] * Alignment
  <2> DEFINE T == {i \in 1..(n + 1) : begins[i] # g[i - 1] * Alignment}
  <2>1. CASE T = {}
    BY <2>1
  <2>2. CASE T # {}
    <3>1. PICK m \in T : \A j \in T : m <= j
      <4>1. T \in SUBSET Nat
        OBVIOUS
      <4> HIDE DEF T
      <4> QED BY <2>2, <4>1, MinNat
    <3>2. m # 1
      BY <1>3, <1>5 DEF InitialOffset, Alignment
    <3>3. m \in 1..(n + 1) /\ m - 1 \in 1..n /\ m - 1 \notin T /\ (m - 1) + 1 = m
      <4>1. m \in 1..(n + 1) /\ m - 1 \in 1..n /\ ~(m <= m - 1) /\ (m - 1) + 1 = m
        BY <1>1, <3>2
      <4> HIDE DEF T
      <4> QED BY <3>1, <4>1
    <3> DEFINE k == m - 1
    <3>4. k \in 1..(n + 1) /\ k \in 1..n /\ k - 1 \in 0..n /\ k + 1 = m
          /\ begins[k] = g[k - 1] * Alignment
      <4>1. k \in 1..(n + 1) /\ k \in 1..n /\ k - 1 \in 0..n /\ k + 1 = m
        BY <1>1, <3>3
      <4>2. k \notin T
        BY <3>3
      <4> HIDE DEF k
      <4> QED BY <4>1, <4>2
    <3> HIDE DEF k
    <3>5. begins[m] = begins[k] + EntrySize(entries[k])
      BY <1>5, <3>4
    <3>6. EntrySize(entries[k]) = v[k] * Alignment /\ v[k] \in Nat
      BY <1>2, <3>4
    <3>7. g[k] = g[k - 1] + v[k] /\ g[k - 1] \in Nat
      BY <1>3, <3>4 DEF IsRunning
    <3>8. begins[m] = g[m - 1] * Alignment
      <4> HIDE DEF T
      <4>1. m - 1 = k
        BY <3>3, <3>4 DEF k
      <4> QED BY <3>4, <3>5, <3>6, <3>7, <4>1 DEF Alignment
    <3> QED BY <3>8
  <2> QED BY <2>1, <2>2
<1>7. \A i \in 1..(n + 1) : i - 1 \in 0..n /\ g[i - 1] \in Nat
  BY <1>1, <1>3 DEF IsRunning
<1>8. \A i \in 1..(n + 1) : begins[i] \in Nat /\ begins[i] \div Alignment = g[i - 1]
  BY <1>6, <1>7 DEF Alignment
<1>9. begins \in [1..(n + 1) -> Nat]
  BY <1>5, <1>8
<1> DEFINE ids == EntryIds(entries)
<1>10. ids = [i \in 1..n |-> begins[i] \div Alignment]
  BY <1>1 DEF EntryIds, begins
<1> HIDE DEF ids
<1>11. \A i \in 1..n : i \in 1..(n + 1) /\ ids[i] = g[i - 1]
  BY <1>1, <1>8, <1>10
<1>12. ids \in [1..n -> Nat] /\ \A i \in 1..n : begins[i] = ids[i] * Alignment
  BY <1>6, <1>7, <1>10, <1>11
<1>13. \A i, j \in 1..n : i < j => ids[i] < ids[j]
  <2>1. \A i, j \in 0..n : i < j => g[i] < g[j]
    BY <1>1, <1>3, RunningIncreases
  <2>2. \A i, j \in 1..n : i < j => i - 1 < j - 1 /\ i - 1 \in 0..n /\ j - 1 \in 0..n
    BY <1>1
  <2> QED BY <1>11, <2>1, <2>2
<1> QED BY <1>5, <1>9, <1>12, <1>13 DEF AreOffsets, begins, ids, n

LEMMA BlockIs ==
  ASSUME NEW entries, AreEntries(entries)
  PROVE  LET begins == Offsets(entries)
             at == Block(entries).at
         IN  /\ DOMAIN at = {begins[i] : i \in 1..Len(entries)}
             /\ \A i \in 1..Len(entries) : at[begins[i]] = Stored(entries[i])
<1> DEFINE n == Len(entries)
           begins == Offsets(entries)
           ids == EntryIds(entries)
           places == {begins[i] : i \in DOMAIN entries}
           at == Block(entries).at
<1>1. n \in Nat /\ DOMAIN entries = 1..n /\ AreOffsets(begins, ids, entries, n)
  BY OffsetsAre DEF AreEntries
<1>2. at = [o \in places |-> Stored(entries[CHOOSE i \in DOMAIN entries : begins[i] = o])]
  BY DEF Block
<1> HIDE DEF begins, ids, at, n
<1>3. \A i, j \in 1..n : begins[i] = begins[j] => i = j
  <2>1. \A i, j \in 1..n : i < j => ids[i] < ids[j]
    BY <1>1 DEF AreOffsets
  <2>2. \A i \in 1..n : begins[i] = ids[i] * Alignment /\ ids[i] \in Nat
    BY <1>1 DEF AreOffsets
  <2>3. \A i, j \in 1..n : begins[i] = begins[j] => ids[i] = ids[j]
    BY <2>2 DEF Alignment
  <2> QED BY <1>1, <2>1, <2>2, <2>3
<1>4. ASSUME NEW i \in 1..n PROVE at[begins[i]] = Stored(entries[i])
  <2>1. begins[i] \in places
    BY <1>1
  <2>2. (CHOOSE j \in DOMAIN entries : begins[j] = begins[i]) = i
    BY <1>1, <1>3
  <2> QED BY <1>2, <2>1, <2>2
<1>5. DOMAIN at = {begins[i] : i \in 1..n}
  BY <1>1, <1>2
<1> QED BY <1>4, <1>5 DEF begins, at, n

(* The words of a file, by their ids.                                      *)
WordsAt(file, ids, n) ==
  /\ n \in Nat /\ n = Len(file.written) /\ file.public \in 0..n
  /\ AreEntries(file.written) /\ ids = EntryIds(file.written)
  /\ AreOffsets(Offsets(file.written), ids, file.written, n)
  /\ {EntryId(o) : o \in DOMAIN file.block.at} = {ids[i] : i \in 1..n}
  /\ \A i \in 1..n : /\ ids[i] * Alignment \in DOMAIN file.block.at
                     /\ file.block.at[ids[i] * Alignment] = Stored(file.written[i])

LEMMA WordsOf ==
  ASSUME NEW file, NEW system, BuiltOn(file, system)
  PROVE  WordsAt(file, EntryIds(file.written), Len(file.written))
<1> DEFINE n == Len(file.written)
           begins == Offsets(file.written)
           ids == EntryIds(file.written)
<1>1. /\ n \in Nat /\ file.written = [i \in 1..n |-> file.written[i]]
      /\ file.block.at = Block(file.written).at /\ file.public \in 0..n
  BY DEF BuiltOn
<1>2. ASSUME NEW i \in 1..n PROVE IsEntry(file.written[i])
  <2> DEFINE e == file.written[i]
  <2>1. i \in DOMAIN file.written
    BY <1>1
  <2>2. e.pos \in Nat /\ e.syn \in Nat /\ e.user \in Nat
    BY <2>1 DEF BuiltOn
  <2>3. \A f \in UnitFields : e[f] \in Seq(WordReference)
    BY <2>1 DEF BuiltOn
  <2> QED BY <2>2, <2>3 DEF IsEntry
<1>3. AreEntries(file.written)
  BY <1>1, <1>2 DEF AreEntries
<1>4. AreOffsets(begins, ids, file.written, n)
  BY <1>3, OffsetsAre
<1>5. /\ DOMAIN file.block.at = {begins[i] : i \in 1..n}
      /\ \A i \in 1..n : file.block.at[begins[i]] = Stored(file.written[i])
  BY <1>1, <1>3, BlockIs
<1> HIDE DEF n, begins, ids
<1>6. \A i \in 1..n : begins[i] = ids[i] * Alignment /\ EntryId(begins[i]) = ids[i]
  BY <1>4 DEF AreOffsets, EntryId, Alignment
<1>7. {EntryId(o) : o \in DOMAIN file.block.at} = {ids[i] : i \in 1..n}
  BY <1>5, <1>6
<1>8. \A i \in 1..n : /\ ids[i] * Alignment \in DOMAIN file.block.at
                      /\ file.block.at[ids[i] * Alignment] = Stored(file.written[i])
  BY <1>5, <1>6
<1> QED BY <1>1, <1>3, <1>4, <1>7, <1>8 DEF WordsAt, n, begins, ids

(* The scan at the time of loading finds each of the entries it counts     *)
(* inside the block (infos.rs:84-109).                                     *)
IsScan(scan, block, count) ==
  /\ DOMAIN scan = 0..count
  /\ scan[0] = [ok |-> TRUE, cursor |-> ScanFrom(count)]
  /\ \A m \in 1..count :
       scan[m] = IF ~scan[m - 1].ok \/ ~CanScan(block, scan[m - 1].cursor)
                 THEN [scan[m - 1] EXCEPT !.ok = FALSE]
                 ELSE [scan[m - 1] EXCEPT !.cursor = Scanned(block, @)]

ScanState == [ok : BOOLEAN, cursor : [left : Int, offset : Nat]]

LEMMA ScanExists ==
  ASSUME NEW block, NEW count \in Nat,
         \A o \in DOMAIN block.at : o \in Nat /\ StoredSize(block.at[o]) \in Nat,
         ValidBoundaries(block, count)
  PROVE  \E scan : /\ IsScan(scan, block, count) /\ scan \in [0..count -> ScanState]
                   /\ scan[count].ok
<1> DEFINE step(st) == IF ~st.ok \/ ~CanScan(block, st.cursor)
                       THEN [st EXCEPT !.ok = FALSE]
                       ELSE [st EXCEPT !.cursor = Scanned(block, @)]
           steps == [p \in ScanState \X Nat |-> step(p[1])]
           first == [ok |-> TRUE, cursor |-> ScanFrom(count)]
           next(s) == [n \in 0..count |->
                         IF n = 0 THEN first
                         ELSE IF ~s[n - 1].ok \/ ~CanScan(block, s[n - 1].cursor)
                         THEN [s[n - 1] EXCEPT !.ok = FALSE]
                         ELSE [s[n - 1] EXCEPT !.cursor = Scanned(block, @)]]
<1>1. first \in ScanState
  BY DEF ScanFrom, InitialOffset, ScanState
<1>2. ASSUME NEW st \in ScanState PROVE step(st) \in ScanState
  <2>1. st.ok \in BOOLEAN /\ st.cursor \in [left : Int, offset : Nat]
    BY DEF ScanState
  <2>2. st.cursor.left \in Int /\ st.cursor.offset \in Nat
    BY <2>1
  <2>3. [st EXCEPT !.ok = FALSE] \in ScanState
    BY DEF ScanState
  <2>4. CanScan(block, st.cursor) => Scanned(block, st.cursor) \in [left : Int, offset : Nat]
    BY <2>2 DEF CanScan, Scanned
  <2>5. CanScan(block, st.cursor) => [st EXCEPT !.cursor = Scanned(block, @)] \in ScanState
    BY <2>4 DEF ScanState
  <2> QED BY <2>3, <2>5
<1>3. steps \in [ScanState \X Nat -> ScanState]
  <2> HIDE DEF step
  <2> QED BY <1>2
<1>4. PICK g : IsRecursion(g, ScanState, first, steps, count)
  <2> HIDE DEF steps, first
  <2> QED BY <1>1, <1>3, Recursion
<1>5. /\ g \in [0..count -> ScanState] /\ g[0] = first
      /\ \A m \in 1..count : g[m] = step(g[m - 1])
  <2>1. g \in [0..count -> ScanState] /\ g[0] = first
        /\ \A m \in 1..count : g[m] = steps[<<g[m - 1], m>>]
    BY <1>4 DEF IsRecursion
  <2>2. ASSUME NEW m \in 1..count PROVE g[m] = step(g[m - 1])
    <3>1. m - 1 \in 0..count /\ m \in Nat
      OBVIOUS
    <3>2. <<g[m - 1], m>> \in ScanState \X Nat /\ <<g[m - 1], m>>[1] = g[m - 1]
      BY <2>1, <3>1
    <3> HIDE DEF step
    <3> QED BY <2>1, <3>2
  <2> HIDE DEF step, steps
  <2> QED BY <2>1, <2>2
<1>6. g = next(g)
  <2>1. ASSUME NEW m \in 0..count PROVE g[m] = next(g)[m]
    <3>1. CASE m = 0
      BY <1>5, <3>1
    <3>2. CASE m # 0
      <4>1. m \in 1..count
        BY <3>2
      <4> HIDE DEF first
      <4> QED BY <1>5, <3>2, <4>1
    <3> QED BY <3>1, <3>2
  <2>2. DOMAIN next(g) = 0..count /\ next(g) = [m \in 0..count |-> next(g)[m]]
    OBVIOUS
  <2>3. g = [m \in 0..count |-> g[m]]
    BY <1>5
  <2> HIDE DEF next
  <2> QED BY <2>1, <2>2, <2>3
<1> DEFINE scan == CHOOSE s : s = next(s)
<1>7. scan[count].ok
  BY DEF ValidBoundaries
<1>8. scan = next(scan)
  <2> HIDE DEF next
  <2> QED BY <1>6
<1> HIDE DEF scan
<1>9. IsScan(scan, block, count)
  <2>1. DOMAIN scan = 0..count
    BY <1>8
  <2>2. scan[0] = first
    BY <1>8
  <2>3. ASSUME NEW m \in 1..count PROVE scan[m] = step(scan[m - 1])
    <3>1. m \in 0..count /\ m # 0
      OBVIOUS
    <3>2. scan[m] = next(scan)[m]
      BY <1>8
    <3>3. next(scan)[m] = step(scan[m - 1])
      BY <3>1
    <3> HIDE DEF next, step
    <3> QED BY <3>2, <3>3
  <2> HIDE DEF first
  <2> QED BY <2>1, <2>2, <2>3 DEF IsScan, first
<1>10. scan \in [0..count -> ScanState]
  <2> DEFINE T == {m \in 0..count : scan[m] \notin ScanState}
  <2>1. CASE T = {}
    <3>1. \A m \in 0..count : scan[m] \in ScanState
      BY <2>1
    <3>2. scan = [m \in 0..count |-> scan[m]]
      <4>1. next(scan) = [m \in 0..count |-> next(scan)[m]]
        OBVIOUS
      <4> HIDE DEF next
      <4> QED BY <1>8, <4>1
    <3> HIDE DEF next, step, first
    <3> QED BY <3>1, <3>2
  <2>2. CASE T # {}
    <3>1. PICK m \in T : \A j \in T : m <= j
      <4>1. T \in SUBSET Nat
        OBVIOUS
      <4> HIDE DEF T
      <4> QED BY <2>2, <4>1, MinNat
    <3>2. m # 0
      BY <1>1, <1>9 DEF IsScan
    <3> DEFINE k == m - 1
    <3>3. m \in 1..count /\ k \in 0..count /\ scan[k] \in ScanState
      <4>1. m \in 1..count /\ k \in 0..count /\ ~(m <= k)
        BY <3>2
      <4>2. k \notin T
        <5> HIDE DEF T
        <5> QED BY <3>1, <4>1
      <4> HIDE DEF k
      <4> QED BY <4>1, <4>2
    <3>4. scan[m] = step(scan[k])
      BY <1>9, <3>3 DEF IsScan
    <3> HIDE DEF step, k
    <3>5. scan[m] \in ScanState
      BY <1>2, <3>3, <3>4
    <3> QED BY <3>5
  <2> QED BY <2>1, <2>2
<1> QED BY <1>7, <1>9, <1>10

(* Every entry that is counted ends in the block.                          *)
LEMMA EntriesFit ==
  ASSUME NEW file, NEW system, BuiltOn(file, system),
         ValidBoundaries(file.block, file.public)
  PROVE  LET begins == Offsets(file.written)
         IN  \A i \in 1..file.public :
               \A left \in Int : CanScan(file.block, [left |-> left, offset |-> begins[i]])
<1> DEFINE n == Len(file.written)
           begins == Offsets(file.written)
           ids == EntryIds(file.written)
           count == file.public
           block == file.block
           size(i) == StoredSize(block.at[begins[i]])
<1>1. WordsAt(file, ids, n)
  BY WordsOf
<1>2. /\ n \in Nat /\ count \in 0..n /\ begins \in [1..(n + 1) -> Nat] /\ begins[1] = InitialOffset
      /\ \A i \in 1..n : begins[i + 1] = begins[i] + EntrySize(file.written[i])
      /\ DOMAIN block.at = {begins[i] : i \in 1..n}
      /\ \A i \in 1..n : block.at[begins[i]] = Stored(file.written[i])
      /\ \A i \in 1..n : IsEntry(file.written[i])
  <2>1. block.at = Block(file.written).at
    BY DEF BuiltOn
  <2> QED BY <1>1, <2>1, BlockIs DEF WordsAt, AreOffsets, AreEntries
<1>3. \A i \in 1..n : size(i) \in Nat /\ begins[i + 1] = begins[i] + size(i)
  <2>1. ASSUME NEW i \in 1..n PROVE size(i) \in Nat /\ begins[i + 1] = begins[i] + size(i)
    <3>1. size(i) = EntrySize(file.written[i])
      BY <1>2, SameSize
    <3>2. EntrySize(file.written[i]) \in Nat
      <4>1. PICK q \in Nat \ {0} : EntrySize(file.written[i]) = q * Alignment
        BY <1>2, EntrySizeIs
      <4> QED BY <4>1 DEF Alignment
    <3> QED BY <1>2, <3>1, <3>2
  <2> QED BY <2>1
<1> HIDE DEF n, begins, ids, count, block
<1>4. \A o \in DOMAIN block.at : o \in Nat /\ StoredSize(block.at[o]) \in Nat
  <2>1. ASSUME NEW o \in DOMAIN block.at PROVE o \in Nat /\ StoredSize(block.at[o]) \in Nat
    <3>1. PICK i \in 1..n : o = begins[i]
      BY <1>2
    <3>2. i \in 1..(n + 1)
      BY <1>2
    <3> QED BY <1>2, <1>3, <3>1, <3>2
  <2> QED BY <2>1
<1>5. PICK scan : /\ IsScan(scan, block, count) /\ scan \in [0..count -> ScanState]
                  /\ scan[count].ok
  <2>1. count \in Nat
    BY <1>2
  <2>2. ValidBoundaries(block, count)
    BY DEF count, block
  <2> QED BY <1>4, <2>1, <2>2, ScanExists
<1> HIDE DEF size
<1>6. \A m \in 0..count : scan[m].ok
  <2> DEFINE T == {k \in Nat : k <= count /\ ~scan[count - k].ok}
  <2>1. CASE T = {}
    <3>1. ASSUME NEW m \in 0..count PROVE scan[m].ok
      <4>1. count - m \in Nat /\ count - m <= count /\ count - (count - m) = m
        BY <1>2
      <4> QED BY <2>1, <4>1
    <3> QED BY <3>1
  <2>2. CASE T # {}
    <3>1. PICK k \in T : \A j \in T : k <= j
      <4>1. T \in SUBSET Nat
        OBVIOUS
      <4> HIDE DEF T
      <4> QED BY <2>2, <4>1, MinNat
    <3>2. k \in Nat /\ k <= count /\ ~scan[count - k].ok
      OBVIOUS
    <3>3. k # 0
      BY <1>2, <1>5, <3>2
    <3> DEFINE m == count - k + 1
    <3>4. k - 1 \notin T
      <4>1. ~(k <= k - 1)
        BY <3>2
      <4> HIDE DEF T
      <4> QED BY <3>1, <4>1
    <3>5. k - 1 \in Nat /\ k - 1 <= count /\ count - (k - 1) = m /\ m \in 1..count
          /\ m - 1 = count - k /\ m - 1 \in 0..count
      BY <1>2, <3>2, <3>3
    <3>6. scan[m].ok
      BY <3>4, <3>5
    <3> HIDE DEF m, T
    <3>7. ~scan[m - 1].ok /\ scan[m - 1] \in ScanState
      BY <1>5, <3>2, <3>5
    <3>8. scan[m] = [scan[m - 1] EXCEPT !.ok = FALSE]
      BY <1>5, <3>5, <3>7 DEF IsScan
    <3>9. scan[m].ok = FALSE
      BY <3>7, <3>8 DEF ScanState
    <3> QED BY <3>6, <3>9
  <2> QED BY <2>1, <2>2
<1>7. \A m \in 1..count : /\ CanScan(block, scan[m - 1].cursor)
                          /\ scan[m].cursor = Scanned(block, scan[m - 1].cursor)
  <2>1. ASSUME NEW m \in 1..count
        PROVE  /\ CanScan(block, scan[m - 1].cursor)
               /\ scan[m].cursor = Scanned(block, scan[m - 1].cursor)
    <3>1. m - 1 \in 0..count /\ m \in 0..count
      BY <1>2
    <3>2. scan[m - 1].ok /\ scan[m].ok /\ scan[m - 1] \in ScanState
      BY <1>5, <1>6, <3>1
    <3>3. scan[m] = IF ~scan[m - 1].ok \/ ~CanScan(block, scan[m - 1].cursor)
                    THEN [scan[m - 1] EXCEPT !.ok = FALSE]
                    ELSE [scan[m - 1] EXCEPT !.cursor = Scanned(block, @)]
      BY <1>5 DEF IsScan
    <3>4. [scan[m - 1] EXCEPT !.ok = FALSE].ok = FALSE
      BY <3>2 DEF ScanState
    <3>5. [scan[m - 1] EXCEPT !.cursor = Scanned(block, @)].cursor
            = Scanned(block, scan[m - 1].cursor)
      BY <3>2 DEF ScanState
    <3> QED BY <3>2, <3>3, <3>4, <3>5
  <2> QED BY <2>1
<1>8. \A m \in 0..count : scan[m].cursor.offset = begins[m + 1]
  <2> DEFINE T == {m \in 0..count : scan[m].cursor.offset # begins[m + 1]}
  <2>1. CASE T = {}
    BY <2>1
  <2>2. CASE T # {}
    <3>1. PICK m \in T : \A j \in T : m <= j
      <4>1. T \in SUBSET Nat
        BY <1>2
      <4> HIDE DEF T
      <4> QED BY <2>2, <4>1, MinNat
    <3>2. m # 0
      BY <1>2, <1>5 DEF IsScan, ScanFrom
    <3> DEFINE k == m - 1
    <3>3. m \in 1..count /\ k \in 0..count /\ k + 1 = m /\ m \in 1..n
      BY <1>2, <3>2
    <3>4. scan[k].cursor.offset = begins[m]
      <4>1. ~(m <= k)
        BY <1>2, <3>3
      <4>2. k \notin T
        <5> HIDE DEF T
        <5> QED BY <3>1, <4>1
      <4> HIDE DEF k
      <4> QED BY <3>3, <4>2
    <3>5. scan[m].cursor = Scanned(block, scan[k].cursor)
      BY <1>7, <3>3
    <3> HIDE DEF k
    <3>6. scan[m].cursor.offset = begins[m] + size(m)
      BY <3>4, <3>5 DEF Scanned, size
    <3>7. scan[m].cursor.offset = begins[m + 1]
      BY <1>3, <3>3, <3>6
    <3> QED BY <3>7
  <2> QED BY <2>1, <2>2
<1>9. ASSUME NEW i \in 1..count, NEW left \in Int
      PROVE  CanScan(block, [left |-> left, offset |-> begins[i]])
  <2>1. i - 1 \in 0..count /\ (i - 1) + 1 = i
    BY <1>2
  <2>2. CanScan(block, scan[i - 1].cursor) /\ scan[i - 1].cursor.offset = begins[(i - 1) + 1]
    BY <1>7, <1>8, <2>1
  <2> QED BY <2>1, <2>2 DEF CanScan
<1> QED BY <1>9 DEF count, block, begins

---------------------------------------------------------------------------
(* What the state keeps of the files that were loaded.                     *)

(* What is merged could be loaded.                                         *)
FilesLoaded ==
  /\ posOffsets # <<>> => LoadableSystem(config.system)
  /\ \A k \in 1..(Len(posOffsets) - 1) : LoadableUser(config.users[k], config.system)

(* The costs of each user dictionary that were open are those of a time    *)
(* when there were the dictionaries before it, and the connections were    *)
(* edited.                                                                 *)
CostsKept ==
  /\ phase \in {"users", "ready"} => config.plain \/ edited = TRUE
  /\ IsSeq(costs) /\ Len(costs) = Len(posOffsets)
  /\ \A k \in 1..(Len(posOffsets) - 1) : \A id \in ToSet(config.users[k].table) :
       id \in config.users[k].unset =>
         costs[k + 1][id] = IF config.plain THEN "unset" ELSE [dicts |-> 0..(k - 1), edited |-> TRUE]

(* What was answered is what would be answered now.                        *)
AnswerGiven ==
  answer # NoAnswer =>
    /\ phase = "ready" /\ answer.dict \in Merged /\ answer.entry \in EntriesOf(answer.dict)
    /\ answer.info = WordInfo(answer.dict, answer.entry, answer.subset)

GivenOf(k) == {seen[i].entry : i \in {i \in DOMAIN seen : seen[i].dict = k}}
DueOf(k) == CASE k < cursor.dict -> FileOf(k).public
              [] k = cursor.dict -> FileOf(k).public - cursor.left
              [] OTHER -> 0

(* The cursor is at an entry of its dictionary, and all entries before     *)
(* were given.                                                             *)
CursorPlaced ==
  LET file == FileOf(cursor.dict)
  IN  /\ phase = "ready" /\ cursor.dict \in Merged /\ cursor.left \in 0..file.public
      /\ cursor = [dict |-> cursor.dict, left |-> cursor.left, offset |-> cursor.offset]
      /\ cursor.offset = Offsets(file.written)[file.public - cursor.left + 1]

SeenInOrder ==
  \A i, j \in DOMAIN seen :
    i < j => \/ seen[i].dict < seen[j].dict
             \/ seen[i].dict = seen[j].dict /\ seen[i].entry < seen[j].entry

SeenSoFar ==
  /\ \A i \in DOMAIN seen : seen[i].dict \in Merged
  /\ \A k \in Merged : GivenOf(k) = {EntryIds(FileOf(k).written)[i] : i \in 1..DueOf(k)}

ScanKept ==
  /\ IsSeq(seen)
  /\ IF cursor = NoCursor THEN seen = <<>> ELSE CursorPlaced /\ SeenInOrder /\ SeenSoFar

(* The inductive invariant of what is answered.                            *)
ReadInv == IInv /\ FilesLoaded /\ CostsKept /\ AnswerGiven /\ ScanKept

LEMMA InitRead == Init => ReadInv
<1> SUFFICES ASSUME Init PROVE ReadInv
  OBVIOUS
<1>1. IInv
  BY InitEstablishes
<1>2. IsSeq(<<>>) /\ Len(<<>>) = 0
  BY EmptySeq, SeqIsSeq
<1>3. FilesLoaded /\ CostsKept
  BY <1>2 DEF Init, FilesLoaded, CostsKept
<1>4. AnswerGiven /\ ScanKept
  BY <1>2 DEF Init, AnswerGiven, ScanKept
<1> QED BY <1>1, <1>3, <1>4 DEF ReadInv

(* Every dictionary that is merged is as its builder wrote it.             *)
LEMMA MergedAreBuilt ==
  ASSUME IInv, FilesLoaded, NEW k \in Merged
  PROVE  /\ BuiltOn(FileOf(k), config.system) /\ Readable(FileOf(k))
         /\ BuiltOn(FileOf(0), config.system)
         /\ k = 0 <=> ~FileOf(k).isUser
<1>1. config \in Configs /\ posOffsets \in Seq(Nat)
  BY DEF IInv, TypeOK
<1>2. k \in 0..(Len(posOffsets) - 1) /\ posOffsets # <<>> /\ 0 \in Merged
  BY <1>1 DEF Merged
<1>3. LoadableSystem(config.system) /\ BuiltOn(config.system, config.system)
  BY <1>1, <1>2, BuiltAssumption DEF FilesLoaded
<1>4. CASE k = 0
  BY <1>3, <1>4 DEF FileOf, LoadableSystem
<1>5. CASE k # 0
  <2>1. k \in 1..(Len(posOffsets) - 1) /\ k \in 1..Len(config.users)
    BY <1>1, <1>2, <1>5, Files DEF IInv, PosPlaced
  <2>2. LoadableUser(config.users[k], config.system)
    BY <2>1 DEF FilesLoaded
  <2>3. BuiltOn(config.users[k], config.system)
    BY <1>1, <1>3, <2>1, <2>2, BuiltAssumption
  <2> QED BY <1>3, <1>5, <2>2, <2>3 DEF FileOf, LoadableUser
<1> QED BY <1>4, <1>5

LEMMA FilesStep ==
  ASSUME ReadInv, [Next]_vars PROVE FilesLoaded'
<1>1. posOffsets \in Seq(Nat) /\ FilesLoaded /\ LoadedByPhase
  BY DEF ReadInv, IInv, TypeOK
<1>2. CASE UNCHANGED <<config, posOffsets>>
  BY <1>1, <1>2 DEF FilesLoaded
<1>3. CASE LoadSystem
  <2>1. LoadableSystem(config.system) /\ config' = config /\ posOffsets' = <<0>>
    BY <1>3 DEF LoadSystem, CanLoadSystem
  <2>2. 1..(Len(posOffsets') - 1) = {}
    BY <2>1
  <2> QED BY <2>1, <2>2 DEF FilesLoaded
<1>4. CASE AddUser
  <2> DEFINE n == Len(posOffsets)
  <2>1. /\ config' = config /\ posOffsets' = Append(posOffsets, Len(pos)) /\ n \in Nat
        /\ LoadableUser(FileOf(n), config.system)
    BY <1>1, <1>4 DEF AddUser, CanAddUser, NextUser
  <2>2. posOffsets # <<>> /\ n # 0
    <3>1. posOffsets # <<>>
      BY <1>1, <1>4 DEF AddUser, LoadedByPhase
    <3> QED BY <1>1, <3>1
  <2>3. LoadableUser(config.users[n], config.system)
    BY <2>1, <2>2 DEF FileOf
  <2>4. Len(posOffsets') = n + 1
    BY <1>1, <2>1
  <2>5. \A k \in 1..(Len(posOffsets') - 1) : k = n \/ k \in 1..(n - 1)
    BY <2>1, <2>4
  <2> HIDE DEF n
  <2> QED BY <1>1, <2>1, <2>2, <2>3, <2>5 DEF FilesLoaded, n
<1>5. CASE Refuse
  <2>1. posOffsets' = <<>> /\ 1..(Len(posOffsets') - 1) = {}
    BY <1>5 DEF Refuse
  <2> QED BY <2>1 DEF FilesLoaded
<1>6. \/ LoadSystem \/ AddUser \/ Refuse \/ UNCHANGED <<config, posOffsets>>
  BY DEF Next, SetUpPlugin, EditConnections, Finish, Ask, StartScan, NextWordId, dictionary, vars
<1> QED BY <1>2, <1>3, <1>4, <1>5, <1>6

LEMMA AppendSeq ==
  ASSUME NEW s, IsSeq(s), NEW x
  PROVE  /\ IsSeq(Append(s, x)) /\ Len(Append(s, x)) = Len(s) + 1 /\ Len(s) \in Nat
         /\ DOMAIN s = 1..Len(s) /\ DOMAIN Append(s, x) = 1..(Len(s) + 1)
         /\ Append(s, x)[Len(s) + 1] = x /\ \A i \in 1..Len(s) : Append(s, x)[i] = s[i]
<1> DEFINE X == Elems(s) \cup {x}
<1>1. s \in Seq(X)
  <2>1. Len(s) \in Nat /\ s \in [1..Len(s) -> Elems(s)]
    BY DEF IsSeq
  <2>2. s \in [1..Len(s) -> X]
    BY <2>1
  <2> HIDE DEF X
  <2> QED BY <2>1, <2>2
<1>2. x \in X
  OBVIOUS
<1> HIDE DEF X
<1>3. Append(s, x) \in Seq(X)
  BY <1>1, <1>2
<1>4. IsSeq(Append(s, x))
  BY <1>3, SeqIsSeq
<1> QED BY <1>1, <1>2, <1>4, AppendFacts

(* The costs of a lexicon are estimated once, when it is merged: phase     *)
(* "users" comes after the connections were edited, or without plugins.    *)
LEMMA CostsStep ==
  ASSUME ReadInv, [Next]_vars PROVE CostsKept'
<1>1. posOffsets \in Seq(Nat) /\ FilesLoaded /\ LoadedByPhase /\ CostsKept /\ IInv
  BY DEF ReadInv, IInv, TypeOK
<1>2. CASE /\ UNCHANGED <<config, posOffsets, costs>>
           /\ phase' \in {"users", "ready"} => config.plain \/ edited' = TRUE
  BY <1>1, <1>2 DEF CostsKept
<1>3. CASE LoadSystem
  <2>1. /\ config' = config /\ posOffsets' = <<0>> /\ costs' = <<OwnCosts(config.system)>>
        /\ phase' = IF config.plain THEN "users" ELSE "plugins"
    BY <1>3 DEF LoadSystem
  <2>2. IsSeq(costs') /\ Len(costs') = 1
    <3>1. \A c : IsSeq(<<c>>) /\ Len(<<c>>) = 1
      <4>1. ASSUME NEW c PROVE IsSeq(<<c>>) /\ Len(<<c>>) = 1
        <5>1. <<c>> \in Seq({c}) /\ Len(<<c>>) = 1
          OBVIOUS
        <5> QED BY <5>1, SeqIsSeq
      <4> QED BY <4>1
    <3> QED BY <2>1, <3>1
  <2>3. 1..(Len(posOffsets') - 1) = {} /\ Len(posOffsets') = 1
    BY <2>1
  <2> QED BY <2>1, <2>2, <2>3 DEF CostsKept
<1>4. CASE AddUser
  <2> DEFINE n == Len(posOffsets)
             file == config.users[n]
  <2>1. /\ config' = config /\ posOffsets' = Append(posOffsets, Len(pos)) /\ n \in Nat
        /\ phase = "users" /\ phase' = phase /\ edited' = edited
        /\ LoadableUser(FileOf(n), config.system) /\ costs' = AppendCosts(FileOf(n))
        /\ n \in 1..Len(config.users)
    <3>1. posOffsets # <<>>
      BY <1>1, <1>4 DEF AddUser, LoadedByPhase
    <3>2. n # 0 /\ n <= Len(config.users)
      BY <1>1, <1>4, <3>1 DEF AddUser, NextUser
    <3> QED BY <1>1, <1>4, <3>2, Files DEF AddUser, CanAddUser, NextUser, IInv, TypeOK
  <2>2. FileOf(n) = file /\ LoadableUser(file, config.system)
    BY <2>1 DEF FileOf
  <2>3. /\ config.plain \/ edited = TRUE
        /\ IsSeq(costs) /\ Len(costs) = n
    BY <1>1, <2>1 DEF CostsKept
  <2>4. BuiltOn(file, config.system)
    <3>1. config \in Configs /\ LoadableSystem(config.system)
      BY <1>1, <2>1 DEF FilesLoaded, LoadedByPhase, IInv, TypeOK
    <3> QED BY <2>1, <2>2, <3>1, BuiltAssumption
  <2>5. Merged = 0..(n - 1)
    BY DEF Merged
  <2> DEFINE new == UpdatedCosts(file)
  <2>6. ASSUME NEW id \in ToSet(file.table), id \in file.unset
        PROVE  new[id] = IF config.plain THEN "unset" ELSE [dicts |-> 0..(n - 1), edited |-> TRUE]
    <3>1. id \in {EntryId(o) : o \in DOMAIN file.block.at}
      <4> DEFINE ids == EntryIds(file.written)
      <4>1. WordsAt(file, ids, Len(file.written))
        BY <2>4, WordsOf
      <4>2. ToSet(file.table) \subseteq {ids[i] : i \in DOMAIN file.written}
        BY <2>4 DEF BuiltOn
      <4>3. DOMAIN file.written = 1..Len(file.written)
        BY <4>1 DEF WordsAt, AreEntries
      <4> HIDE DEF ids, file
      <4> QED BY <2>6, <4>1, <4>2, <4>3 DEF WordsAt
    <3>2. id \in DOMAIN OwnCosts(file) /\ OwnCosts(file)[id] = "unset"
      <4> HIDE DEF file
      <4> QED BY <2>6, <3>1 DEF OwnCosts
    <3>3. new[id] = IF ~config.plain THEN [dicts |-> Merged, edited |-> edited] ELSE "unset"
      <4> HIDE DEF file
      <4> QED BY <2>6, <3>2 DEF UpdatedCosts
    <3> HIDE DEF new
    <3> QED BY <2>3, <2>5, <3>3
  <2>7. costs' = Append(costs, new)
    BY <2>1, <2>2 DEF AppendCosts
  <2> HIDE DEF new, file
  <2>8. /\ IsSeq(costs') /\ Len(costs') = n + 1 /\ costs'[n + 1] = new
        /\ \A i \in 1..n : costs'[i] = costs[i]
    BY <2>3, <2>7, AppendSeq
  <2>9. Len(posOffsets') = n + 1
    BY <1>1, <2>1
  <2>10. ASSUME NEW k \in 1..(Len(posOffsets') - 1), NEW id \in ToSet(config.users[k].table),
                id \in config.users[k].unset
         PROVE  costs'[k + 1][id] =
                  IF config.plain THEN "unset" ELSE [dicts |-> 0..(k - 1), edited |-> TRUE]
    <3>1. k = n \/ (k \in 1..(n - 1) /\ k + 1 \in 1..n)
      BY <2>1, <2>9
    <3>2. CASE k = n
      BY <2>6, <2>8, <2>10, <3>2 DEF file
    <3>3. CASE k \in 1..(n - 1) /\ k + 1 \in 1..n
      <4>1. costs'[k + 1] = costs[k + 1]
        BY <2>8, <3>3
      <4> QED BY <1>1, <2>10, <3>3, <4>1 DEF CostsKept
    <3> QED BY <3>1, <3>2, <3>3
  <2> QED BY <2>1, <2>3, <2>8, <2>9, <2>10 DEF CostsKept
<1>5. CASE Refuse
  <2>1. posOffsets' = <<>> /\ costs' = <<>> /\ phase' = "failed" /\ 1..(Len(posOffsets') - 1) = {}
        /\ Len(costs') = Len(posOffsets')
    BY <1>5 DEF Refuse
  <2>2. IsSeq(<<>>)
    BY EmptySeq, SeqIsSeq
  <2> QED BY <2>1, <2>2 DEF CostsKept
<1>6. ASSUME ~LoadSystem, ~AddUser, ~Refuse
      PROVE  /\ UNCHANGED <<config, posOffsets, costs>>
             /\ phase' \in {"users", "ready"} => config.plain \/ edited' = TRUE
  <2>1. CASE SetUpPlugin
    BY <2>1 DEF SetUpPlugin
  <2>2. CASE EditConnections
    BY <2>2 DEF EditConnections
  <2>3. CASE Finish
    BY <1>1, <2>3 DEF Finish, CostsKept
  <2>4. CASE UNCHANGED dictionary
    BY <1>1, <2>4 DEF dictionary, CostsKept
  <2> QED BY <1>6, <2>1, <2>2, <2>3, <2>4 DEF Next, Ask, StartScan, NextWordId, vars, dictionary
<1> QED BY <1>2, <1>3, <1>4, <1>5, <1>6

(* Before a dictionary is ready nothing is asked, and then it stays as it  *)
(* is.                                                                     *)
LEMMA AskedWhenReady ==
  ASSUME ReadInv, [Next]_vars
  PROVE  \/ /\ phase # "ready" /\ answer = NoAnswer /\ cursor = NoCursor
            /\ UNCHANGED questions
         \/ /\ phase = "ready" /\ UNCHANGED dictionary
            /\ \/ \E dict \in Merged : \E entry \in EntriesOf(dict) : \E subset \in Subsets :
                    Ask(dict, entry, subset)
               \/ StartScan
               \/ NextWordId
               \/ UNCHANGED questions
<1>1. AnswerGiven /\ ScanKept
  BY DEF ReadInv
<1>2. phase # "ready" => answer = NoAnswer /\ cursor = NoCursor
  BY <1>1 DEF AnswerGiven, ScanKept, CursorPlaced
<1>3. CASE LoadSystem \/ SetUpPlugin \/ EditConnections \/ AddUser \/ Finish \/ Refuse
  <2>1. phase # "ready" /\ UNCHANGED questions
    BY <1>3 DEF LoadSystem, SetUpPlugin, EditConnections, AddUser, Finish, Refuse
  <2> QED BY <1>2, <2>1
<1>4. CASE \E dict \in Merged : \E entry \in EntriesOf(dict) : \E subset \in Subsets :
             Ask(dict, entry, subset)
  <2>1. phase = "ready" /\ UNCHANGED dictionary
    BY <1>4 DEF Ask
  <2> QED BY <1>4, <2>1
<1>5. CASE StartScan
  <2>1. phase = "ready" /\ UNCHANGED dictionary
    BY <1>5 DEF StartScan
  <2> QED BY <1>5, <2>1
<1>6. CASE NextWordId
  <2>1. phase = "ready" /\ UNCHANGED dictionary
    BY <1>6 DEF NextWordId
  <2> QED BY <1>6, <2>1
<1>7. CASE UNCHANGED vars
  <2>1. UNCHANGED dictionary /\ UNCHANGED questions
    BY <1>7 DEF vars, dictionary, questions
  <2> QED BY <1>2, <2>1
<1> QED BY <1>3, <1>4, <1>5, <1>6, <1>7 DEF Next

LEMMA AnswerStep ==
  ASSUME ReadInv, [Next]_vars PROVE AnswerGiven'
<1>1. AnswerGiven
  BY DEF ReadInv
<1>2. CASE phase # "ready" /\ answer = NoAnswer /\ UNCHANGED questions
  <2>1. answer' = NoAnswer
    BY <1>2 DEF questions, NoAnswer
  <2> QED BY <2>1 DEF AnswerGiven, NoAnswer
<1>3. CASE phase = "ready" /\ UNCHANGED dictionary
  <2>1. /\ UNCHANGED <<config, pos, numSystemPos, posOffsets>> /\ phase' = "ready"
        /\ Merged' = Merged
    BY <1>3 DEF dictionary, Merged
  <2>2. \A k : FileOf(k)' = FileOf(k) /\ EntriesOf(k)' = EntriesOf(k)
    BY <2>1 DEF FileOf, EntriesOf
  <2>3. \A k, id : ResolvedPos(id, k)' = ResolvedPos(id, k)
    BY <2>1 DEF ResolvedPos
  <2>4. \A raw, k, subset : ResolveInfo(raw, k, subset)' = ResolveInfo(raw, k, subset)
    <3>1. ASSUME NEW raw, NEW k, NEW subset
          PROVE  ResolveInfo(raw, k, subset)' = ResolveInfo(raw, k, subset)
      BY <2>1 DEF ResolveInfo, ResolvedPos, ResolveRef
    <3> QED BY <3>1
  <2>5. \A k, entry, subset : WordInfo(k, entry, subset)' = WordInfo(k, entry, subset)
    BY <2>2, <2>4 DEF WordInfo
  <2>6. CASE answer' = answer
    BY <1>1, <2>1, <2>2, <2>5, <2>6 DEF AnswerGiven
  <2>7. CASE \E dict \in Merged : \E entry \in EntriesOf(dict) : \E subset \in Subsets :
               Ask(dict, entry, subset)
    <3>0. PICK dict \in Merged : \E entry \in EntriesOf(dict) : \E subset \in Subsets :
            Ask(dict, entry, subset)
      BY <2>7
    <3>1. PICK entry \in EntriesOf(dict) : \E subset \in Subsets : Ask(dict, entry, subset)
      BY <3>0
    <3> PICK subset \in Subsets : Ask(dict, entry, subset)
      BY <3>1
    <3>2. answer' = [dict |-> dict, entry |-> entry, subset |-> subset,
                     info |-> WordInfo(dict, entry, subset)]
      BY DEF Ask
    <3>3. /\ answer'.dict = dict /\ answer'.entry = entry /\ answer'.subset = subset
          /\ answer'.info = WordInfo(dict, entry, subset)
      BY <3>2
    <3> QED BY <2>1, <2>2, <2>5, <3>3 DEF AnswerGiven
  <2>8. StartScan \/ NextWordId \/ UNCHANGED questions => answer' = answer
    BY DEF StartScan, NextWordId, questions
  <2> QED BY <1>3, <2>6, <2>7, <2>8, AskedWhenReady
<1> QED BY <1>2, <1>3, AskedWhenReady

LEMMA MergedWords ==
  ASSUME IInv, FilesLoaded, NEW k \in Merged
  PROVE  /\ WordsAt(FileOf(k), EntryIds(FileOf(k).written), Len(FileOf(k).written))
         /\ BuiltOn(FileOf(k), config.system) /\ Readable(FileOf(k)) /\ k \in Nat
         /\ 0 \in Merged
<1>1. BuiltOn(FileOf(k), config.system) /\ Readable(FileOf(k))
  BY MergedAreBuilt
<1>2. k \in Nat /\ 0 \in Merged
  BY DEF IInv, TypeOK, Merged
<1> QED BY <1>1, <1>2, WordsOf

LEMMA StartScanStep ==
  ASSUME ReadInv, StartScan PROVE ScanKept'
<1> DEFINE file == FileOf(0)
<1>1. IInv /\ FilesLoaded /\ ScanKept /\ phase = "ready" /\ cursor = NoCursor
  BY DEF ReadInv, StartScan, Asked
<1>2. seen = <<>> /\ IsSeq(seen)
  BY <1>1 DEF ScanKept
<1>3. cursor' = [dict |-> 0, left |-> file.public, offset |-> InitialOffset]
  BY DEF StartScan, CursorOf, ScanFrom
<1>4. UNCHANGED <<config, phase, posOffsets>> /\ seen' = seen
  BY DEF StartScan, dictionary
<1>5. 0 \in Merged
  BY <1>1 DEF IInv, LoadedByPhase, TypeOK, Merged
<1>6. /\ file.public \in Nat
      /\ Offsets(file.written)[1] = InitialOffset
  BY <1>1, <1>5, MergedWords DEF WordsAt, AreOffsets
<1>7. Merged' = Merged /\ \A k : FileOf(k)' = FileOf(k)
  BY <1>4 DEF Merged, FileOf
<1> HIDE DEF file
<1>8. /\ cursor'.dict = 0 /\ cursor'.left = file.public /\ cursor'.offset = InitialOffset
      /\ FileOf(cursor.dict)' = file
  <2>1. cursor'.dict = 0 /\ cursor'.left = file.public /\ cursor'.offset = InitialOffset
    BY <1>3
  <2>2. FileOf(cursor.dict)' = file
    BY <1>4, <2>1 DEF FileOf, file
  <2> QED BY <2>1, <2>2
<1>9. CursorPlaced'
  <2>1. file.public - file.public + 1 = 1 /\ file.public \in 0..file.public
    BY <1>6
  <2> QED BY <1>1, <1>3, <1>4, <1>5, <1>6, <1>7, <1>8, <2>1 DEF CursorPlaced
<1>10. DOMAIN seen' = {}
  BY <1>2, <1>4
<1>11. SeenInOrder'
  BY <1>10 DEF SeenInOrder
<1>12. SeenSoFar'
  <2>1. ASSUME NEW k \in Merged PROVE GivenOf(k)' = {} /\ 1..DueOf(k)' = {}
    <3>1. GivenOf(k)' = {}
      BY <1>10 DEF GivenOf
    <3>2. k \in Nat
      BY <1>1, MergedWords
    <3>3. DueOf(k)' = 0
      <4>1. CASE k = 0
        <5>1. FileOf(k)' = file /\ ~(k < 0) /\ file.public - file.public = 0
          BY <1>6, <1>7, <4>1 DEF file
        <5> QED BY <1>8, <4>1, <5>1 DEF DueOf
      <4>2. CASE k # 0
        <5>1. ~(k < 0)
          BY <3>2
        <5> QED BY <1>8, <4>2, <5>1 DEF DueOf
      <4> QED BY <4>1, <4>2
    <3> QED BY <3>1, <3>3
  <2>2. \A k \in Merged : GivenOf(k)' = {EntryIds(FileOf(k).written)[i] : i \in 1..DueOf(k)}'
    <3>1. ASSUME NEW k \in Merged
          PROVE  GivenOf(k)' = {EntryIds(FileOf(k).written)[i] : i \in 1..DueOf(k)}'
      <4>1. {EntryIds(FileOf(k).written)[i] : i \in 1..DueOf(k)}' = {}
        BY <2>1
      <4> QED BY <2>1, <4>1
    <3> QED BY <3>1
  <2> QED BY <1>7, <1>10, <2>2 DEF SeenSoFar
<1>13. cursor' # NoCursor
  BY <1>3 DEF NoCursor
<1> QED BY <1>2, <1>4, <1>9, <1>11, <1>12, <1>13 DEF ScanKept, NoCursor

(* What was given before is of the dictionaries before the cursor or of    *)
(* its own before its place.                                               *)
LEMMA SeenBefore ==
  ASSUME ReadInv, cursor # NoCursor, NEW j \in DOMAIN seen
  PROVE  LET file == FileOf(cursor.dict)
         IN  \/ seen[j].dict < cursor.dict
             \/ /\ seen[j].dict = cursor.dict
                /\ \E i \in 1..(file.public - cursor.left) : seen[j].entry = EntryIds(file.written)[i]
<1>1. IInv /\ FilesLoaded /\ CursorPlaced /\ SeenSoFar /\ seen[j].dict \in Merged
  BY DEF ReadInv, ScanKept, SeenSoFar
<1> DEFINE k == seen[j].dict
<1>2. k \in Nat /\ cursor.dict \in Nat
  BY <1>1, MergedWords DEF CursorPlaced
<1>3. seen[j].entry \in GivenOf(k)
  BY DEF GivenOf
<1>4. seen[j].entry \in {EntryIds(FileOf(k).written)[i] : i \in 1..DueOf(k)}
  BY <1>1, <1>3 DEF SeenSoFar
<1> HIDE DEF k
<1>5. CASE k = cursor.dict
  <2>1. DueOf(k) = FileOf(k).public - cursor.left
    BY <1>2, <1>5 DEF DueOf
  <2> QED BY <1>4, <1>5, <2>1 DEF k
<1>6. CASE k > cursor.dict
  <2>1. DueOf(k) = 0
    BY <1>2, <1>6 DEF DueOf
  <2>2. 1..DueOf(k) = {}
    BY <2>1
  <2> QED BY <1>4, <2>2
<1> QED BY <1>2, <1>5, <1>6 DEF k

(* A cursor is a record, and so is the one it is moved to.                 *)
CursorIs(c, d, left, offset) == c = [dict |-> d, left |-> left, offset |-> offset]
MovesTo(c, d, newLeft, newOffset) ==
  CursorIs([c EXCEPT !.left = newLeft, !.offset = newOffset], d, newLeft, newOffset)

LEMMA MovedCursor ==
  ASSUME NEW c, NEW d, NEW left, NEW offset, CursorIs(c, d, left, offset),
         NEW newLeft, NEW newOffset
  PROVE  MovesTo(c, d, newLeft, newOffset)
<1> DEFINE r == [c EXCEPT !.left = newLeft, !.offset = newOffset]
<1>1. c \in [dict : {d}, left : {left, newLeft}, offset : {offset, newOffset}]
  BY DEF CursorIs
<1>2. r \in [dict : {d}, left : {left, newLeft}, offset : {offset, newOffset}]
  BY <1>1
<1>3. r.dict = d /\ r.left = newLeft /\ r.offset = newOffset
  BY <1>1
<1> HIDE DEF r
<1>4. r = [dict |-> d, left |-> newLeft, offset |-> newOffset]
  BY <1>2, <1>3
<1> QED BY <1>4 DEF r, MovesTo, CursorIs


LEMMA GivenAndMoved ==
  ASSUME ReadInv, NextWordId, cursor.left > 0
  PROVE  LET at == FileOf(cursor.dict).block.at
             next == cursor.offset + StoredSize(at[cursor.offset])
         IN  /\ cursor.offset \in DOMAIN at
             /\ cursor' = [dict |-> cursor.dict, left |-> cursor.left - 1, offset |-> next]
             /\ seen' = Append(seen, [dict |-> cursor.dict, entry |-> EntryId(cursor.offset)])
<1> DEFINE block == FileOf(cursor.dict).block
           scanned == Scanned(block, [left |-> cursor.left, offset |-> cursor.offset])
<1>1. cursor = [dict |-> cursor.dict, left |-> cursor.left, offset |-> cursor.offset]
  BY DEF ReadInv, ScanKept, NextWordId, CursorPlaced
<1>2. ~(cursor.left = 0)
  BY DEF ReadInv, ScanKept, NextWordId, CursorPlaced
<1>3. /\ cursor.offset \in DOMAIN block.at
      /\ cursor' = [cursor EXCEPT !.left = scanned.left, !.offset = scanned.offset]
      /\ seen' = Append(seen, [dict |-> cursor.dict, entry |-> EntryId(cursor.offset)])
  BY <1>2 DEF NextWordId
<1>4. /\ scanned.left = cursor.left - 1
      /\ scanned.offset = cursor.offset + StoredSize(block.at[cursor.offset])
  BY DEF Scanned
<1> HIDE DEF scanned, block
<1>5. [cursor EXCEPT !.left = scanned.left, !.offset = scanned.offset]
        = [dict |-> cursor.dict, left |-> scanned.left, offset |-> scanned.offset]
  <2> DEFINE d == cursor.dict
             left == cursor.left
             offset == cursor.offset
             newLeft == scanned.left
             newOffset == scanned.offset
  <2>1. CursorIs(cursor, d, left, offset)
    BY <1>1 DEF CursorIs
  <2> HIDE DEF d, left, offset, newLeft, newOffset
  <2>2. MovesTo(cursor, d, newLeft, newOffset)
    BY <2>1, MovedCursor
  <2> QED BY <2>2 DEF MovesTo, CursorIs, d, newLeft, newOffset
<1> QED BY <1>3, <1>4, <1>5 DEF block

(* The entry at the cursor is given, and the cursor moves behind it.       *)
LEMMA GiveStep ==
  ASSUME ReadInv, NextWordId, cursor.left > 0
  PROVE  ScanKept'
<1> DEFINE d == cursor.dict
           file == FileOf(d)
           left == cursor.left
           n == Len(file.written)
           begins == Offsets(file.written)
           ids == EntryIds(file.written)
           i == file.public - left + 1
<1>1. /\ IInv /\ FilesLoaded /\ CursorPlaced /\ SeenInOrder /\ SeenSoFar /\ IsSeq(seen)
      /\ cursor # NoCursor
  BY DEF ReadInv, ScanKept, NextWordId
<1>2. /\ d \in Merged /\ left \in 0..file.public /\ phase = "ready"
      /\ cursor = [dict |-> d, left |-> left, offset |-> cursor.offset]
      /\ cursor.offset = begins[i]
  BY <1>1 DEF CursorPlaced
<1>3. WordsAt(file, ids, n) /\ d \in Nat
  BY <1>1, <1>2, MergedWords
<1>4. /\ i \in 1..file.public /\ i \in 1..n /\ i \in 1..(n + 1) /\ i + 1 \in 1..(n + 1)
      /\ left - 1 \in 0..file.public /\ file.public - (left - 1) + 1 = i + 1
      /\ file.public - (left - 1) = i /\ file.public - left = i - 1 /\ i \in Nat
  <2>1. n \in Nat /\ file.public \in 0..n /\ left > 0
    BY <1>3 DEF WordsAt
  <2> HIDE DEF n, file, left
  <2> QED BY <1>2, <2>1
<1>5. /\ begins[i] = ids[i] * Alignment /\ begins[i + 1] = begins[i] + EntrySize(file.written[i])
      /\ ids[i] \in Nat /\ file.block.at[begins[i]] = Stored(file.written[i])
      /\ IsEntry(file.written[i])
  <2> HIDE DEF i, n, ids, file, begins
  <2> QED BY <1>3, <1>4 DEF WordsAt, AreOffsets, AreEntries, begins, n
<1>6. StoredSize(file.block.at[begins[i]]) = EntrySize(file.written[i])
  BY <1>5, SameSize
<1>7. EntryId(cursor.offset) = ids[i]
  <2> HIDE DEF i, ids
  <2> QED BY <1>2, <1>5 DEF EntryId, Alignment
<1>8. cursor' = [dict |-> d, left |-> left - 1, offset |-> begins[i + 1]]
  <2>1. cursor' = [dict |-> d, left |-> left - 1,
                   offset |-> cursor.offset + StoredSize(file.block.at[cursor.offset])]
    BY GivenAndMoved
  <2>2. cursor.offset + StoredSize(file.block.at[cursor.offset]) = begins[i + 1]
    BY <1>2, <1>5, <1>6
  <2> HIDE DEF i, begins, file, d, left
  <2> QED BY <2>1, <2>2
<1> DEFINE new == [dict |-> d, entry |-> ids[i]]
<1>9. seen' = Append(seen, new)
  BY <1>7, GivenAndMoved
<1>0. UNCHANGED <<config, phase, posOffsets>>
  BY DEF NextWordId, dictionary
<1>10. Merged' = Merged /\ \A k : FileOf(k)' = FileOf(k)
  BY <1>0 DEF Merged, FileOf
<1>11. cursor'.dict = d /\ cursor'.left = left - 1 /\ cursor'.offset = begins[i + 1]
  <2> HIDE DEF i, begins, file, d, left
  <2> QED BY <1>8
<1>12. FileOf(cursor.dict)' = file
  BY <1>10, <1>11 DEF FileOf
<1> DEFINE len == Len(seen)
<1>13. /\ IsSeq(seen') /\ len \in Nat /\ DOMAIN seen = 1..len /\ DOMAIN seen' = 1..(len + 1)
       /\ seen'[len + 1] = new /\ \A j \in 1..len : seen'[j] = seen[j]
  <2> HIDE DEF new
  <2> QED BY <1>1, <1>9, AppendSeq
<1>14. new.dict = d /\ new.entry = ids[i]
  OBVIOUS
<1>15. \A j \in 1..len : \/ seen[j].dict < d
                         \/ seen[j].dict = d /\ \E m \in 1..(i - 1) : seen[j].entry = ids[m]
  <2>1. ASSUME NEW j \in 1..len
        PROVE  \/ seen[j].dict < d
               \/ seen[j].dict = d /\ \E m \in 1..(i - 1) : seen[j].entry = ids[m]
    <3>1. \/ seen[j].dict < d
          \/ seen[j].dict = d /\ \E m \in 1..(file.public - left) : seen[j].entry = ids[m]
      BY <1>1, <1>13, SeenBefore
    <3> QED BY <1>4, <3>1
  <2> QED BY <2>1
<1>16. \A m \in 1..(i - 1) : ids[m] < ids[i]
  <2> HIDE DEF i, n, ids, file
  <2>1. \A m \in 1..(i - 1) : m \in 1..n /\ m < i
    BY <1>3, <1>4 DEF WordsAt
  <2> QED BY <1>3, <1>4, <2>1 DEF WordsAt, AreOffsets
<1> HIDE DEF d, file, left, n, begins, ids, i, new, len
<1>17. CursorPlaced'
  BY <1>0, <1>2, <1>4, <1>8, <1>10, <1>11, <1>12 DEF CursorPlaced, begins
<1>18. SeenInOrder'
  <2>1. ASSUME NEW p \in 1..(len + 1), NEW q \in 1..(len + 1), p < q
        PROVE  \/ seen'[p].dict < seen'[q].dict
               \/ seen'[p].dict = seen'[q].dict /\ seen'[p].entry < seen'[q].entry
    <3>1. p \in 1..len /\ (q \in 1..len \/ q = len + 1)
      BY <1>13, <2>1
    <3>2. CASE q \in 1..len
      BY <1>1, <1>13, <2>1, <3>1, <3>2 DEF SeenInOrder
    <3>3. CASE q = len + 1
      BY <1>13, <1>14, <1>15, <1>16, <3>1, <3>3
    <3> QED BY <3>1, <3>2, <3>3
  <2> QED BY <1>13, <2>1 DEF SeenInOrder
<1>19. SeenSoFar'
  <2>1. \A j \in DOMAIN seen' : seen'[j].dict \in Merged
    <3>1. ASSUME NEW j \in 1..(len + 1) PROVE seen'[j].dict \in Merged
      <4>1. j \in 1..len \/ j = len + 1
        BY <1>13
      <4> QED BY <1>1, <1>2, <1>13, <1>14, <4>1 DEF SeenSoFar
    <3> QED BY <1>13, <3>1
  <2>2. ASSUME NEW k \in Merged
        PROVE  GivenOf(k)' = {EntryIds(FileOf(k).written)[m] : m \in 1..DueOf(k)}'
    <3>1. k \in Nat
      BY <1>1, MergedWords
    <3>2. GivenOf(k) = {EntryIds(FileOf(k).written)[m] : m \in 1..DueOf(k)}
      BY <1>1 DEF SeenSoFar
    <3>3. GivenOf(k)' = {seen'[j].entry : j \in {j \in 1..(len + 1) : seen'[j].dict = k}}
      BY <1>13 DEF GivenOf
    <3>4. GivenOf(k) = {seen[j].entry : j \in {j \in 1..len : seen[j].dict = k}}
      BY <1>13 DEF GivenOf
    <3>5. CASE k # d
      <4>1. DueOf(k)' = DueOf(k)
        BY <1>10, <1>11, <3>5 DEF DueOf, d
      <4>2. GivenOf(k)' = GivenOf(k)
        <5>1. \A j \in 1..(len + 1) : seen'[j].dict = k => j \in 1..len
          BY <1>13, <1>14, <3>5
        <5>2. \A j \in 1..len : j \in 1..(len + 1)
          BY <1>13
        <5> QED BY <1>13, <3>3, <3>4, <5>1, <5>2
      <4> QED BY <1>10, <3>2, <4>1, <4>2
    <3>6. CASE k = d
      <4>1. FileOf(k) = file /\ DueOf(k) = i - 1
        <5>1. FileOf(k) = file
          BY <3>6 DEF file
        <5>2. DueOf(k) = file.public - left
          BY <1>3, <3>6, <5>1 DEF DueOf, d, left
        <5> QED BY <1>4, <5>1, <5>2
      <4>2. DueOf(k)' = i
        <5>1. DueOf(k)' = file.public - (left - 1)
          BY <1>3, <1>10, <1>11, <3>6, <4>1 DEF DueOf
        <5> QED BY <1>4, <5>1
      <4>3. GivenOf(k)' = GivenOf(k) \cup {ids[i]}
        <5>1. \A j \in 1..len : j \in 1..(len + 1) /\ seen'[j] = seen[j]
          BY <1>13
        <5>2. \A j \in 1..(len + 1) : j \in 1..len \/ j = len + 1
          BY <1>13
        <5>3. len + 1 \in 1..(len + 1) /\ seen'[len + 1].dict = k /\ seen'[len + 1].entry = ids[i]
          BY <1>13, <1>14, <3>6
        <5>4. ASSUME NEW x \in GivenOf(k)' PROVE x \in GivenOf(k) \cup {ids[i]}
          BY <3>3, <3>4, <5>1, <5>2, <5>3, <5>4
        <5>5. ASSUME NEW x \in GivenOf(k) PROVE x \in GivenOf(k)'
          BY <3>3, <3>4, <5>1, <5>5
        <5>6. ids[i] \in GivenOf(k)'
          BY <3>3, <5>3
        <5> QED BY <5>4, <5>5, <5>6
      <4>4. 1..i = 1..(i - 1) \cup {i}
        BY <1>4
      <4>5. GivenOf(k) = {ids[m] : m \in 1..(i - 1)}
        BY <3>2, <4>1 DEF ids
      <4>6. GivenOf(k)' = {ids[m] : m \in 1..i}
        BY <4>3, <4>4, <4>5
      <4>7. FileOf(k)' = file
        BY <1>10, <4>1
      <4> QED BY <4>2, <4>6, <4>7 DEF ids
    <3> QED BY <3>5, <3>6
  <2> QED BY <1>10, <2>1, <2>2 DEF SeenSoFar
<1>20. cursor' # NoCursor
  <2>1. cursor'.dict \in Nat
    BY <1>3, <1>11
  <2>2. NoCursor.dict = -1
    BY DEF NoCursor
  <2> QED BY <2>1, <2>2
<1> QED BY <1>13, <1>17, <1>18, <1>19, <1>20 DEF ScanKept, NoCursor

(* All public entries of a dictionary were given: the cursor is put at the *)
(* first of the next one.                                                  *)
LEMMA NextDictionaryStep ==
  ASSUME ReadInv, NextWordId, cursor.left = 0, cursor.dict + 1 \in Merged,
         UNCHANGED <<config, phase, posOffsets, seen>>, cursor' = CursorOf(cursor.dict + 1)
  PROVE  ScanKept'
<1> DEFINE d == cursor.dict
           e == d + 1
           file == FileOf(e)
<1>1. /\ IInv /\ FilesLoaded /\ CursorPlaced /\ SeenInOrder /\ SeenSoFar /\ IsSeq(seen)
      /\ cursor # NoCursor
  BY DEF ReadInv, ScanKept, NextWordId
<1>2. d \in Merged /\ e \in Merged /\ d \in Nat /\ e \in Nat /\ phase = "ready"
  BY <1>1, MergedWords DEF CursorPlaced
<1>3. cursor' = [dict |-> e, left |-> file.public, offset |-> InitialOffset]
  BY DEF CursorOf, ScanFrom
<1>4. file.public \in Nat /\ Offsets(file.written)[1] = InitialOffset
  BY <1>1, <1>2, MergedWords DEF WordsAt, AreOffsets
<1>5. Merged' = Merged /\ \A k : FileOf(k)' = FileOf(k)
  BY DEF Merged, FileOf
<1>6. FileOf(d).public \in Nat /\ cursor.left = 0
  BY <1>1, <1>2, MergedWords DEF WordsAt
<1> HIDE DEF file, d, e
<1>7. cursor'.dict = e /\ cursor'.left = file.public /\ cursor'.offset = InitialOffset
  BY <1>3
<1>8. FileOf(cursor.dict)' = file
  BY <1>5, <1>7 DEF file, FileOf
<1>9. CursorPlaced'
  <2>1. file.public - file.public + 1 = 1 /\ file.public \in 0..file.public
    BY <1>4
  <2> QED BY <1>2, <1>3, <1>4, <1>5, <1>7, <1>8, <2>1 DEF CursorPlaced
<1>10. SeenInOrder'
  BY <1>1 DEF SeenInOrder
<1>11. SeenSoFar'
  <2>1. ASSUME NEW k \in Merged
        PROVE  GivenOf(k)' = {EntryIds(FileOf(k).written)[m] : m \in 1..DueOf(k)}'
    <3>1. k \in Nat
      BY <1>1, MergedWords
    <3>2. GivenOf(k) = {EntryIds(FileOf(k).written)[m] : m \in 1..DueOf(k)}
      BY <1>1 DEF SeenSoFar
    <3>3. GivenOf(k)' = GivenOf(k)
      BY DEF GivenOf
    <3>4. DueOf(k)' = DueOf(k)
      <4>1. CASE k < d
        <5>1. k < e /\ k # d /\ k # e /\ FileOf(k)' = FileOf(k)
          BY <1>2, <1>5, <3>1, <4>1 DEF e
        <5>2. DueOf(k) = FileOf(k).public
          BY <4>1, <5>1 DEF DueOf, d
        <5>3. DueOf(k)' = FileOf(k)'.public
          BY <1>7, <5>1 DEF DueOf
        <5> QED BY <5>1, <5>2, <5>3
      <4>2. CASE k = d
        <5>1. k < e /\ ~(k < d) /\ FileOf(k).public - 0 = FileOf(k).public
          BY <1>2, <1>6, <4>2 DEF e
        <5> QED BY <1>5, <1>6, <1>7, <4>2, <5>1 DEF DueOf, d
      <4>3. CASE k = e
        <5>1. ~(k < e) /\ ~(k < d) /\ k # d /\ file.public - file.public = 0
          BY <1>2, <1>4, <4>3 DEF e
        <5>2. FileOf(k)' = file
          BY <1>5, <4>3 DEF file
        <5> QED BY <1>7, <4>3, <5>1, <5>2 DEF DueOf, d
      <4>4. CASE k > e
        <5>1. ~(k < e) /\ ~(k < d) /\ k # d /\ k # e
          BY <1>2, <3>1, <4>4 DEF e
        <5> QED BY <1>7, <5>1 DEF DueOf, d
      <4>5. k < d \/ k = d \/ k = e \/ k > e
        BY <1>2, <3>1 DEF e
      <4> QED BY <4>1, <4>2, <4>3, <4>4, <4>5
    <3> QED BY <1>5, <3>2, <3>3, <3>4
  <2>2. \A j \in DOMAIN seen' : seen'[j].dict \in Merged'
    BY <1>1, <1>5 DEF SeenSoFar
  <2> QED BY <1>5, <2>1, <2>2 DEF SeenSoFar
<1>12. cursor' # NoCursor
  <2>1. NoCursor.dict = -1
    BY DEF NoCursor
  <2> QED BY <1>2, <1>7, <2>1
<1> QED BY <1>1, <1>9, <1>10, <1>11, <1>12 DEF ScanKept, NoCursor

LEMMA ScanStep ==
  ASSUME ReadInv, [Next]_vars PROVE ScanKept'
<1>1. ScanKept
  BY DEF ReadInv
<1>2. CASE phase # "ready" /\ cursor = NoCursor /\ UNCHANGED questions
  <2>1. cursor' = NoCursor' /\ seen' = seen
    BY <1>2 DEF questions, NoCursor
  <2> QED BY <1>1, <1>2, <2>1 DEF ScanKept
<1>3. CASE phase = "ready" /\ UNCHANGED dictionary
  <2>1. UNCHANGED <<config, phase, posOffsets>>
    BY <1>3 DEF dictionary
  <2>2. CASE UNCHANGED <<cursor, seen>>
    <3>1. Merged' = Merged /\ \A k : FileOf(k)' = FileOf(k)
      BY <2>1 DEF Merged, FileOf
    <3>2. CursorPlaced' = CursorPlaced /\ SeenInOrder' = SeenInOrder
      BY <2>1, <2>2, <3>1 DEF CursorPlaced, SeenInOrder, FileOf
    <3>3. \A k : GivenOf(k)' = GivenOf(k) /\ DueOf(k)' = DueOf(k)
      BY <2>2, <3>1 DEF GivenOf, DueOf
    <3>4. SeenSoFar => SeenSoFar'
      BY <2>2, <3>1, <3>3 DEF SeenSoFar
    <3> QED BY <1>1, <2>2, <3>2, <3>4 DEF ScanKept, NoCursor
  <2>3. CASE StartScan
    BY <2>3, StartScanStep
  <2>4. CASE NextWordId
    <3>1. CASE cursor.left > 0
      BY <2>4, <3>1, GiveStep
    <3>2. CASE cursor.left = 0 /\ cursor.dict + 1 \in Merged
               /\ cursor' = CursorOf(cursor.dict + 1) /\ UNCHANGED seen
      BY <2>1, <2>4, <3>2, NextDictionaryStep
    <3> QED BY <2>4, <3>1, <3>2 DEF NextWordId
  <2>5. CASE \E dict \in Merged : \E entry \in EntriesOf(dict) : \E subset \in Subsets :
               Ask(dict, entry, subset)
    BY <2>2, <2>5 DEF Ask
  <2>6. CASE UNCHANGED questions
    BY <2>2, <2>6 DEF questions
  <2> QED BY <1>3, <2>3, <2>4, <2>5, <2>6, AskedWhenReady
<1> QED BY <1>2, <1>3, AskedWhenReady

---------------------------------------------------------------------------
(* What the answers say.                                                   *)

(* Resolution touches the POS and the references alone.                    *)
LEMMA ResolvedFields ==
  ASSUME NEW raw, DOMAIN raw = Field, raw = [f \in Field |-> raw[f]], NEW k, NEW subset
  PROVE  LET info == ResolveInfo(raw, k, subset)
         IN  /\ "pos" \in subset => info.pos = ResolvedPos(raw.pos, k)
             /\ \A f \in {"norm", "dic"} : f \in subset => info[f] = ResolveRef(raw[f], k)
             /\ \A f \in UnitFields :
                  f \in subset => info[f] = [m \in DOMAIN raw[f] |-> ResolveRef(raw[f][m], k)]
             /\ \A f \in {"headword", "reading", "form", "syn", "user"} : info[f] = raw[f]
  BY DEF ResolveInfo, Field, UnitFields

(* The answer for a word of a dictionary is the entry that was written,    *)
(* resolved.                                                               *)
LEMMA WordInfoIs ==
  ASSUME NEW file, NEW ids, NEW n, WordsAt(file, ids, n), NEW i \in 1..n, NEW k, FileOf(k) = file,
         NEW subset
  PROVE  LET e == file.written[i]
             info == WordInfo(k, ids[i], subset)
         IN  /\ "pos" \in subset => info.pos = ResolvedPos(e.pos, k)
             /\ \A f \in {"norm", "dic"} : f \in subset => info[f] = ResolveRef(e[f], k)
             /\ \A f \in UnitFields :
                  f \in subset => info[f] = [m \in DOMAIN e[f] |-> ResolveRef(e[f][m], k)]
             /\ \A f \in {"headword", "reading", "form", "syn", "user"} :
                  f \in subset => info[f] = e[f]
<1> DEFINE e == file.written[i]
           raw == ParseInfo(Stored(e), subset)
<1>1. IsEntry(e) /\ file.block.at[ids[i] * Alignment] = Stored(e)
  BY DEF WordsAt, AreEntries
<1>2. WordInfo(k, ids[i], subset) = ResolveInfo(raw, k, subset)
  BY <1>1 DEF WordInfo
<1>3. DOMAIN raw = Field /\ raw = [f \in Field |-> raw[f]]
  <2>1. DOMAIN raw = Field
    BY Zenon DEF ParseInfo
  <2> DEFINE wanted == NormalizedSubset(subset)
             units == ReadUnits(Stored(e), ReadPlan(wanted))
             synonyms == SubSeq(Stored(e).payload, units.at + 1, units.at + Stored(e).fixed.lens.syn)
             value(f) ==
               CASE f \in FixedField -> IF f \in wanted THEN Stored(e).fixed[f] ELSE NoInfo[f]
                 [] f \in UnitFields -> units[f]
                 [] f = "syn" -> IF f \in wanted THEN Len(synonyms) ELSE 0
                 [] f = "user" -> IF f \in wanted /\ Stored(e).fixed.hasUser THEN Stored(e).tail ELSE 0
  <2>2. raw = [f \in Field |-> value(f)]
    BY Zenon DEF ParseInfo
  <2> HIDE DEF raw, value
  <2> QED BY <2>1, <2>2
<1>4. \A f \in subset \cap Field : raw[f] = e[f]
  BY <1>1, ParsedAsWritten
<1>5. /\ "pos" \in Field /\ {"norm", "dic"} \subseteq Field /\ UnitFields \subseteq Field
      /\ {"headword", "reading", "form", "syn", "user"} \subseteq Field
  BY DEF Field, UnitFields
<1> DEFINE info == ResolveInfo(raw, k, subset)
<1>6. /\ "pos" \in subset => info.pos = ResolvedPos(raw.pos, k)
      /\ \A f \in {"norm", "dic"} : f \in subset => info[f] = ResolveRef(raw[f], k)
      /\ \A f \in UnitFields :
           f \in subset => info[f] = [m \in DOMAIN raw[f] |-> ResolveRef(raw[f][m], k)]
      /\ \A f \in {"headword", "reading", "form", "syn", "user"} : info[f] = raw[f]
  <2> HIDE DEF raw
  <2> QED BY <1>3, ResolvedFields
<1> HIDE DEF raw, e, info
<1>7. "pos" \in subset => info.pos = ResolvedPos(e.pos, k)
  BY <1>4, <1>5, <1>6
<1>8. \A f \in {"norm", "dic"} : f \in subset => info[f] = ResolveRef(e[f], k)
  BY <1>4, <1>5, <1>6
<1>9. \A f \in UnitFields :
        f \in subset => info[f] = [m \in DOMAIN e[f] |-> ResolveRef(e[f][m], k)]
  <2>1. ASSUME NEW f \in UnitFields, f \in subset
        PROVE  info[f] = [m \in DOMAIN e[f] |-> ResolveRef(e[f][m], k)]
    <3>1. raw[f] = e[f]
      BY <1>4, <1>5, <2>1
    <3> QED BY <1>6, <2>1, <3>1
  <2> QED BY <2>1
<1>10. \A f \in {"headword", "reading", "form", "syn", "user"} : f \in subset => info[f] = e[f]
  BY <1>4, <1>5, <1>6
<1> QED BY <1>2, <1>7, <1>8, <1>9, <1>10 DEF e, info, raw

LEMMA EntriesAre ==
  ASSUME IInv, FilesLoaded, NEW k \in Merged
  PROVE  EntriesOf(k) = {EntryIds(FileOf(k).written)[i] : i \in 1..Len(FileOf(k).written)}
  BY MergedWords DEF EntriesOf, WordsAt

(* A reference that was built to lead to a headword leads there from the   *)
(* dictionary the file became: one to the own dictionary goes along with   *)
(* it.                                                                     *)
LEMMA ReferencesLead ==
  ASSUME IInv, FilesLoaded, NEW k \in Merged, NEW ref \in WordReference, NEW headword,
         ref.dict = 1 => FileOf(k).isUser, LeadsIn(FileOf(k), config.system, ref, headword)
  PROVE  Leads(ResolveRef(ref, k)) /\ HeadwordOf(ResolveRef(ref, k)) = headword
<1> DEFINE own == ref.dict = 1
           target == IF own THEN k ELSE 0
           file == FileOf(target)
           ids == EntryIds(file.written)
           n == Len(file.written)
           to == ResolveRef(ref, k)
<1>1. 0 \in Merged /\ target \in Merged
  BY MergedWords
<1>2. WordsAt(file, ids, n) /\ EntriesOf(target) = {ids[i] : i \in 1..n}
  BY <1>1, MergedWords, EntriesAre
<1>3. (IF own THEN FileOf(k) ELSE config.system) = file
  BY DEF FileOf
<1>4. PICK i \in 1..n : ids[i] = ref.entry /\ file.written[i].headword = headword
  <2>1. \E i \in DOMAIN file.written : ids[i] = ref.entry /\ file.written[i].headword = headword
    BY <1>3 DEF LeadsIn
  <2>2. DOMAIN file.written = 1..n
    BY <1>2 DEF WordsAt, AreEntries
  <2> QED BY <2>1, <2>2
<1>5. to.dict = target /\ to.entry = ref.entry
  <2>1. ref.dict \in {0, 1} /\ ref = [dict |-> ref.dict, entry |-> ref.entry]
    BY DEF WordReference
  <2>2. CASE own
    <3>1. to = [ref EXCEPT !.dict = k]
      BY <2>2 DEF ResolveRef
    <3>2. to.dict = k /\ to.entry = ref.entry
      BY <3>1 DEF WordReference
    <3> QED BY <2>2, <3>2
  <2>3. CASE ~own
    <3>1. ref.dict = 0
      BY <2>1, <2>3
    <3> QED BY <2>3, <3>1 DEF ResolveRef
  <2> QED BY <2>2, <2>3
<1>6. Leads(to)
  <2> HIDE DEF to, target, ids, n, file
  <2>1. ref.entry \in EntriesOf(target)
    BY <1>2, <1>4
  <2> QED BY <1>1, <1>5, <2>1 DEF Leads
<1>7. HeadwordOf(to) = headword
  <2>1. HeadwordOf(to) = WordInfo(target, ids[i], {"headword"}).headword
    <3> HIDE DEF to, target, ids, n, file
    <3> QED BY <1>4, <1>5 DEF HeadwordOf
  <2> HIDE DEF to, target, ids, n
  <2>2. WordInfo(target, ids[i], {"headword"})["headword"] = file.written[i]["headword"]
    <3> DEFINE info == WordInfo(target, ids[i], {"headword"})
               e == file.written[i]
    <3>1. \A f \in {"headword", "reading", "form", "syn", "user"} :
            f \in {"headword"} => info[f] = e[f]
      <4>1. FileOf(target) = file
        OBVIOUS
      <4> HIDE DEF file
      <4> QED BY <1>2, <1>4, <4>1, WordInfoIs
    <3> HIDE DEF info, e
    <3>2. info["headword"] = e["headword"]
      BY <3>1
    <3> QED BY <3>2 DEF info, e
  <2> QED BY <1>4, <2>1, <2>2
<1> QED BY <1>6, <1>7 DEF to

LEMMA NextReads == ReadInv /\ [Next]_vars => ReadInv'
<1> SUFFICES ASSUME ReadInv, [Next]_vars PROVE ReadInv'
  OBVIOUS
<1>1. IInv'
  BY NextPreserves DEF ReadInv
<1> QED BY <1>1, FilesStep, CostsStep, AnswerStep, ScanStep DEF ReadInv

LEMMA ReadInvariant == Spec => []ReadInv
  BY InitRead, NextReads, PTL DEF Spec

LEMMA CostsFollow == ReadInv => CostsEstimated
<1> SUFFICES ASSUME ReadInv, phase = "ready",
                    NEW k \in Merged \ {0}, NEW id \in ToSet(FileOf(k).table),
                    id \in FileOf(k).unset
             PROVE  costs[k + 1][id] =
                      IF config.plain THEN "unset" ELSE [dicts |-> 0..(k - 1), edited |-> TRUE]
  BY DEF CostsEstimated
<1>1. k \in 1..(Len(posOffsets) - 1) /\ FileOf(k) = config.users[k]
  BY DEF ReadInv, IInv, TypeOK, Merged, FileOf
<1> QED BY <1>1 DEF ReadInv, CostsKept

LEMMA AnswersFollow == ReadInv => AnswersAsBuilt
<1> SUFFICES ASSUME ReadInv, answer # NoAnswer, Len(pos) <= PosIds
             PROVE  LET info == answer.info
                        means == FileOf(answer.dict).means[answer.entry]
                        wanted(f) == f \in answer.subset
                    IN  /\ wanted("pos") => info.pos < Len(pos) /\ pos[info.pos + 1] = means.pos
                        /\ \A f \in {"norm", "dic"} :
                             wanted(f) => Leads(info[f]) /\ HeadwordOf(info[f]) = means[f]
                        /\ \A f \in UnitFields :
                             wanted(f) => /\ Len(info[f]) = Len(means[f])
                                          /\ \A k \in DOMAIN info[f] :
                                               Leads(info[f][k])
                                                 /\ HeadwordOf(info[f][k]) = means[f][k]
                        /\ \A f \in {"headword", "reading", "form", "syn", "user"} :
                             wanted(f) => info[f] = means[f]
  BY DEF AnswersAsBuilt
<1> DEFINE k == answer.dict
           subset == answer.subset
           info == answer.info
           file == FileOf(k)
           ids == EntryIds(file.written)
           n == Len(file.written)
           says == file.means[answer.entry]
<1>1. IInv /\ FilesLoaded /\ PosResolved /\ k \in Merged
  BY PosResolvedFollows DEF ReadInv, AnswerGiven
<1>2. WordsAt(file, ids, n) /\ BuiltOn(file, config.system) /\ (k = 0 <=> ~file.isUser)
  BY <1>1, MergedWords, MergedAreBuilt
<1>3. PICK i \in 1..n : answer.entry = ids[i]
  <2>1. answer.entry \in EntriesOf(k)
    BY DEF ReadInv, AnswerGiven
  <2>2. EntriesOf(k) = {ids[i] : i \in 1..n}
    BY <1>1, EntriesAre
  <2> HIDE DEF ids, n, k
  <2> QED BY <2>1, <2>2
<1> DEFINE e == file.written[i]
<1>4. info = WordInfo(k, ids[i], subset)
  BY <1>3 DEF ReadInv, AnswerGiven
<1>5. /\ "pos" \in subset => info.pos = ResolvedPos(e.pos, k)
      /\ \A f \in {"norm", "dic"} : f \in subset => info[f] = ResolveRef(e[f], k)
      /\ \A f \in UnitFields :
           f \in subset => info[f] = [m \in DOMAIN e[f] |-> ResolveRef(e[f][m], k)]
      /\ \A f \in {"headword", "reading", "form", "syn", "user"} : f \in subset => info[f] = e[f]
  <2>1. FileOf(k) = file
    OBVIOUS
  <2> HIDE DEF file, ids, n, k, subset, info
  <2> QED BY <1>2, <1>4, <2>1, WordInfoIs
<1>6. i \in DOMAIN file.written
  BY <1>2 DEF WordsAt, AreEntries
<1> DEFINE table == IF file.isUser THEN config.system.pos \o file.pos ELSE file.pos
           Leading(ref, headword) ==
             /\ ref \in WordReference /\ (ref.dict = 1 => file.isUser)
             /\ LeadsIn(file, config.system, ref, headword)
<1>7. /\ e.pos \in Nat /\ e.pos < Len(table) /\ table[e.pos + 1] = says.pos
      /\ Leading(e.norm, says.norm) /\ Leading(e.dic, says.dic)
      /\ \A f \in UnitFields :
           /\ e[f] \in Seq(WordReference) /\ Len(e[f]) = Len(says[f])
           /\ \A m \in DOMAIN e[f] : Leading(e[f][m], says[f][m])
      /\ \A f \in {"headword", "reading", "form", "syn", "user"} : e[f] = says[f]
  <2> HIDE DEF k, ids, info, subset, n
  <2>1. says = file.means[ids[i]] /\ ids = EntryIds(file.written)
    BY <1>3 DEF ids
  <2> HIDE DEF says
  <2>2. /\ e.pos \in Nat /\ e.pos < Len(table) /\ table[e.pos + 1] = says.pos
        /\ Leading(e.norm, says.norm) /\ Leading(e.dic, says.dic)
        /\ \A f \in {"headword", "reading", "form", "syn", "user"} : e[f] = says[f]
    BY <1>2, <1>6, <2>1 DEF BuiltOn
  <2>3. \A f \in UnitFields :
          /\ e[f] \in Seq(WordReference) /\ Len(e[f]) = Len(says[f])
          /\ \A m \in DOMAIN e[f] : Leading(e[f][m], says[f][m])
    BY <1>2, <1>6, <2>1 DEF BuiltOn
  <2> QED BY <2>2, <2>3
<1>8. ASSUME NEW ref, NEW headword, Leading(ref, headword)
      PROVE  Leads(ResolveRef(ref, k)) /\ HeadwordOf(ResolveRef(ref, k)) = headword
  BY <1>1, <1>8, ReferencesLead
<1>9. "pos" \in subset => info.pos < Len(pos) /\ pos[info.pos + 1] = says.pos
  <2>1. table = IF k = 0 THEN FileOf(0).pos ELSE FileOf(0).pos \o FileOf(k).pos
    BY <1>2 DEF FileOf
  <2>2. \A id \in 0..(Len(table) - 1) :
          /\ ResolvedPos(id, k) \in 0..(Len(pos) - 1)
          /\ pos[ResolvedPos(id, k) + 1] = table[id + 1]
    <3> HIDE DEF table
    <3> QED BY <1>1, <2>1 DEF PosResolved
  <2>3. Len(table) \in Nat
    <3>1. config.system.pos \in Seq(STRING) /\ (k # 0 => FileOf(k).pos \in Seq(STRING))
      <4>1. k # 0 => k \in 1..(Len(posOffsets) - 1) /\ k \in 1..Len(config.users)
        BY <1>1, Files DEF IInv, TypeOK, PosPlaced, Merged
      <4> QED BY <1>1, <4>1, Files DEF IInv, TypeOK, FileOf
    <3>2. FileOf(0).pos \in Seq(STRING)
      BY <3>1 DEF FileOf
    <3> HIDE DEF k, table
    <3>3. CASE k = 0
      BY <2>1, <3>2, <3>3
    <3>4. CASE k # 0
      <4>1. table = FileOf(0).pos \o FileOf(k).pos
        BY <2>1, <3>4
      <4>2. FileOf(0).pos \o FileOf(k).pos \in Seq(STRING)
        BY <3>1, <3>2, <3>4
      <4>3. table \in Seq(STRING)
        BY <4>1, <4>2
      <4> QED BY <4>3
    <3> QED BY <3>3, <3>4
  <2> HIDE DEF table, e, says, info, subset
  <2>4. e.pos \in 0..(Len(table) - 1)
    BY <1>7, <2>3
  <2>5. Len(pos) \in Nat
    BY <1>1 DEF IInv, TypeOK
  <2>6. /\ ResolvedPos(e.pos, k) \in 0..(Len(pos) - 1)
        /\ pos[ResolvedPos(e.pos, k) + 1] = table[e.pos + 1]
    BY <2>2, <2>4
  <2>7. ResolvedPos(e.pos, k) < Len(pos)
    BY <2>5, <2>6
  <2>8. table[e.pos + 1] = says.pos
    BY <1>7
  <2> QED BY <1>5, <2>6, <2>7, <2>8
<1> HIDE DEF Leading, table
<1>10. \A f \in {"norm", "dic"} :
         f \in subset => Leads(info[f]) /\ HeadwordOf(info[f]) = says[f]
  <2> HIDE DEF e, says, info, subset, k
  <2> QED BY <1>5, <1>7, <1>8
<1>11. ASSUME NEW f \in UnitFields, f \in subset
       PROVE  /\ Len(info[f]) = Len(says[f])
              /\ \A m \in DOMAIN info[f] :
                   Leads(info[f][m]) /\ HeadwordOf(info[f][m]) = says[f][m]
  <2> HIDE DEF e, says, info, subset, k
  <2> DEFINE units == e[f]
  <2>1. /\ info[f] = [m \in DOMAIN units |-> ResolveRef(units[m], k)]
        /\ units \in Seq(WordReference) /\ Len(units) = Len(says[f])
        /\ \A m \in DOMAIN units : Leading(units[m], says[f][m])
    BY <1>5, <1>7, <1>11
  <2> HIDE DEF units
  <2>2. DOMAIN units = 1..Len(units) /\ Len(units) \in Nat
    BY <2>1
  <2>3. Len(info[f]) = Len(units)
    <3> DEFINE g == info[f]
    <3>1. g = [m \in 1..Len(units) |-> ResolveRef(units[m], k)]
      BY <2>1, <2>2
    <3>2. g = [m \in 1..Len(units) |-> g[m]]
      BY <3>1
    <3> HIDE DEF g
    <3> QED BY <2>2, <3>2, MapIsSeq DEF g
  <2>4. \A m \in DOMAIN units :
          Leads(ResolveRef(units[m], k)) /\ HeadwordOf(ResolveRef(units[m], k)) = says[f][m]
    BY <1>8, <2>1
  <2> QED BY <2>1, <2>3, <2>4
<1>12. \A f \in {"headword", "reading", "form", "syn", "user"} : f \in subset => info[f] = says[f]
  <2> HIDE DEF e, says, info, subset
  <2> QED BY <1>5, <1>7
<1> QED BY <1>9, <1>10, <1>11, <1>12

---------------------------------------------------------------------------
(* What the cursor gives.                                                  *)

(* The first entries of a file, as many as there are ids of them.          *)
LEMMA FirstIds ==
  ASSUME NEW n \in Nat, NEW ids \in [1..n -> Nat], \A i, j \in 1..n : i < j => ids[i] < ids[j],
         NEW m \in 0..n
  PROVE  /\ Cardinality({ids[i] : i \in 1..m}) = m
         /\ \A id \in {ids[i] : i \in 1..m} :
              \A other \in {ids[i] : i \in 1..n} \ {ids[i] : i \in 1..m} : id < other
<1> DEFINE first == {ids[i] : i \in 1..m}
           f == [i \in 1..m |-> ids[i]]
<1>1. m \in Nat /\ 1..m \subseteq 1..n
  OBVIOUS
<1>2. \A i, j \in 1..m : ids[i] = ids[j] => i = j
  <2>1. SUFFICES ASSUME NEW i \in 1..m, NEW j \in 1..m, ids[i] = ids[j], i # j PROVE FALSE
    OBVIOUS
  <2>2. ids[i] \in Nat /\ i \in 1..n /\ j \in 1..n
    BY <1>1
  <2>3. i < j \/ j < i
    BY <2>1
  <2> QED BY <2>1, <2>2, <2>3
<1>3. Cardinality(first) = m
  <2>1. f \in [1..m -> first]
    OBVIOUS
  <2>2. \A id \in first : \E i \in 1..m : f[i] = id
    OBVIOUS
  <2>3. \A i, j \in 1..m : f[i] = f[j] => i = j
    BY <1>2
  <2> HIDE DEF first, f
  <2>4. f \in Bijection(1..m, first)
    BY <2>1, <2>2, <2>3 DEF Bijection, Injection, Surjection, IsInjective
  <2>5. ExistsBijection(1..m, first)
    BY <2>4 DEF ExistsBijection
  <2> QED BY <1>1, <2>5, FS_CountingElements
<1>4. ASSUME NEW i \in 1..m, NEW j \in 1..n, ids[j] \notin first PROVE ids[i] < ids[j]
  <2>1. j \notin 1..m
    BY <1>4
  <2> QED BY <1>1, <2>1
<1> QED BY <1>3, <1>4

(* What the cursor is still to give of a dictionary is no more than there  *)
(* is.                                                                     *)
LEMMA DueAtMost ==
  ASSUME IInv, FilesLoaded, CursorPlaced, NEW k \in Merged
  PROVE  DueOf(k) \in 0..Len(FileOf(k).written)
<1>1. \A m \in Merged : Len(FileOf(m).written) \in Nat
                        /\ FileOf(m).public \in 0..Len(FileOf(m).written)
  BY MergedWords DEF WordsAt
<1>2. cursor.dict \in Merged /\ cursor.left \in 0..FileOf(cursor.dict).public
  BY DEF CursorPlaced
<1>3. FileOf(k).public - 0 \in 0..Len(FileOf(k).written)
  BY <1>1
<1>4. k = cursor.dict => FileOf(k).public - cursor.left \in 0..Len(FileOf(k).written)
  BY <1>1, <1>2
<1> QED BY <1>1, <1>4 DEF DueOf

(* An entry that is left can be scanned: the file was scanned when it was  *)
(* loaded.                                                                 *)
LEMMA LeftCanScan ==
  ASSUME IInv, FilesLoaded, CursorPlaced, cursor.left > 0
  PROVE  CanScan(FileOf(cursor.dict).block, [left |-> cursor.left, offset |-> cursor.offset])
<1> DEFINE k == cursor.dict
           file == FileOf(k)
           i == file.public - cursor.left + 1
<1>1. k \in Merged /\ cursor.left \in 0..file.public /\ cursor.offset = Offsets(file.written)[i]
  BY DEF CursorPlaced
<1>2. WordsAt(file, EntryIds(file.written), Len(file.written)) /\ BuiltOn(file, config.system)
  BY <1>1, MergedWords, MergedAreBuilt
<1>3. ValidBoundaries(file.block, file.public)
  <2>1. CASE k = 0
    <3>1. LoadableSystem(config.system)
      BY <1>1 DEF FilesLoaded, IInv, TypeOK, Merged
    <3> QED BY <2>1, <3>1 DEF LoadableSystem, Readable, FileOf
  <2>2. CASE k # 0
    <3>1. k \in 1..(Len(posOffsets) - 1)
      BY <1>1, <2>2 DEF IInv, TypeOK, Merged
    <3>2. LoadableUser(config.users[k], config.system)
      BY <3>1 DEF FilesLoaded
    <3> QED BY <2>2, <3>2 DEF LoadableUser, Readable, FileOf
  <2> QED BY <2>1, <2>2
<1> HIDE DEF k, file
<1>4. file.public \in Nat /\ i \in 1..file.public /\ cursor.left \in Int
  BY <1>1, <1>2 DEF WordsAt
<1> HIDE DEF i
<1> QED BY <1>1, <1>2, <1>3, <1>4, EntriesFit DEF file, k

LEMMA ScanFollows == ReadInv => ScanGivesEntries
<1> SUFFICES ASSUME ReadInv, cursor # NoCursor
             PROVE  /\ SeenInOrder
                    /\ \A i \in DOMAIN seen : seen[i].dict \in Merged
                    /\ \A k \in Merged :
                         /\ GivenOf(k) \subseteq EntriesOf(k) /\ Cardinality(GivenOf(k)) = DueOf(k)
                         /\ \A id \in GivenOf(k) : \A other \in EntriesOf(k) \ GivenOf(k) : id < other
                    /\ cursor.left > 0 =>
                         CanScan(FileOf(cursor.dict).block,
                                 [left |-> cursor.left, offset |-> cursor.offset])
  BY DEF ScanGivesEntries, SeenInOrder, GivenOf, DueOf
<1>1. IInv /\ FilesLoaded /\ CursorPlaced /\ SeenInOrder /\ SeenSoFar
  BY DEF ReadInv, ScanKept
<1>2. ASSUME NEW k \in Merged
      PROVE  /\ GivenOf(k) \subseteq EntriesOf(k) /\ Cardinality(GivenOf(k)) = DueOf(k)
             /\ \A id \in GivenOf(k) : \A other \in EntriesOf(k) \ GivenOf(k) : id < other
  <2> DEFINE ids == EntryIds(FileOf(k).written)
             n == Len(FileOf(k).written)
             due == DueOf(k)
  <2>1. WordsAt(FileOf(k), ids, n) /\ EntriesOf(k) = {ids[i] : i \in 1..n}
    BY <1>1, MergedWords, EntriesAre
  <2>2. GivenOf(k) = {ids[i] : i \in 1..due}
    BY <1>1 DEF SeenSoFar
  <2>3. due \in 0..n
    BY <1>1, DueAtMost
  <2>4. n \in Nat /\ ids \in [1..n -> Nat] /\ \A i, j \in 1..n : i < j => ids[i] < ids[j]
    BY <2>1 DEF WordsAt, AreOffsets
  <2> HIDE DEF ids, n, due
  <2>5. /\ Cardinality({ids[i] : i \in 1..due}) = due
        /\ \A id \in {ids[i] : i \in 1..due} :
             \A other \in {ids[i] : i \in 1..n} \ {ids[i] : i \in 1..due} : id < other
    BY <2>3, <2>4, FirstIds
  <2>6. {ids[i] : i \in 1..due} \subseteq {ids[i] : i \in 1..n}
    BY <2>3, <2>4
  <2> QED BY <2>1, <2>2, <2>5, <2>6 DEF due
<1>3. cursor.left > 0 =>
        CanScan(FileOf(cursor.dict).block, [left |-> cursor.left, offset |-> cursor.offset])
  BY <1>1, LeftCanScan
<1> QED BY <1>1, <1>2, <1>3 DEF SeenSoFar

(* Every word cost that a user dictionary leaves open is estimated with    *)
(* exactly the dictionaries before it and the connection costs as they     *)
(* will be used, for any number of dictionaries and plugins                *)
(* (dictionary.rs:131-163).                                                *)
THEOREM CostsEstimatedCorrect == Spec => []CostsEstimated
  BY ReadInvariant, CostsFollow, PTL

(* For any dictionaries that are as the builder makes them, put together   *)
(* in any configuration: a word says by its id what the row of its lexicon *)
(* said, in every subset of its fields, and the cursor gives every public  *)
(* word of every dictionary once, in order (lexicon_set.rs:172-258).       *)
THEOREM ReadsAsBuiltCorrect == Spec => []ReadsAsBuilt
<1>1. ReadInv => ReadsAsBuilt
  BY AnswersFollow, ScanFollows DEF ReadsAsBuilt
<1> QED BY <1>1, ReadInvariant, PTL
=============================================================================
