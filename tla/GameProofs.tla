------------------------------ MODULE GameProofs ------------------------------
(***************************************************************************)
(* Machine-checked theorems about a game and about its time.               *)
(*                                                                         *)
(* Game: the counts, the maps and the allocations of the resources stay in *)
(* step through every change of scene; the layers of the scene come first, *)
(* those of the scenes before behind them; an object stays where it is.    *)
(* Simulation: both loops keep time for every tick, bound and cost, the    *)
(* pusher keeps its rate and the monitor loses no event, and a character   *)
(* goes, looks and is shown one way for every movement and key frames.     *)
(***************************************************************************)
EXTENDS Game, Simulation, ListLemmas, FiniteSetTheorems, SequenceTheorems, TLAPS

-----------------------------------------------------------------------------
(* The inductive invariant of the game.                                    *)

(* An asset is of a kind that has a factory, and of a scene.               *)
AssetRecords == [uid : Int, name : STRING, kind : Kinds \ {"other"}, scene : SceneNumbers,
                 readable : BOOLEAN, loaded : BOOLEAN, handle : BOOLEAN]
Losses == [kind : Kinds, shared : BOOLEAN]

(* What is queued names an object or a scene.                              *)
QueuedEvents == {Event("change", s) : s \in SceneIds} \cup {Event("loaded", s) : s \in SceneIds}
           \cup {Event("add", o) : o \in Objects} \cup {Event("remove", o) : o \in Objects}
LayerRecords == [order : Nat, from : SceneFiles \X Nat, visible : BOOLEAN,
                 objects : Seq(Objects \cup {Expired})]

StateInv ==
    /\ phase \in Phases /\ hideWindow \in BOOLEAN /\ raised \in 0 .. MaxRaised
    /\ queue \in Seq(QueuedEvents)
    /\ currentSceneName \in SceneFiles \cup {0} /\ owned \subseteq Objects
    /\ layers \in Seq(LayerRecords)
    /\ assets \in Seq(AssetRecords) /\ lost \subseteq Losses
    /\ mixer \in BOOLEAN /\ ttf \in BOOLEAN /\ level \in SceneNumbers \cup {NoLevel}
    /\ countLoadedResources \in Int /\ countUnloadedResources = 0 - countLoadedResources
    /\ countResources = Len(assets)

(* The lists by scene have every asset; the other maps lead to assets, but *)
(* for the entries that were planted, and every asset's name is known.     *)
IndexInv ==
    /\ resourcesByScene \in [SceneNumbers -> Seq(DOMAIN assets)]
    /\ \A s \in SceneNumbers :
           Range(resourcesByScene[s]) = {i \in DOMAIN assets : assets[i].scene = s}
    /\ Range(resourcesByName) \cup Range(resourcesById) \subseteq 0 .. Len(assets)
    /\ \A i \in DOMAIN assets : /\ assets[i].name \in DOMAIN resourcesByName
                                /\ resourcesByName[assets[i].name] \in DOMAIN assets

(* Only what can be loaded and knows it is loaded; a handle that an asset  *)
(* would overwrite belongs to a loaded one, unless it is a font.           *)
LoadedCan(items) == \A i \in DOMAIN items :
    items[i].loaded => items[i].kind # "font" /\ CanBeLoaded(items[i])
HandlesKnown(items) == \A i \in DOMAIN items :
    items[i].handle /\ items[i].kind \notin {"graphic", "sprite", "font"} => items[i].loaded

Loaded(items)      == {i \in DOMAIN items : items[i].loaded}
AllLoadable(items) == \A i \in DOMAIN items : items[i].kind # "font" /\ CanBeLoaded(items[i])

MemoryInv ==
    /\ LoadedCan(assets)
    /\ Running => HandlesKnown(assets)
    /\ countLoadedResources >= Cardinality(Loaded(assets))

(* The orders of the layers count down to 0 and those of the scene are the *)
(* first, but for a scene that threw.                                      *)
InFallingOrder(ls) == \A k \in DOMAIN ls : ls[k].order = Len(ls) - k
LayersInv == phase # "thrown" => InFallingOrder(layers) /\ HeadedBy(layers, currentSceneName)

GameInv == /\ StateInv /\ IndexInv /\ MemoryInv /\ LayersInv
           /\ CountsAgree /\ OnlyFontsAreLost /\ UnloadFreesAll
           /\ SceneIsResident /\ ManagersAgree
DrawInv == phase = "draw" => updated = LiveObjects(layers, Queued)

-----------------------------------------------------------------------------
(* What is chosen from a list.                                             *)

(* p leads from the places of c to those of the first n of s in S.         *)
IsChoice(p, c, s, S, n) ==
    /\ p \in [1 .. Len(c) -> 1 .. n]
    /\ \A a, b \in 1 .. Len(c) : p[a] = p[b] => a = b
    /\ \A j \in 1 .. Len(c) : c[j] = s[p[j]] /\ c[j] \in S
    /\ \A i \in 1 .. n : s[i] \in S => \E j \in 1 .. Len(c) : p[j] = i
IsChosen(c, s, S, n) == Len(c) <= n /\ \E p : IsChoice(p, c, s, S, n)

LEMMA ChosenOneMore ==
  ASSUME NEW T, NEW s \in Seq(T), NEW S, NEW n \in 1 .. Len(s), NEW c \in Seq(T),
         IsChosen(c, s, S, n - 1),
         NEW d, d = IF s[n] \in S THEN Append(c, s[n]) ELSE c
  PROVE  IsChosen(d, s, S, n)
  <1>1. Len(s) \in Nat /\ n \in Nat /\ s[n] \in T /\ Len(c) \in Nat /\ Len(c) <= n - 1
    BY DEF IsChosen
  <1>2. PICK p : IsChoice(p, c, s, S, n - 1)
    BY DEF IsChosen
  <1>3. CASE s[n] \notin S
    <2>1. d = c
      BY <1>3
    <2>2. ASSUME NEW i \in 1 .. n, s[i] \in S PROVE \E j \in 1 .. Len(c) : p[j] = i
      <3>1. i \in 1 .. n - 1
        BY <1>1, <1>3, <2>2
      <3> QED BY <1>2, <2>2, <3>1 DEF IsChoice
    <2>3. p \in [1 .. Len(c) -> 1 .. n]
      <3>1. p \in [1 .. Len(c) -> 1 .. n - 1] /\ \A i \in 1 .. n - 1 : i \in 1 .. n
        BY <1>1, <1>2 DEF IsChoice
      <3> QED BY <3>1
    <2>4. IsChoice(p, c, s, S, n)
      BY <1>2, <2>2, <2>3 DEF IsChoice
    <2> QED BY <1>1, <2>1, <2>4 DEF IsChosen
  <1>4. CASE s[n] \in S
    <2> DEFINE q == [j \in 1 .. Len(c) + 1 |-> IF j <= Len(c) THEN p[j] ELSE n]
    <2>1. /\ d \in Seq(T) /\ Len(d) = Len(c) + 1 /\ d[Len(c) + 1] = s[n]
          /\ \A j \in 1 .. Len(c) : d[j] = c[j]
      BY <1>1, <1>4, AppendProperties
    <2>2. \A j \in 1 .. Len(c) : q[j] = p[j] /\ p[j] \in 1 .. n - 1 /\ p[j] \in 1 .. n /\ p[j] # n
      <3>1. \A j \in 1 .. Len(c) : j \in 1 .. Len(c) + 1 /\ j <= Len(c) /\ p[j] \in 1 .. n - 1
        BY <1>1, <1>2 DEF IsChoice
      <3>2. \A m \in 1 .. n - 1 : m \in 1 .. n /\ m # n
        BY <1>1
      <3> QED BY <3>1, <3>2
    <2>3. q[Len(c) + 1] = n /\ n \in 1 .. n /\ Len(c) + 1 \in 1 .. Len(c) + 1
      BY <1>1
    <2>4. DOMAIN q = 1 .. Len(c) + 1 /\ q = [j \in 1 .. Len(c) + 1 |-> q[j]]
      OBVIOUS
    <2> HIDE DEF q
    <2>5. \A j \in 1 .. Len(c) + 1 : j \in 1 .. Len(c) \/ j = Len(c) + 1
      BY <1>1
    <2>6. q \in [1 .. Len(c) + 1 -> 1 .. n]
      <3>1. \A j \in 1 .. Len(c) + 1 : q[j] \in 1 .. n
        BY <2>2, <2>3, <2>5
      <3> QED BY <2>4, <3>1
    <2>7. ASSUME NEW a \in 1 .. Len(c) + 1, NEW b \in 1 .. Len(c) + 1, q[a] = q[b] PROVE a = b
      <3>1. CASE a \in 1 .. Len(c) /\ b \in 1 .. Len(c)
        BY <1>2, <2>2, <2>7, <3>1 DEF IsChoice
      <3>2. CASE a \in 1 .. Len(c) /\ b = Len(c) + 1
        BY <2>2, <2>3, <2>7, <3>2
      <3>3. CASE a = Len(c) + 1 /\ b \in 1 .. Len(c)
        BY <2>2, <2>3, <2>7, <3>3
      <3> QED BY <2>5, <3>1, <3>2, <3>3
    <2>8. ASSUME NEW j \in 1 .. Len(c) + 1 PROVE d[j] = s[q[j]] /\ d[j] \in S
      <3>1. CASE j \in 1 .. Len(c)
        BY <1>2, <2>1, <2>2, <3>1 DEF IsChoice
      <3>2. CASE j = Len(c) + 1
        BY <1>4, <2>1, <2>3, <3>2
      <3> QED BY <2>5, <3>1, <3>2
    <2>9. ASSUME NEW i \in 1 .. n, s[i] \in S PROVE \E j \in 1 .. Len(c) + 1 : q[j] = i
      <3>1. CASE i = n
        BY <2>3, <3>1
      <3>2. CASE i # n
        <4>1. i \in 1 .. n - 1
          BY <1>1, <3>2
        <4>2. PICK j \in 1 .. Len(c) : p[j] = i
          BY <1>2, <2>9, <4>1 DEF IsChoice
        <4>3. j \in 1 .. Len(c) + 1
          BY <1>1
        <4> QED BY <2>2, <4>2, <4>3
      <3> QED BY <3>1, <3>2
    <2>10. IsChoice(q, d, s, S, n)
      BY <2>1, <2>6, <2>7, <2>8, <2>9 DEF IsChoice
    <2>11. Len(d) <= n
      BY <1>1, <2>1
    <2> QED BY <2>10, <2>11 DEF IsChosen
  <1> QED BY <1>3, <1>4

LEMMA ChosenPlaces ==
  ASSUME NEW T, NEW s \in Seq(T), NEW S
  PROVE  Chosen(s, S) \in Seq(T) /\ IsChosen(Chosen(s, S), s, S, Len(s))
  <1> DEFINE Def(g) == [n \in 0 .. Len(s) |-> IF n = 0 THEN <<>>
                           ELSE IF s[n] \in S THEN Append(g[n - 1], s[n]) ELSE g[n - 1]]
             f == CHOOSE g : g = Def(g)
             V == Seq(T)
             op == [x \in V \X T |-> IF x[2] \in S THEN Append(x[1], x[2]) ELSE x[1]]
  <1>1. Len(s) \in Nat /\ \A k \in 1 .. Len(s) : s[k] \in T
    OBVIOUS
  <1>2. Chosen(s, S) = f[Len(s)]
    BY DEF Chosen
  <1>3. op \in [V \X T -> V]
    <2>1. \A a \in V, b \in T : Append(a, b) \in V
      BY AppendProperties
    <2> HIDE DEF V
    <2> QED BY <2>1
  <1>4. <<>> \in V
    BY EmptySeq
  <1>5. PICK r : r \in [0 .. Len(s) -> V] /\ IsRun(r, Len(s), op, <<>>, s)
    <2> HIDE DEF op, V
    <2> QED BY <1>3, <1>4, RunExists
  <1>6. ASSUME NEW n \in 1 .. Len(s)
        PROVE  r[n] = IF s[n] \in S THEN Append(r[n - 1], s[n]) ELSE r[n - 1]
    <2>1. n - 1 \in 0 .. Len(s) /\ n \in 0 .. Len(s)
      BY <1>1
    <2>2. r[n - 1] \in V /\ s[n] \in T
      BY <1>1, <1>5, <2>1
    <2>3. r[n] = op[<<r[n - 1], s[n]>>]
      <3> HIDE DEF op
      <3> QED BY <1>5 DEF IsRun
    <2> HIDE DEF V
    <2> QED BY <2>2, <2>3
  <1>7. r[0] = <<>> /\ r = [n \in 0 .. Len(s) |-> r[n]]
    BY <1>5 DEF IsRun
  <1> HIDE DEF op
  <1>8. r = Def(r)
    <2>1. ASSUME NEW n \in 0 .. Len(s)
          PROVE  r[n] = IF n = 0 THEN <<>>
                        ELSE IF s[n] \in S THEN Append(r[n - 1], s[n]) ELSE r[n - 1]
      <3>1. CASE n = 0
        BY <1>7, <3>1
      <3>2. CASE n # 0
        <4>1. n \in 1 .. Len(s)
          BY <1>1, <3>2
        <4> QED BY <1>6, <3>2, <4>1
      <3> QED BY <3>1, <3>2
    <2> QED BY <1>7, <2>1
  <1>9. f = Def(f)
    <2> HIDE DEF Def
    <2> QED BY <1>8
  <1> DEFINE Differ == {n \in 0 .. Len(s) : f[n] # r[n]}
  <1>10. ASSUME NEW n \in Differ PROVE \E k \in Differ : k < n
    <2> HIDE DEF f
    <2>1. n \in 0 .. Len(s) /\ f[n] # r[n]
      OBVIOUS
    <2>2. f[n] = IF n = 0 THEN <<>>
                 ELSE IF s[n] \in S THEN Append(f[n - 1], s[n]) ELSE f[n - 1]
      BY <1>9, <2>1
    <2>3. n # 0
      BY <1>7, <2>1, <2>2
    <2>4. n \in 1 .. Len(s) /\ n - 1 \in 0 .. Len(s) /\ n - 1 < n
      BY <1>1, <2>1, <2>3
    <2>5. f[n - 1] # r[n - 1]
      BY <1>6, <2>1, <2>2, <2>3, <2>4
    <2>6. n - 1 \in Differ
      BY <2>4, <2>5
    <2> HIDE DEF Differ
    <2> QED BY <2>4, <2>6
  <1>11. Differ = {}
    <2>1. Differ \in SUBSET Nat
      BY <1>1
    <2> HIDE DEF Differ
    <2> QED BY <1>10, <2>1, NoDescent
  <1>12. Len(s) \in 0 .. Len(s) /\ Chosen(s, S) = r[Len(s)]
    <2>1. Len(s) \in 0 .. Len(s)
      BY <1>1
    <2> HIDE DEF f
    <2> QED BY <1>2, <1>11, <2>1
  <1> DEFINE Wrong == {n \in 0 .. Len(s) : ~IsChosen(r[n], s, S, n)}
  <1>13. IsChosen(r[0], s, S, 0)
    <2> DEFINE p == [j \in 1 .. 0 |-> 0]
    <2>1. Len(r[0]) = 0 /\ 1 .. 0 = {}
      BY <1>7
    <2>2. p \in [1 .. Len(r[0]) -> 1 .. 0]
      BY <2>1
    <2> HIDE DEF p
    <2>3. IsChoice(p, r[0], s, S, 0)
      BY <2>1, <2>2 DEF IsChoice
    <2> QED BY <2>1, <2>3 DEF IsChosen
  <1>14. ASSUME NEW n \in Wrong PROVE \E k \in Wrong : k < n
    <2>1. n \in 0 .. Len(s) /\ ~IsChosen(r[n], s, S, n)
      OBVIOUS
    <2>2. n # 0
      BY <1>13, <2>1
    <2>3. n \in 1 .. Len(s) /\ n - 1 \in 0 .. Len(s) /\ n - 1 < n
      BY <1>1, <2>1, <2>2
    <2>4. r[n - 1] \in Seq(T)
      BY <1>5, <2>3
    <2>5. ~IsChosen(r[n - 1], s, S, n - 1)
      BY <1>6, <2>1, <2>3, <2>4, ChosenOneMore
    <2>6. n - 1 \in Wrong
      BY <2>3, <2>5
    <2> HIDE DEF Wrong
    <2> QED BY <2>3, <2>6
  <1>15. Wrong = {}
    <2>1. Wrong \in SUBSET Nat
      BY <1>1
    <2> HIDE DEF Wrong
    <2> QED BY <1>14, <2>1, NoDescent
  <1>16. IsChosen(r[Len(s)], s, S, Len(s))
    BY <1>12, <1>15
  <1> QED BY <1>5, <1>12, <1>16

LEMMA ChosenRange ==
  ASSUME NEW T, NEW s \in Seq(T), NEW S
  PROVE  Chosen(s, S) \in Seq(T) /\ Range(Chosen(s, S)) = Range(s) \cap S
  <1> DEFINE c == Chosen(s, S)
  <1>1. c \in Seq(T) /\ \E p : IsChoice(p, c, s, S, Len(s))
    BY ChosenPlaces DEF IsChosen
  <1>2. PICK p : IsChoice(p, c, s, S, Len(s))
    BY <1>1
  <1> HIDE DEF c
  <1>3. ASSUME NEW x \in Range(c) PROVE x \in Range(s) \cap S
    <2>1. PICK j \in 1 .. Len(c) : x = c[j]
      BY <1>1, InRange
    <2>2. p[j] \in 1 .. Len(s) /\ c[j] = s[p[j]] /\ c[j] \in S
      BY <1>2 DEF IsChoice
    <2> QED BY <2>1, <2>2, InRange
  <1>4. ASSUME NEW x \in Range(s) \cap S PROVE x \in Range(c)
    <2>1. PICK i \in 1 .. Len(s) : x = s[i]
      BY InRange
    <2>2. PICK j \in 1 .. Len(c) : p[j] = i
      BY <1>2, <2>1 DEF IsChoice
    <2>3. c[j] = x
      BY <1>2, <2>1, <2>2 DEF IsChoice
    <2> QED BY <1>1, <2>3, InRange
  <1> QED BY <1>1, <1>3, <1>4 DEF c
-----------------------------------------------------------------------------
(* What a resource file is read as, and the maps over it.                  *)

(* Of numbers up to n, some are before the first of S.                     *)
LEMMA UpToFirst ==
  ASSUME NEW n \in Nat, NEW S
  PROVE  \E k \in 0 .. n : (\A i \in 1 .. k : i \notin S) /\ (k = n \/ k + 1 \in S)
  <1> DEFINE T == {k \in 0 .. n : k = n \/ k + 1 \in S}
  <1>1. T \in SUBSET Nat /\ n \in T
    OBVIOUS
  <1>2. PICK k \in T : \A j \in T : k <= j
    <2> HIDE DEF T
    <2> QED BY <1>1, LeastOf
  <1>3. ASSUME NEW i \in 1 .. k, i \in S PROVE FALSE
    <2>1. i - 1 \in 0 .. n /\ (i - 1) + 1 = i /\ ~ (k <= i - 1)
      BY <1>2
    <2>2. i - 1 \in T
      BY <1>3, <2>1
    <2> QED BY <1>2, <2>1, <2>2
  <1> QED BY <1>2, <1>3

Fresh(items) == \A i \in DOMAIN items : items[i].loaded = FALSE /\ items[i].handle = FALSE

LEMMA ReadingIsFresh ==
  ASSUME NEW f \in Files, NEW reading \in Readings(f)
  PROVE  reading \in Seq(AssetRecords) /\ Fresh(reading)
  <1>1. f \in Seq(Elements) /\ Len(f) \in Nat
    BY ResourcesAssumption
  <1>2. \E k \in 0 .. Len(f) : /\ \A i \in 1 .. k : i \notin Refused(f)
                               /\ k = Len(f) \/ k + 1 \in Refused(f)
    BY ZenonT(40), <1>1, UpToFirst
  <1>3. PICK n :
            n = CHOOSE k \in 0 .. Len(f) : /\ \A i \in 1 .. k : i \notin Refused(f)
                                           /\ k = Len(f) \/ k + 1 \in Refused(f)
    OBVIOUS
  <1>4. n \in 0 .. Len(f)
    BY <1>2, <1>3
  <1> DEFINE ReadAs == {t \in [1 .. n -> SceneNumbers] :
                            \A i \in 1 .. n : t[i] \in CreateAssetFromElement(f[i])}
  <1>5. Readings(f) = {[i \in 1 .. n |-> Asset(f[i], s[i])] : s \in ReadAs}
    BY ONLY <1>3 DEF Readings
  <1>6. PICK s \in [1 .. n -> SceneNumbers] :
            /\ \A i \in 1 .. n : s[i] \in CreateAssetFromElement(f[i])
            /\ reading = [i \in 1 .. n |-> Asset(f[i], s[i])]
    <2>1. PICK s \in ReadAs : reading = [i \in 1 .. n |-> Asset(f[i], s[i])]
      BY <1>5
    <2> QED BY <2>1
  <1>7. ASSUME NEW i \in 1 .. n
        PROVE  /\ reading[i] \in AssetRecords
               /\ reading[i].loaded = FALSE /\ reading[i].handle = FALSE
    <2>1. i \in 1 .. Len(f)
      BY <1>1, <1>4
    <2>2. f[i] \in Elements /\ s[i] \in SceneNumbers /\ reading[i] = Asset(f[i], s[i])
      BY <1>1, <1>6, <2>1
    <2>3. f[i].kind # "other"
      BY <1>6 DEF CreateAssetFromElement
    <2> QED BY <2>2, <2>3 DEF Elements, Asset, AssetRecords
  <1>8. n \in Nat /\ reading \in [1 .. n -> AssetRecords]
    <2>1. reading = [i \in 1 .. n |-> reading[i]]
      BY <1>6
    <2>2. \A i \in 1 .. n : reading[i] \in AssetRecords
      BY <1>7
    <2>3. reading \in [1 .. n -> AssetRecords]
      BY ONLY <2>1, <2>2
    <2> QED BY <1>1, <1>4, <2>3
  <1>9. reading \in Seq(AssetRecords) /\ DOMAIN reading = 1 .. n
    BY <1>8
  <1> QED BY <1>7, <1>9 DEF Fresh

LEMMA IndexFacts ==
  ASSUME NEW items \in Seq(AssetRecords)
  PROVE  /\ ByScene(items) \in [SceneNumbers -> Seq(DOMAIN items)]
         /\ \A s \in SceneNumbers :
                Range(ByScene(items)[s]) = {i \in DOMAIN items : items[i].scene = s}
         /\ Range(ByName(items)) \cup Range(ById(items)) \subseteq DOMAIN items
         /\ \A i \in DOMAIN items : /\ items[i].name \in DOMAIN ByName(items)
                                 /\ ByName(items)[items[i].name] \in DOMAIN items
  <1>1. DOMAIN items = 1 .. Len(items) /\ Len(items) \in Nat
    OBVIOUS
  <1> DEFINE all == [i \in DOMAIN items |-> i]
  <1>2. all \in Seq(DOMAIN items) /\ Range(all) = DOMAIN items
    BY <1>1 DEF Range
  <1> HIDE DEF all
  <1>3. ASSUME NEW s \in SceneNumbers
        PROVE  /\ ByScene(items)[s] \in Seq(DOMAIN items)
               /\ Range(ByScene(items)[s]) = {i \in DOMAIN items : items[i].scene = s}
    <2> DEFINE S == {i \in DOMAIN items : items[i].scene = s}
    <2>1. ByScene(items)[s] = Chosen(all, S)
      BY DEF ByScene, all
    <2>2. Range(all) \cap S = S
      BY <1>2
    <2> HIDE DEF S
    <2>3. Chosen(all, S) \in Seq(DOMAIN items) /\ Range(Chosen(all, S)) = S
      BY <1>2, <2>2, ChosenRange
    <2> QED BY <2>1, <2>3 DEF S
  <1>4. ByScene(items) = [s \in SceneNumbers |-> ByScene(items)[s]]
    BY DEF ByScene
  <1>5. ASSUME NEW i \in DOMAIN items
        PROVE  /\ items[i].name \in DOMAIN ByName(items)
               /\ ByName(items)[items[i].name] \in DOMAIN items
    <2> DEFINE n == items[i].name
               S == {a \in AssetRecords : a.name = n}
    <2>1. items[i] \in S
      BY <1>1
    <2>2. \E k \in DOMAIN items : items[k] \in S /\ \A j \in 1 .. k - 1 : items[j] \notin S
      <3> HIDE DEF S
      <3> QED BY <2>1, FirstOf
    <2>3. \A j \in DOMAIN items : items[j] \in AssetRecords
      BY <1>1
    <2>4. \E k \in DOMAIN items : items[k].name = n /\ \A j \in 1 .. k - 1 : items[j].name # n
      <3>1. PICK k \in DOMAIN items : items[k] \in S /\ \A j \in 1 .. k - 1 : items[j] \notin S
        BY <2>2
      <3>2. \A j \in 1 .. k - 1 : j \in DOMAIN items
        BY <1>1
      <3> QED BY <2>3, <3>1, <3>2
    <2>5. n \in DOMAIN ByName(items)
      BY DEF ByName
    <2>6. ByName(items)[n] = CHOOSE k \in DOMAIN items :
                              items[k].name = n /\ \A j \in 1 .. k - 1 : items[j].name # n
      BY <2>5 DEF ByName
    <2> HIDE DEF n
    <2>7. ByName(items)[n] \in DOMAIN items
      BY <2>4, <2>6
    <2> QED BY <2>5, <2>7 DEF n
  <1>6. ASSUME NEW i \in DOMAIN items PROVE ById(items)[items[i].uid] \in DOMAIN items
    <2> DEFINE n == items[i].uid
               S == {a \in AssetRecords : a.uid = n}
    <2>1. items[i] \in S
      BY <1>1
    <2>2. \E k \in DOMAIN items : items[k] \in S /\ \A j \in 1 .. k - 1 : items[j] \notin S
      <3> HIDE DEF S
      <3> QED BY <2>1, FirstOf
    <2>3. \A j \in DOMAIN items : items[j] \in AssetRecords
      BY <1>1
    <2>4. \E k \in DOMAIN items : items[k].uid = n /\ \A j \in 1 .. k - 1 : items[j].uid # n
      <3>1. PICK k \in DOMAIN items : items[k] \in S /\ \A j \in 1 .. k - 1 : items[j] \notin S
        BY <2>2
      <3>2. \A j \in 1 .. k - 1 : j \in DOMAIN items
        BY <1>1
      <3> QED BY <2>3, <3>1, <3>2
    <2>5. n \in DOMAIN ById(items)
      BY DEF ById
    <2>6. ById(items)[n] = CHOOSE k \in DOMAIN items :
                            items[k].uid = n /\ \A j \in 1 .. k - 1 : items[j].uid # n
      BY <2>5 DEF ById
    <2> HIDE DEF n
    <2>7. ById(items)[n] \in DOMAIN items
      BY <2>4, <2>6
    <2> QED BY <2>7 DEF n
  <1>7. \A x \in Range(ByName(items)) : x \in DOMAIN items
    <2>1. DOMAIN ByName(items) = {items[i].name : i \in DOMAIN items}
      BY DEF ByName
    <2>2. ASSUME NEW x \in Range(ByName(items))
          PROVE  \E i \in DOMAIN items : x = ByName(items)[items[i].name]
      <3>1. PICK d \in DOMAIN ByName(items) : x = ByName(items)[d]
        BY DEF Range
      <3> QED BY <2>1, <3>1
    <2> QED BY <1>5, <2>2
  <1>8. \A x \in Range(ById(items)) : x \in DOMAIN items
    <2>1. DOMAIN ById(items) = {items[i].uid : i \in DOMAIN items}
      BY DEF ById
    <2>2. ASSUME NEW x \in Range(ById(items))
          PROVE  \E i \in DOMAIN items : x = ById(items)[items[i].uid]
      <3>1. PICK d \in DOMAIN ById(items) : x = ById(items)[d]
        BY DEF Range
      <3> QED BY <2>1, <3>1
    <2> QED BY <1>6, <2>2
  <1> QED BY <1>3, <1>4, <1>5, <1>7, <1>8
-----------------------------------------------------------------------------
(* Loading and unloading of one asset.                                     *)

SameAsset(a, b) == /\ a.uid = b.uid /\ a.name = b.name /\ a.kind = b.kind
                   /\ a.scene = b.scene /\ a.readable = b.readable

LEMMA UnloadFacts ==
  ASSUME NEW a \in AssetRecords, NEW b, b = UnloadAsset(a)
  PROVE  /\ b \in AssetRecords /\ SameAsset(b, a)
         /\ b.handle = FALSE /\ b.loaded = (a.kind = "font" /\ a.loaded)
  <1>1. a.loaded \in BOOLEAN /\ a.kind \in Kinds
    BY DEF AssetRecords
  <1>2. CASE a.kind = "font"
    <2>1. b = [a EXCEPT !.handle = FALSE]
      BY <1>2 DEF UnloadAsset, UnloadFont
    <2> QED BY <1>1, <1>2, <2>1 DEF AssetRecords, SameAsset
  <1>3. CASE a.kind # "font"
    <2>1. b = [a EXCEPT !.handle = FALSE, !.loaded = FALSE]
      BY <1>3 DEF UnloadAsset, UnloadGraphic, UnloadAudio, UnloadScript
    <2> QED BY <1>1, <1>3, <2>1 DEF AssetRecords, SameAsset
  <1> QED BY <1>2, <1>3

(* What loading needs to know of the index.                                *)
NamesInv == /\ assets \in Seq(AssetRecords) /\ mixer \in BOOLEAN /\ ttf \in BOOLEAN
            /\ \A i \in DOMAIN assets : /\ assets[i].name \in DOMAIN resourcesByName
                                        /\ resourcesByName[assets[i].name] \in DOMAIN assets

LEMMA LoadFacts ==
  ASSUME NamesInv, NEW i \in DOMAIN assets, NEW a \in AssetRecords, SameAsset(a, assets[i]),
         NEW b, b = LoadAsset(a)
  PROVE  /\ b \in AssetRecords /\ SameAsset(b, a)
         /\ b.loaded = CASE a.kind = "font" -> a.loaded
                         [] a.kind = "fx" -> TRUE
                         [] OTHER -> a.readable
  <1>1. /\ a.loaded \in BOOLEAN /\ a.readable \in BOOLEAN
        /\ a.kind \in {"graphic", "sprite", "fx", "font", "script"}
    BY DEF AssetRecords, Kinds
  <1>2. CASE a.kind = "font"
    <2>1. b = [a EXCEPT !.handle = ttf /\ a.readable]
      BY <1>2 DEF LoadAsset, LoadFont
    <2>2. (ttf /\ a.readable) \in BOOLEAN
      OBVIOUS
    <2> QED BY <1>1, <1>2, <2>1, <2>2 DEF AssetRecords, SameAsset
  <1>3. CASE a.kind = "fx"
    <2> DEFINE h == mixer /\ assets[resourcesByName[a.name]].readable
    <2>1. b = [a EXCEPT !.handle = h, !.loaded = TRUE]
      BY <1>3 DEF LoadAsset, LoadAudio
    <2>2. h \in BOOLEAN
      OBVIOUS
    <2> HIDE DEF h
    <2> QED BY <1>1, <1>3, <2>1, <2>2 DEF AssetRecords, SameAsset
  <1>4. CASE a.kind \in {"graphic", "sprite"}
    <2>1. b = [UnloadGraphic(a) EXCEPT !.handle = a.readable, !.loaded = a.readable]
      BY <1>4 DEF LoadAsset, LoadGraphic
    <2>2. b = [a EXCEPT !.handle = a.readable, !.loaded = a.readable]
      BY <2>1 DEF UnloadGraphic, AssetRecords
    <2> QED BY <1>1, <1>4, <2>2 DEF AssetRecords, SameAsset
  <1>5. CASE a.kind = "script"
    <2>1. b = [a EXCEPT !.handle = TRUE, !.loaded = a.readable]
      BY <1>5 DEF LoadAsset, LoadScript
    <2> QED BY <1>1, <1>5, <2>1 DEF AssetRecords, SameAsset
  <1> QED BY <1>1, <1>2, <1>3, <1>4, <1>5

-----------------------------------------------------------------------------
(* One turn of the loop that loads the assets of a scene.                  *)

LoadStates == [assets : [DOMAIN assets -> AssetRecords], count : Int,
               lost : SUBSET Losses, thrown : BOOLEAN]

(* a is the asset before the turn, b after it. *)
Stays(st, r, a, scene) == r = st /\ (st.thrown \/ (Wanted(a, scene) <=> a.loaded))
ComesIn(st, r, i, a, b, scene) ==
    /\ Wanted(a, scene) /\ ~a.loaded /\ ~st.thrown
    /\ b.loaded = CASE a.kind = "font" -> FALSE
                    [] a.kind = "fx" -> TRUE
                    [] OTHER -> a.readable
    /\ r.thrown = (a.kind = "script" /\ ~a.readable)
    /\ r.count = IF r.thrown THEN st.count ELSE st.count + 1
    /\ r.lost = IF LosesHandle(a) THEN st.lost \cup {Loss(i)} ELSE st.lost
GoesOut(st, r, a, b, scene) ==
    /\ ~Wanted(a, scene) /\ a.loaded /\ ~st.thrown
    /\ b.handle = FALSE /\ b.loaded = (a.kind = "font")
    /\ r.thrown = FALSE /\ r.count = st.count - 1 /\ r.lost = st.lost

LEMMA SwapFacts ==
  ASSUME NamesInv, NEW scene, NEW i \in DOMAIN assets, NEW st \in LoadStates,
         SameAsset(st.assets[i], assets[i]), NEW r, r = SwapAsset(st, i, scene)
  PROVE  /\ r \in LoadStates
         /\ SameAsset(r.assets[i], st.assets[i])
         /\ \A j \in DOMAIN assets : j # i => r.assets[j] = st.assets[j]
         /\ \/ Stays(st, r, st.assets[i], scene)
            \/ ComesIn(st, r, i, st.assets[i], r.assets[i], scene)
            \/ GoesOut(st, r, st.assets[i], r.assets[i], scene)
  <1> DEFINE a == st.assets[i]
  <1>1. /\ st.assets \in [DOMAIN assets -> AssetRecords] /\ st.count \in Int
        /\ st.lost \subseteq Losses /\ st.thrown \in BOOLEAN
        /\ st = [assets |-> st.assets, count |-> st.count, lost |-> st.lost, thrown |-> st.thrown]
    BY DEF LoadStates
  <1>2. a \in AssetRecords /\ a.loaded \in BOOLEAN
    BY <1>1 DEF AssetRecords
  <1>3. Loss(i) \in Losses
    <2>1. assets[i] \in AssetRecords
      BY InRange DEF NamesInv
    <2>2. assets[i].kind \in Kinds
      BY <2>1 DEF AssetRecords
    <2>3. SharesName(i) \in BOOLEAN
      BY DEF SharesName
    <2> QED BY <2>2, <2>3 DEF Loss, Losses
  <1> DEFINE in == LoadAsset(a)
             out == UnloadAsset(a)
  <1>4. /\ in \in AssetRecords /\ SameAsset(in, a)
        /\ in.loaded = CASE a.kind = "font" -> a.loaded
                         [] a.kind = "fx" -> TRUE
                         [] OTHER -> a.readable
    <2> HIDE DEF in, a
    <2> QED BY <1>2, LoadFacts DEF in, a
  <1>5. /\ out \in AssetRecords /\ SameAsset(out, a)
        /\ out.handle = FALSE /\ out.loaded = (a.kind = "font" /\ a.loaded)
    <2> HIDE DEF out, a
    <2> QED BY <1>2, UnloadFacts DEF out
  <1>6. SameAsset(a, a)
    BY DEF SameAsset
  <1>7. CASE ~st.thrown /\ Wanted(a, scene) /\ ~a.loaded
    <2> DEFINE n == IF LoadThrows(a) THEN st.count ELSE st.count + 1
               l == IF LosesHandle(a) THEN st.lost \cup {Loss(i)} ELSE st.lost
    <2>1. r = SwapIn(st, i)
      BY <1>7 DEF SwapAsset
    <2>2. r = [assets |-> [st.assets EXCEPT ![i] = in], count |-> n, lost |-> l,
               thrown |-> LoadThrows(a)]
      BY <1>1, <2>1 DEF SwapIn
    <2>3. n \in Int /\ l \subseteq Losses /\ LoadThrows(a) \in BOOLEAN
      BY <1>1, <1>3 DEF LoadThrows
    <2> HIDE DEF n, l, in
    <2>4. /\ r.assets = [st.assets EXCEPT ![i] = in] /\ r.count = n /\ r.lost = l
          /\ r.thrown = LoadThrows(a)
      BY <2>2
    <2>5. r.assets \in [DOMAIN assets -> AssetRecords] /\ r.assets[i] = in
      BY <1>1, <1>4, <2>4
    <2>6. \A j \in DOMAIN assets : j # i => r.assets[j] = st.assets[j]
      BY <1>1, <2>4
    <2>7. r \in LoadStates
      BY <2>2, <2>3, <2>4, <2>5 DEF LoadStates
    <2>8. ComesIn(st, r, i, a, r.assets[i], scene)
      <3>1. r.thrown = (a.kind = "script" /\ ~a.readable)
        BY <2>4 DEF LoadThrows
      <3>2. r.count = IF r.thrown THEN st.count ELSE st.count + 1
        BY <2>4 DEF n
      <3>3. r.lost = IF LosesHandle(a) THEN st.lost \cup {Loss(i)} ELSE st.lost
        BY <2>4 DEF l
      <3>4. r.assets[i].loaded = CASE a.kind = "font" -> FALSE
                                   [] a.kind = "fx" -> TRUE
                                   [] OTHER -> a.readable
        <4>1. r.assets[i].loaded = in.loaded /\ a.loaded = FALSE
          BY <1>2, <1>7, <2>5
        <4> HIDE DEF a
        <4> QED BY <1>4, <4>1
      <3> HIDE DEF a
      <3> QED BY <1>7, <3>1, <3>2, <3>3, <3>4 DEF ComesIn
    <2> QED BY <1>4, <2>5, <2>6, <2>7, <2>8
  <1>8. CASE ~st.thrown /\ ~Wanted(a, scene) /\ a.loaded
    <2>1. r = SwapOut(st, i)
      BY <1>8 DEF SwapAsset
    <2>2. r = [assets |-> [st.assets EXCEPT ![i] = out], count |-> st.count - 1,
               lost |-> st.lost, thrown |-> st.thrown]
      BY <1>1, <2>1 DEF SwapOut
    <2> HIDE DEF out
    <2>3. /\ r.assets = [st.assets EXCEPT ![i] = out] /\ r.count = st.count - 1
          /\ r.lost = st.lost /\ r.thrown = st.thrown
      BY <2>2
    <2>4. r.assets \in [DOMAIN assets -> AssetRecords] /\ r.assets[i] = out
      BY <1>1, <1>5, <2>3
    <2>5. \A j \in DOMAIN assets : j # i => r.assets[j] = st.assets[j]
      BY <1>1, <2>3
    <2>6. r \in LoadStates
      BY <1>1, <2>2, <2>3, <2>4 DEF LoadStates
    <2>7. GoesOut(st, r, a, r.assets[i], scene)
      BY <1>1, <1>5, <1>8, <2>3, <2>4 DEF GoesOut
    <2> QED BY <1>5, <2>4, <2>5, <2>6, <2>7
  <1>9. CASE st.thrown \/ (Wanted(a, scene) <=> a.loaded)
    <2>1. r = st
      BY <1>2, <1>9 DEF SwapAsset
    <2> QED BY <1>6, <1>9, <2>1 DEF Stays
  <1> QED BY <1>2, <1>7, <1>8, <1>9
-----------------------------------------------------------------------------
(* The loop, from the first asset to the last.                             *)

Settled(a, scene) ==
    a.kind # "font" => (a.loaded <=> a.scene \in {scene, 0} /\ CanBeLoaded(a))
Excused(losses) == \A l \in losses : l.kind = "font" \/ l.shared
More(items) == Cardinality(Loaded(items)) - Cardinality(Loaded(assets))

LoadInv(st, n, scene) ==
    /\ st \in LoadStates
    /\ \A j \in DOMAIN assets : SameAsset(st.assets[j], assets[j])
    /\ LoadedCan(st.assets)
    /\ ~st.thrown => HandlesKnown(st.assets)
    /\ Excused(st.lost)
    /\ ~st.thrown => \A k \in 1 .. n : Settled(st.assets[LoadOrder[k]], scene)
    /\ st.count >= More(st.assets)
    /\ AllLoadable(assets) => ~st.thrown /\ st.count = More(st.assets)

LEMMA LoadedFinite ==
  ASSUME assets \in Seq(AssetRecords), NEW items, DOMAIN items = DOMAIN assets
  PROVE  /\ IsFiniteSet(Loaded(items)) /\ Cardinality(Loaded(items)) \in Nat
         /\ Cardinality(Loaded(assets)) \in Nat
  <1>1. IsFiniteSet(DOMAIN assets)
    <2>1. DOMAIN assets = 1 .. Len(assets) /\ Len(assets) \in Nat
      BY InRange
    <2> QED BY <2>1, FS_Interval
  <1>2. Loaded(items) \subseteq DOMAIN assets /\ Loaded(assets) \subseteq DOMAIN assets
    BY DEF Loaded
  <1> QED BY <1>1, <1>2, FS_Subset, FS_CardinalityType

LEMMA LoadStep ==
  ASSUME NamesInv, NEW scene, NEW n \in Nat \ {0}, NEW i \in DOMAIN assets, i = LoadOrder[n],
         \A k \in 1 .. n : LoadOrder[k] \in DOMAIN assets,
         NEW st, LoadInv(st, n - 1, scene), NEW r, r = SwapAsset(st, i, scene)
  PROVE  LoadInv(r, n, scene)
  <1>1. /\ st \in LoadStates /\ st.assets \in [DOMAIN assets -> AssetRecords]
        /\ st.count \in Int /\ st.thrown \in BOOLEAN
        /\ \A j \in DOMAIN assets : SameAsset(st.assets[j], assets[j])
    BY DEF LoadInv, LoadStates
  <1> PICK a : a = st.assets[i]
    OBVIOUS
  <1>2. /\ r \in LoadStates /\ SameAsset(r.assets[i], a)
        /\ \A j \in DOMAIN assets : j # i => r.assets[j] = st.assets[j]
        /\ \/ Stays(st, r, a, scene)
           \/ ComesIn(st, r, i, a, r.assets[i], scene)
           \/ GoesOut(st, r, a, r.assets[i], scene)
    BY <1>1, SwapFacts
  <1> PICK b : b = r.assets[i]
    OBVIOUS
  <1>3. /\ a \in AssetRecords /\ a.loaded \in BOOLEAN /\ a.readable \in BOOLEAN
        /\ a.kind \in {"graphic", "sprite", "fx", "font", "script"}
        /\ SameAsset(a, assets[i])
    BY <1>1 DEF AssetRecords, Kinds
  <1>4. /\ r.assets \in [DOMAIN assets -> AssetRecords] /\ r.thrown \in BOOLEAN
        /\ b.loaded \in BOOLEAN /\ SameAsset(b, a) /\ r.count \in Int
    BY <1>2 DEF LoadStates, AssetRecords
  <1>5. DOMAIN st.assets = DOMAIN assets /\ DOMAIN r.assets = DOMAIN assets
    BY <1>1, <1>4
  <1>6. /\ a.loaded => a.kind # "font" /\ CanBeLoaded(a)
        /\ ~st.thrown => (a.handle /\ a.kind \notin {"graphic", "sprite", "font"} => a.loaded)
    BY <1>5 DEF LoadInv, LoadedCan, HandlesKnown
  <1>7. ASSUME NEW j \in DOMAIN assets PROVE SameAsset(r.assets[j], assets[j])
    <2>1. CASE j = i
      BY <1>2, <1>3, <2>1 DEF SameAsset
    <2>2. CASE j # i
      BY <1>1, <1>2, <2>2
    <2> QED BY <2>1, <2>2
  <1>8. b.loaded => b.kind # "font" /\ CanBeLoaded(b)
    BY <1>2, <1>3, <1>4, <1>6 DEF Stays, ComesIn, GoesOut, CanBeLoaded, SameAsset
  <1>9. LoadedCan(r.assets)
    <2>1. ASSUME NEW j \in DOMAIN assets, r.assets[j].loaded
          PROVE  r.assets[j].kind # "font" /\ CanBeLoaded(r.assets[j])
      <3>1. CASE j = i
        BY <1>8, <2>1, <3>1
      <3>2. CASE j # i
        BY <1>2, <1>5, <2>1, <3>2 DEF LoadInv, LoadedCan
      <3> QED BY <3>1, <3>2
    <2> QED BY <1>5, <2>1 DEF LoadedCan
  <1>10. r.thrown \/ ~st.thrown
    BY <1>2 DEF Stays, ComesIn, GoesOut
  <1>11. ASSUME ~r.thrown PROVE HandlesKnown(r.assets)
    <2>1. ASSUME NEW j \in DOMAIN assets,
                 r.assets[j].handle, r.assets[j].kind \notin {"graphic", "sprite", "font"}
          PROVE  r.assets[j].loaded
      <3>1. CASE j = i
        <4>1. b.handle /\ b.kind \notin {"graphic", "sprite", "font"}
          BY <2>1, <3>1
        <4>2. CASE Stays(st, r, a, scene)
          BY <1>6, <1>10, <1>11, <3>1, <4>1, <4>2 DEF Stays
        <4>3. CASE ComesIn(st, r, i, a, b, scene)
          <5>1. a.kind \in {"fx", "script"}
            BY <1>3, <1>4, <4>1 DEF SameAsset
          <5>2. b.loaded
            BY <1>3, <1>11, <4>3, <5>1 DEF ComesIn
          <5> QED BY <3>1, <5>2
        <4>4. CASE GoesOut(st, r, a, b, scene)
          BY <4>1, <4>4 DEF GoesOut
        <4> QED BY <1>2, <4>2, <4>3, <4>4
      <3>2. CASE j # i
        BY <1>2, <1>5, <1>10, <1>11, <2>1, <3>2 DEF LoadInv, HandlesKnown
      <3> QED BY <3>1, <3>2
    <2> QED BY <1>5, <2>1 DEF HandlesKnown
  <1>12. Excused(r.lost)
    <2>1. Excused(st.lost)
      BY DEF LoadInv
    <2>2. CASE ComesIn(st, r, i, a, b, scene) /\ LosesHandle(a)
      <3>1. a.kind = "font"
        BY <1>6, <2>2 DEF ComesIn, LosesHandle
      <3>2. Loss(i).kind = "font"
        BY <1>3, <3>1 DEF Loss, SameAsset
      <3>3. r.lost = st.lost \cup {Loss(i)}
        BY <2>2 DEF ComesIn
      <3> QED BY <2>1, <3>2, <3>3 DEF Excused
    <2>3. CASE ~(ComesIn(st, r, i, a, b, scene) /\ LosesHandle(a))
      <3>1. r.lost = st.lost
        BY <1>2, <2>3 DEF Stays, ComesIn, GoesOut
      <3> QED BY <2>1, <3>1
    <2> QED BY <2>2, <2>3
  <1>13. ASSUME ~r.thrown PROVE Settled(b, scene)
    <2>1. ~st.thrown
      BY <1>10, <1>13
    <2>2. CASE Stays(st, r, a, scene)
      BY <1>3, <1>6, <2>1, <2>2 DEF Stays, Settled, Wanted
    <2>3. CASE ComesIn(st, r, i, a, b, scene)
      BY <1>3, <1>4, <1>13, <2>3 DEF ComesIn, Settled, Wanted, CanBeLoaded, SameAsset
    <2>4. CASE GoesOut(st, r, a, b, scene)
      BY <1>3, <1>4, <1>6, <2>4 DEF GoesOut, Settled, Wanted, SameAsset
    <2> QED BY <1>2, <2>2, <2>3, <2>4
  <1>14. ASSUME ~r.thrown, NEW k \in 1 .. n
         PROVE  Settled(r.assets[LoadOrder[k]], scene)
    <2>1. CASE LoadOrder[k] = i
      BY <1>13, <1>14, <2>1
    <2>2. CASE LoadOrder[k] # i
      <3>1. k \in 1 .. n - 1
        BY <1>14, <2>2
      <3>2. Settled(st.assets[LoadOrder[k]], scene)
        BY <1>10, <1>14, <3>1 DEF LoadInv
      <3>3. r.assets[LoadOrder[k]] = st.assets[LoadOrder[k]]
        BY <1>2, <2>2
      <3> QED BY <3>2, <3>3
    <2> QED BY <2>1, <2>2
  <1>15. /\ IsFiniteSet(Loaded(st.assets)) /\ Cardinality(Loaded(st.assets)) \in Nat
         /\ Cardinality(Loaded(r.assets)) \in Nat /\ Cardinality(Loaded(assets)) \in Nat
    BY <1>5, LoadedFinite DEF NamesInv
  <1>16. /\ Loaded(st.assets) = {j \in DOMAIN assets : st.assets[j].loaded}
         /\ Loaded(r.assets) = {j \in DOMAIN assets : r.assets[j].loaded}
    BY <1>5 DEF Loaded
  <1> DEFINE had == Cardinality(Loaded(st.assets))
             has == Cardinality(Loaded(r.assets))
  <1>17. CASE a.loaded <=> b.loaded
    <2>1. \A j \in DOMAIN assets : r.assets[j].loaded <=> st.assets[j].loaded
      BY <1>2, <1>17
    <2>2. Loaded(r.assets) = Loaded(st.assets)
      BY <1>16, <2>1
    <2>3. /\ r.count >= st.count
          /\ AllLoadable(assets) => ~r.thrown /\ r.count = st.count
      <3>1. CASE Stays(st, r, a, scene)
        BY <1>1, <3>1 DEF Stays, LoadInv
      <3>2. CASE ComesIn(st, r, i, a, b, scene)
        <4>1. r.count >= st.count
          BY <1>1, <3>2 DEF ComesIn
        <4>2. ~AllLoadable(assets)
          <5>1. ~ b.loaded
            BY <1>17, <3>2 DEF ComesIn
          <5>2. a.kind = "font" \/ ~ CanBeLoaded(a)
            BY <1>3, <3>2, <5>1 DEF ComesIn, CanBeLoaded
          <5>3. assets[i].kind = "font" \/ ~ CanBeLoaded(assets[i])
            BY <1>3, <5>2 DEF CanBeLoaded, SameAsset
          <5> QED BY <5>3 DEF AllLoadable
        <4> QED BY <4>1, <4>2
      <3>3. CASE GoesOut(st, r, a, b, scene)
        BY <1>6, <1>17, <3>3 DEF GoesOut
      <3> QED BY <1>2, <3>1, <3>2, <3>3
    <2>4. More(r.assets) = More(st.assets) /\ More(st.assets) \in Int
      BY <1>15, <2>2 DEF More
    <2>5. /\ r.count >= More(r.assets)
          /\ AllLoadable(assets) => ~r.thrown /\ r.count = More(r.assets)
      <3>1. /\ st.count >= More(st.assets)
            /\ AllLoadable(assets) => st.count = More(st.assets)
        BY DEF LoadInv
      <3> HIDE DEF had, has
      <3> QED BY <1>1, <1>4, <2>3, <2>4, <3>1
    <2> QED BY <1>2, <1>7, <1>9, <1>11, <1>12, <1>14, <2>5 DEF LoadInv
  <1>18. CASE ~a.loaded /\ b.loaded
    <2>1. ComesIn(st, r, i, a, b, scene)
      BY <1>2, <1>18 DEF Stays, GoesOut
    <2>2. ~r.thrown /\ r.count = st.count + 1
      <3>1. ~(a.kind = "script" /\ ~a.readable)
        BY <1>18, <2>1 DEF ComesIn
      <3> QED BY <2>1, <3>1 DEF ComesIn
    <2>3. Loaded(r.assets) = Loaded(st.assets) \cup {i} /\ i \notin Loaded(st.assets)
      <3>1. \A j \in DOMAIN assets : r.assets[j].loaded <=> (st.assets[j].loaded \/ j = i)
        BY <1>2, <1>18
      <3> QED BY <1>16, <1>18, <3>1
    <2>4. has = had + 1
      BY <1>15, <2>3, FS_AddElement
    <2>5. /\ r.count >= More(r.assets)
          /\ AllLoadable(assets) => ~r.thrown /\ r.count = More(r.assets)
      <3>1. /\ st.count >= More(st.assets)
            /\ AllLoadable(assets) => st.count = More(st.assets)
        BY DEF LoadInv
      <3>2. PICK x \in Nat, y \in Nat, z \in Nat : x = had /\ y = has /\ z = Cardinality(Loaded(assets))
        BY <1>15
      <3>3. More(r.assets) = y - z /\ More(st.assets) = x - z /\ y = x + 1
        BY <2>4, <3>2 DEF More
      <3> HIDE DEF had, has
      <3> QED BY <1>1, <2>2, <3>1, <3>3
    <2> QED BY <1>2, <1>7, <1>9, <1>11, <1>12, <1>14, <2>5 DEF LoadInv
  <1>19. CASE a.loaded /\ ~b.loaded
    <2>1. GoesOut(st, r, a, b, scene)
      BY <1>2, <1>19 DEF Stays, ComesIn
    <2>2. ~r.thrown /\ r.count = st.count - 1
      BY <2>1 DEF GoesOut
    <2>3. Loaded(r.assets) = Loaded(st.assets) \ {i} /\ i \in Loaded(st.assets)
      <3>1. \A j \in DOMAIN assets : r.assets[j].loaded <=> (st.assets[j].loaded /\ j # i)
        BY <1>2, <1>19
      <3> QED BY <1>16, <1>19, <3>1
    <2>4. has = had - 1
      BY ZenonT(40), <1>15, <2>3, FS_RemoveElement
    <2>5. /\ r.count >= More(r.assets)
          /\ AllLoadable(assets) => ~r.thrown /\ r.count = More(r.assets)
      <3>1. /\ st.count >= More(st.assets)
            /\ AllLoadable(assets) => st.count = More(st.assets)
        BY DEF LoadInv
      <3>2. PICK x \in Nat, y \in Nat, z \in Nat : x = had /\ y = has /\ z = Cardinality(Loaded(assets))
        BY <1>15
      <3>3. More(r.assets) = y - z /\ More(st.assets) = x - z /\ y = x - 1
        BY <2>4, <3>2 DEF More
      <3> HIDE DEF had, has
      <3> QED BY <1>1, <2>2, <3>1, <3>3
    <2> QED BY <1>2, <1>7, <1>9, <1>11, <1>12, <1>14, <2>5 DEF LoadInv
  <1> QED BY <1>3, <1>4, <1>17, <1>18, <1>19

LEMMA LoadOrderFacts ==
  ASSUME assets \in Seq(AssetRecords), IndexInv
  PROVE  LoadOrder \in Seq(DOMAIN assets) /\ Range(LoadOrder) = DOMAIN assets
  <1> DEFINE lists == [k \in 1 .. MaxScene + 1 |-> resourcesByScene[k - 1]]
             T == DOMAIN assets
  <1>1. MaxScene \in Nat
    BY ResourcesAssumption
  <1>2. \A k \in 1 .. MaxScene + 1 : k - 1 \in SceneNumbers
    BY <1>1 DEF SceneNumbers
  <1>3. \A k \in 1 .. MaxScene + 1 : resourcesByScene[k - 1] \in Seq(T)
    BY <1>2 DEF IndexInv
  <1>4. lists \in Seq(Seq(T)) /\ Len(lists) = MaxScene + 1
    <2> HIDE DEF T
    <2> QED BY <1>1, <1>3
  <1>5. \A k \in 1 .. MaxScene + 1 : lists[k] = resourcesByScene[k - 1]
    OBVIOUS
  <1>6. LoadOrder = FlattenSeq(lists)
    BY DEF LoadOrder
  <1> HIDE DEF lists
  <1>7. /\ LoadOrder \in Seq(T)
        /\ \A x : x \in Range(LoadOrder) <=> \E k \in 1 .. MaxScene + 1 : x \in Range(lists[k])
    <2> HIDE DEF T
    <2> QED BY <1>4, <1>6, FlattenRange
  <1>8. ASSUME NEW i \in T PROVE i \in Range(LoadOrder)
    <2>1. assets[i] \in AssetRecords
      BY InRange
    <2>2. assets[i].scene \in SceneNumbers
      BY <2>1 DEF AssetRecords
    <2>3. PICK k \in 1 .. MaxScene + 1 : k - 1 = assets[i].scene
      <3>1. \A s \in SceneNumbers : s + 1 \in 1 .. MaxScene + 1 /\ (s + 1) - 1 = s
        BY <1>1 DEF SceneNumbers
      <3> QED BY <2>2, <3>1
    <2>4. i \in Range(resourcesByScene[k - 1])
      BY <2>2, <2>3 DEF IndexInv
    <2> QED BY <1>5, <1>7, <2>4
  <1>9. Range(LoadOrder) \subseteq T
    BY <1>7, InRange
  <1> QED BY <1>7, <1>8, <1>9

(* What is loaded when a scene changes.                                    *)
LEMMA LoadResult ==
  ASSUME NamesInv, IndexInv, LoadedCan(assets), HandlesKnown(assets),
         Excused(lost), lost \subseteq Losses, NEW scene
  PROVE  LoadInv(LoadSceneAssets(scene), Len(LoadOrder), scene)
  <1> PICK order : order = LoadOrder
    OBVIOUS
  <1> DEFINE Def(g) == [n \in 0 .. Len(order) |->
                           IF n = 0 THEN BeforeLoading
                           ELSE SwapAsset(g[n - 1], order[n], scene)]
             f == CHOOSE g : g = Def(g)
             T == DOMAIN assets
             V == {st \in LoadStates : \A j \in T : SameAsset(st.assets[j], assets[j])}
             op == [x \in V \X T |-> SwapAsset(x[1], x[2], scene)]
  <1>1. assets \in Seq(AssetRecords) /\ assets \in [DOMAIN assets -> AssetRecords]
    BY InRange DEF NamesInv
  <1>2. order \in Seq(T) /\ Len(order) \in Nat /\ \A n \in 1 .. Len(order) : order[n] \in T
    <2>1. order \in Seq(T)
      BY <1>1, LoadOrderFacts
    <2> HIDE DEF T
    <2> QED BY <2>1
  <1>3. LoadSceneAssets(scene) = f[Len(order)]
    BY DEF LoadSceneAssets
  <1>4. BeforeLoading \in V /\ LoadInv(BeforeLoading, 0, scene)
    <2>1. BeforeLoading \in LoadStates
      BY <1>1 DEF BeforeLoading, LoadStates
    <2>2. /\ BeforeLoading.assets = assets /\ BeforeLoading.count = 0
          /\ BeforeLoading.lost = lost /\ BeforeLoading.thrown = FALSE
      BY DEF BeforeLoading
    <2>3. \A j \in T : SameAsset(assets[j], assets[j])
      BY DEF SameAsset
    <2>4. More(assets) = 0
      BY <1>1, LoadedFinite DEF More
    <2>5. 1 .. 0 = {} /\ 0 >= 0
      OBVIOUS
    <2> HIDE DEF T
    <2>6. \A j \in DOMAIN assets : SameAsset(BeforeLoading.assets[j], assets[j])
      BY <2>2, <2>3 DEF T
    <2> QED BY <2>1, <2>2, <2>4, <2>5, <2>6 DEF LoadInv, T
  <1>5. op \in [V \X T -> V]
    <2>1. ASSUME NEW st \in V, NEW i \in T PROVE SwapAsset(st, i, scene) \in V
      <3>1. PICK r : r = SwapAsset(st, i, scene)
        OBVIOUS
      <3>2. /\ r \in LoadStates /\ SameAsset(r.assets[i], st.assets[i])
            /\ \A j \in DOMAIN assets : j # i => r.assets[j] = st.assets[j]
        BY <3>1, SwapFacts
      <3>3. \A j \in T : SameAsset(r.assets[j], assets[j])
        BY <3>2 DEF SameAsset
      <3> QED BY <3>1, <3>2, <3>3
    <2> HIDE DEF V, T
    <2> QED BY <2>1
  <1>6. PICK r : r \in [0 .. Len(order) -> V] /\ IsRun(r, Len(order), op, BeforeLoading, order)
    <2> HIDE DEF op, V, T
    <2> QED BY <1>2, <1>4, <1>5, RunExists
  <1>7. ASSUME NEW n \in 1 .. Len(order)
        PROVE  n - 1 \in 0 .. Len(order) /\ r[n] = SwapAsset(r[n - 1], order[n], scene)
    <2>1. n - 1 \in 0 .. Len(order) /\ n \in 0 .. Len(order)
      BY <1>2
    <2>2. r[n - 1] \in V /\ order[n] \in T
      BY <1>2, <1>6, <2>1
    <2>3. r[n] = op[<<r[n - 1], order[n]>>]
      <3> HIDE DEF op
      <3> QED BY <1>6 DEF IsRun
    <2> HIDE DEF V, T
    <2> QED BY <2>1, <2>2, <2>3
  <1>8. r[0] = BeforeLoading /\ r = [n \in 0 .. Len(order) |-> r[n]]
    BY <1>6 DEF IsRun
  <1> HIDE DEF op, V, T
  <1>9. r = Def(r)
    <2>1. ASSUME NEW n \in 0 .. Len(order)
          PROVE  r[n] = IF n = 0 THEN BeforeLoading
                        ELSE SwapAsset(r[n - 1], order[n], scene)
      <3>1. CASE n = 0
        BY <1>8, <3>1
      <3>2. CASE n # 0
        <4>1. n \in 1 .. Len(order)
          BY <1>2, <3>2
        <4> QED BY <1>7, <3>2, <4>1
      <3> QED BY <3>1, <3>2
    <2> QED BY <1>8, <2>1
  <1>10. f = Def(f)
    <2> HIDE DEF Def
    <2> QED BY <1>9
  <1> DEFINE Wrong == {n \in 0 .. Len(order) : ~LoadInv(f[n], n, scene)}
  <1>11. ASSUME NEW n \in Wrong PROVE \E k \in Wrong : k < n
    <2> HIDE DEF f
    <2>1. n \in 0 .. Len(order) /\ ~LoadInv(f[n], n, scene)
      OBVIOUS
    <2>2. f[n] = IF n = 0 THEN BeforeLoading ELSE SwapAsset(f[n - 1], order[n], scene)
      BY <1>10, <2>1
    <2>3. n # 0
      BY <1>4, <2>1, <2>2
    <2>4. n \in 1 .. Len(order) /\ n \in Nat \ {0} /\ n - 1 \in 0 .. Len(order) /\ n - 1 < n
      BY <1>2, <2>1, <2>3
    <2>5. /\ order[n] \in DOMAIN assets
          /\ \A k \in 1 .. n : LoadOrder[k] \in DOMAIN assets
      <3>1. \A k \in 1 .. n : k \in 1 .. Len(order)
        BY <1>2, <2>4
      <3> QED BY <1>2, <2>4, <3>1 DEF T
    <2>6. f[n] = SwapAsset(f[n - 1], order[n], scene)
      BY <2>2, <2>3
    <2>7. ~LoadInv(f[n - 1], n - 1, scene)
      BY <2>1, <2>4, <2>5, <2>6, LoadStep
    <2>8. n - 1 \in Wrong
      BY <2>4, <2>7
    <2> HIDE DEF Wrong
    <2> QED BY <2>4, <2>8
  <1>12. Wrong = {}
    <2>1. Wrong \in SUBSET Nat
      BY <1>2
    <2> HIDE DEF Wrong
    <2> QED BY <1>11, <2>1, NoDescent
  <1>13. Len(order) \in 0 .. Len(order)
    BY <1>2
  <1> HIDE DEF f
  <1> QED BY <1>3, <1>12, <1>13

(* When no exception has cut it short, every asset is settled.             *)
LEMMA AllSettled ==
  ASSUME NamesInv, IndexInv, NEW scene, NEW new, LoadInv(new, Len(LoadOrder), scene), ~new.thrown
  PROVE  \A i \in DOMAIN assets : Settled(new.assets[i], scene)
  <1> SUFFICES ASSUME NEW i \in DOMAIN assets PROVE Settled(new.assets[i], scene)
    OBVIOUS
  <1> PICK order : order = LoadOrder
    OBVIOUS
  <1>1. order \in Seq(DOMAIN assets) /\ i \in Range(order)
    BY LoadOrderFacts DEF NamesInv
  <1>2. PICK k \in 1 .. Len(order) : i = order[k]
    BY <1>1, InRange
  <1> QED BY <1>2 DEF LoadInv
-----------------------------------------------------------------------------
(* Sorting the layers of two scenes, one behind the other.                 *)

(* The old layers stand in falling order, the new ones in rising order.    *)
OldAndNew(ls, n, m) ==
    /\ ls \in Seq(LayerRecords) /\ Len(ls) = n + m
    /\ \A k \in 1 .. n : ls[k].order = n - k
    /\ \A k \in n + 1 .. n + m : ls[k].order = k - 1

ComesFrom(i, n, m) == IF i <= m THEN ((n + m) + 1) - i ELSE i - m

LEMMA RankIs ==
  ASSUME NEW n \in Nat, NEW m \in Nat, NEW ls, OldAndNew(ls, n, m), NEW k \in 1 .. n + m
  PROVE  Rank(ls, k) = IF k <= n THEN k + m ELSE ((n + m) + 1) - k
  <1>1. DOMAIN ls = 1 .. n + m
    BY DEF OldAndNew
  <1> DEFINE B == {j \in DOMAIN ls : Before(ls, j, k)}
  <1>2. ASSUME NEW j \in 1 .. n + m
        PROVE  ls[j].order = IF j <= n THEN n - j ELSE j - 1
    <2>1. j <= n => j \in 1 .. n
      OBVIOUS
    <2>2. ~(j <= n) => j \in n + 1 .. n + m
      OBVIOUS
    <2> QED BY <2>1, <2>2 DEF OldAndNew
  <1>3. CASE k <= n
    <2>1. B = (1 .. k - 1) \cup (n + 1 .. n + m)
      <3>1. ASSUME NEW j \in 1 .. n + m
            PROVE  Before(ls, j, k) <=> j \in (1 .. k - 1) \cup (n + 1 .. n + m)
        <4>1. ls[k].order = n - k /\ ls[j].order = IF j <= n THEN n - j ELSE j - 1
          BY <1>2, <1>3
        <4>2. Before(ls, j, k) <=> \/ n - k < ls[j].order
                                   \/ n - k = ls[j].order /\ j < k
          BY <4>1 DEF Before
        <4> QED BY <1>3, <4>1, <4>2
      <3>2. \A j \in (1 .. k - 1) \cup (n + 1 .. n + m) : j \in 1 .. n + m
        BY <1>3
      <3> QED BY <1>1, <3>1, <3>2
    <2>2. /\ IsFiniteSet(1 .. k - 1) /\ Cardinality(1 .. k - 1) = k - 1
          /\ IsFiniteSet(n + 1 .. n + m) /\ Cardinality(n + 1 .. n + m) = m
      <3>1. /\ IsFiniteSet(1 .. k - 1)
            /\ Cardinality(1 .. k - 1) = IF 1 > k - 1 THEN 0 ELSE ((k - 1) - 1) + 1
        BY FS_Interval
      <3>2. /\ IsFiniteSet(n + 1 .. n + m)
            /\ Cardinality(n + 1 .. n + m) =
                   IF n + 1 > n + m THEN 0 ELSE ((n + m) - (n + 1)) + 1
        BY FS_Interval
      <3>3. (IF 1 > k - 1 THEN 0 ELSE ((k - 1) - 1) + 1) = k - 1
        OBVIOUS
      <3>4. (IF n + 1 > n + m THEN 0 ELSE ((n + m) - (n + 1)) + 1) = m
        OBVIOUS
      <3> QED BY <3>1, <3>2, <3>3, <3>4
    <2>3. (1 .. k - 1) \cap (n + 1 .. n + m) = {}
      BY <1>3
    <2>4. Cardinality(B) = ((k - 1) + m) - 0
      <3>1. PICK U, W : U = 1 .. k - 1 /\ W = n + 1 .. n + m
        OBVIOUS
      <3>2. Cardinality(U \cup W) =
                Cardinality(U) + Cardinality(W) - Cardinality(U \cap W)
        <4>1. IsFiniteSet(U) /\ IsFiniteSet(W)
          BY <2>2, <3>1
        <4> HIDE DEF B
        <4> QED BY ONLY <4>1, FS_Union
      <3>3. Cardinality(U \cap W) = 0
        BY <2>3, <3>1, FS_EmptySet
      <3> HIDE DEF B
      <3> QED BY ONLY <2>1, <2>2, <3>1, <3>2, <3>3
    <2>5. Rank(ls, k) = 1 + Cardinality(B)
      BY DEF Rank
    <2> HIDE DEF B
    <2> QED BY <1>3, <2>4, <2>5
  <1>4. CASE ~(k <= n)
    <2>1. B = k + 1 .. n + m
      <3>1. ASSUME NEW j \in 1 .. n + m
            PROVE  Before(ls, j, k) <=> j \in k + 1 .. n + m
        <4>1. ls[k].order = k - 1 /\ ls[j].order = IF j <= n THEN n - j ELSE j - 1
          BY <1>2, <1>4
        <4>2. Before(ls, j, k) <=> \/ k - 1 < ls[j].order
                                   \/ k - 1 = ls[j].order /\ j < k
          BY <4>1 DEF Before
        <4> QED BY <1>4, <4>1, <4>2
      <3>2. \A j \in k + 1 .. n + m : j \in 1 .. n + m
        OBVIOUS
      <3> QED BY <1>1, <3>1, <3>2
    <2>2. Cardinality(k + 1 .. n + m) = (n + m) - k
      <3>1. Cardinality(k + 1 .. n + m) =
                IF k + 1 > n + m THEN 0 ELSE ((n + m) - (k + 1)) + 1
        BY FS_Interval
      <3>2. (IF k + 1 > n + m THEN 0 ELSE ((n + m) - (k + 1)) + 1) = (n + m) - k
        OBVIOUS
      <3> QED BY <3>1, <3>2
    <2>3. Rank(ls, k) = 1 + Cardinality(B)
      BY DEF Rank
    <2> HIDE DEF B
    <2> QED BY <1>4, <2>1, <2>2, <2>3
  <1> QED BY <1>3, <1>4

LEMMA SortedLayers ==
  ASSUME NEW n \in Nat, NEW m \in Nat, NEW ls, OldAndNew(ls, n, m)
  PROVE  /\ SortLayers(ls) = [i \in 1 .. n + m |-> ls[ComesFrom(i, n, m)]]
         /\ \A i \in 1 .. n + m : /\ ComesFrom(i, n, m) \in 1 .. n + m
                                  /\ ls[ComesFrom(i, n, m)].order = (n + m) - i
  <1>1. DOMAIN ls = 1 .. n + m
    BY DEF OldAndNew
  <1>2. ASSUME NEW i \in 1 .. n + m
        PROVE  /\ ComesFrom(i, n, m) \in 1 .. n + m
               /\ ls[ComesFrom(i, n, m)].order = (n + m) - i
               /\ (CHOOSE k \in DOMAIN ls : Rank(ls, k) = i) = ComesFrom(i, n, m)
    <2> PICK c : c = ComesFrom(i, n, m)
      OBVIOUS
    <2>1. /\ c \in 1 .. n + m
          /\ i <= m => c \in n + 1 .. n + m /\ c - 1 = (n + m) - i
          /\ ~(i <= m) => c \in 1 .. n /\ n - c = (n + m) - i
      BY DEF ComesFrom
    <2>2. ls[c].order = (n + m) - i
      BY <2>1 DEF OldAndNew
    <2>3. \A k \in 1 .. n + m : Rank(ls, k) = i <=> k = c
      <3>1. ASSUME NEW k \in 1 .. n + m PROVE Rank(ls, k) = i <=> k = c
        <4>1. Rank(ls, k) = IF k <= n THEN k + m ELSE ((n + m) + 1) - k
          BY RankIs
        <4>2. (IF k <= n THEN k + m ELSE ((n + m) + 1) - k) = i <=> k = c
          BY DEF ComesFrom
        <4> QED BY <4>1, <4>2
      <3> QED BY <3>1
    <2>4. (CHOOSE k \in DOMAIN ls : Rank(ls, k) = i) = c
      BY <1>1, <2>1, <2>3
    <2> QED BY <2>1, <2>2, <2>4
  <1>3. SortLayers(ls) = [i \in 1 .. n + m |-> ls[ComesFrom(i, n, m)]]
    <2>1. SortLayers(ls) = [i \in 1 .. n + m |->
                               ls[CHOOSE k \in DOMAIN ls : Rank(ls, k) = i]]
      BY <1>1 DEF SortLayers
    <2>2. \A i \in 1 .. n + m : (CHOOSE k \in DOMAIN ls : Rank(ls, k) = i) = ComesFrom(i, n, m)
      BY <1>2
    <2> QED BY <2>1, <2>2
  <1> QED BY <1>2, <1>3
-----------------------------------------------------------------------------
(* Where the pointers to an object are.                                    *)

LEMMA SameNumber ==
  ASSUME NEW S, NEW T, IsFiniteSet(T), NEW g \in [S -> T],
         \A a, b \in S : g[a] = g[b] => a = b
  PROVE  /\ IsFiniteSet(S) /\ Cardinality(S) <= Cardinality(T)
         /\ (\A t \in T : \E a \in S : g[a] = t) => Cardinality(S) = Cardinality(T)
  <1>1. g \in Injection(S, T)
    BY DEF Injection, IsInjective
  <1>2. (\A t \in T : \E a \in S : g[a] = t) => g \in Surjection(S, T)
    BY DEF Surjection
  <1> QED BY <1>1, <1>2, FS_Injection

LEMMA LayerFacts ==
  ASSUME NEW ls \in Seq(LayerRecords)
  PROVE  /\ DOMAIN ls = 1 .. Len(ls) /\ Len(ls) \in Nat
         /\ \A k \in 1 .. Len(ls) :
                /\ ls[k].order \in Nat /\ ls[k].visible \in BOOLEAN
                /\ ls[k].from \in SceneFiles \X Nat
                /\ ls[k].objects \in Seq(Objects \cup {Expired})
                /\ ls[k] = [order |-> ls[k].order, from |-> ls[k].from, visible |-> ls[k].visible,
                            objects |-> ls[k].objects]
  <1>1. \A k \in 1 .. Len(ls) : ls[k] \in LayerRecords
    BY InRange
  <1>2. DOMAIN ls = 1 .. Len(ls) /\ Len(ls) \in Nat
    BY InRange
  <1> QED BY <1>1, <1>2 DEF LayerRecords

LEMMA PlacesFinite ==
  ASSUME NEW ls \in Seq(LayerRecords), NEW o
  PROVE  IsFiniteSet(PlacesOf(ls, o)) /\ Cardinality(PlacesOf(ls, o)) \in Nat
  <1> DEFINE In(k) == {k} \X DOMAIN ls[k].objects
             D == DOMAIN ls
             Sets == {In(k) : k \in D}
             g == [k \in D |-> In(k)]
  <1>1. IsFiniteSet(D)
    <2>1. D = 1 .. Len(ls) /\ Len(ls) \in Nat
      BY LayerFacts
    <2> QED BY <2>1, FS_Interval
  <1>2. g \in Surjection(D, Sets)
    BY DEF Surjection
  <1>3. IsFiniteSet(Sets)
    <2> HIDE DEF g, D, Sets
    <2> QED BY <1>1, <1>2, FS_Surjection
  <1>4. ASSUME NEW k \in D PROVE IsFiniteSet(In(k))
    <2>1. ls[k].objects \in Seq(Objects \cup {Expired})
      BY LayerFacts
    <2>2. DOMAIN ls[k].objects = 1 .. Len(ls[k].objects) /\ Len(ls[k].objects) \in Nat
      BY <2>1, InRange
    <2>3. IsFiniteSet(DOMAIN ls[k].objects)
      <3>1. PICK n \in Nat : DOMAIN ls[k].objects = 1 .. n
        BY <2>2
      <3>2. IsFiniteSet(1 .. n)
        BY FS_Interval
      <3> QED BY <3>1, <3>2
    <2> QED BY <2>3, FS_Singleton, FS_Product
  <1>5. \A X \in Sets : IsFiniteSet(X)
    <2> HIDE DEF In
    <2> QED BY <1>4
  <1>6. IsFiniteSet(UNION Sets)
    <2> HIDE DEF Sets
    <2> QED BY <1>3, <1>5, FS_UNION
  <1>7. Pointers(ls) = UNION Sets
    BY DEF Pointers
  <1> HIDE DEF Sets
  <1>8. PlacesOf(ls, o) \subseteq UNION Sets
    BY <1>7 DEF PlacesOf
  <1> QED BY <1>6, <1>8, FS_Subset, FS_CardinalityType

LEMMA PlacesAre ==
  ASSUME NEW ls \in Seq(LayerRecords), NEW o
  PROVE  /\ \A k \in 1 .. Len(ls) : \A i \in DOMAIN ls[k].objects :
                ls[k].objects[i] = o => <<k, i>> \in PlacesOf(ls, o)
         /\ \A p \in PlacesOf(ls, o) :
                /\ p = <<p[1], p[2]>> /\ p[1] \in 1 .. Len(ls)
                /\ p[2] \in DOMAIN ls[p[1]].objects /\ ls[p[1]].objects[p[2]] = o
  <1>1. DOMAIN ls = 1 .. Len(ls)
    BY LayerFacts
  <1>2. ASSUME NEW p
        PROVE  p \in Pointers(ls) <=> \E k \in 1 .. Len(ls) : p \in {k} \X DOMAIN ls[k].objects
    BY <1>1 DEF Pointers
  <1>3. ASSUME NEW k \in 1 .. Len(ls), NEW i \in DOMAIN ls[k].objects, ls[k].objects[i] = o
        PROVE  <<k, i>> \in PlacesOf(ls, o)
    <2>1. <<k, i>> \in Pointers(ls)
      BY <1>2
    <2> QED BY <1>3, <2>1 DEF PlacesOf
  <1>4. ASSUME NEW p \in PlacesOf(ls, o)
        PROVE  /\ p = <<p[1], p[2]>> /\ p[1] \in 1 .. Len(ls)
               /\ p[2] \in DOMAIN ls[p[1]].objects /\ ls[p[1]].objects[p[2]] = o
    <2>1. p \in Pointers(ls) /\ ls[p[1]].objects[p[2]] = o
      BY DEF PlacesOf
    <2>2. PICK k \in 1 .. Len(ls) : p \in {k} \X DOMAIN ls[k].objects
      BY <1>2, <2>1
    <2>3. p[1] = k /\ p[2] \in DOMAIN ls[k].objects /\ p = <<p[1], p[2]>>
      BY <2>2
    <2> QED BY <2>1, <2>3
  <1> QED BY <1>3, <1>4

LEMMA PlaceIs ==
  ASSUME NEW ls \in Seq(LayerRecords), NEW o, NEW p \in PlacesOf(ls, o)
  PROVE  \E k \in 1 .. Len(ls) : \E i \in DOMAIN ls[k].objects :
             p = <<k, i>> /\ ls[k].objects[i] = o
  <1>1. /\ p = <<p[1], p[2]>> /\ p[1] \in 1 .. Len(ls)
        /\ p[2] \in DOMAIN ls[p[1]].objects /\ ls[p[1]].objects[p[2]] = o
    BY PlacesAre
  <1>2. PICK k \in 1 .. Len(ls) : k = p[1]
    BY <1>1
  <1>3. PICK i \in DOMAIN ls[k].objects : i = p[2]
    BY <1>1, <1>2
  <1> QED BY <1>1, <1>2, <1>3
-----------------------------------------------------------------------------
(* What the events of the game do to the layers.                           *)

LEMMA BuiltFacts ==
  ASSUME NEW file, Len(file) \in Nat
  PROVE  BuiltLayers(file) \in 0 .. Len(file)
  <1> DEFINE S == {i \in 1 .. Len(file) : ~LayerBuilds(file[i])}
  <1>1. PICK k \in 0 .. Len(file) :
            /\ \A i \in 1 .. k : i \notin S
            /\ k = Len(file) \/ k + 1 \in S
    <2>1. PICK n \in Nat : n = Len(file)
      OBVIOUS
    <2> HIDE DEF S
    <2>2. \E k \in 0 .. n : (\A i \in 1 .. k : i \notin S) /\ (k = n \/ k + 1 \in S)
      BY UpToFirst
    <2> QED BY <2>1, <2>2
  <1>2. \A i \in 1 .. k : LayerBuilds(file[i])
    <2>1. \A i \in 1 .. k : i \in 1 .. Len(file)
      OBVIOUS
    <2> QED BY <1>1, <2>1
  <1>3. k = Len(file) \/ ~LayerBuilds(file[k + 1])
    BY <1>1
  <1> QED BY <1>2, <1>3 DEF BuiltLayers

(* The m layers of file f are behind the n there were, with nobody in them. *)
IsFrom(l, f, i) == l.from = <<f, i>> /\ l.visible = SceneFile[f][i].visible
Behind(ls, n, m, f) ==
    /\ n \in Nat /\ m \in Nat /\ ls \in Seq(LayerRecords) /\ Len(ls) = n + m
    /\ \A j \in 1 .. n : ls[j] = layers[j]
    /\ \A j \in n + 1 .. n + m : ls[j].order = j - 1 /\ IsFrom(ls[j], f, j - n)
    /\ \A o \in Objects : PlacesOf(ls, o) = PlacesOf(layers, o)

LEMMA ReadFacts ==
  ASSUME layers \in Seq(LayerRecords), NEW f \in SceneFiles,
         NEW m \in 0 .. Len(SceneFile[f]), NEW n, n = Len(layers),
         NEW ls, ls = ReadLayers(f, m)
  PROVE  Behind(ls, n, m, f)
  <1> PICK file : file = SceneFile[f]
    OBVIOUS
  <1> DEFINE FileLayers == [visible : BOOLEAN, objects : Seq(Int)]
  <1>1. /\ file \in Seq(FileLayers) /\ Len(file) \in Nat
        /\ \A i \in 1 .. Len(file) : file[i] \in FileLayers
    <2>1. file \in Seq(FileLayers)
      BY ScenesAssumption
    <2> HIDE DEF FileLayers
    <2> QED BY <2>1, InRange
  <1>2. n \in Nat /\ m \in Nat
    BY <1>1, LayerFacts
  <1> DEFINE new == [i \in 1 .. m |-> NewLayer(f, i)]
  <1>3. ASSUME NEW i \in 1 .. m
        PROVE  /\ new[i] \in LayerRecords /\ new[i].order = (n + i) - 1 /\ IsFrom(new[i], f, i)
               /\ \A j \in DOMAIN new[i].objects : new[i].objects[j] = Expired
    <2>1. i \in 1 .. Len(file)
      BY <1>1
    <2>2. file[i].visible \in BOOLEAN /\ file[i].objects \in Seq(Int)
      <3>1. file[i] \in FileLayers
        BY <1>1, <2>1
      <3> PICK l \in FileLayers : l = file[i]
        BY <3>1
      <3>2. l.visible \in BOOLEAN /\ l.objects \in Seq(Int)
        BY ONLY l \in FileLayers
      <3> QED BY <3>2
    <2> PICK uids \in Seq(Int) : uids = file[i].objects
      BY <2>2
    <2>3. [j \in DOMAIN uids |-> Expired] \in Seq(Objects \cup {Expired})
      <3>1. DOMAIN uids = 1 .. Len(uids) /\ Len(uids) \in Nat
        BY InRange
      <3> QED BY <3>1
    <2>4. new[i] = [order |-> Len(layers) + i - 1, from |-> <<f, i>>, visible |-> file[i].visible,
                    objects |-> [j \in DOMAIN uids |-> Expired]]
      BY DEF NewLayer
    <2>5. (Len(layers) + i - 1) = (n + i) - 1 /\ (n + i) - 1 \in Nat
      BY <1>2
    <2>6. <<f, i>> \in SceneFiles \X Nat
      BY <2>1
    <2> HIDE DEF new
    <2> PICK a, r, v, z : /\ a = (n + i) - 1 /\ r = <<f, i>> /\ v = file[i].visible
                          /\ z = [j \in DOMAIN uids |-> Expired]
      OBVIOUS
    <2>7. new[i] = [order |-> a, from |-> r, visible |-> v, objects |-> z]
      BY <2>4, <2>5
    <2>8. new[i] \in LayerRecords
      BY <2>2, <2>3, <2>5, <2>6, <2>7 DEF LayerRecords
    <2>9. new[i].order = a /\ new[i].from = r /\ new[i].visible = v /\ new[i].objects = z
      BY ONLY <2>7
    <2> QED BY <2>8, <2>9 DEF IsFrom
  <1>4. new \in Seq(LayerRecords) /\ Len(new) = m
    <2>1. new = [i \in 1 .. m |-> new[i]]
      OBVIOUS
    <2> HIDE DEF new
    <2> QED BY <1>2, <1>3, <2>1
  <1>5. ls = layers \o new
    BY DEF ReadLayers
  <1> HIDE DEF new
  <1>6. /\ ls \in Seq(LayerRecords) /\ Len(ls) = n + m
        /\ \A j \in 1 .. n + m : ls[j] = IF j <= n THEN layers[j] ELSE new[j - n]
    <2>1. Len(layers) = n
      OBVIOUS
    <2>2. /\ layers \o new \in Seq(LayerRecords) /\ Len(layers \o new) = Len(layers) + Len(new)
          /\ \A j \in 1 .. Len(layers) + Len(new) :
                 (layers \o new)[j] = IF j <= Len(layers) THEN layers[j] ELSE new[j - Len(layers)]
      BY <1>4, ConcatProperties
    <2> QED BY <1>4, <1>5, <2>1, <2>2
  <1>7. \A j \in 1 .. n : ls[j] = layers[j]
    BY <1>2, <1>6
  <1>8. ASSUME NEW j \in n + 1 .. n + m
        PROVE  /\ ls[j].order = j - 1 /\ IsFrom(ls[j], f, j - n)
               /\ \A i \in DOMAIN ls[j].objects : ls[j].objects[i] = Expired
    <2>1. /\ j \in 1 .. n + m /\ ~(j <= n) /\ j - n \in 1 .. m
          /\ (n + (j - n)) - 1 = j - 1
      BY <1>2
    <2>2. ls[j] = new[j - n]
      BY <1>6, <2>1
    <2> QED BY <1>3, <2>1, <2>2
  <1>9. ASSUME NEW o \in Objects PROVE PlacesOf(ls, o) = PlacesOf(layers, o)
    <2>1. o # Expired
      BY ScenesAssumption
    <2>2. ASSUME NEW p \in PlacesOf(ls, o) PROVE p \in PlacesOf(layers, o)
      <3>1. /\ p = <<p[1], p[2]>> /\ p[1] \in 1 .. n + m
            /\ p[2] \in DOMAIN ls[p[1]].objects /\ ls[p[1]].objects[p[2]] = o
        BY <1>6, PlacesAre
      <3>2. p[1] \in 1 .. n
        <4>1. p[1] \in n + 1 .. n + m \/ p[1] \in 1 .. n
          BY <1>2, <3>1
        <4> QED BY <1>8, <2>1, <3>1, <4>1
      <3> QED BY <1>7, <3>1, <3>2, PlacesAre
    <2>3. ASSUME NEW p \in PlacesOf(layers, o) PROVE p \in PlacesOf(ls, o)
      <3>1. /\ p = <<p[1], p[2]>> /\ p[1] \in 1 .. n
            /\ p[2] \in DOMAIN layers[p[1]].objects /\ layers[p[1]].objects[p[2]] = o
        BY PlacesAre
      <3>2. p[1] \in 1 .. n + m
        BY <1>2, <3>1
      <3> QED BY <1>6, <1>7, <3>1, <3>2, PlacesAre
    <2> QED BY <2>2, <2>3
  <1> QED BY <1>2, <1>6, <1>7, <1>8, <1>9 DEF Behind

LEMMA SortFacts ==
  ASSUME NEW n \in Nat, NEW m \in Nat, NEW ls, OldAndNew(ls, n, m),
         NEW r, r = SortLayers(ls)
  PROVE  /\ r \in Seq(LayerRecords) /\ Len(r) = n + m
         /\ \A i \in 1 .. n + m : r[i].order = (n + m) - i /\ r[i] = ls[ComesFrom(i, n, m)]
         /\ \A o : Cardinality(PlacesOf(r, o)) = Cardinality(PlacesOf(ls, o))
  <1>1. ls \in Seq(LayerRecords) /\ Len(ls) = n + m
    BY DEF OldAndNew
  <1>2. /\ r = [i \in 1 .. n + m |-> ls[ComesFrom(i, n, m)]]
        /\ \A i \in 1 .. n + m : /\ ComesFrom(i, n, m) \in 1 .. n + m
                                 /\ ls[ComesFrom(i, n, m)].order = (n + m) - i
    BY SortedLayers
  <1>3. \A i \in 1 .. n + m : r[i] = ls[ComesFrom(i, n, m)] /\ r[i] \in LayerRecords
    <2>1. ASSUME NEW i \in 1 .. n + m
          PROVE  r[i] = ls[ComesFrom(i, n, m)] /\ r[i] \in LayerRecords
      <3>1. r[i] = ls[ComesFrom(i, n, m)]
        BY <1>2
      <3>2. PICK c \in 1 .. n + m : c = ComesFrom(i, n, m)
        BY <1>2
      <3>3. ls[c] \in LayerRecords
        BY <1>1, InRange
      <3> QED BY <3>1, <3>2, <3>3
    <2> QED BY <2>1
  <1>4. r \in Seq(LayerRecords) /\ Len(r) = n + m
    <2>1. PICK N \in Nat : N = n + m
      OBVIOUS
    <2>2. r = [i \in 1 .. N |-> r[i]] /\ \A i \in 1 .. N : r[i] \in LayerRecords
      BY <1>2, <1>3, <2>1
    <2>3. r \in Seq(LayerRecords) /\ Len(r) = N
      BY ONLY N \in Nat, <2>2
    <2> QED BY <2>1, <2>3
  <1>5. ASSUME NEW o PROVE Cardinality(PlacesOf(r, o)) = Cardinality(PlacesOf(ls, o))
    <2> DEFINE S == PlacesOf(r, o)
               T == PlacesOf(ls, o)
               g == [p \in S |-> <<ComesFrom(p[1], n, m), p[2]>>]
    <2>1. ASSUME NEW p \in S
          PROVE  /\ p = <<p[1], p[2]>> /\ p[1] \in 1 .. n + m
                 /\ <<ComesFrom(p[1], n, m), p[2]>> \in T
      <3>1. /\ p = <<p[1], p[2]>> /\ p[1] \in 1 .. n + m
            /\ p[2] \in DOMAIN r[p[1]].objects /\ r[p[1]].objects[p[2]] = o
        BY <1>4, PlacesAre
      <3>2. r[p[1]] = ls[ComesFrom(p[1], n, m)] /\ ComesFrom(p[1], n, m) \in 1 .. Len(ls)
        BY <1>1, <1>2, <1>3, <3>1
      <3> QED BY <1>1, <3>1, <3>2, PlacesAre
    <2>2. g \in [S -> T]
      <3> HIDE DEF S, T
      <3> QED BY <2>1
    <2>3. ASSUME NEW a \in S, NEW b \in S, g[a] = g[b] PROVE a = b
      <3>1. ComesFrom(a[1], n, m) = ComesFrom(b[1], n, m) /\ a[2] = b[2]
        BY <2>3
      <3>2. a[1] \in 1 .. n + m /\ b[1] \in 1 .. n + m
        BY <2>1
      <3>3. PICK x \in 1 .. n + m, y \in 1 .. n + m : x = a[1] /\ y = b[1]
        BY <3>2
      <3>4. ls[ComesFrom(x, n, m)].order = (n + m) - x /\ ls[ComesFrom(y, n, m)].order = (n + m) - y
        BY <1>2
      <3>5. (n + m) - x = (n + m) - y
        BY <3>1, <3>3, <3>4
      <3>6. x = y
        BY <3>5
      <3> QED BY <2>1, <3>1, <3>3, <3>6
    <2>4. ASSUME NEW t \in T PROVE \E a \in S : g[a] = t
      <3>1. /\ t = <<t[1], t[2]>> /\ t[1] \in 1 .. n + m
            /\ t[2] \in DOMAIN ls[t[1]].objects /\ ls[t[1]].objects[t[2]] = o
        BY <1>1, PlacesAre
      <3>2. PICK i \in 1 .. n + m : ComesFrom(i, n, m) = t[1]
        <4>1. PICK x \in 1 .. n + m : x = t[1]
          BY <3>1
        <4>2. CASE x <= n
          <5>1. x + m \in 1 .. n + m /\ ComesFrom(x + m, n, m) = x
            BY <4>2 DEF ComesFrom
          <5> QED BY <4>1, <5>1
        <4>3. CASE ~(x <= n)
          <5>1. ((n + m) + 1) - x \in 1 .. n + m /\ ComesFrom(((n + m) + 1) - x, n, m) = x
            BY <4>3 DEF ComesFrom
          <5> QED BY <4>1, <5>1
        <4> QED BY <4>2, <4>3
      <3>3. r[i] = ls[t[1]]
        BY <1>3, <3>2
      <3>4. <<i, t[2]>> \in S
        BY <1>4, <3>1, <3>3, PlacesAre
      <3>5. g[<<i, t[2]>>] = <<ComesFrom(i, n, m), t[2]>>
        BY <3>4
      <3> QED BY <3>1, <3>2, <3>4, <3>5
    <2>5. IsFiniteSet(T)
      BY <1>1, PlacesFinite
    <2> HIDE DEF S, T, g
    <2>6. Cardinality(S) = Cardinality(T)
      BY <2>2, <2>3, <2>4, <2>5, SameNumber
    <2> QED BY <2>6 DEF S, T
  <1> QED BY <1>2, <1>3, <1>4, <1>5

(* An object that is added is the last of the last layer.                  *)
LEMMA AddFacts ==
  ASSUME layers \in Seq(LayerRecords), layers # <<>>, NEW o \in Objects,
         NEW new, new = [layers EXCEPT ![Len(layers)].objects = Append(@, o)]
  PROVE  /\ new \in Seq(LayerRecords) /\ Len(new) = Len(layers)
         /\ \A k \in 1 .. Len(layers) : SameLayer(new[k], layers[k])
         /\ \A x \in Objects : x # o => PlacesOf(new, x) = PlacesOf(layers, x)
         /\ Cardinality(PlacesOf(new, o)) = Cardinality(PlacesOf(layers, o)) + 1
  <1>1. PICK n \in Nat \ {0} : n = Len(layers)
    BY EmptySeq
  <1>2. DOMAIN layers = 1 .. n /\ n \in 1 .. n
    BY <1>1, LayerFacts
  <1> PICK list \in Seq(Objects \cup {Expired}) : list = layers[n].objects
    BY <1>1, <1>2, LayerFacts
  <1> PICK m \in Nat : m = Len(list)
    OBVIOUS
  <1>3. /\ Append(list, o) \in Seq(Objects \cup {Expired}) /\ Len(Append(list, o)) = m + 1
        /\ \A i \in 1 .. m : Append(list, o)[i] = list[i]
        /\ Append(list, o)[m + 1] = o
    BY AppendProperties
  <1>4. /\ DOMAIN new = 1 .. n /\ new = [k \in 1 .. n |-> new[k]]
        /\ \A k \in 1 .. n : k # n => new[k] = layers[k]
        /\ new[n] = [layers[n] EXCEPT !.objects = Append(list, o)]
    BY <1>1, <1>2
  <1>5. /\ layers[n].order \in Nat /\ layers[n].visible \in BOOLEAN
        /\ layers[n].from \in SceneFiles \X Nat
        /\ layers[n] = [order |-> layers[n].order, from |-> layers[n].from,
                        visible |-> layers[n].visible, objects |-> layers[n].objects]
    BY <1>1, <1>2, LayerFacts
  <1>6. /\ new[n] = [order |-> layers[n].order, from |-> layers[n].from,
                     visible |-> layers[n].visible, objects |-> Append(list, o)]
        /\ new[n].objects = Append(list, o) /\ SameLayer(new[n], layers[n])
    <2>1. PICK l, v, a, r, z : /\ l = layers[n] /\ a = l.order /\ v = l.visible /\ r = l.from
                               /\ z = Append(list, o)
      OBVIOUS
    <2>2. l = [order |-> a, from |-> r, visible |-> v, objects |-> l.objects]
      BY <1>5, <2>1
    <2>3. [l EXCEPT !.objects = z] = [order |-> a, from |-> r, visible |-> v, objects |-> z]
      BY ONLY <2>2
    <2>4. new[n] = [order |-> a, from |-> r, visible |-> v, objects |-> z]
      BY <1>4, <2>1, <2>3
    <2>5. new[n].objects = z /\ new[n].order = a /\ new[n].from = r /\ new[n].visible = v
      BY ONLY <2>4
    <2> QED BY <2>1, <2>4, <2>5 DEF SameLayer
  <1>7. \A k \in 1 .. n : new[k] \in LayerRecords
    <2>1. new[n] \in LayerRecords
      <3>1. PICK v, a, r, z : /\ a = layers[n].order /\ v = layers[n].visible
                              /\ r = layers[n].from /\ z = Append(list, o)
        OBVIOUS
      <3>2. /\ a \in Nat /\ v \in BOOLEAN /\ r \in SceneFiles \X Nat
            /\ z \in Seq(Objects \cup {Expired})
        BY <1>3, <1>5, <3>1
      <3>3. [order |-> a, from |-> r, visible |-> v, objects |-> z] \in LayerRecords
        BY ONLY <3>2 DEF LayerRecords
      <3> QED BY <1>6, <3>1, <3>3
    <2>2. \A k \in 1 .. n : layers[k] \in LayerRecords
      BY <1>1, InRange
    <2> QED BY <1>4, <2>1, <2>2
  <1>8. new \in Seq(LayerRecords) /\ Len(new) = n
    BY ONLY n \in Nat \ {0}, <1>4, <1>7
  <1>9. DOMAIN list = 1 .. m /\ DOMAIN Append(list, o) = 1 .. m + 1
    BY <1>3, LenProperties
  <1>10. ASSUME NEW x \in Objects, NEW p \in PlacesOf(layers, x) PROVE p \in PlacesOf(new, x)
    <2>1. PICK k \in 1 .. n : \E i \in DOMAIN layers[k].objects :
              p = <<k, i>> /\ layers[k].objects[i] = x
      BY <1>1, PlaceIs
    <2>2. PICK i \in DOMAIN layers[k].objects : p = <<k, i>> /\ layers[k].objects[i] = x
      BY <2>1
    <2>3. i \in DOMAIN new[k].objects /\ new[k].objects[i] = x
      <3>1. CASE k = n
        <4>1. i \in 1 .. m /\ list[i] = x
          BY <1>9, <2>2, <3>1
        <4>2. i \in 1 .. m + 1
          BY <4>1
        <4> QED BY <1>3, <1>6, <1>9, <3>1, <4>1, <4>2
      <3>2. CASE k # n
        BY <1>4, <2>2, <3>2
      <3> QED BY <3>1, <3>2
    <2>4. <<k, i>> \in PlacesOf(new, x)
      BY <1>8, <2>3, PlacesAre
    <2> QED BY <2>2, <2>4
  <1>11. ASSUME NEW x \in Objects, NEW p \in PlacesOf(new, x)
         PROVE  p \in PlacesOf(layers, x) \/ (x = o /\ p = <<n, m + 1>>)
    <2>1. PICK k \in 1 .. n : \E i \in DOMAIN new[k].objects :
              p = <<k, i>> /\ new[k].objects[i] = x
      BY ONLY <1>8, p \in PlacesOf(new, x), PlaceIs
    <2>2. PICK i \in DOMAIN new[k].objects : p = <<k, i>> /\ new[k].objects[i] = x
      BY <2>1
    <2>3. CASE k = n /\ i = m + 1
      BY <1>3, <1>6, <2>2, <2>3
    <2>4. CASE k = n /\ i # m + 1
      <3>1. i \in 1 .. m + 1 /\ Append(list, o)[i] = x
        BY <1>6, <1>9, <2>2, <2>4
      <3>2. i \in 1 .. m
        BY <2>4, <3>1
      <3>3. i \in DOMAIN layers[k].objects /\ layers[k].objects[i] = x
        BY <1>3, <1>9, <2>4, <3>1, <3>2
      <3>4. <<k, i>> \in PlacesOf(layers, x)
        BY <1>1, <3>3, PlacesAre
      <3> QED BY <2>2, <3>4
    <2>5. CASE k # n
      <3>1. <<k, i>> \in PlacesOf(layers, x)
        BY <1>1, <1>4, <2>2, <2>5, PlacesAre
      <3> QED BY <2>2, <3>1
    <2> QED BY <2>3, <2>4, <2>5
  <1>12. ASSUME NEW x \in Objects, x # o PROVE PlacesOf(new, x) = PlacesOf(layers, x)
    BY <1>10, <1>11, <1>12
  <1>13. Cardinality(PlacesOf(new, o)) = Cardinality(PlacesOf(layers, o)) + 1
    <2>1. <<n, m + 1>> \in PlacesOf(new, o)
      <3>1. m + 1 \in 1 .. m + 1
        OBVIOUS
      <3> QED BY ZenonT(40), <1>2, <1>3, <1>6, <1>8, <1>9, <3>1, PlacesAre
    <2>2. <<n, m + 1>> \notin PlacesOf(layers, o)
      <3>1. ASSUME <<n, m + 1>> \in PlacesOf(layers, o) PROVE FALSE
        <4>1. PICK q : q = <<n, m + 1>>
          OBVIOUS
        <4>2. q[2] \in DOMAIN layers[q[1]].objects /\ q[1] = n /\ q[2] = m + 1
          BY <3>1, <4>1, PlacesAre
        <4>3. m + 1 \in 1 .. m
          BY <1>9, <4>2
        <4> QED BY <4>3
      <3> QED BY <3>1
    <2>3. PlacesOf(new, o) = PlacesOf(layers, o) \cup {<<n, m + 1>>}
      BY <1>10, <1>11, <2>1
    <2>4. IsFiniteSet(PlacesOf(layers, o))
      BY PlacesFinite
    <2> QED BY <2>2, <2>3, <2>4, FS_AddElement
  <1> QED BY <1>1, <1>4, <1>6, <1>8, <1>12, <1>13 DEF SameLayer

(* What remove_if does to the places of x in a list: g leads from those    *)
(* there are after it to where they were; of another id, none is lost.     *)
Spots(list, x) == {i \in DOMAIN list : list[i] = x}
MovedBy(g, r, list, x, id) ==
    /\ g \in [Spots(r, x) -> Spots(list, x)]
    /\ \A a, b \in Spots(r, x) : g[a] = g[b] => a = b
    /\ IdOf[x] # id => \A t \in Spots(list, x) : \E a \in Spots(r, x) : g[a] = t

LEMMA RemoveIfFacts ==
  ASSUME NEW list \in Seq(Objects \cup {Expired}), NEW id, NEW queued,
         NEW r, r = RemoveIf(list, id, queued)
  PROVE  /\ r \in Seq(Objects \cup {Expired})
         /\ \A x \in Objects : \E g : MovedBy(g, r, list, x, id)
  <1> DEFINE T == Objects \cup {Expired}
             Stay == {o \in Range(list) : ~IsIn(o, id, queued)}
  <1>1. PICK kept : kept = Chosen(list, Stay)
    OBVIOUS
  <1>2. kept \in Seq(T) /\ IsChosen(kept, list, Stay, Len(list))
    <2> HIDE DEF T, Stay
    <2> SUFFICES ASSUME list \in Seq(T) PROVE kept \in Seq(T) /\ IsChosen(kept, list, Stay, Len(list))
      BY DEF T
    <2> QED BY <1>1, ChosenPlaces
  <1>3. r = IF Len(kept) = Len(list) THEN list
            ELSE [i \in DOMAIN list |->
                     IF i <= Len(kept) THEN kept[i]
                     ELSE IF IsIn(list[i], id, queued) THEN list[i] ELSE Expired]
    BY <1>1 DEF RemoveIf
  <1>4. PICK n \in Nat, m \in Nat : n = Len(list) /\ m = Len(kept) /\ m <= n
    BY <1>2, LenProperties DEF IsChosen
  <1>5. DOMAIN list = 1 .. n /\ \A i \in 1 .. n : list[i] \in T /\ list[i] \in Range(list)
    BY <1>4, InRange
  <1>6. \A i \in 1 .. m : kept[i] \in T
    BY <1>2, <1>4
  <1>7. PICK p : IsChoice(p, kept, list, Stay, n)
    BY <1>2, <1>4 DEF IsChosen
  <1>8. /\ p \in [1 .. m -> 1 .. n]
        /\ \A a, b \in 1 .. m : p[a] = p[b] => a = b
        /\ \A j \in 1 .. m : kept[j] = list[p[j]] /\ kept[j] \in Stay
        /\ \A i \in 1 .. n : list[i] \in Stay => \E j \in 1 .. m : p[j] = i
    BY <1>4, <1>7 DEF IsChoice
  <1>9. CASE m = n
    <2>1. r = list
      BY <1>3, <1>4, <1>9
    <2>2. ASSUME NEW x \in Objects PROVE \E g : MovedBy(g, r, list, x, id)
      <3> DEFINE S == Spots(list, x)
                 g == [i \in S |-> i]
      <3>1. g \in [S -> S] /\ (\A a, b \in S : g[a] = g[b] => a = b) /\ \A t \in S : g[t] = t
        <4> HIDE DEF S
        <4> QED OBVIOUS
      <3>2. MovedBy(g, r, list, x, id)
        <4> HIDE DEF g
        <4> QED BY <2>1, <3>1 DEF MovedBy
      <3> QED BY <3>2
    <2> QED BY <2>1, <2>2
  <1>10. CASE m # n
    <2>1. r = [i \in 1 .. n |-> IF i <= m THEN kept[i]
                                ELSE IF IsIn(list[i], id, queued) THEN list[i] ELSE Expired]
      BY <1>3, <1>4, <1>5, <1>10
    <2>2. ASSUME NEW i \in 1 .. n
          PROVE  /\ i <= m => i \in 1 .. m /\ r[i] = kept[i]
                 /\ ~(i <= m) => r[i] = IF IsIn(list[i], id, queued) THEN list[i] ELSE Expired
      BY <1>4, <2>1
    <2>3. \A i \in 1 .. n : r[i] \in T
      BY <1>5, <1>6, <2>2
    <2>4. r = [i \in 1 .. n |-> r[i]]
      BY <2>1
    <2>5. r \in Seq(T) /\ DOMAIN r = 1 .. n
      <3> HIDE DEF T
      <3> QED BY ONLY n \in Nat, <2>3, <2>4
    <2>6. ASSUME NEW x \in Objects PROVE \E g : MovedBy(g, r, list, x, id)
      <3>1. x # Expired
        BY ScenesAssumption
      <3>2. CASE IsIn(x, id, queued)
        <4>1. IdOf[x] = id
          BY <3>2 DEF IsIn
        <4>2. ASSUME NEW i \in Spots(r, x) PROVE i \in Spots(list, x)
          <5>1. i \in 1 .. n /\ r[i] = x
            BY <2>5 DEF Spots
          <5>2. ~(i <= m)
            BY <1>8, <2>2, <3>2, <5>1
          <5>3. list[i] = x
            BY <2>2, <3>1, <5>1, <5>2
          <5> QED BY <1>5, <5>1, <5>3 DEF Spots
        <4> DEFINE S == Spots(r, x)
                   g == [i \in S |-> i]
        <4>3. g \in [S -> Spots(list, x)] /\ \A a, b \in S : g[a] = g[b] => a = b
          <5> HIDE DEF S
          <5>1. \A i \in S : i \in Spots(list, x)
            BY <4>2 DEF S
          <5> QED BY <5>1
        <4>4. MovedBy(g, r, list, x, id)
          <5> HIDE DEF g
          <5> QED BY <4>1, <4>3 DEF MovedBy
        <4> QED BY <4>4
      <3>3. CASE ~IsIn(x, id, queued)
        <4>1. ASSUME NEW i \in Spots(r, x)
              PROVE  i \in 1 .. m /\ p[i] \in Spots(list, x)
          <5>1. i \in 1 .. n /\ r[i] = x
            BY <2>5 DEF Spots
          <5>2. i <= m
            BY <2>2, <3>1, <3>3, <5>1
          <5>3. i \in 1 .. m /\ kept[i] = x
            BY <2>2, <5>1, <5>2
          <5>4. p[i] \in 1 .. n /\ list[p[i]] = x
            BY <1>8, <5>3
          <5> QED BY <1>5, <5>3, <5>4 DEF Spots
        <4> DEFINE S == Spots(r, x)
                   g == [i \in S |-> p[i]]
        <4>2. /\ g \in [S -> Spots(list, x)] /\ \A a, b \in S : g[a] = g[b] => a = b
              /\ \A i \in S : g[i] = p[i]
          <5> HIDE DEF S
          <5>1. \A i \in S : i \in 1 .. m /\ p[i] \in Spots(list, x)
            BY <4>1 DEF S
          <5> QED BY <1>8, <5>1
        <4>3. ASSUME NEW t \in Spots(list, x) PROVE \E a \in S : g[a] = t
          <5>1. t \in 1 .. n /\ list[t] = x
            BY <1>5 DEF Spots
          <5>2. list[t] \in Stay
            BY <1>5, <3>3, <5>1
          <5>3. PICK j \in 1 .. m : p[j] = t
            BY <1>8, <5>1, <5>2
          <5>4. kept[j] = x
            BY <1>8, <5>1, <5>3
          <5>5. j \in 1 .. n /\ j <= m
            BY <1>4
          <5>6. j \in S
            BY <2>2, <2>5, <5>4, <5>5 DEF Spots
          <5> QED BY <4>2, <5>3, <5>6
        <4>4. MovedBy(g, r, list, x, id)
          <5> HIDE DEF g
          <5> QED BY <4>2, <4>3 DEF MovedBy
        <4> QED BY <4>4
      <3> QED BY <3>2, <3>3
    <2> QED BY <2>5, <2>6
  <1> QED BY <1>9, <1>10

(* What is removed by its id leaves no more places than there were, and as *)
(* many to what has another id.                                            *)
WithoutId(new, id) ==
    /\ new \in Seq(LayerRecords) /\ Len(new) = Len(layers)
    /\ \A k \in 1 .. Len(layers) : SameLayer(new[k], layers[k])
    /\ \A x \in Objects :
           /\ Cardinality(PlacesOf(new, x)) <= Cardinality(PlacesOf(layers, x))
           /\ IdOf[x] # id =>
                  Cardinality(PlacesOf(new, x)) = Cardinality(PlacesOf(layers, x))

LEMMA RemoveFacts ==
  ASSUME layers \in Seq(LayerRecords), NEW id, NEW queued,
         NEW new, new = [k \in DOMAIN layers |->
                            [layers[k] EXCEPT !.objects = RemoveIf(@, id, queued)]]
  PROVE  WithoutId(new, id)
  <1>1. PICK n \in Nat : n = Len(layers)
    BY LayerFacts
  <1>2. DOMAIN layers = 1 .. n
    BY <1>1, LayerFacts
  <1>3. ASSUME NEW k \in 1 .. n
        PROVE  /\ new[k] \in LayerRecords /\ SameLayer(new[k], layers[k])
               /\ layers[k].objects \in Seq(Objects \cup {Expired})
               /\ \A x \in Objects : \E g : MovedBy(g, new[k].objects, layers[k].objects, x, id)
    <2>1. PICK l, v, a, r, w, z : /\ l = layers[k] /\ a = l.order /\ v = l.visible /\ r = l.from
                               /\ w = l.objects /\ z = RemoveIf(w, id, queued)
      OBVIOUS
    <2>2. /\ a \in Nat /\ v \in BOOLEAN /\ r \in SceneFiles \X Nat
          /\ w \in Seq(Objects \cup {Expired})
          /\ l = [order |-> a, from |-> r, visible |-> v, objects |-> w]
      BY <1>1, <2>1, LayerFacts
    <2>3. [l EXCEPT !.objects = z] = [order |-> a, from |-> r, visible |-> v, objects |-> z]
      BY ONLY <2>2
    <2>4. new[k] = [order |-> a, from |-> r, visible |-> v, objects |-> z]
      BY <1>2, <2>1, <2>3
    <2>5. new[k].objects = z /\ new[k].order = a /\ new[k].from = r /\ new[k].visible = v
      BY ONLY <2>4
    <2>6. z \in Seq(Objects \cup {Expired}) /\ \A x \in Objects : \E g : MovedBy(g, z, w, x, id)
      BY <2>1, <2>2, RemoveIfFacts
    <2>7. [order |-> a, from |-> r, visible |-> v, objects |-> z] \in LayerRecords
      BY ONLY <2>2, <2>6 DEF LayerRecords
    <2>8. SameLayer(new[k], layers[k])
      BY <2>1, <2>5 DEF SameLayer
    <2> QED BY <2>1, <2>2, <2>4, <2>5, <2>6, <2>7, <2>8
  <1>4. new \in Seq(LayerRecords) /\ Len(new) = n
    <2>1. new = [k \in 1 .. n |-> new[k]] /\ \A k \in 1 .. n : new[k] \in LayerRecords
      BY <1>2, <1>3
    <2> QED BY ONLY n \in Nat, <2>1
  <1>5. ASSUME NEW x \in Objects
        PROVE  /\ Cardinality(PlacesOf(new, x)) <= Cardinality(PlacesOf(layers, x))
               /\ IdOf[x] # id =>
                      Cardinality(PlacesOf(new, x)) = Cardinality(PlacesOf(layers, x))
    <2> PICK S, T : S = PlacesOf(new, x) /\ T = PlacesOf(layers, x)
      OBVIOUS
    <2>1. PICK move : move =
              [k \in 1 .. n |->
                  CHOOSE g : MovedBy(g, new[k].objects, layers[k].objects, x, id)]
      OBVIOUS
    <2>2. \A k \in 1 .. n : MovedBy(move[k], new[k].objects, layers[k].objects, x, id)
      BY <1>3, <2>1
    <2>3. PICK h : h = [p \in S |-> <<p[1], move[p[1]][p[2]]>>]
      OBVIOUS
    <2>4. ASSUME NEW p \in S
          PROVE  \E k \in 1 .. n : \E i \in Spots(new[k].objects, x) :
                     /\ p = <<k, i>> /\ h[p] = <<k, move[k][i]>> /\ h[p] \in T
      <3>1. PICK k \in 1 .. n : \E i \in DOMAIN new[k].objects :
                p = <<k, i>> /\ new[k].objects[i] = x
        BY ONLY <1>4, p \in S, S = PlacesOf(new, x), PlaceIs
      <3>2. PICK i \in DOMAIN new[k].objects : p = <<k, i>> /\ new[k].objects[i] = x
        BY <3>1
      <3>3. i \in Spots(new[k].objects, x)
        BY <3>2 DEF Spots
      <3>4. h[p] = <<k, move[k][i]>>
        <4>1. p[1] = k /\ p[2] = i
          BY <3>2
        <4> QED BY <2>3, <4>1
      <3>5. move[k][i] \in Spots(layers[k].objects, x)
        BY ZenonT(40), <2>2, <3>3 DEF MovedBy
      <3>6. /\ move[k][i] \in DOMAIN layers[k].objects
            /\ layers[k].objects[move[k][i]] = x
        BY <3>5 DEF Spots
      <3>7. <<k, move[k][i]>> \in PlacesOf(layers, x)
        BY <1>1, <3>6, PlacesAre
      <3> QED BY <3>2, <3>3, <3>4, <3>7
    <2>5. h = [p \in S |-> h[p]]
      BY <2>3
    <2>6. h \in [S -> T]
      <3>1. \A p \in S : h[p] \in T
        BY <2>4
      <3> QED BY <2>5, <3>1
    <2>7. ASSUME NEW p \in S, NEW q \in S, h[p] = h[q] PROVE p = q
      <3>1. \A s \in S : \E k \in 1 .. n : \E i \in Spots(new[k].objects, x) :
                s = <<k, i>> /\ h[s] = <<k, move[k][i]>>
        BY ONLY <2>4
      <3>2. PICK k \in 1 .. n : \E i \in Spots(new[k].objects, x) :
                p = <<k, i>> /\ h[p] = <<k, move[k][i]>>
        BY ONLY <3>1, p \in S
      <3>3. PICK i \in Spots(new[k].objects, x) : p = <<k, i>> /\ h[p] = <<k, move[k][i]>>
        BY <3>2
      <3>4. PICK l \in 1 .. n : \E j \in Spots(new[l].objects, x) :
                q = <<l, j>> /\ h[q] = <<l, move[l][j]>>
        BY ONLY <3>1, q \in S
      <3>5. PICK j \in Spots(new[l].objects, x) : q = <<l, j>> /\ h[q] = <<l, move[l][j]>>
        BY <3>4
      <3>6. k = l /\ move[k][i] = move[k][j]
        <4>1. <<k, move[k][i]>> = <<l, move[l][j]>>
          BY <2>7, <3>3, <3>5
        <4> QED BY ONLY <4>1
      <3>7. i = j
        BY <2>2, <3>5, <3>6 DEF MovedBy
      <3> QED BY <3>3, <3>5, <3>6, <3>7
    <2>8. ASSUME IdOf[x] # id, NEW t \in T PROVE \E p \in S : h[p] = t
      <3>1. PICK k \in 1 .. n : \E i \in DOMAIN layers[k].objects :
                t = <<k, i>> /\ layers[k].objects[i] = x
        BY ONLY layers \in Seq(LayerRecords), <1>1, t \in T, T = PlacesOf(layers, x), PlaceIs
      <3>2. PICK i \in DOMAIN layers[k].objects : t = <<k, i>> /\ layers[k].objects[i] = x
        BY <3>1
      <3>3. i \in Spots(layers[k].objects, x)
        BY <3>2 DEF Spots
      <3>4. PICK j \in Spots(new[k].objects, x) : move[k][j] = i
        BY <2>2, <2>8, <3>3 DEF MovedBy
      <3>5. j \in DOMAIN new[k].objects /\ new[k].objects[j] = x
        BY DEF Spots
      <3>6. <<k, j>> \in PlacesOf(new, x)
        BY <1>4, <3>5, PlacesAre
      <3>7. PICK p \in S : p = <<k, j>>
        BY <3>6
      <3>8. h[p] = <<k, move[k][j]>>
        <4>1. p[1] = k /\ p[2] = j
          BY <3>7
        <4> QED BY <2>3, <4>1
      <3> QED BY <3>2, <3>4, <3>8
    <2>9. IsFiniteSet(T)
      BY PlacesFinite
    <2>10. /\ Cardinality(S) <= Cardinality(T)
           /\ (\A t \in T : \E p \in S : h[p] = t) => Cardinality(S) = Cardinality(T)
      <3>1. \A p, q \in S : h[p] = h[q] => p = q
        BY <2>7
      <3> QED BY ONLY <2>6, <2>9, <3>1, SameNumber
    <2>11. IdOf[x] # id => Cardinality(S) = Cardinality(T)
      <3>1. IdOf[x] # id => \A t \in T : \E p \in S : h[p] = t
        BY <2>8
      <3> QED BY ONLY <2>10, <3>1
    <2> QED BY ONLY <2>10, <2>11, S = PlacesOf(new, x), T = PlacesOf(layers, x)
  <1> QED BY <1>1, <1>3, <1>4, <1>5 DEF WithoutId

(* Layers that are the same in all but their objects.                      *)
LEMMA StaysTheSame ==
  ASSUME layers \in Seq(LayerRecords), NEW new \in Seq(LayerRecords), Len(new) = Len(layers),
         \A k \in 1 .. Len(layers) : SameLayer(new[k], layers[k])
  PROVE  /\ EarlierStay(new)
         /\ InFallingOrder(layers) => InFallingOrder(new)
         /\ \A f : HeadedBy(layers, f) => HeadedBy(new, f)
  <1>1. PICK n \in Nat : n = Len(layers) /\ DOMAIN layers = 1 .. n /\ DOMAIN new = 1 .. n
    BY LayerFacts
  <1>2. EarlierStay(new)
    <2>1. n <= n /\ \A i \in 1 .. n : (n - n) + i = i
      OBVIOUS
    <2> QED BY <1>1, <2>1 DEF EarlierStay
  <1>3. InFallingOrder(layers) => InFallingOrder(new)
    BY <1>1 DEF InFallingOrder, SameLayer
  <1>4. ASSUME NEW f, HeadedBy(layers, f) PROVE HeadedBy(new, f)
    BY <1>1, <1>4 DEF HeadedBy, SameLayer
  <1> QED BY <1>2, <1>3, <1>4

(* The layers when a scene is loaded.                                      *)
LEMMA NewSceneFacts ==
  ASSUME layers \in Seq(LayerRecords), InFallingOrder(layers), HeadedBy(layers, currentSceneName),
         currentSceneName \in SceneFiles \cup {0}, NEW s, LoadNewScene(s)
  PROVE  /\ layers' \in Seq(LayerRecords)
         /\ LoadOutcome(s) # "thrown" => /\ InFallingOrder(layers')
                                        /\ HeadedBy(layers', currentSceneName')
                                        /\ EarlierStay(layers')
         /\ currentSceneName' \in SceneFiles \cup {0}
         /\ LoadOutcome(s) # "thrown" /\ FileOf(s) \in SceneFiles =>
                currentSceneName' = FileOf(s)
         /\ \A x \in Objects :
                Cardinality(PlacesOf(layers', x)) = Cardinality(PlacesOf(layers, x))
  <1> PICK f : f = FileOf(s)
    OBVIOUS
  <1>1. CASE f = currentSceneName \/ f \notin SceneFiles
    <2>1. layers' = layers /\ currentSceneName' = currentSceneName
      BY <1>1 DEF LoadNewScene
    <2>2. EarlierStay(layers)
      <3>1. \A k \in 1 .. Len(layers) : SameLayer(layers[k], layers[k])
        BY DEF SameLayer
      <3> QED BY <3>1, StaysTheSame
    <2> QED BY <1>1, <2>1, <2>2
  <1>2. CASE f # currentSceneName /\ f \in SceneFiles
    <2> PICK n, file : n = Len(layers) /\ file = SceneFile[f]
      OBVIOUS
    <2>1. Len(file) \in Nat
      BY <1>2, ScenesAssumption
    <2>2. PICK m \in 0 .. Len(file) : m = BuiltLayers(file)
      BY <2>1, BuiltFacts
    <2>3. PICK ls : ls = ReadLayers(f, m)
      OBVIOUS
    <2>4. Behind(ls, n, m, f)
      <3>1. /\ f \in SceneFiles /\ m \in 0 .. Len(SceneFile[f])
            /\ n = Len(layers) /\ ls = ReadLayers(f, m)
        BY <1>2, <2>2, <2>3
      <3> QED BY ONLY layers \in Seq(LayerRecords), <3>1, ReadFacts
    <2>5. /\ n \in Nat /\ m \in Nat /\ ls \in Seq(LayerRecords) /\ Len(ls) = n + m
          /\ \A j \in 1 .. n : ls[j] = layers[j]
          /\ \A j \in n + 1 .. n + m : ls[j].order = j - 1 /\ IsFrom(ls[j], f, j - n)
          /\ \A x \in Objects : PlacesOf(ls, x) = PlacesOf(layers, x)
      BY <2>4 DEF Behind
    <2>6. CASE m = Len(file)
      <3>1. layers' = SortLayers(ls) /\ currentSceneName' = f
        BY <1>2, <2>2, <2>3, <2>6 DEF LoadNewScene
      <3>2. OldAndNew(ls, n, m)
        <4>1. \A k \in 1 .. n : layers[k].order = n - k
          BY LayerFacts DEF InFallingOrder
        <4>2. \A k \in 1 .. n : ls[k].order = n - k
          BY <2>5, <4>1
        <4> QED BY <2>5, <4>2 DEF OldAndNew
      <3>3. PICK r : r = SortLayers(ls)
        OBVIOUS
      <3>4. /\ r \in Seq(LayerRecords) /\ Len(r) = n + m
            /\ \A i \in 1 .. n + m : r[i].order = (n + m) - i /\ r[i] = ls[ComesFrom(i, n, m)]
            /\ \A o : Cardinality(PlacesOf(r, o)) = Cardinality(PlacesOf(ls, o))
        BY SMTT(30), <2>5, <3>2, <3>3, SortFacts
      <3>5. InFallingOrder(r)
        BY <3>4, LayerFacts DEF InFallingOrder
      <3>6. layers' = r
        BY <3>1, <3>3
      <3>7. HeadedBy(r, f)
        <4>1. ASSUME NEW i \in 1 .. m PROVE IsFrom(r[i], f, m - i + 1)
          <5>1. PICK j \in n + 1 .. n + m : j = ((n + m) + 1) - i /\ j - n = m - i + 1
            <6>1. /\ ((n + m) + 1) - i \in n + 1 .. n + m
                  /\ (((n + m) + 1) - i) - n = m - i + 1
              BY <2>5
            <6> QED BY <6>1
          <5>2. r[i] = ls[j]
            BY <2>5, <3>4, <5>1 DEF ComesFrom
          <5> QED BY <2>5, <5>1, <5>2
        <4>2. m <= Len(r)
          BY <2>5, <3>4
        <4> QED BY <2>6, <4>1, <4>2 DEF HeadedBy, IsFrom
      <3>8. EarlierStay(r)
        <4>1. ASSUME NEW i \in 1 .. n PROVE SameLayer(r[m + i], layers[i])
          <5>1. PICK j \in 1 .. n + m : j = m + i /\ ~(j <= m) /\ j - m = i
            BY <2>5
          <5>2. r[j] = layers[i]
            BY <2>5, <3>4, <5>1 DEF ComesFrom
          <5> QED BY <5>1, <5>2 DEF SameLayer
        <4>2. n <= Len(r) /\ Len(r) - n = m /\ n = Len(layers) /\ DOMAIN layers = 1 .. n
          BY <2>5, <3>4, LayerFacts
        <4> QED BY <4>1, <4>2 DEF EarlierStay
      <3> QED BY <1>2, <2>5, <3>1, <3>4, <3>5, <3>6, <3>7, <3>8
    <2>7. CASE m # Len(file)
      <3>1. layers' = ls /\ currentSceneName' = currentSceneName
        BY <1>2, <2>2, <2>3, <2>7 DEF LoadNewScene
      <3>2. LoadOutcome(s) = "thrown"
        BY <1>2, <2>2, <2>7 DEF LoadOutcome
      <3> QED BY <2>5, <3>1, <3>2
    <2> QED BY <2>6, <2>7
  <1> QED BY <1>1, <1>2
-----------------------------------------------------------------------------
(* The invariant, action by action.                                        *)

LEMMA InvInitially == Init => GameInv /\ DrawInv
  <1> SUFFICES ASSUME Init PROVE GameInv /\ DrawInv
    OBVIOUS
  <1> USE DEF Init, ResourcesInit, ScenesInit
  <1>1. DOMAIN assets = {} /\ Range(resourcesByName) = {} /\ Range(resourcesById) = {}
    BY EmptyRange
  <1>2. StateInv
    <2>1. hideWindow \in BOOLEAN /\ raised \in 0 .. MaxRaised
      BY GameAssumption
    <2>2. /\ queue \in Seq(QueuedEvents) /\ layers \in Seq(LayerRecords)
          /\ assets \in Seq(AssetRecords)
      BY EmptySeq
    <2>3. phase \in Phases /\ level \in SceneNumbers \cup {NoLevel}
      BY DEF Phases
    <2>4. countResources = Len(assets)
      BY EmptySeq
    <2>5. /\ currentSceneName \in SceneFiles \cup {0} /\ owned \subseteq Objects
          /\ lost \subseteq Losses /\ mixer \in BOOLEAN /\ ttf \in BOOLEAN
      OBVIOUS
    <2>6. countLoadedResources \in Int /\ countUnloadedResources = 0 - countLoadedResources
      OBVIOUS
    <2> QED BY ONLY <2>1, <2>2, <2>3, <2>4, <2>5, <2>6 DEF StateInv
  <1>3. IndexInv
    <2>1. resourcesByScene \in [SceneNumbers -> Seq(DOMAIN assets)]
      BY EmptySeq
    <2>2. \A s \in SceneNumbers : Range(resourcesByScene[s]) = {}
      BY EmptyRange
    <2> QED BY <1>1, <2>1, <2>2 DEF IndexInv
  <1>4. Loaded(assets) = {} /\ Cardinality({}) = 0
    BY <1>1, FS_EmptySet DEF Loaded
  <1>5. MemoryInv
    <2>1. LoadedCan(assets) /\ HandlesKnown(assets)
      BY ONLY <1>1 DEF LoadedCan, HandlesKnown
    <2>2. countLoadedResources >= Cardinality(Loaded(assets))
      BY <1>4
    <2> QED BY ONLY <2>1, <2>2 DEF MemoryInv
  <1>6. LayersInv
    BY EmptyRange DEF LayersInv, InFallingOrder, HeadedBy
  <1>7. /\ CountsAgree /\ OnlyFontsAreLost /\ UnloadFreesAll /\ SceneIsResident /\ ManagersAgree
        /\ DrawInv
    BY DEF CountsAgree, OnlyFontsAreLost, UnloadFreesAll, SceneIsResident, ManagersAgree, Running,
           DrawInv
  <1> QED BY <1>2, <1>3, <1>5, <1>6, <1>7 DEF GameInv

(* A step that leaves the assets and the name of the scene alone.          *)
LEMMA AssetsKept ==
  ASSUME GameInv, UNCHANGED <<assets, maps, counts, level, lost, hideWindow, currentSceneName>>,
         mixer' \in BOOLEAN, ttf' \in BOOLEAN,
         phase' \in Phases \ {"unloaded"}, Running' => Running,
         raised' \in 0 .. MaxRaised, queue' \in Seq(QueuedEvents), owned' \subseteq Objects,
         layers' \in Seq(LayerRecords), LayersInv'
  PROVE  GameInv'
  <1>1. /\ assets' = assets /\ level' = level /\ lost' = lost /\ hideWindow' = hideWindow
        /\ currentSceneName' = currentSceneName
        /\ resourcesByScene' = resourcesByScene /\ resourcesByName' = resourcesByName
        /\ resourcesById' = resourcesById /\ countResources' = countResources
        /\ countLoadedResources' = countLoadedResources
        /\ countUnloadedResources' = countUnloadedResources
    BY DEF maps, counts
  <1>2. StateInv'
    BY <1>1 DEF GameInv, StateInv
  <1>3. IndexInv'
    BY <1>1 DEF GameInv, IndexInv
  <1>4. MemoryInv'
    BY <1>1 DEF GameInv, MemoryInv, Loaded, LoadedCan, HandlesKnown
  <1>5. CountsAgree' /\ OnlyFontsAreLost'
    BY <1>1 DEF GameInv, CountsAgree, OnlyFontsAreLost
  <1>6. UnloadFreesAll'
    BY DEF UnloadFreesAll
  <1>7. SceneIsResident' /\ ManagersAgree'
    BY <1>1 DEF GameInv, SceneIsResident, ManagersAgree
  <1> QED BY <1>2, <1>3, <1>4, <1>5, <1>6, <1>7 DEF GameInv

LEMMA GameFacts ==
  ASSUME GameInv
  PROVE  /\ assets \in Seq(AssetRecords) /\ DOMAIN assets = 1 .. Len(assets) /\ Len(assets) \in Nat
         /\ \A i \in DOMAIN assets : assets[i] \in AssetRecords
         /\ \A i \in DOMAIN assets : assets[i].kind \in Kinds
         /\ Excused(lost) /\ lost \subseteq Losses
  <1>1. assets \in Seq(AssetRecords) /\ lost \subseteq Losses
    BY DEF GameInv, StateInv
  <1>2. /\ DOMAIN assets = 1 .. Len(assets) /\ Len(assets) \in Nat
        /\ \A i \in DOMAIN assets : assets[i] \in AssetRecords
    BY <1>1, InRange
  <1>3. \A a \in AssetRecords : a.kind \in Kinds
    BY DEF AssetRecords
  <1>4. Excused(lost)
    BY DEF GameInv, OnlyFontsAreLost, Excused
  <1> QED BY <1>1, <1>2, <1>3, <1>4

(* Reading a resource file: the handles that are lost are those of assets  *)
(* whose name leads elsewhere.                                             *)
LEMMA ResetFacts ==
  ASSUME GameInv
  PROVE  ResetLoses \subseteq Losses /\ Excused(ResetLoses)
  <1> SUFFICES ASSUME NEW l \in ResetLoses PROVE l \in Losses /\ l.shared
    BY DEF Excused
  <1>1. PICK i \in DOMAIN assets : LosesHandle(UnloadAll[i]) /\ l = Loss(i)
    BY DEF ResetLoses
  <1>2. i \notin Named
    <2>1. CASE i \in Named
      <3>1. UnloadAll[i] = UnloadAsset(assets[i])
        BY <2>1 DEF UnloadAll
      <3>2. PICK b : b = UnloadAsset(assets[i])
        OBVIOUS
      <3>3. assets[i] \in AssetRecords
        BY GameFacts
      <3>4. b.handle = FALSE
        BY <3>2, <3>3, UnloadFacts
      <3> QED BY <1>1, <3>1, <3>2, <3>4 DEF LosesHandle
    <2> QED BY <2>1
  <1>3. l = [kind |-> assets[i].kind, shared |-> TRUE]
    BY <1>1, <1>2 DEF Loss, SharesName
  <1> QED BY <1>3, GameFacts DEF Losses

LEMMA FileIsRead ==
  ASSUME GameInv, phase \in {"off", "input"}, NEW f \in Files, NEW reading \in Readings(f),
         IndexResourceFile(reading), mixer' \in BOOLEAN, ttf' \in BOOLEAN,
         phase' \in {"input", "thrown"}, raised' \in 0 .. MaxRaised,
         UNCHANGED <<sceneVars, hideWindow, queue>>
  PROVE  GameInv'
  <1>1. reading \in Seq(AssetRecords) /\ Fresh(reading)
    BY ReadingIsFresh
  <1>2. /\ assets' = reading /\ resourcesByScene' = ByScene(reading)
        /\ resourcesByName' = ByName(reading) /\ resourcesById' = ById(reading)
        /\ lost' = lost \cup ResetLoses /\ countResources' = Len(reading)
        /\ countLoadedResources' = 0 /\ countUnloadedResources' = 0 /\ level' = NoLevel
    BY DEF IndexResourceFile
  <1>3. /\ layers' = layers /\ currentSceneName' = currentSceneName /\ owned' = owned
        /\ hideWindow' = hideWindow /\ queue' = queue
    BY DEF sceneVars
  <1>4. lost' \subseteq Losses /\ OnlyFontsAreLost'
    <2>1. lost \cup ResetLoses \subseteq Losses /\ Excused(lost \cup ResetLoses)
      BY GameFacts, ResetFacts DEF Excused
    <2> QED BY <1>2, <2>1 DEF OnlyFontsAreLost, Excused
  <1>5. StateInv'
    <2>1. /\ queue \in Seq(QueuedEvents) /\ currentSceneName \in SceneFiles \cup {0}
          /\ owned \subseteq Objects /\ layers \in Seq(LayerRecords) /\ hideWindow \in BOOLEAN
      BY DEF GameInv, StateInv
    <2>2. phase' \in Phases
      BY DEF Phases
    <2>3. 0 = 0 - 0 /\ 0 \in Int
      OBVIOUS
    <2> QED BY <1>1, <1>2, <1>3, <1>4, <2>1, <2>2, <2>3 DEF StateInv
  <1>6. IndexInv'
    <2>1. /\ ByScene(reading) \in [SceneNumbers -> Seq(DOMAIN reading)]
          /\ \A s \in SceneNumbers :
                 Range(ByScene(reading)[s]) = {i \in DOMAIN reading : reading[i].scene = s}
          /\ Range(ByName(reading)) \cup Range(ById(reading)) \subseteq DOMAIN reading
          /\ \A i \in DOMAIN reading : /\ reading[i].name \in DOMAIN ByName(reading)
                                       /\ ByName(reading)[reading[i].name] \in DOMAIN reading
      BY <1>1, IndexFacts
    <2>2. DOMAIN reading \subseteq 0 .. Len(reading)
      <3>1. DOMAIN reading = 1 .. Len(reading) /\ Len(reading) \in Nat
        BY <1>1, InRange
      <3> QED BY <3>1
    <2> QED BY <1>2, <2>1, <2>2 DEF IndexInv
  <1>7. Loaded(assets)' = {} /\ Cardinality({}) = 0
    BY <1>1, <1>2, FS_EmptySet DEF Loaded, Fresh
  <1>8. MemoryInv'
    <2>1. LoadedCan(reading) /\ HandlesKnown(reading)
      BY <1>1 DEF LoadedCan, HandlesKnown, Fresh
    <2> QED BY <1>2, <1>7, <2>1 DEF MemoryInv
  <1>9. LayersInv'
    BY <1>3 DEF GameInv, LayersInv
  <1>10. CountsAgree'
    BY <1>2, <1>7 DEF CountsAgree, Loaded
  <1>11. UnloadFreesAll'
    BY DEF UnloadFreesAll
  <1>12. SceneIsResident' /\ ManagersAgree'
    BY <1>2, <1>3 DEF GameInv, SceneIsResident, ManagersAgree
  <1> QED BY <1>4, <1>5, <1>6, <1>8, <1>9, <1>10, <1>11, <1>12 DEF GameInv

(* A name that was looked up plants an entry that leads nowhere.           *)
LEMMA NameIsLookedUp ==
  ASSUME GameInv, NEW n, LookUp(n)
  PROVE  GameInv'
  <1>1. /\ phase = "input" /\ phase' = phase /\ resourcesByName' = Planted(resourcesByName, n)
        /\ assets' = assets /\ level' = level /\ lost' = lost /\ hideWindow' = hideWindow
        /\ currentSceneName' = currentSceneName /\ layers' = layers /\ owned' = owned
        /\ queue' = queue /\ raised' = raised /\ mixer' = mixer /\ ttf' = ttf
        /\ resourcesByScene' = resourcesByScene
        /\ resourcesById' = resourcesById /\ countResources' = countResources
        /\ countLoadedResources' = countLoadedResources
        /\ countUnloadedResources' = countUnloadedResources
    BY DEF LookUp, counts, sceneVars, gameVars
  <1> PICK map : map = Planted(resourcesByName, n)
    OBVIOUS
  <1>2. /\ DOMAIN map = DOMAIN resourcesByName \cup {n}
        /\ \A x \in DOMAIN resourcesByName : map[x] = resourcesByName[x]
        /\ n \notin DOMAIN resourcesByName => map[n] = 0
    BY DEF Planted, GetAssetInfo, Null
  <1>3. Range(map) \subseteq Range(resourcesByName) \cup {0}
    BY <1>2 DEF Range
  <1>4. StateInv'
    BY <1>1 DEF GameInv, StateInv
  <1>5. IndexInv'
    <2>1. 0 \in 0 .. Len(assets)
      BY GameFacts
    <2>2. Range(map) \cup Range(resourcesById) \subseteq 0 .. Len(assets)
      BY <1>3, <2>1 DEF GameInv, IndexInv
    <2>3. \A i \in DOMAIN assets : /\ assets[i].name \in DOMAIN map
                                   /\ map[assets[i].name] \in DOMAIN assets
      BY <1>2 DEF GameInv, IndexInv
    <2>4. /\ resourcesByScene \in [SceneNumbers -> Seq(DOMAIN assets)]
          /\ \A s \in SceneNumbers :
                 Range(resourcesByScene[s]) = {i \in DOMAIN assets : assets[i].scene = s}
      BY DEF GameInv, IndexInv
    <2>5. resourcesByName' = map
      BY <1>1
    <2> QED BY ONLY <1>1, <2>2, <2>3, <2>4, <2>5 DEF IndexInv
  <1>6. MemoryInv' /\ LayersInv'
    BY <1>1 DEF GameInv, MemoryInv, LoadedCan, HandlesKnown, Loaded, Running, LayersInv
  <1>7. CountsAgree' /\ OnlyFontsAreLost' /\ UnloadFreesAll'
    BY <1>1 DEF GameInv, CountsAgree, Running, OnlyFontsAreLost, UnloadFreesAll
  <1>8. SceneIsResident' /\ ManagersAgree'
    BY <1>1 DEF GameInv, SceneIsResident, ManagersAgree, Running
  <1> QED BY <1>4, <1>5, <1>6, <1>7, <1>8 DEF GameInv

(* Unload reaches what can be found by its name.                           *)
LEMMA GameIsUnloaded ==
  ASSUME GameInv, Unload
  PROVE  GameInv'
  <1>1. /\ phase = "done" /\ lost' = lost /\ level' = level /\ hideWindow' = hideWindow
        /\ currentSceneName' = currentSceneName /\ layers' = layers /\ owned' = owned
        /\ queue' = queue /\ raised' = raised /\ resourcesByName' = resourcesByName
        /\ resourcesByScene' = resourcesByScene
        /\ resourcesById' = resourcesById /\ countResources' = countResources
        /\ countLoadedResources' = countLoadedResources
        /\ countUnloadedResources' = countUnloadedResources
    BY DEF Unload, maps, counts, sceneVars
  <1>2. CASE UnloadFollowsNull
    <2>1. phase' = "crashed" /\ UNCHANGED <<assets, mixer, ttf>>
      BY <1>2 DEF Unload
    <2>2. LayersInv'
      BY <1>1 DEF GameInv, LayersInv
    <2> QED BY <1>1, <2>1, <2>2, AssetsKept DEF GameInv, StateInv, Phases, Running, maps, counts
  <1>3. CASE ~UnloadFollowsNull
    <2>1. phase' = "unloaded" /\ assets' = UnloadAll /\ mixer' = FALSE /\ ttf' = FALSE
      BY <1>3 DEF Unload
    <2> PICK items : items = UnloadAll
      OBVIOUS
    <2>2. ASSUME NEW i \in DOMAIN assets
          PROVE  /\ items[i] \in AssetRecords /\ SameAsset(items[i], assets[i])
                 /\ items[i].loaded => assets[i].loaded
                 /\ items[i].handle => i \notin Named
      <3>1. assets[i] \in AssetRecords
        BY GameFacts
      <3>2. CASE i \in Named
        <4>1. PICK b : b = UnloadAsset(assets[i])
          OBVIOUS
        <4>2. items[i] = b
          BY <3>2, <4>1 DEF UnloadAll
        <4>3. /\ b \in AssetRecords /\ SameAsset(b, assets[i])
              /\ b.handle = FALSE /\ b.loaded = (assets[i].kind = "font" /\ assets[i].loaded)
          BY <3>1, <4>1, UnloadFacts
        <4> QED BY <4>2, <4>3
      <3>3. CASE i \notin Named
        <4>1. items[i] = assets[i]
          BY <3>3 DEF UnloadAll
        <4> QED BY <3>1, <3>3, <4>1 DEF SameAsset
      <3> QED BY <3>2, <3>3
    <2>3. items = [i \in DOMAIN assets |-> items[i]] /\ DOMAIN items = DOMAIN assets
      BY DEF UnloadAll
    <2>4. items \in Seq(AssetRecords) /\ Len(items) = Len(assets)
      <3>1. PICK n \in Nat : n = Len(assets) /\ DOMAIN assets = 1 .. n
        BY GameFacts
      <3>2. items = [i \in 1 .. n |-> items[i]] /\ \A i \in 1 .. n : items[i] \in AssetRecords
        BY <2>2, <2>3, <3>1
      <3>3. items \in Seq(AssetRecords) /\ Len(items) = n
        BY ONLY n \in Nat, <3>2
      <3> QED BY <3>1, <3>3
    <2>5. StateInv'
      <3>1. phase' \in Phases
        BY <2>1 DEF Phases
      <3> QED BY <1>1, <2>1, <2>4, <3>1 DEF GameInv, StateInv
    <2>6. IndexInv'
      <3>1. \A i \in DOMAIN assets : items[i].scene = assets[i].scene /\ items[i].name = assets[i].name
        BY <2>2 DEF SameAsset
      <3>2. assets' = items /\ DOMAIN items = DOMAIN assets /\ Len(items) = Len(assets)
        BY <2>1, <2>3, <2>4
      <3>3. /\ resourcesByScene \in [SceneNumbers -> Seq(DOMAIN items)]
            /\ Range(resourcesByName) \cup Range(resourcesById) \subseteq 0 .. Len(items)
            /\ \A i \in DOMAIN items : /\ items[i].name \in DOMAIN resourcesByName
                                       /\ resourcesByName[items[i].name] \in DOMAIN items
        BY <3>1, <3>2 DEF GameInv, IndexInv
      <3>4. ASSUME NEW s \in SceneNumbers
            PROVE  Range(resourcesByScene[s]) = {i \in DOMAIN items : items[i].scene = s}
        <4>1. Range(resourcesByScene[s]) = {i \in DOMAIN assets : assets[i].scene = s}
          BY DEF GameInv, IndexInv
        <4>2. {i \in DOMAIN assets : assets[i].scene = s} = {i \in DOMAIN items : items[i].scene = s}
          BY <3>1, <3>2
        <4> QED BY <4>1, <4>2
      <3> QED BY ONLY <1>1, <3>2, <3>3, <3>4 DEF IndexInv
    <2>7. MemoryInv'
      <3>1. LoadedCan(items)
        BY <2>2, <2>3 DEF GameInv, MemoryInv, LoadedCan, SameAsset, CanBeLoaded
      <3>2. Loaded(items) \subseteq Loaded(assets)
        BY <2>2, <2>3 DEF Loaded
      <3>3. /\ IsFiniteSet(Loaded(assets)) /\ Cardinality(Loaded(items)) \in Nat
            /\ Cardinality(Loaded(assets)) \in Nat
        BY <2>3, GameFacts, LoadedFinite
      <3>4. Cardinality(Loaded(items)) <= Cardinality(Loaded(assets))
        BY <3>2, <3>3, FS_Subset
      <3>5. countLoadedResources >= Cardinality(Loaded(assets)) /\ countLoadedResources \in Int
        BY DEF GameInv, StateInv, MemoryInv
      <3>6. countLoadedResources >= Cardinality(Loaded(items))
        BY <3>3, <3>4, <3>5
      <3>7. ~Running'
        BY <2>1 DEF Running
      <3> QED BY <1>1, <2>1, <3>1, <3>6, <3>7 DEF MemoryInv
    <2>8. UnloadFreesAll'
      BY <1>1, <2>1, <2>2, <2>3 DEF UnloadFreesAll, SharesName, Named
    <2>9. LayersInv' /\ OnlyFontsAreLost'
      BY <1>1 DEF GameInv, LayersInv, OnlyFontsAreLost
    <2>10. CountsAgree' /\ SceneIsResident' /\ ManagersAgree'
      BY <1>1, <2>1 DEF GameInv, CountsAgree, SceneIsResident, ManagersAgree, Running
    <2> QED BY <2>5, <2>6, <2>7, <2>8, <2>9, <2>10 DEF GameInv
  <1> QED BY <1>2, <1>3

(* The change of the scene: first the assets, then the layers.             *)
LEMMA SceneIsChanged ==
  ASSUME GameInv, phase = "events", NEW s \in SceneIds, ProcessChange(s),
         queue' \in Seq(QueuedEvents), UNCHANGED <<hideWindow, raised>>
  PROVE  GameInv'
  <1>1. NamesInv /\ IndexInv /\ LoadedCan(assets) /\ HandlesKnown(assets)
    BY DEF GameInv, StateInv, IndexInv, NamesInv, MemoryInv, Running
  <1>2. PICK new : new = LoadSceneAssets(s)
    OBVIOUS
  <1>3. LoadInv(new, Len(LoadOrder), s)
    BY <1>1, <1>2, GameFacts, LoadResult
  <1>4. /\ assets' = new.assets /\ lost' = new.lost /\ level' = s
        /\ countLoadedResources' = countLoadedResources + new.count
        /\ countUnloadedResources' = countUnloadedResources - new.count
        /\ resourcesByScene' = resourcesByScene /\ resourcesByName' = resourcesByName
        /\ resourcesById' = resourcesById /\ countResources' = countResources
        /\ mixer' = mixer /\ ttf' = ttf
        /\ owned' = owned /\ hideWindow' = hideWindow /\ raised' = raised
    BY <1>2 DEF ProcessChange, HandleSceneChanged, maps
  <1>5. /\ new.thrown => /\ layers' = layers /\ currentSceneName' = currentSceneName
                         /\ phase' = "thrown"
        /\ ~new.thrown => /\ LoadNewScene(s)
                          /\ phase' = IF LoadOutcome(s) = "thrown" THEN "thrown" ELSE phase
    BY <1>2 DEF ProcessChange
  <1>6. Running' => ~new.thrown /\ LoadOutcome(s) # "thrown"
    BY <1>5 DEF Running
  <1>7. phase' \in {"events", "thrown"}
    BY <1>5
  <1>8. /\ new.assets \in [DOMAIN assets -> AssetRecords] /\ new.count \in Int
        /\ new.lost \subseteq Losses
    BY <1>3 DEF LoadInv, LoadStates
  <1> PICK items : items = new.assets
    OBVIOUS
  <1>9. items \in Seq(AssetRecords) /\ Len(items) = Len(assets) /\ DOMAIN items = DOMAIN assets
    <2>1. PICK n \in Nat : n = Len(assets) /\ DOMAIN assets = 1 .. n
      BY GameFacts
    <2>2. items = [i \in 1 .. n |-> items[i]] /\ \A i \in 1 .. n : items[i] \in AssetRecords
      BY <1>8, <2>1
    <2>3. items \in Seq(AssetRecords) /\ Len(items) = n
      BY ONLY n \in Nat, <2>2
    <2> QED BY <1>8, <2>1, <2>3
  <1>10. \A i \in DOMAIN assets : SameAsset(items[i], assets[i])
    BY <1>3 DEF LoadInv
  <1>11. /\ layers' \in Seq(LayerRecords) /\ LayersInv'
         /\ currentSceneName' \in SceneFiles \cup {0}
         /\ Running' /\ FileOf(s) \in SceneFiles => currentSceneName' = FileOf(s)
    <2>1. /\ layers \in Seq(LayerRecords) /\ InFallingOrder(layers)
          /\ HeadedBy(layers, currentSceneName)
          /\ currentSceneName \in SceneFiles \cup {0}
      BY DEF GameInv, StateInv, LayersInv
    <2>2. CASE new.thrown
      BY <1>5, <1>6, <2>1, <2>2 DEF LayersInv
    <2>3. CASE ~new.thrown
      <3>1. LoadNewScene(s)
        BY <1>5, <2>3
      <3>2. /\ layers' \in Seq(LayerRecords)
            /\ LoadOutcome(s) # "thrown" => /\ InFallingOrder(layers')
                                           /\ HeadedBy(layers', currentSceneName')
            /\ currentSceneName' \in SceneFiles \cup {0}
            /\ LoadOutcome(s) # "thrown" /\ FileOf(s) \in SceneFiles =>
                   currentSceneName' = FileOf(s)
        BY <2>1, <3>1, NewSceneFacts
      <3>3. phase' # "thrown" => LoadOutcome(s) # "thrown"
        BY <1>5, <2>3
      <3>4. LayersInv'
        BY <3>2, <3>3 DEF LayersInv
      <3> QED BY <1>6, <3>2, <3>4
    <2> QED BY <2>2, <2>3
  <1>12. StateInv'
    <2>1. phase' \in Phases /\ level' \in SceneNumbers \cup {NoLevel}
      BY <1>4, <1>7, GameAssumption DEF Phases
    <2>2. /\ countLoadedResources \in Int
          /\ countUnloadedResources = 0 - countLoadedResources
      BY DEF GameInv, StateInv
    <2>3. /\ countLoadedResources' \in Int
          /\ countUnloadedResources' = 0 - countLoadedResources'
      BY <1>4, <1>8, <2>2
    <2>4. countResources' = Len(assets')
      BY <1>4, <1>9 DEF GameInv, StateInv
    <2>5. /\ hideWindow' \in BOOLEAN /\ raised' \in 0 .. MaxRaised /\ owned' \subseteq Objects
          /\ mixer' \in BOOLEAN /\ ttf' \in BOOLEAN
      BY <1>4 DEF GameInv, StateInv
    <2>6. assets' \in Seq(AssetRecords) /\ lost' \subseteq Losses
      BY <1>4, <1>8, <1>9
    <2> QED BY <1>11, <2>1, <2>3, <2>4, <2>5, <2>6 DEF StateInv
  <1>13. IndexInv'
    <2>1. \A i \in DOMAIN assets : items[i].scene = assets[i].scene /\ items[i].name = assets[i].name
      BY <1>10 DEF SameAsset
    <2>2. assets' = items /\ DOMAIN items = DOMAIN assets /\ Len(items) = Len(assets)
      BY <1>4, <1>9
    <2>3. /\ resourcesByScene \in [SceneNumbers -> Seq(DOMAIN items)]
          /\ Range(resourcesByName) \cup Range(resourcesById) \subseteq 0 .. Len(items)
          /\ \A i \in DOMAIN items : /\ items[i].name \in DOMAIN resourcesByName
                                     /\ resourcesByName[items[i].name] \in DOMAIN items
      BY <2>1, <2>2 DEF GameInv, IndexInv
    <2>4. ASSUME NEW x \in SceneNumbers
          PROVE  Range(resourcesByScene[x]) = {i \in DOMAIN items : items[i].scene = x}
      <3>1. Range(resourcesByScene[x]) = {i \in DOMAIN assets : assets[i].scene = x}
        BY DEF GameInv, IndexInv
      <3>2. {i \in DOMAIN assets : assets[i].scene = x} = {i \in DOMAIN items : items[i].scene = x}
        BY <2>1, <2>2
      <3> QED BY <3>1, <3>2
    <2> QED BY ONLY <1>4, <2>2, <2>3, <2>4 DEF IndexInv
  <1>14. /\ Cardinality(Loaded(assets)) \in Nat /\ Cardinality(Loaded(items)) \in Nat
         /\ countLoadedResources \in Int
         /\ countLoadedResources >= Cardinality(Loaded(assets))
         /\ new.count >= Cardinality(Loaded(items)) - Cardinality(Loaded(assets))
         /\ AllLoadable(assets) =>
                new.count = Cardinality(Loaded(items)) - Cardinality(Loaded(assets))
    <2>1. Cardinality(Loaded(assets)) \in Nat /\ Cardinality(Loaded(items)) \in Nat
      BY <1>9, GameFacts, LoadedFinite
    <2>2. /\ countLoadedResources \in Int
          /\ countLoadedResources >= Cardinality(Loaded(assets))
      BY DEF GameInv, StateInv, MemoryInv
    <2>3. /\ new.count >= More(items)
          /\ AllLoadable(assets) => new.count = More(items)
      BY <1>3 DEF LoadInv
    <2> QED BY <2>1, <2>2, <2>3 DEF More
  <1> PICK x, y, c, d : /\ x = Cardinality(Loaded(assets)) /\ y = Cardinality(Loaded(items))
                        /\ c = countLoadedResources /\ d = new.count
    OBVIOUS
  <1>15. MemoryInv'
    <2>1. c + d >= y
      <3>1. x \in Nat /\ y \in Nat /\ c \in Int /\ d \in Int /\ c >= x /\ d >= y - x
        BY <1>8, <1>14
      <3> QED BY ONLY <3>1
    <2>2. LoadedCan(items)
      BY <1>3 DEF LoadInv
    <2>3. Running' => HandlesKnown(items)
      BY <1>3, <1>6 DEF LoadInv
    <2>4. assets' = items /\ countLoadedResources' = c + d
      BY <1>4
    <2> QED BY <2>1, <2>2, <2>3, <2>4 DEF MemoryInv
  <1>16. CountsAgree'
    <2>1. ASSUME Running', \A i \in DOMAIN items : items[i].kind # "font" /\ CanBeLoaded(items[i])
          PROVE  countLoadedResources' = y
      <3>1. AllLoadable(assets)
        BY <1>9, <1>10, <2>1 DEF AllLoadable, SameAsset, CanBeLoaded
      <3>2. c = x
        BY <3>1 DEF GameInv, CountsAgree, AllLoadable, Running, Loaded
      <3>3. x \in Nat /\ y \in Nat /\ c \in Int /\ d = y - x
        BY <1>14, <3>1
      <3>4. c + d = y
        BY ONLY <3>2, <3>3
      <3> QED BY <1>4, <3>4
    <2>2. assets' = items
      BY <1>4
    <2> QED BY <2>1, <2>2 DEF CountsAgree, Loaded
  <1>17. OnlyFontsAreLost'
    BY <1>3, <1>4 DEF LoadInv, Excused, OnlyFontsAreLost
  <1>18. UnloadFreesAll'
    BY <1>7 DEF UnloadFreesAll
  <1>19. SceneIsResident'
    <2>1. ASSUME Running', NEW i \in DOMAIN items, items[i].kind # "font"
          PROVE  items[i].loaded <=> items[i].scene \in {s, 0} /\ CanBeLoaded(items[i])
      <3>1. Settled(items[i], s)
        BY <1>1, <1>3, <1>6, <1>9, <2>1, AllSettled
      <3> QED BY <2>1, <3>1 DEF Settled
    <2>2. assets' = items /\ level' = s
      BY <1>4
    <2> QED BY <2>1, <2>2 DEF SceneIsResident
  <1>20. ManagersAgree'
    BY <1>4, <1>11 DEF ManagersAgree
  <1> QED BY <1>11, <1>12, <1>13, <1>15, <1>16, <1>17, <1>18, <1>19, <1>20 DEF GameInv

LEMMA EventFacts ==
  ASSUME NEW e \in QueuedEvents
  PROVE  /\ e.type = "change" => e.arg \in SceneIds
         /\ e.type = "add" => e.arg \in Objects
         /\ e.type = "remove" => e.arg \in Objects
         /\ e = Event(e.type, e.arg)
  BY DEF QueuedEvents, Event

LEMMA QueueFacts ==
  ASSUME queue \in Seq(QueuedEvents)
  PROVE  /\ \A s \in SceneIds : /\ Append(queue, Event("change", s)) \in Seq(QueuedEvents)
                                /\ queue # <<>> => Append(Tail(queue), Event("loaded", s))
                                                       \in Seq(QueuedEvents)
         /\ \A o \in Objects : /\ Append(queue, Event("add", o)) \in Seq(QueuedEvents)
                               /\ Append(queue, Event("remove", o)) \in Seq(QueuedEvents)
         /\ queue # <<>> => Tail(queue) \in Seq(QueuedEvents) /\ Head(queue) \in QueuedEvents
  <1>1. /\ \A s \in SceneIds : /\ Event("change", s) \in QueuedEvents
                               /\ Event("loaded", s) \in QueuedEvents
        /\ \A o \in Objects : /\ Event("add", o) \in QueuedEvents
                              /\ Event("remove", o) \in QueuedEvents
    BY DEF QueuedEvents
  <1>2. \A q \in Seq(QueuedEvents), e \in QueuedEvents : Append(q, e) \in Seq(QueuedEvents)
    BY AppendProperties
  <1>3. queue # <<>> => Tail(queue) \in Seq(QueuedEvents) /\ Head(queue) \in QueuedEvents
    BY HeadTailProperties
  <1> QED BY <1>1, <1>2, <1>3

(* What an event does to the layers, and what it leaves.                   *)
LEMMA ObjectIsAdded ==
  ASSUME GameInv, phase = "events", queue # <<>>, NEW o \in Objects, ProcessAdd(o),
         UNCHANGED <<hideWindow, raised>>
  PROVE  GameInv'
  <1>1. /\ layers \in Seq(LayerRecords) /\ InFallingOrder(layers)
        /\ HeadedBy(layers, currentSceneName) /\ currentSceneName' = currentSceneName
        /\ owned \subseteq Objects /\ queue \in Seq(QueuedEvents)
        /\ mixer \in BOOLEAN /\ ttf \in BOOLEAN /\ raised \in 0 .. MaxRaised
    BY DEF GameInv, StateInv, LayersInv, ProcessAdd, ProcessRemove
  <1>2. /\ UNCHANGED <<assets, maps, counts, level, lost, hideWindow, currentSceneName>>
        /\ mixer' = mixer /\ ttf' = ttf /\ owned' = owned /\ raised' = raised
        /\ queue' = Tail(queue)
    BY DEF ProcessAdd, resourceVars
  <1>3. /\ layers' \in Seq(LayerRecords) /\ InFallingOrder(layers')
        /\ HeadedBy(layers', currentSceneName')
        /\ phase' \in {"events", "crashed"}
    <2>1. CASE layers = <<>>
      BY <1>1, <2>1 DEF ProcessAdd
    <2>2. CASE layers # <<>>
      <3>1. layers' = [layers EXCEPT ![Len(layers)].objects = Append(@, o)] /\ phase' = phase
        BY <2>2 DEF ProcessAdd, AddGameObjectToScene
      <3>2. PICK new : new = [layers EXCEPT ![Len(layers)].objects = Append(@, o)]
        OBVIOUS
      <3>3. /\ new \in Seq(LayerRecords) /\ Len(new) = Len(layers)
            /\ \A k \in 1 .. Len(layers) : SameLayer(new[k], layers[k])
        BY ONLY <1>1, <2>2, <3>2, o \in Objects, AddFacts
      <3>4. InFallingOrder(new) /\ HeadedBy(new, currentSceneName)
        BY <1>1, <3>3, StaysTheSame
      <3> QED BY <1>1, <3>1, <3>2, <3>3, <3>4
    <2> QED BY <2>1, <2>2
  <1>4. queue' \in Seq(QueuedEvents)
    BY <1>1, <1>2, QueueFacts
  <1>5. phase' \in Phases \ {"unloaded"} /\ Running /\ LayersInv'
    BY <1>3 DEF Phases, Running, LayersInv
  <1> QED BY <1>1, <1>2, <1>3, <1>4, <1>5, AssetsKept

LEMMA ObjectIsRemoved ==
  ASSUME GameInv, phase = "events", queue # <<>>, NEW o \in Objects, ProcessRemove(o),
         UNCHANGED <<hideWindow, raised>>
  PROVE  GameInv'
  <1>1. /\ layers \in Seq(LayerRecords) /\ InFallingOrder(layers)
        /\ HeadedBy(layers, currentSceneName) /\ currentSceneName' = currentSceneName
        /\ owned \subseteq Objects /\ queue \in Seq(QueuedEvents)
        /\ mixer \in BOOLEAN /\ ttf \in BOOLEAN /\ raised \in 0 .. MaxRaised
    BY DEF GameInv, StateInv, LayersInv, ProcessAdd, ProcessRemove
  <1>2. /\ UNCHANGED <<assets, maps, counts, level, lost, hideWindow, currentSceneName>>
        /\ mixer' = mixer /\ ttf' = ttf /\ owned' = owned /\ raised' = raised
        /\ queue' = Tail(queue) /\ phase' = phase
    BY DEF ProcessRemove, resourceVars
  <1>3. /\ layers' \in Seq(LayerRecords) /\ InFallingOrder(layers')
        /\ HeadedBy(layers', currentSceneName')
    <2>1. PICK id, queued : id = IdOf[o] /\ queued = Queued
      OBVIOUS
    <2>2. PICK new : new = [k \in DOMAIN layers |->
                               [layers[k] EXCEPT !.objects = RemoveIf(@, id, queued)]]
      OBVIOUS
    <2>3. layers' = new
      BY <2>1, <2>2 DEF ProcessRemove, RemoveGameObjectFromLayers
    <2>4. WithoutId(new, id)
      BY ONLY <1>1, <2>2, RemoveFacts
    <2>5. InFallingOrder(new) /\ HeadedBy(new, currentSceneName)
      BY <1>1, <2>4, StaysTheSame DEF WithoutId
    <2> QED BY <1>1, <2>3, <2>4, <2>5 DEF WithoutId
  <1>4. queue' \in Seq(QueuedEvents)
    BY <1>1, <1>2, QueueFacts
  <1>5. phase' \in Phases \ {"unloaded"} /\ Running /\ LayersInv'
    BY <1>2, <1>3 DEF Phases, Running, LayersInv
  <1> QED BY <1>1, <1>2, <1>3, <1>4, <1>5, AssetsKept

LEMMA GameStarts ==
  ASSUME GameInv, Initialize \/ InitializeThrows
  PROVE  GameInv'
  <1>1. /\ raised \in 0 .. MaxRaised /\ queue \in Seq(QueuedEvents) /\ owned \subseteq Objects
    BY DEF GameInv, StateInv
  <1>2. /\ phase = "off" /\ UNCHANGED <<sceneVars, hideWindow, queue, raised>>
        /\ layers' = layers /\ owned' = owned /\ queue' = queue /\ raised' = raised
        /\ currentSceneName' = currentSceneName /\ hideWindow' = hideWindow
    BY DEF Initialize, InitializeThrows, sceneVars
  <1>3. mixer \in BOOLEAN /\ ttf \in BOOLEAN
    BY DEF GameInv, StateInv
  <1>4. mixer' \in BOOLEAN /\ ttf' \in BOOLEAN
    BY <1>3 DEF Initialize, InitializeThrows, InitializeSdl
  <1>5. CASE \E f \in Files : \E reading \in Readings(f) :
                 IndexResourceFile(reading) /\ phase' \in {"input", "thrown"}
    <2>1. PICK f \in Files : \E reading \in Readings(f) :
              IndexResourceFile(reading) /\ phase' \in {"input", "thrown"}
      BY <1>5
    <2>2. PICK reading \in Readings(f) :
              IndexResourceFile(reading) /\ phase' \in {"input", "thrown"}
      BY <2>1
    <2>3. raised' \in 0 .. MaxRaised /\ UNCHANGED <<sceneVars, hideWindow, queue>>
      BY <1>1, <1>2
    <2> QED BY <1>2, <1>4, <2>2, <2>3, FileIsRead
  <1>6. CASE phase' \in {"failed", "thrown"} /\ UNCHANGED <<assets, maps, counts, level, lost>>
    <2>1. LayersInv'
      BY <1>2, <1>6 DEF GameInv, LayersInv
    <2>2. phase' \in Phases \ {"unloaded"} /\ ~Running'
      BY <1>6 DEF Phases, Running
    <2>3. /\ UNCHANGED <<assets, maps, counts, level, lost, hideWindow, currentSceneName>>
          /\ raised' \in 0 .. MaxRaised /\ queue' \in Seq(QueuedEvents) /\ owned' \subseteq Objects
          /\ layers' \in Seq(LayerRecords)
      BY <1>2, <1>6 DEF GameInv, StateInv
    <2> QED BY <1>4, <2>1, <2>2, <2>3, AssetsKept
  <1>7. CASE Initialize
    BY <1>5, <1>6, <1>7 DEF Initialize, InitializeSdl
  <1>8. CASE InitializeThrows
    BY <1>5, <1>6, <1>8 DEF InitializeThrows
  <1> QED BY <1>7, <1>8

LEMMA InputIsHandled ==
  ASSUME GameInv, ReadInput
  PROVE  GameInv'
  <1>1. /\ raised \in 0 .. MaxRaised /\ queue \in Seq(QueuedEvents) /\ owned \subseteq Objects
        /\ layers \in Seq(LayerRecords) /\ mixer \in BOOLEAN /\ ttf \in BOOLEAN
    BY DEF GameInv, StateInv
  <1>2. MaxRaised \in Nat
    BY GameAssumption
  <1>3. ASSUME NEW e \in QueuedEvents, CanRaise, Raise(e),
               UNCHANGED <<resourceVars, sceneVars, phase, hideWindow>>
        PROVE  GameInv'
    <2>1. /\ queue' \in Seq(QueuedEvents) /\ raised' \in 0 .. MaxRaised
          /\ phase' = phase /\ phase = "input" /\ owned' \subseteq Objects
          /\ layers' = layers /\ layers' \in Seq(LayerRecords)
          /\ UNCHANGED <<assets, maps, counts, level, lost, hideWindow, currentSceneName>>
          /\ mixer' \in BOOLEAN /\ ttf' \in BOOLEAN
      <3>1. Append(queue, e) \in Seq(QueuedEvents)
        BY <1>1, AppendProperties
      <3>2. raised + 1 \in 0 .. MaxRaised
        BY <1>1, <1>2, <1>3 DEF CanRaise
      <3> QED BY <1>1, <1>3, <3>1, <3>2 DEF CanRaise, Raise, resourceVars, sceneVars
    <2>2. phase' \in Phases \ {"unloaded"} /\ (Running' => Running) /\ LayersInv'
      BY <2>1 DEF Phases, Running, GameInv, LayersInv
    <2> QED BY <2>1, <2>2, AssetsKept
  <1>4. ASSUME NEW s \in SceneIds, StartScene(s) PROVE GameInv'
    <2>1. Event("change", s) \in QueuedEvents
      BY DEF QueuedEvents
    <2> QED BY <1>3, <1>4, <2>1 DEF StartScene
  <1>5. ASSUME NEW o \in Objects, RaiseAdd(o) \/ RaiseRemove(o) PROVE GameInv'
    <2>1. Event("add", o) \in QueuedEvents /\ Event("remove", o) \in QueuedEvents
      BY DEF QueuedEvents
    <2> QED BY <1>3, <1>5, <2>1 DEF RaiseAdd, RaiseRemove
  <1>6. ASSUME NEW o \in Objects, Release(o) PROVE GameInv'
    <2>1. /\ queue' \in Seq(QueuedEvents) /\ raised' \in 0 .. MaxRaised
          /\ phase' = phase /\ phase = "input" /\ owned' \subseteq Objects
          /\ layers' = layers /\ layers' \in Seq(LayerRecords)
          /\ UNCHANGED <<assets, maps, counts, level, lost, hideWindow, currentSceneName>>
          /\ mixer' \in BOOLEAN /\ ttf' \in BOOLEAN
      BY <1>1, <1>6 DEF Release, resourceVars, gameVars
    <2>2. phase' \in Phases \ {"unloaded"} /\ (Running' => Running) /\ LayersInv'
      BY <2>1 DEF Phases, Running, GameInv, LayersInv
    <2> QED BY <2>1, <2>2, AssetsKept
  <1>7. CASE Reindex
    <2>1. /\ phase = "input" /\ raised' \in 0 .. MaxRaised
          /\ UNCHANGED <<sceneVars, hideWindow, queue>> /\ mixer' \in BOOLEAN /\ ttf' \in BOOLEAN
      BY <1>1, <1>2, <1>7 DEF Reindex, CanRaise
    <2>2. CASE UnloadFollowsNull
      <3>1. /\ phase' = "crashed" /\ layers' = layers
            /\ UNCHANGED <<assets, maps, counts, level, lost, hideWindow, currentSceneName>>
            /\ queue' \in Seq(QueuedEvents) /\ owned' \subseteq Objects
            /\ layers' \in Seq(LayerRecords)
        BY <1>1, <1>7, <2>1, <2>2 DEF Reindex, sceneVars
      <3>2. phase' \in Phases \ {"unloaded"} /\ ~Running' /\ LayersInv'
        BY <2>1, <3>1 DEF Phases, Running, GameInv, LayersInv
      <3> QED BY <2>1, <3>1, <3>2, AssetsKept
    <2>3. CASE ~UnloadFollowsNull
      <3>1. PICK f \in Files : \E reading \in Readings(f) :
                /\ IndexResourceFile(reading)
                /\ phase' = IF Len(reading) = Len(f) THEN phase ELSE "thrown"
        BY <1>7, <2>3 DEF Reindex
      <3>2. PICK reading \in Readings(f) :
                /\ IndexResourceFile(reading)
                /\ phase' = IF Len(reading) = Len(f) THEN phase ELSE "thrown"
        BY <3>1
      <3>3. phase' \in {"input", "thrown"}
        BY <2>1, <3>2
      <3> QED BY <2>1, <3>2, <3>3, FileIsRead
    <2> QED BY <2>2, <2>3
  <1> QED BY <1>4, <1>5, <1>6, <1>7, NameIsLookedUp DEF ReadInput

LEMMA EventIsProcessed ==
  ASSUME GameInv, ProcessEvent
  PROVE  GameInv'
  <1>1. /\ queue # <<>> /\ phase = "events" /\ queue \in Seq(QueuedEvents)
        /\ UNCHANGED <<hideWindow, raised>>
    BY DEF ProcessEvent, GameInv, StateInv
  <1> PICK e : e = Head(queue)
    OBVIOUS
  <1>2. e \in QueuedEvents /\ Tail(queue) \in Seq(QueuedEvents)
    BY <1>1, QueueFacts
  <1>3. \/ e.type = "change" /\ ProcessChange(e.arg)
        \/ e.type = "add"    /\ ProcessAdd(e.arg)
        \/ e.type = "remove" /\ ProcessRemove(e.arg)
        \/ e.type = "loaded" /\ ProcessLoaded
    BY DEF ProcessEvent
  <1>4. CASE e.type = "change" /\ ProcessChange(e.arg)
    <2>1. PICK s \in SceneIds : s = e.arg
      BY <1>2, <1>4, EventFacts
    <2>2. queue' \in {queue, Tail(queue), Append(Tail(queue), Event("loaded", s))}
      BY <1>4, <2>1 DEF ProcessChange
    <2>3. queue' \in Seq(QueuedEvents)
      BY <1>1, <1>2, <2>2, QueueFacts
    <2> QED BY <1>1, <1>4, <2>1, <2>3, SceneIsChanged
  <1>5. CASE e.type = "add" /\ ProcessAdd(e.arg)
    BY <1>1, <1>2, <1>5, EventFacts, ObjectIsAdded
  <1>6. CASE e.type = "remove" /\ ProcessRemove(e.arg)
    BY <1>1, <1>2, <1>6, EventFacts, ObjectIsRemoved
  <1>7. CASE ProcessLoaded
    <2>1. /\ queue' \in Seq(QueuedEvents) /\ raised' \in 0 .. MaxRaised
          /\ phase' = phase /\ owned' \subseteq Objects
          /\ layers' = layers /\ layers' \in Seq(LayerRecords)
          /\ UNCHANGED <<assets, maps, counts, level, lost, hideWindow, currentSceneName>>
          /\ mixer' \in BOOLEAN /\ ttf' \in BOOLEAN
      BY <1>1, <1>2, <1>7 DEF ProcessLoaded, resourceVars, sceneVars, GameInv, StateInv
    <2>2. phase' \in Phases \ {"unloaded"} /\ (Running' => Running) /\ LayersInv'
      BY <1>1, <2>1 DEF Phases, Running, GameInv, LayersInv
    <2> QED BY <2>1, <2>2, AssetsKept
  <1> QED BY <1>3, <1>4, <1>5, <1>6, <1>7

(* The steps of the frame that touch no asset and no layer.                *)
LEMMA FrameGoesOn ==
  ASSUME GameInv, InputIsRead \/ EventsAreProcessed \/ UpdateAllGameObjects \/ Draw
  PROVE  GameInv'
  <1>1. /\ queue' = queue /\ raised' = raised /\ owned' = owned
        /\ layers' = layers /\ mixer' = mixer /\ ttf' = ttf
        /\ UNCHANGED <<assets, maps, counts, level, lost, hideWindow, currentSceneName>>
    BY DEF InputIsRead, EventsAreProcessed, UpdateAllGameObjects, Draw, resourceVars, sceneVars
  <1>2. /\ phase \in {"input", "events", "update", "draw"}
        /\ phase' \in {"input", "events", "update", "draw", "done"}
    BY DEF InputIsRead, EventsAreProcessed, UpdateAllGameObjects, Draw
  <1>3. /\ queue' \in Seq(QueuedEvents) /\ raised' \in 0 .. MaxRaised /\ owned' \subseteq Objects
        /\ layers' \in Seq(LayerRecords) /\ mixer' \in BOOLEAN /\ ttf' \in BOOLEAN
    BY <1>1 DEF GameInv, StateInv
  <1>4. phase' \in Phases \ {"unloaded"} /\ Running /\ LayersInv'
    BY <1>1, <1>2 DEF Phases, Running, GameInv, LayersInv
  <1> QED BY <1>1, <1>3, <1>4, AssetsKept

LEMMA DrawInvHolds ==
  ASSUME DrawInv, [Next]_vars
  PROVE  DrawInv'
  <1>1. CASE UpdateAllGameObjects
    <2>1. updated' = LiveObjects(layers, Queued)
      BY <1>1 DEF UpdateAllGameObjects, UpdateAllObjects
    <2>2. layers' = layers /\ owned' = owned /\ queue' = queue
      BY <1>1 DEF UpdateAllGameObjects
    <2>3. LiveObjects(layers, Queued)' = LiveObjects(layers, Queued)
      BY <2>2 DEF LiveObjects, Queued, Alive, AllObjects
    <2> QED BY <2>1, <2>3 DEF DrawInv
  <1>2. CASE UNCHANGED vars
    <2>1. layers' = layers /\ owned' = owned /\ queue' = queue /\ phase' = phase /\ updated' = updated
      BY <1>2 DEF vars, sceneVars, gameVars
    <2>2. LiveObjects(layers, Queued)' = LiveObjects(layers, Queued)
      BY <2>1 DEF LiveObjects, Queued, Alive, AllObjects
    <2> QED BY <2>1, <2>2 DEF DrawInv
  <1>3. CASE Next /\ ~UpdateAllGameObjects
    <2>1. phase' # "draw"
      <3>1. CASE Initialize \/ InitializeThrows \/ InputIsRead \/ EventsAreProcessed \/ Draw \/ Unload
        BY <3>1 DEF Initialize, InitializeSdl, InitializeThrows, InputIsRead, EventsAreProcessed,
                    Draw, Unload
      <3>2. CASE ReadInput
        BY <3>2 DEF ReadInput, StartScene, RaiseAdd, RaiseRemove, Release, LookUp, Reindex, CanRaise,
                    gameVars
      <3>3. CASE ProcessEvent
        BY <3>3 DEF ProcessEvent, ProcessChange, ProcessAdd, ProcessRemove, ProcessLoaded
      <3> QED BY <1>3, <3>1, <3>2, <3>3 DEF Next
    <2> QED BY <2>1 DEF DrawInv
  <1> QED BY <1>1, <1>2, <1>3

LEMMA InvNext ==
  ASSUME GameInv, DrawInv, [Next]_vars
  PROVE  GameInv' /\ DrawInv'
  <1>1. DrawInv'
    BY DrawInvHolds
  <1>2. CASE UNCHANGED vars
    <2>1. /\ UNCHANGED resourceVars /\ UNCHANGED sceneVars
          /\ phase' = phase /\ hideWindow' = hideWindow /\ queue' = queue /\ raised' = raised
      BY <1>2 DEF vars, gameVars
    <2>2. /\ assets' = assets /\ level' = level /\ lost' = lost
          /\ currentSceneName' = currentSceneName /\ layers' = layers /\ owned' = owned
          /\ mixer' = mixer /\ ttf' = ttf /\ resourcesByName' = resourcesByName
          /\ resourcesByScene' = resourcesByScene
          /\ resourcesById' = resourcesById /\ countResources' = countResources
          /\ countLoadedResources' = countLoadedResources
          /\ countUnloadedResources' = countUnloadedResources
      BY <2>1 DEF resourceVars, maps, counts, sceneVars
    <2>3. StateInv' /\ IndexInv'
      BY <2>1, <2>2 DEF GameInv, StateInv, IndexInv
    <2>4. MemoryInv' /\ LayersInv'
      BY <2>1, <2>2 DEF GameInv, MemoryInv, LoadedCan, HandlesKnown, Loaded, Running, LayersInv
    <2>5. CountsAgree' /\ OnlyFontsAreLost' /\ UnloadFreesAll'
      BY <2>1, <2>2 DEF GameInv, CountsAgree, Running, OnlyFontsAreLost, UnloadFreesAll,
                        SharesName, Named
    <2>6. SceneIsResident' /\ ManagersAgree'
      BY <2>1, <2>2 DEF GameInv, SceneIsResident, ManagersAgree, Running
    <2> QED BY <1>1, <2>3, <2>4, <2>5, <2>6 DEF GameInv
  <1>3. CASE Next
    <2>1. CASE Initialize \/ InitializeThrows
      BY <1>1, <2>1, GameStarts
    <2>2. CASE ReadInput
      BY <1>1, <2>2, InputIsHandled
    <2>3. CASE ProcessEvent
      BY <1>1, <2>3, EventIsProcessed
    <2>4. CASE InputIsRead \/ EventsAreProcessed \/ UpdateAllGameObjects \/ Draw
      BY <1>1, <2>4, FrameGoesOn
    <2>5. CASE Unload
      BY <1>1, <2>5, GameIsUnloaded
    <2> QED BY <1>3, <2>1, <2>2, <2>3, <2>4, <2>5 DEF Next
  <1> QED BY <1>1, <1>2, <1>3

(* From the start to the end of a game, through every change of scene, all *)
(* of the above holds: the maps, the memory and the order of the layers    *)
(* (ResourceManager.cpp:60-229, SceneManager.cpp:28-322).                  *)
THEOREM GameInvHolds == Spec => [](GameInv /\ DrawInv)
  <1>1. Init => GameInv /\ DrawInv
    BY InvInitially
  <1>2. (GameInv /\ DrawInv) /\ [Next]_vars => (GameInv /\ DrawInv)'
    BY InvNext
  <1> QED BY <1>1, <1>2, PTL DEF Spec

LEMMA InvGivesTypes == GameInv => TypeOK
  <1> SUFFICES ASSUME GameInv PROVE TypeOK
    OBVIOUS
  <1>1. /\ phase \in Phases /\ hideWindow \in BOOLEAN /\ raised \in 0 .. MaxRaised
        /\ owned \subseteq Objects /\ countResources = Len(assets)
    BY DEF GameInv, StateInv
  <1>2. currentSceneName \in 0 .. 4
    <2>1. currentSceneName \in SceneFiles \cup {0} /\ SceneFiles \subseteq 1 .. 4
      BY ScenesAssumption DEF GameInv, StateInv
    <2> QED BY <2>1
  <1>3. ASSUME NEW k \in DOMAIN layers
        PROVE  /\ layers[k].order \in Nat /\ layers[k].visible \in BOOLEAN
               /\ layers[k].from \in SceneFiles \X Nat
               /\ layers[k].objects \in Seq(Objects \cup {Expired})
    <2>1. layers \in Seq(LayerRecords)
      BY DEF GameInv, StateInv
    <2> QED BY <2>1, LayerFacts
  <1>4. Range(resourcesByName) \cup Range(resourcesById) \subseteq 0 .. Len(assets)
    BY DEF GameInv, IndexInv
  <1>5. countLoadedResources \in Nat /\ countUnloadedResources = -countLoadedResources
    <2>1. Cardinality(Loaded(assets)) \in Nat
      BY GameFacts, LoadedFinite
    <2>2. /\ countLoadedResources \in Int /\ countLoadedResources >= Cardinality(Loaded(assets))
          /\ countUnloadedResources = 0 - countLoadedResources
      BY DEF GameInv, StateInv, MemoryInv
    <2> QED BY <2>1, <2>2
  <1> QED BY <1>1, <1>2, <1>3, <1>4, <1>5 DEF TypeOK

(* The books of the assets balance, for every resource file, game and      *)
(* number of events: the counter, what is lost and what is left at the end *)
(* (ResourceManager.cpp:60-135).                                           *)
THEOREM AssetsBalance == Spec => []AssetsOK
  <1>1. GameInv => AssetsOK
    BY InvGivesTypes DEF GameInv, AssetsOK
  <1> QED BY <1>1, GameInvHolds, PTL

(* What is shown, however many scenes are loaded one after the other, are  *)
(* the assets of one of them and its layers, and over these the layers of  *)
(* all before it, in their order (ResourceManager.cpp:60-105, SceneManager.*)
(* cpp:219-320).                                                           *)
THEOREM ShownIsWhatWasRead == Spec => []WhatIsShown
  <1>1. GameInv => LayersInOrder /\ SceneIsFirst
    BY DEF GameInv, LayersInv, Running, LayersInOrder, SceneIsFirst, InFallingOrder
  <1>2. GameInv => WhatIsShown
    BY <1>1 DEF GameInv, WhatIsShown
  <1> QED BY <1>2, GameInvHolds, PTL
-----------------------------------------------------------------------------
(* The objects in the layers.                                              *)

(* Where the objects are, before a step and after it.                      *)
LEMMA OccurrencesAre ==
  ASSUME NEW o
  PROVE  /\ Occurrences(o) = Cardinality(PlacesOf(layers, o))
         /\ Occurrences(o)' = Cardinality(PlacesOf(layers', o))
  BY DEF Occurrences, PlacesOf, Pointers

AddsOnce(o) == Occurrences(o)' > Occurrences(o) =>
                   Head(queue) = Event("add", o) /\ Occurrences(o)' = Occurrences(o) + 1
TakesById(o) == Occurrences(o)' < Occurrences(o) =>
                    \E r \in Objects : IdOf[r] = IdOf[o] /\ Head(queue) = Event("remove", r)

TakesNoLayer == phase' # "thrown" => EarlierStay(layers')

LEMMA NobodyMoves ==
  ASSUME layers \in Seq(LayerRecords), layers' = layers, NEW o \in Objects
  PROVE  AddsOnce(o) /\ TakesById(o)
  <1>1. Occurrences(o)' = Occurrences(o) /\ Occurrences(o) \in Nat
    BY OccurrencesAre, PlacesFinite
  <1> QED BY <1>1 DEF AddsOnce, TakesById

LEMMA ObjectsMove ==
  ASSUME GameInv, [Next]_vars, NEW o \in Objects
  PROVE  AddsOnce(o) /\ TakesById(o)
  <1>1. layers \in Seq(LayerRecords) /\ queue \in Seq(QueuedEvents)
    BY DEF GameInv, StateInv
  <1>2. PICK b, a : /\ b = Cardinality(PlacesOf(layers, o)) /\ a = Cardinality(PlacesOf(layers', o))
                    /\ Occurrences(o) = b /\ Occurrences(o)' = a
    BY OccurrencesAre
  <1>3. b \in Nat
    BY <1>1, <1>2, PlacesFinite
  <1>4. CASE layers' = layers
    BY <1>1, <1>4, NobodyMoves
  <1>5. CASE ProcessEvent /\ layers' # layers
    <2> PICK e : e = Head(queue)
      OBVIOUS
    <2>1. phase = "events" /\ queue # <<>> /\ e \in QueuedEvents
      BY <1>1, <1>5, QueueFacts DEF ProcessEvent
    <2>2. CASE e.type = "change" /\ ProcessChange(e.arg)
      <3>1. LoadNewScene(e.arg)
        BY <1>5, <2>2 DEF ProcessChange
      <3>2. InFallingOrder(layers) /\ currentSceneName \in SceneFiles \cup {0}
        BY <2>1 DEF GameInv, StateInv, LayersInv
      <3>3. HeadedBy(layers, currentSceneName)
        BY <2>1 DEF GameInv, LayersInv
      <3>4. a = b
        BY <1>1, <1>2, <3>1, <3>2, <3>3, NewSceneFacts
      <3> QED BY <1>2, <1>3, <3>4 DEF AddsOnce, TakesById
    <2>3. CASE e.type = "add" /\ ProcessAdd(e.arg)
      <3>1. PICK x \in Objects : x = e.arg
        BY <2>1, <2>3, EventFacts
      <3>2. layers # <<>> /\ layers' = [layers EXCEPT ![Len(layers)].objects = Append(@, x)]
        BY <1>5, <2>3, <3>1 DEF ProcessAdd, AddGameObjectToScene
      <3>3. PICK new : new = [layers EXCEPT ![Len(layers)].objects = Append(@, x)]
        OBVIOUS
      <3>4. /\ \A y \in Objects : y # x => PlacesOf(new, y) = PlacesOf(layers, y)
            /\ Cardinality(PlacesOf(new, x)) = Cardinality(PlacesOf(layers, x)) + 1
        BY ONLY <1>1, <3>2, <3>3, x \in Objects, AddFacts
      <3>5. layers' = new
        BY <3>2, <3>3
      <3>6. CASE o = x
        <4>1. a = b + 1
          BY <1>2, <3>4, <3>5, <3>6
        <4>2. e = Event("add", o)
          BY <2>1, <2>3, <3>1, <3>6, EventFacts
        <4> QED BY <1>2, <1>3, <4>1, <4>2 DEF AddsOnce, TakesById
      <3>7. CASE o # x
        <4>1. a = b
          BY <1>2, <3>4, <3>5, <3>7
        <4> QED BY <1>2, <1>3, <4>1 DEF AddsOnce, TakesById
      <3> QED BY <3>6, <3>7
    <2>4. CASE e.type = "remove" /\ ProcessRemove(e.arg)
      <3>1. PICK x \in Objects : x = e.arg
        BY <2>1, <2>4, EventFacts
      <3>2. PICK id, queued : id = IdOf[x] /\ queued = Queued
        OBVIOUS
      <3>3. PICK new : new = [k \in DOMAIN layers |->
                                 [layers[k] EXCEPT !.objects = RemoveIf(@, id, queued)]]
        OBVIOUS
      <3>4. layers' = new
        BY <2>4, <3>1, <3>2, <3>3 DEF ProcessRemove, RemoveGameObjectFromLayers
      <3>5. WithoutId(new, id)
        BY ONLY <1>1, <3>3, RemoveFacts
      <3>6. a <= b /\ (IdOf[o] # id => a = b)
        BY <1>2, <3>4, <3>5 DEF WithoutId
      <3>7. a \in Nat
        <4>1. new \in Seq(LayerRecords)
          BY <3>5 DEF WithoutId
        <4> QED BY <1>2, <3>4, <4>1, PlacesFinite
      <3>8. e = Event("remove", x)
        BY <2>1, <2>4, <3>1, EventFacts
      <3>9. AddsOnce(o)
        BY <1>2, <1>3, <3>6, <3>7 DEF AddsOnce
      <3>10. TakesById(o)
        <4>1. CASE IdOf[x] = IdOf[o]
          BY <3>8, <4>1 DEF TakesById
        <4>2. CASE IdOf[x] # IdOf[o]
          BY <1>2, <1>3, <3>2, <3>6, <4>2 DEF TakesById
        <4> QED BY <4>1, <4>2
      <3> QED BY <3>9, <3>10
    <2>5. CASE ProcessLoaded
      BY <1>5, <2>5 DEF ProcessLoaded, sceneVars
    <2> QED BY <1>5, <2>2, <2>3, <2>4, <2>5 DEF ProcessEvent
  <1>6. CASE layers' # layers /\ ~ProcessEvent
    BY <1>6 DEF vars, Next, Initialize, InitializeThrows, ReadInput, StartScene, RaiseAdd, RaiseRemove,
        Release, LookUp, Reindex, InputIsRead, EventsAreProcessed, UpdateAllGameObjects, Draw, Unload, sceneVars
  <1> QED BY <1>4, <1>5, <1>6

(* A scene is loaded before the others' layers, an object comes or goes.   *)
LEMMA LayersStay ==
  ASSUME GameInv, [Next]_vars
  PROVE  TakesNoLayer
  <1>1. /\ layers \in Seq(LayerRecords) /\ queue \in Seq(QueuedEvents)
        /\ currentSceneName \in SceneFiles \cup {0}
    BY DEF GameInv, StateInv
  <1>2. CASE layers' = layers
    BY <1>1, <1>2, StaysTheSame DEF TakesNoLayer, SameLayer
  <1>3. CASE ProcessEvent /\ layers' # layers
    <2> PICK e : e = Head(queue)
      OBVIOUS
    <2>1. phase = "events" /\ queue # <<>> /\ e \in QueuedEvents
      BY <1>1, <1>3, QueueFacts DEF ProcessEvent
    <2>2. CASE e.type = "change" /\ ProcessChange(e.arg)
      <3>1. LoadNewScene(e.arg) /\ (phase' # "thrown" => LoadOutcome(e.arg) # "thrown")
        BY <1>3, <2>2 DEF ProcessChange
      <3>2. InFallingOrder(layers) /\ HeadedBy(layers, currentSceneName)
        BY <2>1 DEF GameInv, LayersInv
      <3> QED BY <1>1, <3>1, <3>2, NewSceneFacts DEF TakesNoLayer
    <2>3. CASE e.type = "add" /\ ProcessAdd(e.arg)
      <3>1. PICK x \in Objects : x = e.arg
        BY <2>1, <2>3, EventFacts
      <3>2. layers # <<>> /\ layers' = [layers EXCEPT ![Len(layers)].objects = Append(@, x)]
        BY <1>3, <2>3, <3>1 DEF ProcessAdd, AddGameObjectToScene
      <3>3. PICK new : new = [layers EXCEPT ![Len(layers)].objects = Append(@, x)]
        OBVIOUS
      <3>4. /\ new \in Seq(LayerRecords) /\ Len(new) = Len(layers)
            /\ \A k \in 1 .. Len(layers) : SameLayer(new[k], layers[k])
        BY ONLY <1>1, <3>2, <3>3, x \in Objects, AddFacts
      <3>5. layers' = new
        BY <3>2, <3>3
      <3>6. EarlierStay(new)
        BY <1>1, <3>4, StaysTheSame
      <3> QED BY <3>5, <3>6 DEF TakesNoLayer
    <2>4. CASE e.type = "remove" /\ ProcessRemove(e.arg)
      <3>1. PICK id, queued : id = IdOf[e.arg] /\ queued = Queued
        OBVIOUS
      <3>2. PICK new : new = [k \in DOMAIN layers |->
                                 [layers[k] EXCEPT !.objects = RemoveIf(@, id, queued)]]
        OBVIOUS
      <3>3. layers' = new
        BY <2>4, <3>1, <3>2 DEF ProcessRemove, RemoveGameObjectFromLayers
      <3>4. WithoutId(new, id)
        BY ONLY <1>1, <3>2, RemoveFacts
      <3>5. EarlierStay(new)
        BY <1>1, <3>4, StaysTheSame DEF WithoutId
      <3> QED BY <3>3, <3>5 DEF TakesNoLayer
    <2>5. CASE ProcessLoaded
      BY <1>3, <2>5 DEF ProcessLoaded, sceneVars
    <2> QED BY <1>3, <2>2, <2>3, <2>4, <2>5 DEF ProcessEvent
  <1>4. CASE layers' # layers /\ ~ProcessEvent
    BY <1>4 DEF vars, Next, Initialize, InitializeThrows, ReadInput, StartScene, RaiseAdd, RaiseRemove,
        Release, LookUp, Reindex, InputIsRead, EventsAreProcessed, UpdateAllGameObjects, Draw, Unload, sceneVars
  <1> QED BY <1>2, <1>3, <1>4

(* Who is met by the loops over the objects of the layers ls.              *)
LEMMA LiveFacts ==
  ASSUME NEW ls \in Seq(LayerRecords), NEW queued
  PROVE  /\ LiveObjects(ls, queued) \in Seq(Objects \cup {Expired})
         /\ Range(LiveObjects(ls, queued)) =
                {o \in Objects : Alive(o, queued) /\ \E k \in 1 .. Len(ls) : o \in Range(ls[k].objects)}
  <1> PICK T : T = Objects \cup {Expired}
    OBVIOUS
  <1>1. PICK n \in Nat : n = Len(ls) /\ DOMAIN ls = 1 .. n
    BY LayerFacts
  <1> DEFINE lists == [k \in DOMAIN ls |-> ls[k].objects]
  <1>2. lists = [k \in 1 .. n |-> ls[k].objects] /\ \A k \in 1 .. n : ls[k].objects \in Seq(T)
    BY <1>1, LayerFacts
  <1>3. lists \in Seq(Seq(T)) /\ Len(lists) = n /\ \A k \in 1 .. n : lists[k] = ls[k].objects
    <2> HIDE DEF lists
    <2> QED BY ONLY n \in Nat, <1>2
  <1>4. AllObjects(ls) = FlattenSeq(lists)
    BY DEF AllObjects
  <1> HIDE DEF lists
  <1> PICK all : all = AllObjects(ls)
    OBVIOUS
  <1>5. /\ all \in Seq(T)
        /\ \A x : x \in Range(all) <=> \E k \in 1 .. n : x \in Range(lists[k])
    BY <1>3, <1>4, FlattenRange
  <1> PICK S : S = {o \in Objects : Alive(o, queued)}
    OBVIOUS
  <1>6. Chosen(all, S) \in Seq(T) /\ Range(Chosen(all, S)) = Range(all) \cap S
    BY <1>5, ChosenRange
  <1>7. LiveObjects(ls, queued) = Chosen(all, S)
    BY DEF LiveObjects
  <1>8. Range(all) \cap S =
            {o \in Objects : Alive(o, queued) /\ \E k \in 1 .. Len(ls) : o \in Range(ls[k].objects)}
    BY <1>1, <1>3, <1>5
  <1> QED BY <1>6, <1>7, <1>8

DrawsWhatWasUpdated ==
    drawn' # drawn =>
        \A i \in DOMAIN drawn' :
            /\ drawn'[i] \in Range(updated) \ Hidden
            /\ \E k \in DOMAIN layers :
                   layers[k].visible /\ drawn'[i] \in Range(layers[k].objects)

LEMMA OnlyTheUpdatedAreDrawn ==
  ASSUME GameInv, DrawInv, [Next]_vars
  PROVE  DrawsWhatWasUpdated
  <1>1. CASE drawn' = drawn
    BY <1>1 DEF DrawsWhatWasUpdated
  <1>2. CASE drawn' # drawn
    <2>1. Draw /\ ~hideWindow
      <3>1. ~UNCHANGED vars
        BY <1>2 DEF vars, sceneVars
      <3>2. ~(Initialize \/ InitializeThrows \/ ReadInput \/ InputIsRead \/ EventsAreProcessed \/ Unload)
        BY <1>2 DEF Initialize, InitializeThrows, ReadInput, StartScene, RaiseAdd, RaiseRemove,
            Release, LookUp, Reindex, InputIsRead, EventsAreProcessed, Unload, sceneVars
      <3>3. ~ProcessEvent
        BY <1>2 DEF ProcessEvent, ProcessChange, ProcessAdd, ProcessRemove, ProcessLoaded, sceneVars
      <3>4. ~UpdateAllGameObjects
        BY <1>2 DEF UpdateAllGameObjects
      <3>5. Draw
        BY <3>1, <3>2, <3>3, <3>4 DEF Next
      <3> QED BY <1>2, <3>5 DEF Draw
    <2> PICK queued : queued = Queued
      OBVIOUS
    <2>2. updated = LiveObjects(layers, queued)
      BY <2>1 DEF Draw, DrawInv
    <2> PICK V, S, vis, seen : /\ V = {l \in Range(layers) : l.visible} /\ S = Objects \ Hidden
                               /\ vis = Chosen(layers, V) /\ seen = LiveObjects(vis, queued)
      OBVIOUS
    <2>3. drawn' = Chosen(seen, S)
      BY <2>1 DEF Draw, DrawScene
    <2>4. layers \in Seq(LayerRecords)
      BY DEF GameInv, StateInv
    <2>5. vis \in Seq(LayerRecords) /\ Range(vis) = Range(layers) \cap V
      BY <2>4, ChosenRange
    <2>6. /\ seen \in Seq(Objects \cup {Expired})
          /\ Range(seen) = {o \in Objects : /\ Alive(o, queued)
                                            /\ \E k \in 1 .. Len(vis) : o \in Range(vis[k].objects)}
      <3>1. seen = LiveObjects(vis, queued) /\ vis \in Seq(LayerRecords)
        BY <2>5
      <3> QED BY ONLY <3>1, LiveFacts
    <2>7. /\ updated \in Seq(Objects \cup {Expired})
          /\ Range(updated) = {o \in Objects : /\ Alive(o, queued)
                                       /\ \E k \in 1 .. Len(layers) : o \in Range(layers[k].objects)}
      BY <2>2, <2>4, LiveFacts
    <2>8. drawn' \in Seq(Objects \cup {Expired}) /\ Range(drawn') = Range(seen) \cap S
      BY <2>3, <2>6, ChosenRange
    <2>9. ASSUME NEW i \in DOMAIN drawn'
          PROVE  /\ drawn'[i] \in Range(updated) \ Hidden
                 /\ \E k \in DOMAIN layers :
                        layers[k].visible /\ drawn'[i] \in Range(layers[k].objects)
      <3> PICK o : o = drawn'[i]
        OBVIOUS
      <3>1. o \in Range(seen) /\ o \in Objects /\ o \notin Hidden
        BY <2>8, InRange
      <3>2. Alive(o, queued)
        BY <2>6, <3>1
      <3>3. PICK k \in 1 .. Len(vis) : o \in Range(vis[k].objects)
        BY <2>6, <3>1
      <3>4. vis[k] \in Range(layers) /\ vis[k].visible
        <4>1. vis[k] \in Range(vis)
          BY <2>5, InRange
        <4> QED BY <2>5, <4>1
      <3>5. PICK j \in 1 .. Len(layers) : vis[k] = layers[j]
        BY <2>4, <3>4, InRange
      <3>6. o \in Range(layers[j].objects) /\ layers[j].visible /\ j \in DOMAIN layers
        BY <2>4, <3>3, <3>4, <3>5, LayerFacts
      <3>7. o \in Range(updated)
        BY <2>7, <3>1, <3>2, <3>6
      <3> QED BY <3>1, <3>6, <3>7
    <2> QED BY <2>9 DEF DrawsWhatWasUpdated
  <1> QED BY <1>1, <1>2

(* No object appears in the layers, disappears from them or is drawn but   *)
(* by its own events and after its own update, and no layer goes, however  *)
(* many scenes, objects and events there are (SceneManager.cpp:28-320).    *)
THEOREM ObjectsKeepTheirPlaces == Spec => ObjectsAreTraced
  <1>1. GameInv /\ DrawInv /\ [Next]_vars =>
            [\A o \in Objects :
                 Occurrences(o)' > Occurrences(o) =>
                     Head(queue) = Event("add", o) /\ Occurrences(o)' = Occurrences(o) + 1]_vars
    BY ObjectsMove DEF AddsOnce
  <1>2. GameInv /\ DrawInv /\ [Next]_vars =>
            [\A o \in Objects :
                 Occurrences(o)' < Occurrences(o) =>
                     \E r \in Objects : /\ IdOf[r] = IdOf[o]
                                        /\ Head(queue) = Event("remove", r)]_vars
    BY ObjectsMove DEF TakesById
  <1>3. GameInv /\ DrawInv /\ [Next]_vars =>
            [drawn' # drawn =>
                 \A i \in DOMAIN drawn' :
                     /\ drawn'[i] \in Range(updated) \ Hidden
                     /\ \E k \in DOMAIN layers :
                            layers[k].visible /\ drawn'[i] \in Range(layers[k].objects)]_vars
    BY OnlyTheUpdatedAreDrawn DEF DrawsWhatWasUpdated
  <1>4. Spec => AddedOnce
    BY <1>1, GameInvHolds, PTL DEF Spec, AddedOnce
  <1>5. Spec => OthersStay
    BY <1>2, GameInvHolds, PTL DEF Spec, OthersStay
  <1>6. Spec => DrawnWasUpdated
    BY <1>3, GameInvHolds, PTL DEF Spec, DrawnWasUpdated
  <1>7. GameInv /\ DrawInv /\ [Next]_vars => [phase' # "thrown" => EarlierStay(layers')]_vars
    BY LayersStay DEF TakesNoLayer
  <1>8. Spec => EarlierLayersStay
    BY <1>7, GameInvHolds, PTL DEF Spec, EarlierLayersStay
  <1> QED BY <1>4, <1>5, <1>6, <1>8 DEF ObjectsAreTraced

-----------------------------------------------------------------------------
(* The loops.                                                              *)

LEMMA LoopFacts ==
  ASSUME loop \in Loops
  PROVE  /\ loop.tick \in Nat /\ loop.tick > 0
         /\ loop.maxLoops \in Nat /\ loop.maxLoops > 0
         /\ loop.network \in BOOLEAN
  BY LoopsAssumption

LEMMA OneMoreTick ==
  ASSUME NEW n \in Nat, NEW tick \in Nat
  PROVE  n * tick \in Nat /\ (n + 1) * tick = n * tick + tick
  OBVIOUS

LEMMA LoopsInitially == LoopsInit => LoopsInv
  <1> SUFFICES ASSUME LoopsInit PROVE LoopsInv
    OBVIOUS
  <1>1. loop.tick \in Nat /\ loop.tick > 0
    BY LoopFacts DEF LoopsInit
  <1>2. 0 * loop.tick = 0
    BY <1>1
  <1>3. LoopsTypeOK
    <2>1. /\ loop \in Loops /\ at \in {"frame", "update"} /\ done \in BOOLEAN
      BY DEF LoopsInit
    <2>2. /\ clock \in Nat /\ t0 \in Nat /\ t1 \in Nat /\ loops \in Nat
          /\ lag \in Nat /\ told \in Nat /\ updates \in Nat /\ before \in Nat
      BY DEF LoopsInit
    <2> QED BY <2>1, <2>2 DEF LoopsTypeOK
  <1> QED BY <1>1, <1>2, <1>3 DEF LoopsInit, LoopsInv, NoTimeLost

LEMMA LoopsBegin ==
  ASSUME LoopsInv, BeginFrame
  PROVE  LoopsInv'
  <1>1. /\ clock \in Nat /\ t0 \in Nat /\ t1 \in Nat /\ lag \in Nat /\ told \in Nat
        /\ updates \in Nat /\ t1 <= clock
    BY DEF LoopsInv, LoopsTypeOK
  <1>2. /\ at' = "update" /\ loops' = 0 /\ t1' = clock /\ clock' = clock
        /\ loop' = loop /\ t0' = t0 /\ told' = told /\ updates' = updates /\ done' = done
        /\ variable' = variable /\ before' = t1
    BY DEF BeginFrame, variable
  <1>3. /\ variable => lag' = lag
        /\ ~variable => lag' = lag + (clock - t1)
    BY DEF BeginFrame, NewLag
  <1>4. LoopsTypeOK'
    BY <1>1, <1>2, <1>3 DEF LoopsInv, LoopsTypeOK
  <1>5. NoTimeLost'
    BY <1>1, <1>2, <1>3 DEF LoopsInv, NoTimeLost
  <1>6. at = "frame" /\ at' # "frame" /\ loop.tick \in Nat
    BY LoopFacts DEF LoopsInv, LoopsTypeOK, BeginFrame
  <1>7. variable /\ loop.network => before' <= t0' + loop'.tick
    BY <1>1, <1>2, <1>6 DEF LoopsInv
  <1> QED BY <1>1, <1>2, <1>4, <1>5, <1>6, <1>7 DEF LoopsInv

LEMMA LoopsUpdate ==
  ASSUME LoopsInv, Update
  PROVE  LoopsInv'
  <1> DEFINE tick == loop.tick
  <1>1. tick \in Nat /\ tick > 0 /\ loop \in Loops
    BY LoopFacts DEF LoopsInv, LoopsTypeOK
  <1>2. /\ clock \in Nat /\ t0 \in Nat /\ t1 \in Nat /\ lag \in Nat /\ told \in Nat
        /\ loops \in Nat /\ updates \in Nat /\ t1 <= clock
    BY DEF LoopsInv, LoopsTypeOK
  <1>3. /\ at' = "update" /\ t1' = t1 /\ loop' = loop /\ variable' = variable
        /\ loops' = loops + 1 /\ updates' = updates + 1 /\ done' \in BOOLEAN
        /\ before' = before /\ before \in Nat /\ at = "update"
    BY DEF Update, variable, LoopsInv, LoopsTypeOK
  <1>4. clock' \in Nat /\ clock <= clock'
    <2>1. PICK cost \in Costs : clock' = clock + cost
      BY DEF Update
    <2> QED BY <1>2, <2>1, LoopsAssumption
  <1>5. /\ variable => /\ t0' = t0 + tick /\ t0' <= t1
                       /\ lag' = lag /\ told' = told + (t1 - t0)
        /\ ~variable => /\ t0' = t0 /\ lag' = lag - tick /\ tick <= lag
                        /\ told' = told + tick
    <2>1. /\ told' = told + Delta /\ t0' = (IF variable THEN NextT0(t1) ELSE t0)
          /\ lag' = IF variable THEN lag ELSE lag - loop.tick
      BY DEF Update
    <2>2. Due
      BY DEF Update
    <2> QED BY <1>1, <1>2, <2>1, <2>2 DEF Due, Delta, NextT0
  <1>6. /\ (updates + 1) * tick = updates * tick + tick
    BY <1>1, <1>2, OneMoreTick
  <1> HIDE DEF tick
  <1>7. LoopsTypeOK'
    <2>1. t0' \in Nat /\ lag' \in Nat /\ told' \in Nat
      BY <1>1, <1>2, <1>5 DEF LoopsInv
    <2> QED BY <1>1, <1>2, <1>3, <1>4, <2>1 DEF LoopsTypeOK
  <1>8. NoTimeLost'
    BY <1>1, <1>2, <1>3, <1>5 DEF LoopsInv, NoTimeLost
  <1>9. variable /\ ~loop.network => t0' = updates' * loop'.tick
    BY <1>3, <1>5, <1>6 DEF LoopsInv, tick
  <1>10. variable /\ loop.network => before' <= t0' + loop'.tick
    <2>1. variable /\ loop.network => before <= t0 + tick
      BY <1>3 DEF LoopsInv, tick
    <2> QED BY <1>1, <1>2, <1>3, <1>5, <2>1 DEF tick
  <1> QED BY <1>2, <1>3, <1>4, <1>5, <1>7, <1>8, <1>9, <1>10 DEF LoopsInv

LEMMA LoopsEnd ==
  ASSUME LoopsInv, EndFrame
  PROVE  LoopsInv'
  <1>1. loop.tick \in Nat /\ loop.tick > 0 /\ loop.maxLoops \in Nat /\ loop \in Loops
    BY LoopFacts DEF LoopsInv, LoopsTypeOK
  <1>2. /\ clock \in Nat /\ t0 \in Nat /\ t1 \in Nat /\ lag \in Nat /\ told \in Nat
        /\ loops \in Nat /\ updates \in Nat /\ t1 <= clock
    BY DEF LoopsInv, LoopsTypeOK
  <1>3. /\ at' = "frame" /\ t1' = t1 /\ loop' = loop /\ variable' = variable
        /\ loops' = loops /\ updates' = updates /\ done' = done
        /\ lag' = lag /\ told' = told /\ before' = before
    BY DEF EndFrame, variable
  <1>4. clock' \in Nat /\ clock <= clock'
    <2>1. PICK cost \in Costs : clock' = clock + cost
      BY DEF EndFrame
    <2> QED BY <1>2, <2>1, LoopsAssumption
  <1>5. /\ ~variable => t0' = t0
        /\ variable /\ ~loop.network =>
             t0' = t0 /\ (loops < loop.maxLoops => t1 < t0 + loop.tick)
        /\ variable /\ loop.network =>
             t0' \in Nat /\ t0' <= t1 /\ t1 <= t0' + loop.tick
    <2>1. t0' = (IF variable THEN Forgets ELSE t0) /\ ~Due
      BY DEF EndFrame
    <2>2. variable => t0 <= t1
      BY DEF LoopsInv
    <2>3. CASE ~variable
      BY <2>1, <2>3
    <2>4. CASE variable /\ ~loop.network
      BY <1>1, <1>2, <2>1, <2>4 DEF Forgets, Due
    <2>5. CASE variable /\ loop.network /\ t1 - t0 > loop.tick
      BY <1>1, <1>2, <2>1, <2>5 DEF Forgets
    <2>6. CASE variable /\ loop.network /\ ~(t1 - t0 > loop.tick)
      BY <1>1, <1>2, <2>1, <2>2, <2>6 DEF Forgets
    <2> QED BY <2>3, <2>4, <2>5, <2>6
  <1>6. LoopsTypeOK'
    <2>1. t0' \in Nat
      BY <1>1, <1>2, <1>5, LoopFacts
    <2> QED BY <1>1, <1>2, <1>3, <1>4, <2>1 DEF LoopsTypeOK, LoopsInv
  <1>7. NoTimeLost'
    BY <1>3 DEF LoopsInv, NoTimeLost
  <1> QED BY <1>1, <1>2, <1>3, <1>4, <1>5, <1>6, <1>7 DEF LoopsInv

LEMMA LoopsStand == LoopsInv /\ UNCHANGED loopVars => LoopsInv'
  BY DEF LoopsInv, LoopsTypeOK, NoTimeLost, loopVars, variable

LEMMA LoopsNext == LoopsInv /\ [SimulationNext]_simulationVars => LoopsInv'
  <1> SUFFICES ASSUME LoopsInv, [SimulationNext]_simulationVars PROVE LoopsInv'
    OBVIOUS
  <1>1. CASE Begin
    BY <1>1, LoopsBegin DEF Begin
  <1>2. CASE UpdateAll
    BY <1>2, LoopsUpdate DEF UpdateAll
  <1>3. CASE End
    BY <1>3, LoopsEnd DEF End
  <1>4. CASE FindFrame \/ Input \/ Network
    BY <1>4, LoopsStand DEF FindFrame, Input, Network
  <1>5. CASE UNCHANGED simulationVars
    BY <1>5, LoopsStand DEF simulationVars
  <1> QED BY <1>1, <1>2, <1>3, <1>4, <1>5 DEF SimulationNext

(* The fixed loop loses no time, the variable loop makes an update for     *)
(* every tick, and one of a networked game makes up for no more than the   *)
(* frame before took and a tick, for every tick, bound of updates and cost *)
(* (FixedStepGameLoop.cpp:22-36, VariableGameLoop.cpp:66-110).             *)
THEOREM LoopsKeepTime == SimulationSpec => []LoopsOK
  <1>1. SimulationInit => LoopsInv
    BY LoopsInitially DEF SimulationInit
  <1>2. LoopsInv => LoopsOK
    <2> SUFFICES ASSUME LoopsInv PROVE LoopsOK
      OBVIOUS
    <2> DEFINE made == updates * loop.tick
    <2>1. /\ loop.tick \in Nat /\ t0 \in Nat /\ t1 \in Nat /\ updates \in Nat /\ before \in Nat
          /\ (updates + 1) * loop.tick = made + loop.tick /\ made \in Nat
      BY LoopFacts, OneMoreTick DEF LoopsInv, LoopsTypeOK
    <2>2. variable /\ ~loop.network => t0 = made
      BY DEF LoopsInv
    <2> HIDE DEF made
    <2>3. variable /\ ~loop.network =>
            /\ made <= t1
            /\ at = "frame" /\ loops < loop.maxLoops => t1 < made + loop.tick
      BY <2>1, <2>2 DEF LoopsInv
    <2>4. OneUpdateATick
      BY <2>1, <2>3 DEF OneUpdateATick, made
    <2>5. NetworkGameIsPrompt
      BY <2>1 DEF LoopsInv, NetworkGameIsPrompt
    <2> QED BY <2>4, <2>5 DEF LoopsInv, LoopsOK
  <1> QED BY <1>1, <1>2, LoopsNext, PTL DEF SimulationSpec

-----------------------------------------------------------------------------
(* The timers.                                                             *)

(* A periodic timer t is u after the time delta, and v once its task ran:  *)
(* it is ready when it has run for its time, and then starts again.        *)
RunsFor(t, u, v, every, delta) ==
  /\ u \in PeriodicTimers /\ v \in PeriodicTimers
  /\ t.duration = 0 => /\ v.duration = every
                       /\ u.ready <=> delta >= every
                       /\ u.ready => v.elapsed = 0
                       /\ ~u.ready => v.elapsed = delta
  /\ t.duration = every => /\ v.duration = every
                           /\ u.ready <=> t.elapsed + delta >= every
                           /\ u.ready => v.elapsed = 0
                           /\ ~u.ready => v.elapsed = t.elapsed + delta

LEMMA PeriodicFacts ==
  ASSUME NEW t \in PeriodicTimers, NEW every \in Nat \ {0}, NEW delta \in Nat
  PROVE  RunsFor(t, PeriodicUpdate(t, every, delta),
                 DoIfReady(PeriodicUpdate(t, every, delta), every), every, delta)
  <1> DEFINE s == IF t.duration = 0 THEN Start(t, every) ELSE t
             w == TimerUpdate(s, delta)
             u == PeriodicUpdate(t, every, delta)
             v == DoIfReady(u, every)
  <1>1. /\ s \in PeriodicTimers /\ s.duration # 0
        /\ t.duration = 0 => s.duration = every /\ s.elapsed = 0
        /\ t.duration # 0 => s = t
    BY DEF Start, PeriodicTimers
  <1> HIDE DEF s
  <1>2. /\ w \in PeriodicTimers /\ w.duration = s.duration
        /\ w.elapsed = s.elapsed + delta
        /\ w.isElapsed <=> s.elapsed + delta >= s.duration
    <2> DEFINE n == s.elapsed + delta
               b == n >= s.duration
    <2>1. s.elapsed \in Nat /\ s.duration \in Nat
      BY <1>1 DEF PeriodicTimers
    <2>2. n \in Nat /\ b \in BOOLEAN
      BY <2>1
    <2>3. w = [s EXCEPT !.elapsed = n, !.isElapsed = b]
      BY <1>1 DEF TimerUpdate
    <2> HIDE DEF n, b, w
    <2>4. w \in PeriodicTimers /\ w.duration = s.duration /\ w.elapsed = n /\ w.isElapsed = b
      BY <1>1, <2>2, <2>3 DEF PeriodicTimers
    <2> QED BY <2>4 DEF n, b
  <1> HIDE DEF w
  <1>3. /\ u \in PeriodicTimers /\ u.duration = w.duration /\ u.elapsed = w.elapsed
        /\ u.ready <=> w.isElapsed
    BY <1>2 DEF PeriodicUpdate, PeriodicTimers, w, s
  <1> HIDE DEF u
  <1>4. /\ v \in PeriodicTimers
        /\ u.ready => v.duration = every /\ v.elapsed = 0
        /\ ~u.ready => v = u
    BY <1>3 DEF DoIfReady, Reset, Start, PeriodicTimers
  <1> HIDE DEF v
  <1>5. RunsFor(t, u, v, every, delta)
    BY <1>1, <1>2, <1>3, <1>4 DEF PeriodicTimers, RunsFor
  <1> QED BY <1>5 DEF u, v

LEMMA NoCountsType == NoCounts \in Counts
  BY DEF NoCounts, Counts

LEMMA CountedType ==
  ASSUME NEW tally \in Counts, NEW e \in Traffics
  PROVE  Counted(tally, e) \in Counts
  <1>1. e.amount \in Nat
    BY TimersAssumption
  <1>2. \A k \in Counters \cup {"rtt"}, n \in Nat :
          /\ tally[k] \in Nat /\ tally[k] + n \in Nat
          /\ [tally EXCEPT ![k] = n] \in Counts
          /\ [tally EXCEPT ![k] = tally[k] + n] \in Counts
    BY DEF Counts
  <1>3. {"bytes", "packets", "messages", "failed", "lost", "acks", "rtt"} \subseteq Counters \cup {"rtt"}
    BY DEF Counters
  <1>4. CASE e.kind = "traffic"
    BY <1>1, <1>2, <1>3, <1>4 DEF Counted
  <1>5. CASE e.kind = "packet"
    <2> DEFINE c == [tally EXCEPT !.packets = @ + 1]
    <2>1. c \in Counts
      BY <1>2, <1>3
    <2>2. c["messages"] \in Nat /\ c["messages"] = tally["messages"]
      BY <1>2, <1>3 DEF Counts
    <2>3. c["messages"] + e.amount \in Nat
      BY <1>1, <2>2
    <2>4. [c EXCEPT !["messages"] = c["messages"] + e.amount] \in Counts
      BY <1>3, <2>1, <2>3 DEF Counts
    <2>5. Counted(tally, e) = [c EXCEPT !["messages"] = c["messages"] + e.amount]
      BY <1>5, <2>2 DEF Counted
    <2> QED BY <2>4, <2>5
  <1>6. CASE e.kind = "checksum"
    BY <1>2, <1>3, <1>6 DEF Counted
  <1>7. CASE e.kind = "loss"
    BY <1>2, <1>3, <1>7 DEF Counted
  <1>8. CASE e.kind = "ack"
    BY <1>2, <1>3, <1>8 DEF Counted
  <1>9. CASE e.kind = "rtt"
    BY <1>1, <1>2, <1>3, <1>9 DEF Counted
  <1> QED BY <1>4, <1>5, <1>6, <1>7, <1>8, <1>9 DEF Counted

LEMMA SenderInitially == TimersInit => SenderInv
  <1> SUFFICES ASSUME TimersInit PROVE SenderInv
    OBVIOUS
  <1>1. Timer \in PeriodicTimers /\ Timer.duration = 0 /\ Timer.elapsed = 0
    BY DEF Timer, PeriodicTimers
  <1>2. TimersTypeOK
    BY <1>1, NoCountsType DEF TimersInit, TimersTypeOK
  <1> QED BY <1>1, <1>2, TimersAssumption DEF TimersInit, SenderInv, NeverEarly, NeverOverdue

LEMMA SenderUpdates ==
  ASSUME SenderInv, NEW delta \in Nat, TimersUpdate(delta)
  PROVE  SenderInv'
  <1> DEFINE t == PeriodicUpdate(sender, SendRate, delta)
             r == PeriodicUpdate(saver, SaveEvery, delta)
  <1>1. /\ sender \in PeriodicTimers /\ saver \in PeriodicTimers
        /\ SendRate \in Nat \ {0} /\ SaveEvery \in Nat \ {0}
        /\ sinceSend \in Nat /\ sender.elapsed = sinceSend /\ early = FALSE
    BY TimersAssumption DEF SenderInv, TimersTypeOK, NeverEarly
  <1>2. /\ sender' = DoIfReady(t, SendRate)
        /\ sinceSend' = IF t.ready THEN 0 ELSE sinceSend + delta
        /\ early' = (early \/ (t.ready /\ sinceSend + delta < SendRate))
        /\ saver' = DoIfReady(r, SaveEvery)
        /\ saved' = IF r.ready THEN Append(saved, stats) ELSE saved
        /\ stats' = AfterSave(r, stats)
        /\ heard' = heard
    BY DEF TimersUpdate, SendGameState, SaveAndReset
  <1>3. t.ready \in BOOLEAN /\ t \in PeriodicTimers
    BY <1>1, PeriodicFacts DEF PeriodicTimers, RunsFor
  <1>4. /\ sender' \in PeriodicTimers /\ sender'.duration = SendRate
        /\ t.ready <=> sinceSend + delta >= SendRate
        /\ t.ready => sender'.elapsed = 0
        /\ ~t.ready => sender'.elapsed = sinceSend + delta
    <2>1. RunsFor(sender, t, sender', SendRate, delta)
      BY <1>1, <1>2, PeriodicFacts
    <2>2. sender.duration = SendRate \/ (sender.duration = 0 /\ sinceSend = 0)
      BY DEF SenderInv
    <2> HIDE DEF t
    <2> QED BY <1>1, <2>1, <2>2 DEF RunsFor
  <1>5. saver' \in PeriodicTimers
    BY <1>1, <1>2, PeriodicFacts DEF RunsFor
  <1> HIDE DEF t, r
  <1>6. stats' \in Counts /\ saved' \in Seq(Counts) /\ heard' \in Seq(Traffics)
    BY <1>2, NoCountsType DEF AfterSave, SenderInv, TimersTypeOK
  <1>7. rate' \in [time : Nat, updates : Nat, shown : Nat]
    <2>1. rate \in [time : Nat, updates : Nat, shown : Nat] /\ FrameRate(delta)
      BY DEF SenderInv, TimersTypeOK, TimersUpdate
    <2> DEFINE time == rate.time + delta
    <2>2. /\ rate.time \in Nat /\ rate.updates \in Nat /\ rate.shown \in Nat
          /\ time \in Nat /\ time + delta \in Nat /\ rate.updates + 1 \in Nat
      BY <2>1
    <2>3. \/ rate' = [rate EXCEPT !.time = time + delta, !.updates = rate.updates + 1]
          \/ rate' = [time |-> 0, updates |-> 0, shown |-> rate.updates]
      BY <2>1 DEF FrameRate
    <2> HIDE DEF time
    <2>4. CASE rate' = [rate EXCEPT !.time = time + delta, !.updates = rate.updates + 1]
      <3> DEFINE n == time + delta
                 k == rate.updates + 1
      <3>1. rate' = [rate EXCEPT !.time = n, !.updates = k] /\ n \in Nat /\ k \in Nat
        BY <2>2, <2>4
      <3> HIDE DEF n, k
      <3> QED BY <2>1, <3>1
    <2>5. CASE rate' = [time |-> 0, updates |-> 0, shown |-> rate.updates]
      BY <2>2, <2>5
    <2> QED BY <2>3, <2>4, <2>5
  <1>8. /\ sinceSend' \in Nat /\ sinceSend' < SendRate /\ sender'.elapsed = sinceSend'
        /\ ~early'
    <2>1. CASE t.ready
      <3>1. sinceSend' = 0 /\ sender'.elapsed = 0 /\ sinceSend + delta >= SendRate
        BY <1>2, <1>4, <2>1
      <3>2. ~(sinceSend + delta < SendRate) /\ 0 < SendRate
        BY <1>1, <3>1
      <3>3. ~early'
        BY <1>1, <1>2, <3>2, Zenon
      <3> QED BY <3>1, <3>2, <3>3
    <2>2. CASE ~t.ready
      <3>1. /\ sinceSend' = sinceSend + delta /\ sender'.elapsed = sinceSend + delta
            /\ ~(sinceSend + delta >= SendRate)
        BY <1>2, <1>4, <2>2
      <3>2. sinceSend' \in Nat /\ sinceSend' < SendRate
        BY <1>1, <3>1
      <3>3. ~early'
        BY <1>1, <1>2, <2>2, Zenon
      <3> QED BY <3>1, <3>2, <3>3
    <2> QED BY <2>1, <2>2
  <1> QED BY <1>4, <1>5, <1>6, <1>7, <1>8
          DEF SenderInv, TimersTypeOK, NeverEarly, NeverOverdue

LEMMA SenderHears == SenderInv /\ Traffic => SenderInv'
  <1> SUFFICES ASSUME SenderInv, Traffic PROVE SenderInv'
    OBVIOUS
  <1>1. PICK e \in Traffics : heard' = Append(heard, e) /\ stats' = Counted(stats, e)
    BY DEF Traffic
  <1>2. stats' \in Counts /\ heard' \in Seq(Traffics)
    BY <1>1, CountedType DEF SenderInv, TimersTypeOK
  <1> QED BY <1>2 DEF Traffic, SenderInv, TimersTypeOK, NeverEarly, NeverOverdue

LEMMA SenderStands == SenderInv /\ UNCHANGED timerVars => SenderInv'
  BY DEF SenderInv, TimersTypeOK, NeverEarly, NeverOverdue, timerVars

LEMMA SenderNext == SenderInv /\ LoopsInv /\ [SimulationNext]_simulationVars => SenderInv'
  <1> SUFFICES ASSUME SenderInv, LoopsInv, [SimulationNext]_simulationVars PROVE SenderInv'
    OBVIOUS
  <1>1. CASE UpdateAll
    <2>1. Delta \in Nat
      BY <1>1, LoopFacts DEF UpdateAll, Update, Due, Delta, LoopsInv, LoopsTypeOK
    <2> QED BY <1>1, <2>1, SenderUpdates DEF UpdateAll, Update
  <1>2. CASE Network
    BY <1>2, SenderHears DEF Network
  <1>3. CASE Begin \/ End \/ FindFrame \/ Input
    BY <1>3, SenderStands DEF Begin, End, FindFrame, Input, BeginFrame, EndFrame
  <1>4. CASE UNCHANGED simulationVars
    BY <1>4, SenderStands DEF simulationVars
  <1> QED BY <1>1, <1>2, <1>3, <1>4 DEF SimulationNext

-----------------------------------------------------------------------------
(* What a fold over a list is, element by element.                         *)

(* Folded is the last of a run.                                            *)
LEMMA FoldedIsLast ==
  ASSUME NEW f, NEW n \in Nat, NEW op, NEW start, NEW s, Len(s) = n,
         IsRun(f, n, op, start, s)
  PROVE  Folded(op, start, s) = f[n]
  <1> DEFINE Def(g) == [i \in 0 .. Len(s) |->
                          IF i = 0 THEN start ELSE op[<<g[i - 1], s[i]>>]]
             after == CHOOSE g : g = Def(g)
  <1>1. f = Def(f)
    <2>1. \A i \in 0 .. n : f[i] = IF i = 0 THEN start ELSE op[<<f[i - 1], s[i]>>]
      BY DEF IsRun
    <2> QED BY <2>1 DEF IsRun
  <1>2. after = Def(after)
    <2> HIDE DEF Def
    <2> QED BY <1>1
  <1>3. Folded(op, start, s) = after[n]
    BY DEF Folded
  <1> HIDE DEF after
  <1>4. \A i \in 0 .. n : after[i] = IF i = 0 THEN start ELSE op[<<after[i - 1], s[i]>>]
    BY <1>2
  <1>5. IsRun(after, n, op, start, s)
    <2>1. after = [i \in 0 .. n |-> after[i]]
      BY <1>2
    <2> HIDE DEF Def
    <2>2. after[0] = start
      <3>1. 0 \in 0 .. n
        OBVIOUS
      <3> QED BY <1>4, <3>1, Zenon
    <2>3. ASSUME NEW i \in 1 .. n PROVE after[i] = op[<<after[i - 1], s[i]>>]
      BY <1>4
    <2> QED BY <2>1, <2>2, <2>3 DEF IsRun
  <1>6. \A i \in 0 .. n : after[i] = f[i]
    BY <1>5, RunsAgree
  <1> QED BY <1>3, <1>6

(* op takes an account of V and an element of T to an account.             *)
Accounts(op, V, T) == op \in [V \X T -> V]

(* A fold over nothing, and over one element more.                         *)
LEMMA FoldedFacts ==
  ASSUME NEW T, NEW V, NEW op, Accounts(op, V, T), NEW start \in V, NEW s \in Seq(T)
  PROVE  /\ Folded(op, start, s) \in V
         /\ Len(s) = 0 => Folded(op, start, s) = start
         /\ \A x \in T : Folded(op, start, Append(s, x)) = op[<<Folded(op, start, s), x>>]
  <1>1. PICK n \in Nat : n = Len(s)
    OBVIOUS
  <1>2. op \in [V \X T -> V]
    BY DEF Accounts
  <1>3. PICK f : f \in [0 .. n -> V] /\ IsRun(f, n, op, start, s)
    BY <1>1, <1>2, RunExists
  <1>4. Folded(op, start, s) = f[n]
    BY <1>1, <1>3, FoldedIsLast
  <1>5. ASSUME NEW x \in T
        PROVE  Folded(op, start, Append(s, x)) = op[<<Folded(op, start, s), x>>]
    <2>1. PICK r : r = Append(s, x)
      OBVIOUS
    <2>2. /\ r \in Seq(T) /\ Len(r) = n + 1 /\ r[n + 1] = x
          /\ \A i \in 1 .. n : r[i] = s[i]
      BY <1>1, <2>1, AppendProperties
    <2>3. PICK g : g \in [0 .. n + 1 -> V] /\ IsRun(g, n + 1, op, start, r)
      <3>1. \E g : g \in [0 .. Len(r) -> V] /\ IsRun(g, Len(r), op, start, r)
        BY <1>2, <2>2, RunExists
      <3> QED BY <2>2, <3>1
    <2>4. Folded(op, start, r) = g[n + 1]
      BY <2>2, <2>3, FoldedIsLast
    <2>5. PICK h : h = [i \in 0 .. n |-> g[i]]
      OBVIOUS
    <2>6. IsRun(h, n, op, start, r)
      <3>1. h[0] = start
        BY <2>3, <2>5 DEF IsRun
      <3>2. ASSUME NEW i \in 1 .. n PROVE h[i] = op[<<h[i - 1], r[i]>>]
        <4>1. i \in 1 .. n + 1 /\ i \in 0 .. n /\ i - 1 \in 0 .. n
          OBVIOUS
        <4> QED BY <2>3, <2>5, <4>1 DEF IsRun
      <3>3. h = [i \in 0 .. n |-> h[i]]
        BY <2>5
      <3> QED BY <3>1, <3>2, <3>3 DEF IsRun
    <2>7. \A i \in 0 .. n : f[i] = h[i]
      BY <1>3, <2>2, <2>6, RunsAgree
    <2>8. g[n] = f[n]
      BY <2>5, <2>7
    <2>9. g[n + 1] = op[<<g[n], x>>]
      <3>1. n + 1 \in 1 .. n + 1 /\ (n + 1) - 1 = n
        OBVIOUS
      <3> QED BY <2>2, <2>3, <3>1 DEF IsRun
    <2> QED BY <1>4, <2>1, <2>4, <2>8, <2>9
  <1>6. f[n] \in V /\ f[0] = start
    BY <1>3 DEF IsRun
  <1>7. n = 0 => Folded(op, start, s) = start
    BY <1>4, <1>6
  <1> QED BY <1>1, <1>4, <1>5, <1>6, <1>7

-----------------------------------------------------------------------------
(* The statistics.                                                         *)

(* What an event adds to a count does not depend on the counts.            *)
LEMMA CountedAdds ==
  ASSUME NEW k \in Counters, NEW e \in Traffics
  PROVE  \E n \in Nat : \A c \in Counts : Counted(c, e)[k] = c[k] + n
  <1>1. e.amount \in Nat
    BY TimersAssumption
  <1>2. k \in {"bytes", "packets", "messages", "failed", "lost", "acks"}
    BY DEF Counters
  <1>3. ASSUME NEW c \in Counts
        PROVE  /\ c[k] \in Nat
               /\ \A j \in Counters, m \in Nat :
                     /\ [c EXCEPT ![j] = m][j] = m
                     /\ j # k => [c EXCEPT ![j] = m][k] = c[k]
    BY DEF Counts
  <1>4. {"bytes", "packets", "messages", "failed", "lost", "acks"} \subseteq Counters
    BY DEF Counters
  <1>5. \A c \in Counts, j \in Counters : c[j] \in Nat /\ c[j] + 1 \in Nat /\ c[j] + e.amount \in Nat
    BY <1>1 DEF Counts
  <1>6. CASE e.kind = "traffic"
    <2>1. \A c \in Counts : Counted(c, e)[k] = c[k] + (IF k = "bytes" THEN e.amount ELSE 0)
      BY <1>1, <1>2, <1>4, <1>5, <1>6 DEF Counted, Counts
    <2> QED BY <1>1, <2>1
  <1>7. CASE e.kind = "packet"
    <2>1. \A c \in Counts : Counted(c, e)[k] =
             c[k] + (IF k = "packets" THEN 1 ELSE IF k = "messages" THEN e.amount ELSE 0)
      <3> SUFFICES ASSUME NEW c \in Counts
                   PROVE  Counted(c, e)[k] =
                            c[k] + (IF k = "packets" THEN 1 ELSE IF k = "messages" THEN e.amount ELSE 0)
        OBVIOUS
      <3> DEFINE d == [c EXCEPT !.packets = @ + 1]
      <3>1. /\ d["packets"] = c["packets"] + 1
            /\ \A j \in Counters : j # "packets" => d[j] = c[j]
            /\ d \in [Counters \cup {"rtt"} -> Nat]
        BY <1>4, <1>5 DEF Counts
      <3>2. Counted(c, e) = [d EXCEPT !.messages = @ + e.amount]
        BY <1>7 DEF Counted
      <3> HIDE DEF d
      <3>3. /\ Counted(c, e)["messages"] = d["messages"] + e.amount
            /\ \A j \in Counters : j # "messages" => Counted(c, e)[j] = d[j]
        BY <1>4, <3>1, <3>2
      <3>4. CASE k = "packets"
        BY <1>4, <3>1, <3>3, <3>4
      <3>5. CASE k = "messages"
        BY <1>4, <3>1, <3>3, <3>5
      <3>6. CASE k \notin {"packets", "messages"}
        BY <1>5, <3>1, <3>3, <3>6
      <3> QED BY <3>4, <3>5, <3>6
    <2> QED BY <1>1, <2>1
  <1>8. CASE e.kind = "checksum"
    <2>1. \A c \in Counts : Counted(c, e)[k] = c[k] + (IF k = "failed" THEN 1 ELSE 0)
      BY <1>2, <1>4, <1>5, <1>8 DEF Counted, Counts
    <2> QED BY <2>1
  <1>9. CASE e.kind = "loss"
    <2>1. \A c \in Counts : Counted(c, e)[k] = c[k] + (IF k = "lost" THEN 1 ELSE 0)
      BY <1>2, <1>4, <1>5, <1>9 DEF Counted, Counts
    <2> QED BY <2>1
  <1>10. CASE e.kind = "ack"
    <2>1. \A c \in Counts : Counted(c, e)[k] = c[k] + (IF k = "acks" THEN 1 ELSE 0)
      BY <1>2, <1>4, <1>5, <1>10 DEF Counted, Counts
    <2> QED BY <2>1
  <1>11. CASE e.kind = "rtt"
    <2>1. \A c \in Counts : Counted(c, e)[k] = c[k] + 0
      BY <1>2, <1>4, <1>5, <1>11 DEF Counted, Counts
    <2> QED BY <2>1
  <1>12. CASE e.kind \notin {"traffic", "packet", "checksum", "loss", "ack", "rtt"}
    <2>1. \A c \in Counts : Counted(c, e) = c
      BY <1>12 DEF Counted
    <2>2. \A c \in Counts : Counted(c, e)[k] = c[k] + 0
      BY <1>3, <2>1
    <2> QED BY <2>2
  <1> QED BY <1>6, <1>7, <1>8, <1>9, <1>10, <1>11, <1>12

(* What is written and what is heard, a line and an event at a time.       *)
LEMMA SavedFacts ==
  ASSUME NEW k \in Counters, NEW list \in Seq(Counts)
  PROVE  /\ Folded(Adding(k), 0, list) \in Nat
         /\ list = <<>> => Folded(Adding(k), 0, list) = 0
         /\ \A c \in Counts :
              Folded(Adding(k), 0, Append(list, c)) = Folded(Adding(k), 0, list) + c[k]
  <1>1. \A c \in Counts : c[k] \in Nat
    BY DEF Counts
  <1>2. Accounts(Adding(k), Nat, Counts) /\ 0 \in Nat
    BY <1>1 DEF Adding, Accounts
  <1>3. \A n \in Nat, c \in Counts : Adding(k)[<<n, c>>] = n + c[k]
    BY DEF Adding
  <1>4. /\ Folded(Adding(k), 0, list) \in Nat
        /\ Len(list) = 0 => Folded(Adding(k), 0, list) = 0
        /\ \A c \in Counts :
             Folded(Adding(k), 0, Append(list, c)) = Adding(k)[<<Folded(Adding(k), 0, list), c>>]
    <2> DEFINE op == Adding(k)
    <2> HIDE DEF op
    <2> DEFINE none == 0
    <2>1. Accounts(op, Nat, Counts) /\ none \in Nat
      BY <1>2 DEF op
    <2> HIDE DEF none
    <2>2. /\ Folded(op, none, list) \in Nat
          /\ Len(list) = 0 => Folded(op, none, list) = none
          /\ \A c \in Counts :
               Folded(op, none, Append(list, c)) = op[<<Folded(op, none, list), c>>]
      BY <2>1, FoldedFacts
    <2> QED BY <2>2 DEF op, none
  <1>5. list = <<>> => Len(list) = 0
    OBVIOUS
  <1>6. ASSUME NEW c \in Counts
        PROVE  Folded(Adding(k), 0, Append(list, c)) = Folded(Adding(k), 0, list) + c[k]
    BY <1>3, <1>4
  <1> QED BY <1>4, <1>5, <1>6

LEMMA HeardFacts ==
  ASSUME NEW list \in Seq(Traffics)
  PROVE  /\ Folded(Counting, NoCounts, list) \in Counts
         /\ list = <<>> => Folded(Counting, NoCounts, list) = NoCounts
         /\ \A e \in Traffics :
              Folded(Counting, NoCounts, Append(list, e))
                = Counted(Folded(Counting, NoCounts, list), e)
  <1>1. Accounts(Counting, Counts, Traffics)
    BY CountedType DEF Counting, Accounts
  <1>2. \A c \in Counts, e \in Traffics : Counting[<<c, e>>] = Counted(c, e)
    BY DEF Counting
  <1>3. /\ Folded(Counting, NoCounts, list) \in Counts
        /\ Len(list) = 0 => Folded(Counting, NoCounts, list) = NoCounts
        /\ \A e \in Traffics :
             Folded(Counting, NoCounts, Append(list, e))
               = Counting[<<Folded(Counting, NoCounts, list), e>>]
    BY <1>1, NoCountsType, FoldedFacts
  <1>4. list = <<>> => Len(list) = 0
    OBVIOUS
  <1>5. ASSUME NEW e \in Traffics
        PROVE  Folded(Counting, NoCounts, Append(list, e))
                 = Counted(Folded(Counting, NoCounts, list), e)
    BY <1>2, <1>3
  <1> QED BY <1>3, <1>4, <1>5

LEMMA CountedInitially == TimersInit => NothingUncounted
  <1> SUFFICES ASSUME TimersInit, NEW k \in Counters PROVE Heard[k] = Saved(k) + stats[k]
    BY DEF NothingUncounted
  <1>1. saved \in Seq(Counts) /\ heard \in Seq(Traffics) /\ saved = <<>> /\ heard = <<>>
    BY DEF TimersInit
  <1>2. Heard = NoCounts /\ Saved(k) = 0
    BY <1>1, HeardFacts, SavedFacts DEF Heard, Saved
  <1>3. NoCounts[k] = 0
    BY DEF NoCounts
  <1> QED BY <1>2, <1>3 DEF TimersInit

LEMMA CountedHears ==
  ASSUME TimersTypeOK, NothingUncounted, Traffic
  PROVE  NothingUncounted'
  <1> SUFFICES ASSUME NEW k \in Counters PROVE Heard'[k] = Saved(k)' + stats'[k]
    BY DEF NothingUncounted
  <1>1. /\ stats \in Counts /\ saved \in Seq(Counts) /\ heard \in Seq(Traffics)
        /\ Heard[k] = Saved(k) + stats[k]
    BY DEF TimersTypeOK, NothingUncounted
  <1>2. PICK e \in Traffics : heard' = Append(heard, e) /\ stats' = Counted(stats, e)
    BY DEF Traffic
  <1>3. saved' = saved
    BY DEF Traffic
  <1>4. Saved(k)' = Saved(k) /\ Saved(k) \in Nat
    BY <1>1, <1>3, SavedFacts DEF Saved
  <1>5. Heard \in Counts /\ Heard' = Counted(Heard, e)
    BY <1>1, <1>2, HeardFacts DEF Heard
  <1>6. PICK n \in Nat : \A c \in Counts : Counted(c, e)[k] = c[k] + n
    BY CountedAdds
  <1>7. Heard'[k] = Heard[k] + n /\ stats'[k] = stats[k] + n
    BY <1>1, <1>2, <1>5, <1>6
  <1>8. stats[k] \in Nat /\ Heard[k] \in Nat
    BY <1>1, <1>5 DEF Counts
  <1> QED BY <1>1, <1>4, <1>7, <1>8

LEMMA CountedUpdates ==
  ASSUME TimersTypeOK, NothingUncounted, NEW delta \in Nat, TimersUpdate(delta)
  PROVE  NothingUncounted'
  <1> SUFFICES ASSUME NEW k \in Counters PROVE Heard'[k] = Saved(k)' + stats'[k]
    BY DEF NothingUncounted
  <1> DEFINE r == PeriodicUpdate(saver, SaveEvery, delta)
  <1>1. /\ stats \in Counts /\ saved \in Seq(Counts) /\ heard \in Seq(Traffics)
        /\ Heard[k] = Saved(k) + stats[k]
    BY DEF TimersTypeOK, NothingUncounted
  <1>2. /\ saved' = IF r.ready THEN Append(saved, stats) ELSE saved
        /\ stats' = AfterSave(r, stats)
        /\ heard' = heard
    BY DEF TimersUpdate, SaveAndReset
  <1> HIDE DEF r
  <1>3. Heard' = Heard
    BY <1>2 DEF Heard
  <1>4. CASE r.ready
    <2>1. saved' = Append(saved, stats) /\ stats' = NoCounts
      BY <1>2, <1>4 DEF AfterSave
    <2>2. Saved(k)' = Saved(k) + stats[k] /\ Saved(k) \in Nat
      BY <1>1, <2>1, SavedFacts DEF Saved
    <2>3. stats'[k] = 0 /\ stats[k] \in Nat
      BY <1>1, <2>1 DEF NoCounts, Counts
    <2> QED BY <1>1, <1>3, <2>2, <2>3
  <1>5. CASE ~r.ready
    <2>1. saved' = saved /\ stats' = stats
      BY <1>2, <1>5 DEF AfterSave
    <2> QED BY <1>1, <1>3, <2>1 DEF Saved
  <1> QED BY <1>4, <1>5

LEMMA CountedStands == NothingUncounted /\ UNCHANGED timerVars => NothingUncounted'
  BY DEF NothingUncounted, Heard, Saved, timerVars

LEMMA CountedNext == NothingUncounted /\ SenderInv /\ LoopsInv /\ [SimulationNext]_simulationVars => NothingUncounted'
  <1> SUFFICES ASSUME NothingUncounted, SenderInv, LoopsInv, [SimulationNext]_simulationVars
               PROVE  NothingUncounted'
    OBVIOUS
  <1>1. TimersTypeOK
    BY DEF SenderInv
  <1>2. CASE UpdateAll
    <2>1. Delta \in Nat
      BY <1>2, LoopFacts DEF UpdateAll, Update, Due, Delta, LoopsInv, LoopsTypeOK
    <2> QED BY <1>1, <1>2, <2>1, CountedUpdates DEF UpdateAll, Update
  <1>3. CASE Network
    BY <1>1, <1>3, CountedHears DEF Network
  <1>4. CASE Begin \/ End \/ FindFrame \/ Input
    BY <1>4, CountedStands DEF Begin, End, FindFrame, Input, BeginFrame, EndFrame
  <1>5. CASE UNCHANGED simulationVars
    BY <1>5, CountedStands DEF simulationVars
  <1> QED BY <1>2, <1>3, <1>4, <1>5 DEF SimulationNext

(* The game's state is sent in the update in which its rate is reached, and*)
(* in none before, and every network event is in one line of the           *)
(* statistics or will be in the next, for every rate, interval, sequence   *)
(* of deltas and of events (GameStatePusher.cpp:27-37,                     *)
(* PeriodicTimer.cpp:12-22, NetworkingActivityMonitor.cpp:40-123).         *)
THEOREM TimersKeepTheirRate == SimulationSpec => []TimersOK
  <1>1. SimulationInit => LoopsInv /\ SenderInv /\ NothingUncounted
    BY LoopsInitially, SenderInitially, CountedInitially DEF SimulationInit
  <1>2. SenderInv /\ NothingUncounted => TimersOK
    BY DEF SenderInv, TimersOK
  <1> QED BY <1>1, <1>2, LoopsNext, SenderNext, CountedNext, PTL DEF SimulationSpec

-----------------------------------------------------------------------------
(* The character.                                                          *)

LEMMA FrameFacts ==
  ASSUME NEW f \in 0 .. Len(KeyFrames) - 1
  PROVE  NextFrame(f) \in 0 .. Len(KeyFrames) - 1
  <1>1. Len(KeyFrames) \in Nat /\ Len(KeyFrames) > 0
    BY CharacterAssumption, EmptySeq
  <1> QED BY <1>1 DEF NextFrame

(* Half of a length, its half, and the length itself differ by rounding.   *)
LEMMA Halves ==
  ASSUME NEW n \in Nat, NEW x \in Int
  PROVE  /\ n \div 2 - (n \div 2) \div 2 \in Int /\ n \div 2 \in Int
         /\ 2 * (x + (n \div 2 - (n \div 2) \div 2)) + n \div 2 - (2 * x + n) \in -1 .. 1
  <1>1. PICK h \in Nat : h = n \div 2 /\ (n = 2 * h \/ n = 2 * h + 1)
    OBVIOUS
  <1>2. PICK q \in Nat : q = h \div 2 /\ (h = 2 * q \/ h = 2 * q + 1)
    OBVIOUS
  <1> QED BY <1>1, <1>2

LEMMA ByType ==
  ASSUME NEW m \in Movements
  PROVE  By(m) \in Int \X Int /\ DirectionOf(m) \in Directions \cup {"none"}
  <1>1. CASE m.kind = "atSpeed"
    <2>1. m.speed \in Int /\ m.direction \in Directions \cup {"none"}
      BY <1>1, CharacterAssumption
    <2> QED BY <1>1, <2>1 DEF By, AtSpeedBy, DirectionOf, AtSpeedDirection, Opposite,
                              Directions, Origin
  <1>2. CASE m.kind = "stateful"
    <2>1. m.speed \in Nat
      BY <1>2, CharacterAssumption
    <2> QED BY <1>2, <2>1 DEF By, StatefulBy, DirectionOf, StatefulDirection, Directions
  <1> QED BY <1>1, <1>2, CharacterAssumption

(* Every movement goes where it looks.                                     *)
LEMMA GoesWhereItLooks ==
  ASSUME NEW m \in Movements, By(m) # Origin, ~Opposed(m), ~Unset(m)
  PROVE  Along(By(m), DirectionOf(m)) > 0
  <1>1. CASE m.kind = "atSpeed"
    <2>1. m.speed \in Int /\ m.direction \in Directions \cup {"none"}
      BY <1>1, CharacterAssumption
    <2>2. By(m) = AtSpeedBy(m) /\ DirectionOf(m) = AtSpeedDirection(m)
      BY <1>1 DEF By, DirectionOf
    <2>3. CASE m.direction = "up"
      BY <2>1, <2>2, <2>3 DEF AtSpeedBy, AtSpeedDirection, Opposite, Along, Origin
    <2>4. CASE m.direction = "down"
      BY <2>1, <2>2, <2>4 DEF AtSpeedBy, AtSpeedDirection, Opposite, Along, Origin
    <2>5. CASE m.direction = "left"
      BY <2>1, <2>2, <2>5 DEF AtSpeedBy, AtSpeedDirection, Opposite, Along, Origin
    <2>6. CASE m.direction = "right"
      BY <2>1, <2>2, <2>6 DEF AtSpeedBy, AtSpeedDirection, Opposite, Along, Origin
    <2>7. CASE m.direction = "none"
      BY <2>2, <2>7 DEF AtSpeedBy, Origin
    <2> QED BY <2>1, <2>3, <2>4, <2>5, <2>6, <2>7 DEF Directions
  <1>2. CASE m.kind = "stateful"
    <2> DEFINE down(d) == m.keys[d] = "Pressed"
    <2>1. m.speed \in Nat /\ DOMAIN m.keys = Directions
      BY <1>2, CharacterAssumption DEF Unset
    <2>2. ~(down("up") /\ down("down")) /\ ~(down("left") /\ down("right"))
      BY <1>2, <2>1 DEF Opposed, Opposite, Directions
    <2>3. DirectionOf(m) = CASE down("up") -> "up" [] down("down") -> "down"
                             [] down("left") -> "left" [] down("right") -> "right"
                             [] OTHER -> "none"
      BY <1>2, <2>1 DEF DirectionOf, StatefulDirection, PressedOrNew, Directions
    <2>4. By(m) = StatefulBy(m)
      BY <1>2 DEF By
    <2>5. /\ By(m)[1] = IF down("right") /\ m.speed # 0 THEN m.speed
                        ELSE IF down("left") THEN -m.speed ELSE 0
          /\ By(m)[2] = IF down("up") /\ m.speed # 0 THEN -m.speed
                        ELSE IF down("down") THEN m.speed ELSE 0
          /\ By(m) = <<By(m)[1], By(m)[2]>>
      BY <2>1, <2>4 DEF StatefulBy, Directions
    <2>6. m.speed # 0
      BY <2>1, <2>5 DEF Origin
    <2> QED BY <2>1, <2>2, <2>3, <2>5, <2>6 DEF Along, Origin
  <1> QED BY <1>1, <1>2, CharacterAssumption

LEMMA CharacterInitially == CharacterInit => CharacterInv
  <1> SUFFICES ASSUME CharacterInit PROVE CharacterInv
    OBVIOUS
  <1>1. Len(KeyFrames) \in Nat /\ Len(KeyFrames) > 0
    BY CharacterAssumption, EmptySeq
  <1>2. Origin \in Int \X Int
    BY DEF Origin
  <1>3. /\ npc \in [position : Int \X Int, facing : Directions \cup {"none"}]
        /\ shown \in [sprite : Int \X Int, hotspot : Int \X Int, bounds : Int \X Int]
        /\ step.by = Origin
    BY <1>2 DEF CharacterInit, Directions
  <1>4. sprite \in [frame : 0 .. Len(KeyFrames) - 1, group : Directions \cup {"", "none"},
                   since : Int]
    <2>1. -FrameDuration \in Int /\ 0 \in 0 .. Len(KeyFrames) - 1
      BY <1>1, CharacterAssumption
    <2> QED BY <2>1 DEF CharacterInit
  <1>5. CharacterTypeOK
    <2>1. skipping = FALSE /\ moves = 0 /\ updatedAt = 0
      BY DEF CharacterInit
    <2>2. skipping \in BOOLEAN
      BY <2>1
    <2>3. moves \in 0 .. MaxMoves
      BY <2>1, CharacterAssumption
    <2>4. updatedAt \in Nat
      BY <2>1
    <2> QED BY <1>2, <1>3, <1>4, <2>2, <2>3, <2>4 DEF CharacterTypeOK
  <1>6. LooksWhereItGoes
    BY <1>3 DEF LooksWhereItGoes
  <1>7. ~skipping /\ chosenFor = "" /\ ~(updatedAt > 0)
    <2>1. skipping = FALSE /\ chosenFor = ""
      BY DEF CharacterInit
    <2>2. updatedAt = 0
      BY DEF CharacterInit
    <2>3. ~skipping /\ chosenFor = ""
      BY <2>1
    <2>4. ~(updatedAt > 0)
      BY <2>2
    <2> QED BY <2>3, <2>4
  <1> QED BY <1>5, <1>6, <1>7 DEF CharacterInv

LEMMA CharacterMoves ==
  ASSUME CharacterInv, Movement, moves < MaxMoves
  PROVE  CharacterInv'
  <1>1. /\ npc \in [position : Int \X Int, facing : Directions \cup {"none"}]
        /\ moves \in 0 .. MaxMoves
    BY DEF CharacterInv, CharacterTypeOK
  <1>2. moves' \in 0 .. MaxMoves
    BY <1>1, CharacterAssumption DEF Movement
  <1>3. /\ shown' = shown /\ sprite' = sprite /\ skipping' = skipping
        /\ chosenFor' = chosenFor /\ updatedAt' = updatedAt
    BY DEF Movement
  <1>4. /\ npc' \in [position : Int \X Int, facing : Directions \cup {"none"}]
        /\ step'.by \in Int \X Int /\ LooksWhereItGoes'
    <2>1. CASE InvertCurrentDirection
      <3>1. Opposite(npc.facing) \in Directions \cup {"none"}
        BY <1>1 DEF Opposite, Directions
      <3>2. npc' = [npc EXCEPT !.facing = Opposite(npc.facing)] /\ step'.by = Origin
        BY <2>1 DEF InvertCurrentDirection
      <3> QED BY <1>1, <3>1, <3>2 DEF Origin, LooksWhereItGoes
    <2>2. CASE \E m \in Movements : MoveNpc(m)
      <3>1. PICK m \in Movements : MoveNpc(m)
        BY <2>2
      <3>2. /\ npc' = [position |-> <<npc.position[1] + By(m)[1], npc.position[2] + By(m)[2]>>,
                       facing |-> DirectionOf(m)]
            /\ step'.by = By(m) /\ step'.of = m
        BY <3>1 DEF MoveNpc
      <3>3. By(m) \in Int \X Int /\ DirectionOf(m) \in Directions \cup {"none"}
        BY ByType
      <3>4. npc' \in [position : Int \X Int, facing : Directions \cup {"none"}]
        BY <1>1, <3>2, <3>3
      <3>5. LooksWhereItGoes'
        BY <3>2, GoesWhereItLooks DEF LooksWhereItGoes
      <3> QED BY <3>2, <3>3, <3>4, <3>5
    <2> QED BY <2>1, <2>2 DEF Movement
  <1> QED BY <1>2, <1>3, <1>4 DEF CharacterInv, CharacterTypeOK

LEMMA CharacterUpdates ==
  ASSUME CharacterInv, NEW now \in Nat, ~skipping, NpcUpdate(now)
  PROVE  CharacterInv'
  <1> DEFINE next == NextFrame(sprite.frame)
  <1>1. /\ npc \in [position : Int \X Int, facing : Directions \cup {"none"}]
        /\ sprite \in [frame : 0 .. Len(KeyFrames) - 1, group : Directions \cup {"", "none"},
                       since : Int]
        /\ sprite.frame \in 0 .. Len(KeyFrames) - 1 /\ sprite.since \in Int
        /\ next \in 0 .. Len(KeyFrames) - 1
        /\ FrameDuration \in Nat \ {0} /\ Width \in Nat
    BY FrameFacts, CharacterAssumption DEF CharacterInv, CharacterTypeOK
  <1>2. /\ npc' = npc /\ moves' = moves /\ step' = step /\ updatedAt' = now
        /\ shown' = [sprite |-> npc.position, hotspot |-> HotspotPosition(npc.position),
                     bounds |-> npc.position]
    BY DEF NpcUpdate
  <1>3. HotspotPosition(npc.position) \in Int \X Int
    <2> DEFINE offset == Width \div 2 - (Width \div 2) \div 2
    <2>1. offset \in Int
      BY <1>1, Halves
    <2>2. HotspotPosition(npc.position) = <<npc.position[1] + offset, npc.position[2] + offset>>
      BY DEF HotspotPosition, HotspotWidth
    <2>3. npc.position[1] \in Int /\ npc.position[2] \in Int
      BY <1>1
    <2> HIDE DEF offset
    <2> QED BY <2>1, <2>2, <2>3
  <1>4. /\ shown' \in [sprite : Int \X Int, hotspot : Int \X Int, bounds : Int \X Int]
        /\ shown'.hotspot = HotspotPosition(shown'.sprite)
    BY <1>1, <1>2, <1>3
  <1>5. LooksWhereItGoes'
    BY <1>2 DEF CharacterInv, LooksWhereItGoes
  <1>6. CASE now - sprite.since < FrameDuration
    <2>1. /\ sprite' = [sprite EXCEPT !.group = npc.facing]
          /\ skipping' = skipping /\ chosenFor' = chosenFor
      BY <1>6 DEF NpcUpdate
    <2>2. /\ sprite' \in [frame : 0 .. Len(KeyFrames) - 1, group : Directions \cup {"", "none"},
                          since : Int]
          /\ sprite'.frame = sprite.frame /\ sprite'.since = sprite.since
      BY <1>1, <2>1
    <2>3. CharacterTypeOK'
      BY <1>2, <1>4, <2>1, <2>2 DEF CharacterInv, CharacterTypeOK
    <2> QED BY <1>2, <1>4, <1>5, <1>6, <2>1, <2>2, <2>3 DEF CharacterInv, GroupOf
  <1>7. CASE ~(now - sprite.since < FrameDuration)
    <2>1. /\ sprite' = [frame |-> next, group |-> npc.facing, since |-> now]
          /\ chosenFor' = npc.facing /\ skipping' = (GroupOf(next) # npc.facing)
      BY <1>7 DEF NpcUpdate
    <2> HIDE DEF next
    <2>2. /\ sprite' \in [frame : 0 .. Len(KeyFrames) - 1, group : Directions \cup {"", "none"},
                          since : Int]
          /\ sprite'.frame = next /\ sprite'.since = now /\ sprite'.group = npc.facing
      <3>1. npc.facing \in Directions \cup {"none"}
        BY <1>1
      <3>2. npc.facing \in Directions \cup {"", "none"}
        BY <3>1
      <3>3. now \in Int
        OBVIOUS
      <3> QED BY <1>1, <2>1, <3>2, <3>3
    <2>3. CharacterTypeOK'
      <3>1. skipping' \in BOOLEAN
        BY <2>1
      <3> QED BY <1>2, <1>4, <2>2, <3>1 DEF CharacterInv, CharacterTypeOK
    <2>4. updatedAt' - sprite'.since < FrameDuration
      <3>1. now - now < FrameDuration
        BY CharacterAssumption
      <3> QED BY <1>2, <2>2, <3>1
    <2>5. ~skipping' => GroupOf(sprite'.frame) = chosenFor'
      BY <2>1, <2>2
    <2> QED BY <1>4, <1>5, <2>1, <2>2, <2>3, <2>4, <2>5 DEF CharacterInv, GroupOf
  <1> QED BY <1>6, <1>7

LEMMA CharacterSkips ==
  ASSUME CharacterInv, SkipUnsupportedAnimationGroupFrames
  PROVE  CharacterInv'
  <1> DEFINE next == NextFrame(sprite.frame)
  <1>1. /\ sprite \in [frame : 0 .. Len(KeyFrames) - 1, group : Directions \cup {"", "none"},
                       since : Int]
        /\ next \in 0 .. Len(KeyFrames) - 1
    BY FrameFacts DEF CharacterInv, CharacterTypeOK
  <1>2. /\ sprite' = [sprite EXCEPT !.frame = next]
        /\ skipping /\ skipping' = (GroupOf(next) # sprite.group)
        /\ npc' = npc /\ shown' = shown /\ moves' = moves /\ step' = step
        /\ chosenFor' = chosenFor /\ updatedAt' = updatedAt
    BY DEF SkipUnsupportedAnimationGroupFrames, SkipsUntilFound
  <1> HIDE DEF next
  <1>3. /\ sprite' \in [frame : 0 .. Len(KeyFrames) - 1, group : Directions \cup {"", "none"},
                        since : Int]
        /\ sprite'.frame = next /\ sprite'.group = sprite.group
        /\ sprite'.since = sprite.since
    BY <1>1, <1>2
  <1>4. skipping' \in BOOLEAN
    BY <1>2
  <1>5. ~skipping' => GroupOf(sprite'.frame) = chosenFor'
    BY <1>2, <1>3 DEF CharacterInv
  <1>6. CharacterTypeOK' /\ LooksWhereItGoes'
    BY <1>2, <1>3, <1>4 DEF CharacterInv, CharacterTypeOK, LooksWhereItGoes
  <1> QED BY <1>2, <1>3, <1>5, <1>6 DEF CharacterInv, GroupOf

LEMMA CharacterStands == CharacterInv /\ UNCHANGED characterVars => CharacterInv'
  <1> SUFFICES ASSUME CharacterInv, UNCHANGED characterVars PROVE CharacterInv'
    OBVIOUS
  <1>1. /\ npc' = npc /\ shown' = shown /\ sprite' = sprite /\ skipping' = skipping
        /\ moves' = moves /\ step' = step /\ chosenFor' = chosenFor /\ updatedAt' = updatedAt
    BY DEF characterVars
  <1>2. CharacterTypeOK' /\ LooksWhereItGoes'
    BY <1>1 DEF CharacterInv, CharacterTypeOK, LooksWhereItGoes
  <1> QED BY <1>1, <1>2 DEF CharacterInv, GroupOf

LEMMA CharacterNext == CharacterInv /\ LoopsInv /\ [SimulationNext]_simulationVars => CharacterInv'
  <1> SUFFICES ASSUME CharacterInv, LoopsInv, [SimulationNext]_simulationVars PROVE CharacterInv'
    OBVIOUS
  <1>1. CASE UpdateAll
    <2>1. clock \in Nat
      BY DEF LoopsInv, LoopsTypeOK
    <2> QED BY <1>1, <2>1, CharacterUpdates DEF UpdateAll
  <1>2. CASE FindFrame
    BY <1>2, CharacterSkips DEF FindFrame
  <1>3. CASE Input
    BY <1>3, CharacterMoves DEF Input, Movement
  <1>4. CASE Begin \/ End \/ Network
    BY <1>4, CharacterStands DEF Begin, End, Network
  <1>5. CASE UNCHANGED simulationVars
    BY <1>5, CharacterStands DEF simulationVars
  <1> QED BY <1>1, <1>2, <1>3, <1>4, <1>5 DEF SimulationNext

(* A character looks where it goes, is shown a frame of the direction it   *)
(* looked in, and has its hotspot in its middle, for all movements, key    *)
(* frames, sizes and durations (MovementAtSpeed.cpp:14-68,                 *)
(* StatefulMove.cpp:5-54, AnimatedSprite.cpp:39-84, Hotspot.cpp:14-16).    *)
THEOREM CharacterIsShownOneWay == SimulationSpec => []CharacterOK
  <1>1. SimulationInit => LoopsInv /\ CharacterInv
    BY LoopsInitially, CharacterInitially DEF SimulationInit
  <1>2. CharacterInv => CharacterOK
    <2> SUFFICES ASSUME CharacterInv PROVE CharacterOK
      OBVIOUS
    <2>1. CharacterTypeOK /\ LooksWhereItGoes /\ FrameIsOfTheGroup
      BY DEF CharacterInv, FrameIsOfTheGroup
    <2>2. ASSUME updatedAt > 0, NEW i \in 1 .. 2
          PROVE  2 * shown.hotspot[i] + HotspotWidth - (2 * shown.sprite[i] + Width) \in -1 .. 1
      <3> DEFINE spot == shown.sprite
                 offset == Width \div 2 - (Width \div 2) \div 2
      <3>1. spot \in Int \X Int /\ Width \in Nat
        BY <2>1, CharacterAssumption DEF CharacterTypeOK
      <3>2. shown.hotspot = <<spot[1] + offset, spot[2] + offset>>
        BY <2>2 DEF CharacterInv, HotspotPosition, HotspotWidth
      <3>3. spot[1] \in Int /\ spot[2] \in Int /\ (i = 1 \/ i = 2)
        BY <3>1
      <3> HIDE DEF spot
      <3>4. spot[i] \in Int /\ shown.hotspot[i] = spot[i] + offset
        BY <3>2, <3>3
      <3> QED BY <3>1, <3>4, Halves DEF HotspotWidth, spot
    <2>3. HotspotCentred
      BY <2>2 DEF HotspotCentred
    <2> QED BY <2>1, <2>3 DEF CharacterOK
  <1> QED BY <1>1, <1>2, LoopsNext, CharacterNext, PTL DEF SimulationSpec
=============================================================================
