------------------------------ MODULE Resources ------------------------------
(***************************************************************************)
(* gamelib::ResourceManager (resource/ResourceManager.cpp): the index of   *)
(* the assets that a resource file names, and the loading and unloading of *)
(* what a scene needs, with what each kind of asset does when it is loaded *)
(* and unloaded (graphic/, audio/, font/, asset/).                         *)
(*                                                                         *)
(* An element of a resource file is a record of the attributes that        *)
(* decide something; readable says whether the library can load the file   *)
(* it names.  An asset adds loaded (IsLoadedInMemory) and handle, whether  *)
(* its texture, chunk, font or string is there.                            *)
(***************************************************************************)
EXTENDS Integers, Sequences, SequencesExt, FiniteSets

CONSTANTS
    Files,     \* the resource files, as sequences of elements
    MaxScene   \* the largest scene number of an element

Absent == -1          \* an attribute that an element does not have
Null   == 0           \* a null pointer to an asset
Kinds  == {"graphic", "sprite", "fx", "font", "script", "other"}
SceneNumbers == 0 .. MaxScene
Elements == [uid : Int, name : STRING, kind : Kinds, readable : BOOLEAN,
             scene : SceneNumbers \cup {Absent}]

ASSUME ResourcesAssumption == MaxScene \in Nat /\ Files \subseteq Seq(Elements)

VARIABLES
    assets,                  \* the assets, in the order of the file
    resourcesByScene, resourcesByName, resourcesById,
    countResources, countLoadedResources, countUnloadedResources,
    mixer, ttf,              \* whether SDL_mixer and SDL_ttf are there
    level,                   \* the last level whose assets were loaded
    lost                     \* observer: the handles that nobody can free

maps   == <<resourcesByScene, resourcesByName, resourcesById>>
counts == <<countResources, countLoadedResources, countUnloadedResources>>
resourceVars == <<assets, maps, counts, mixer, ttf, level, lost>>

NoLevel == -1

ResourcesInit ==
    /\ assets = <<>>
    /\ resourcesByScene = [s \in SceneNumbers |-> <<>>]
    /\ resourcesByName = <<>> /\ resourcesById = <<>>
    /\ countResources = 0 /\ countLoadedResources = 0 /\ countUnloadedResources = 0
    /\ mixer = FALSE /\ ttf = FALSE /\ level = NoLevel /\ lost = {}

-----------------------------------------------------------------------------
(* The factories: the scenes an element may be given; none if it is        *)
(* refused with an exception.  An audio or a font element without the      *)
(* attribute leaves the integer uninitialised.                             *)

GraphicScenes(e) == {IF e.scene = Absent THEN 0 ELSE e.scene}
AudioScenes(e)   == IF e.scene = Absent THEN SceneNumbers ELSE {e.scene}
FontScenes(e)    == IF e.scene = Absent THEN SceneNumbers ELSE {e.scene}
ScriptScenes(e)  == {e.scene} \ {Absent}

CreateAssetFromElement(e) ==
    CASE e.kind \in {"graphic", "sprite"} -> GraphicScenes(e)
      [] e.kind = "fx"     -> AudioScenes(e)
      [] e.kind = "font"   -> FontScenes(e)
      [] e.kind = "script" -> ScriptScenes(e)
      [] OTHER             -> {}

Asset(e, s) == [uid |-> e.uid, name |-> e.name, kind |-> e.kind, scene |-> s,
                readable |-> e.readable, loaded |-> FALSE, handle |-> FALSE]

(* The elements of a list that are in a set, in their order.               *)
Chosen(list, S) ==
    LET chosen[n \in 0 .. Len(list)] ==
            IF n = 0 THEN <<>>
            ELSE IF list[n] \in S THEN Append(chosen[n - 1], list[n])
            ELSE chosen[n - 1]
    IN chosen[Len(list)]

(* StoreAsset for each asset of the file: the lists by scene are in the    *)
(* order of the file; map::insert leaves an entry that is there alone.     *)
ByScene(items) == [s \in SceneNumbers |->
    Chosen([i \in DOMAIN items |-> i], {i \in DOMAIN items : items[i].scene = s})]
ByName(items) == [n \in {items[i].name : i \in DOMAIN items} |->
    CHOOSE i \in DOMAIN items : items[i].name = n /\ \A j \in 1 .. i - 1 : items[j].name # n]
ById(items) == [u \in {items[i].uid : i \in DOMAIN items} |->
    CHOOSE i \in DOMAIN items : items[i].uid = u /\ \A j \in 1 .. i - 1 : items[j].uid # u]

(* What the elements before the first that is refused can be read as. *)
Refused(f)  == {i \in DOMAIN f : CreateAssetFromElement(f[i]) = {}}
Readings(f) ==
    LET n == CHOOSE k \in 0 .. Len(f) :
                 /\ \A i \in 1 .. k : i \notin Refused(f)
                 /\ k = Len(f) \/ k + 1 \in Refused(f)
        Read(s) == [i \in 1 .. n |-> Asset(f[i], s[i])]
    IN {Read(s) : s \in {t \in [1 .. n -> SceneNumbers] :
                            \A i \in 1 .. n : t[i] \in CreateAssetFromElement(f[i])}}

-----------------------------------------------------------------------------
(* Load and Unload of an asset.  A graphic frees its texture before it     *)
(* loads; the others overwrite their handle.  An audio asset loads the     *)
(* file of the asset that has its name.  A font never sets loaded.         *)

UnloadGraphic(a) == [a EXCEPT !.handle = FALSE, !.loaded = FALSE]
UnloadAudio(a)   == [a EXCEPT !.handle = FALSE, !.loaded = FALSE]
UnloadFont(a)    == [a EXCEPT !.handle = FALSE]
UnloadScript(a)  == [a EXCEPT !.handle = FALSE, !.loaded = FALSE]

UnloadAsset(a) == CASE a.kind \in {"graphic", "sprite"} -> UnloadGraphic(a)
                    [] a.kind = "fx"   -> UnloadAudio(a)
                    [] a.kind = "font" -> UnloadFont(a)
                    [] OTHER           -> UnloadScript(a)

LoadGraphic(a) ==
    [UnloadGraphic(a) EXCEPT !.handle = a.readable, !.loaded = a.readable]
LoadAudio(a) ==
    [a EXCEPT !.handle = mixer /\ assets[resourcesByName[a.name]].readable,
              !.loaded = TRUE]
LoadFont(a)   == [a EXCEPT !.handle = ttf /\ a.readable]
LoadScript(a) == [a EXCEPT !.handle = TRUE, !.loaded = a.readable]

LoadAsset(a) == CASE a.kind \in {"graphic", "sprite"} -> LoadGraphic(a)
                  [] a.kind = "fx"   -> LoadAudio(a)
                  [] a.kind = "font" -> LoadFont(a)
                  [] OTHER           -> LoadScript(a)

(* The assets that can be found by name, the only ones Unload reaches.   *)
Named == {resourcesByName[n] : n \in DOMAIN resourcesByName}
SharesName(i) == i \notin Named
Loss(i) == [kind |-> assets[i].kind, shared |-> SharesName(i)]

(* A script whose file is missing reserves the room for tellg() = -1 bytes. *)
LoadThrows(a) == a.kind = "script" /\ ~a.readable
LosesHandle(a) == a.handle /\ a.kind \notin {"graphic", "sprite"}

Wanted(a, scene) == a.scene \in {scene, 0}

(* Mutant: what leaves the memory is not counted. *)
SwapOutUncounted(st, i) == [st EXCEPT !.assets[i] = UnloadAsset(@)]
SwapOut(st, i) == [st EXCEPT !.assets[i] = UnloadAsset(@), !.count = @ - 1]
SwapIn(st, i) ==
    [st EXCEPT !.assets[i] = LoadAsset(@), !.thrown = LoadThrows(st.assets[i]),
               !.count = IF LoadThrows(st.assets[i]) THEN @ ELSE @ + 1,
               !.lost = IF LosesHandle(st.assets[i]) THEN @ \cup {Loss(i)} ELSE @]

(* The body of the loop of LoadSceneAssets for the asset numbered i. *)
SwapAsset(st, i, scene) ==
    LET a == st.assets[i]
    IN IF st.thrown THEN st
       ELSE IF Wanted(a, scene) /\ ~a.loaded THEN SwapIn(st, i)
       ELSE IF ~Wanted(a, scene) /\ a.loaded THEN SwapOut(st, i)
       ELSE st

(* The loops of LoadSceneAssets go over resourcesByScene, scene by scene.  *)
LoadOrder == FlattenSeq([k \in 1 .. MaxScene + 1 |-> resourcesByScene[k - 1]])
BeforeLoading == [assets |-> assets, count |-> 0, lost |-> lost, thrown |-> FALSE]

LoadSceneAssets(scene) ==
    LET after[n \in 0 .. Len(LoadOrder)] ==
            IF n = 0 THEN BeforeLoading
            ELSE SwapAsset(after[n - 1], LoadOrder[n], scene)
    IN after[Len(LoadOrder)]

(* ResourceManager::HandleEvent of a SceneChangedEvent, with its outcome.  *)
HandleSceneChanged(scene, new) ==
    /\ new = LoadSceneAssets(scene)
    /\ assets' = new.assets /\ lost' = new.lost /\ level' = scene
    /\ countLoadedResources' = countLoadedResources + new.count
    /\ countUnloadedResources' = countUnloadedResources - new.count
    /\ UNCHANGED <<maps, countResources, mixer, ttf>>

(* ResourceManager::Unload: by name, and each pointer is followed. *)
UnloadFollowsNull == Null \in Named

UnloadAll == [i \in DOMAIN assets |->
                 IF i \in Named THEN UnloadAsset(assets[i]) ELSE assets[i]]

(* IndexResourceFile: Reset, then the elements.  An asset that goes away   *)
(* frees its texture, and nothing else.                                    *)
ResetLoses == {Loss(i) : i \in {j \in DOMAIN assets : LosesHandle(UnloadAll[j])}}

IndexResourceFile(reading) ==
    /\ assets' = reading /\ resourcesByScene' = ByScene(reading)
    /\ resourcesByName' = ByName(reading) /\ resourcesById' = ById(reading)
    /\ lost' = lost \cup ResetLoses
    /\ countResources' = Len(reading)
    /\ countLoadedResources' = 0 /\ countUnloadedResources' = 0
    /\ level' = NoLevel

(* GetAssetInfo: operator[] makes an entry for a key that is not there.    *)
GetAssetInfo(map, k) == IF k \in DOMAIN map THEN map[k] ELSE Null
Planted(map, k) == [x \in DOMAIN map \cup {k} |-> GetAssetInfo(map, x)]
=============================================================================
