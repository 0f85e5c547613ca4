-------------------------------- MODULE Scenes --------------------------------
(***************************************************************************)
(* gamelib::SceneManager (scene/SceneManager.cpp): the layers of the scene *)
(* and the game objects in them, which the layers point to weakly.  What   *)
(* is built from a scene file goes through gamelib::GameObjectFactory,     *)
(* which asks the resource manager for the asset of every object.          *)
(*                                                                         *)
(* A scene file is a sequence of layers, each with its visibility and the  *)
(* resource ids of its objects.  The layers of a file join those of the    *)
(* files read before, which nobody ever clears.  The game makes its own    *)
(* objects, owns them and hands them over in events.                       *)
(***************************************************************************)
EXTENDS Resources

CONSTANTS
    Objects,      \* the game objects that the game makes
    Hidden,       \* those of them that are not visible
    IdOf,         \* the Id of each: 0 if it was made with the default constructor
    SceneFiles,   \* the readable files among scene1.xml .. scene4.xml
    SceneFile     \* and what is in them

(* An empty weak pointer, or one to an object that has gone for good.      *)
Expired == "expired"

ASSUME ScenesAssumption ==
    /\ Hidden \subseteq Objects /\ IdOf \in [Objects -> Nat] /\ Expired \notin Objects
    /\ SceneFiles \subseteq 1 .. 4
    /\ SceneFile \in [SceneFiles -> Seq([visible : BOOLEAN, objects : Seq(Int)])]

VARIABLES
    layers,             \* the list of layers, each with weak pointers to its objects
    currentSceneName,   \* the number of the file, 0 for none
    owned,              \* the objects that the game keeps alive
    updated, drawn      \* observers: the objects of the last update and drawing

sceneVars == <<layers, currentSceneName, owned, updated, drawn>>

(* Objects are made by the game, GameObject::SetDefaults numbers them.     *)
ScenesInit ==
    /\ layers = <<>> /\ currentSceneName = 0 /\ owned = Objects
    /\ updated = <<>> /\ drawn = <<>>

-----------------------------------------------------------------------------
(* GameObjectFactory::BuildGameObject: an object needs an asset, and one   *)
(* whose type is "graphic".                                                *)
GraphicAssetFor(uid) ==
    /\ GetAssetInfo(resourcesById, uid) # Null
    /\ assets[resourcesById[uid]].kind \in {"graphic", "sprite"}

(* ReadSceneFile: a layer is built, and its order is the number of layers  *)
(* there are; from, the layer of the file, stands for its name.  Nobody    *)
(* but the weak pointer keeps what the factory built.                      *)
NewLayer(f, i) ==
    [order |-> Len(layers) + i - 1, from |-> <<f, i>>, visible |-> SceneFile[f][i].visible,
     objects |-> [k \in DOMAIN SceneFile[f][i].objects |-> Expired]]

LayerBuilds(l) == \A i \in DOMAIN l.objects : GraphicAssetFor(l.objects[i])

(* SortLayers.  The comparison names its first argument rhs: the layer     *)
(* with the largest order comes first; equals stay as they were.           *)
Before(ls, i, j) == \/ ls[j].order < ls[i].order
                    \/ ls[j].order = ls[i].order /\ i < j
Rank(ls, k) == 1 + Cardinality({j \in DOMAIN ls : Before(ls, j, k)})
SortLayers(ls) == [i \in DOMAIN ls |-> ls[CHOOSE k \in DOMAIN ls : Rank(ls, k) = i]]

ReadLayers(f, n) == layers \o [i \in 1 .. n |-> NewLayer(f, i)]

(* The layers before the first that throws. *)
BuiltLayers(file) ==
    CHOOSE k \in 0 .. Len(file) : /\ \A i \in 1 .. k : LayerBuilds(file[i])
                                  /\ k = Len(file) \/ ~LayerBuilds(file[k + 1])

(* LoadNewScene: the file of the scene; the outcome is "loaded" (and a     *)
(* SceneLoadedEvent), "failed" or "thrown".                                *)
FileOf(scene) == IF scene \in 1 .. 4 THEN scene ELSE 1

LoadOutcome(scene) ==
    CASE FileOf(scene) = currentSceneName   -> "loaded"
      [] /\ FileOf(scene) # currentSceneName
         /\ FileOf(scene) \notin SceneFiles -> "failed"
      [] OTHER -> IF BuiltLayers(SceneFile[FileOf(scene)]) = Len(SceneFile[FileOf(scene)])
                  THEN "loaded" ELSE "thrown"

(* Mutant: the name of the scene is set although the file is not there. *)
LoadNewSceneRegardless(scene) ==
    LET f == FileOf(scene)
        file == IF f \in SceneFiles THEN SceneFile[f] ELSE <<>>
    IN IF f = currentSceneName
       THEN UNCHANGED <<layers, currentSceneName>>
       ELSE /\ layers' = SortLayers(ReadLayers(f, BuiltLayers(file)))
            /\ currentSceneName' = f

LoadNewScene(scene) ==
    LET f == FileOf(scene)
        file == SceneFile[f]
    IN IF f = currentSceneName \/ f \notin SceneFiles
       THEN UNCHANGED <<layers, currentSceneName>>
       ELSE IF BuiltLayers(file) = Len(file)
       THEN /\ layers' = SortLayers(ReadLayers(f, Len(file)))
            /\ currentSceneName' = f
       ELSE /\ layers' = ReadLayers(f, BuiltLayers(file))
            /\ UNCHANGED currentSceneName

-----------------------------------------------------------------------------
(* AddGameObjectToScene: to the last of the layers, of which there has to  *)
(* be one.                                                                 *)
AddGameObjectToScene(o) ==
    layers' = [layers EXCEPT ![Len(layers)].objects = Append(@, o)]

(* RemoveGameObjectFromLayers: remove_if moves what stays to the front and *)
(* nothing is erased.  The pointers moved from are empty; those behind     *)
(* them are as they were.                                                  *)
Alive(o, queued) == o \in owned \/ o \in queued
IsIn(o, id, queued) == o # Expired /\ Alive(o, queued) /\ IdOf[o] = id

(* Mutant: the end of the list is cut off before what stays has moved. *)
RemoveIfAtTheEnd(list, id, queued) ==
    SubSeq(list, 1, Len(Chosen(list, {o \in Range(list) : ~IsIn(o, id, queued)})))

RemoveIf(list, id, queued) ==
    LET kept == Chosen(list, {o \in Range(list) : ~IsIn(o, id, queued)})
    IN IF Len(kept) = Len(list) THEN list
       ELSE [i \in DOMAIN list |->
               IF i <= Len(kept) THEN kept[i]
               ELSE IF IsIn(list[i], id, queued) THEN list[i] ELSE Expired]

RemoveGameObjectFromLayers(o, queued) ==
    layers' = [k \in DOMAIN layers |->
                 [layers[k] EXCEPT !.objects = RemoveIf(@, IdOf[o], queued)]]

(* GetAllObjects and the loops of UpdateAllObjects and DrawScene. *)
AllObjects(ls) == FlattenSeq([k \in DOMAIN ls |-> ls[k].objects])
LiveObjects(ls, queued) ==
    Chosen(AllObjects(ls), {o \in Objects : Alive(o, queued)})

UpdateAllObjects(queued) == updated' = LiveObjects(layers, queued)

(* DrawableGameObject::Draw leaves out what is not visible. *)
DrawScene(queued) ==
    drawn' = Chosen(LiveObjects(Chosen(layers, {l \in Range(layers) : l.visible}), queued),
                    Objects \ Hidden)

=============================================================================
