--------------------------------- MODULE Game ---------------------------------
(***************************************************************************)
(* gamelib::GameStructure (structure/GameStructure.cpp) with the managers  *)
(* of resources and scenes: how the game starts, the frames of its loop,   *)
(* in which the events of the game reach both managers, and how it ends.   *)
(* The event manager is a queue here; module EventManager has the rest.    *)
(*                                                                         *)
(* Both managers subscribe to the change of the scene, the manager of      *)
(* resources first.  An exception leaves the loop and ends the game.       *)
(***************************************************************************)
EXTENDS Scenes

CONSTANTS
    SceneIds,      \* the numbers the game passes to StartScene
    Names,         \* the names the game looks up
    Windows,       \* whether the window may be hidden
    MaxRaised      \* bound: the events the game raises and the files it reads again

ASSUME GameAssumption == /\ SceneIds \subseteq SceneNumbers \ {0}
                         /\ Windows \subseteq BOOLEAN /\ MaxRaised \in Nat

VARIABLES
    phase,        \* where the game is
    hideWindow,
    queue,        \* the primary queue of the event manager
    raised        \* how many of MaxRaised are used up

gameVars == <<phase, hideWindow, queue, raised>>
vars == <<resourceVars, sceneVars, gameVars>>

Event(type, arg) == [type |-> type, arg |-> arg]
Queued == {queue[i].arg : i \in {j \in DOMAIN queue : queue[j].type \in {"add", "remove"}}}

Phases == {"off", "input", "events", "update", "draw", "done", "unloaded",
           "failed", "thrown", "crashed"}
Running == phase \in {"input", "events", "update", "draw", "done"}

Init ==
    /\ ResourcesInit /\ ScenesInit
    /\ phase = "off" /\ hideWindow \in Windows /\ queue = <<>> /\ raised = 0

-----------------------------------------------------------------------------
(* GameStructure::Initialize.  SDL_Init may fail; SDL_image and the window *)
(* succeed or throw; audio and fonts may fail without anyone minding.      *)

InitializeSdl ==
    \/ /\ phase' = "failed" /\ UNCHANGED <<mixer, ttf>>
    \/ /\ phase' = "thrown" /\ UNCHANGED <<mixer, ttf>>
    \/ /\ phase' = "input"  /\ mixer' \in BOOLEAN /\ ttf' \in BOOLEAN

Initialize ==
    /\ phase = "off"
    /\ InitializeSdl
    /\ IF phase' = "input"
       THEN \E f \in Files : \E reading \in Readings(f) :
                Len(reading) = Len(f) /\ IndexResourceFile(reading)
       ELSE UNCHANGED <<assets, maps, counts, level, lost>>
    /\ UNCHANGED <<sceneVars, hideWindow, queue, raised>>

(* The resource file is not there, has no assets, or has one nobody makes. *)
InitializeThrows ==
    /\ phase = "off" /\ phase' = "thrown"
    /\ mixer' \in BOOLEAN /\ ttf' \in BOOLEAN
    /\ \/ \E f \in Files : \E reading \in Readings(f) :
              Len(reading) < Len(f) /\ IndexResourceFile(reading)
       \/ UNCHANGED <<assets, maps, counts, level, lost>>
    /\ UNCHANGED <<sceneVars, hideWindow, queue, raised>>

-----------------------------------------------------------------------------
(* ReadKeyboard and ReadNetwork: what the game does with its input.        *)

Raise(e) == queue' = Append(queue, e) /\ raised' = raised + 1
CanRaise == phase = "input" /\ raised < MaxRaised

StartScene(s) ==
    /\ CanRaise /\ Raise(Event("change", s))
    /\ UNCHANGED <<resourceVars, sceneVars, phase, hideWindow>>

RaiseAdd(o) ==
    /\ CanRaise /\ o \in owned /\ Raise(Event("add", o))
    /\ UNCHANGED <<resourceVars, sceneVars, phase, hideWindow>>

RaiseRemove(o) ==
    /\ CanRaise /\ o \in owned /\ Raise(Event("remove", o))
    /\ UNCHANGED <<resourceVars, sceneVars, phase, hideWindow>>

(* The game lets go of an object. *)
Release(o) ==
    /\ phase = "input" /\ o \in owned /\ owned' = owned \ {o}
    /\ UNCHANGED <<resourceVars, layers, currentSceneName, updated, drawn, gameVars>>

(* GetAssetInfo of a name. *)
LookUp(n) ==
    /\ phase = "input" /\ queue = <<>>
    /\ resourcesByName' = Planted(resourcesByName, n)
    /\ UNCHANGED <<assets, resourcesByScene, resourcesById, counts, mixer, ttf,
                   level, lost, sceneVars, gameVars>>

(* IndexResourceFile is public: the game may read another file. *)
Reindex ==
    /\ CanRaise /\ queue = <<>> /\ raised' = raised + 1
    /\ IF UnloadFollowsNull
       THEN phase' = "crashed" /\ UNCHANGED <<assets, maps, counts, level, lost>>
       ELSE \E f \in Files : \E reading \in Readings(f) :
                /\ IndexResourceFile(reading)
                /\ phase' = IF Len(reading) = Len(f) THEN phase ELSE "thrown"
    /\ UNCHANGED <<sceneVars, hideWindow, queue, mixer, ttf>>

ReadInput ==
    \/ \E s \in SceneIds : StartScene(s)
    \/ \E o \in Objects : RaiseAdd(o) \/ RaiseRemove(o) \/ Release(o)
    \/ \E n \in Names : LookUp(n)
    \/ Reindex

InputIsRead ==
    /\ phase = "input" /\ phase' = "events"
    /\ UNCHANGED <<resourceVars, sceneVars, hideWindow, queue, raised>>

-----------------------------------------------------------------------------
(* ProcessAllEvents, one event of the queue at a time.                     *)

(* The change of the scene: first the assets, then the layers. *)
ProcessChange(s) ==
    LET new == LoadSceneAssets(s)
    IN /\ HandleSceneChanged(s, new)
       /\ IF new.thrown
          THEN UNCHANGED <<layers, currentSceneName, queue>> /\ phase' = "thrown"
          ELSE /\ LoadNewScene(s)
               /\ queue' = IF LoadOutcome(s) = "loaded"
                           THEN Append(Tail(queue), Event("loaded", s))
                           ELSE Tail(queue)
               /\ phase' = IF LoadOutcome(s) = "thrown" THEN "thrown" ELSE phase
       /\ UNCHANGED <<owned, updated, drawn>>

ProcessAdd(o) ==
    /\ IF layers = <<>> THEN phase' = "crashed" /\ UNCHANGED layers
                        ELSE AddGameObjectToScene(o) /\ UNCHANGED phase
    /\ queue' = Tail(queue)
    /\ UNCHANGED <<resourceVars, currentSceneName, owned, updated, drawn>>

ProcessRemove(o) ==
    /\ RemoveGameObjectFromLayers(o, Queued) /\ queue' = Tail(queue)
    /\ UNCHANGED <<resourceVars, currentSceneName, owned, updated, drawn, phase>>

(* Nobody subscribes to the event that says a scene is loaded. *)
ProcessLoaded ==
    /\ queue' = Tail(queue)
    /\ UNCHANGED <<resourceVars, sceneVars, phase>>

ProcessEvent ==
    /\ phase = "events" /\ queue # <<>>
    /\ LET e == Head(queue)
       IN \/ e.type = "change" /\ ProcessChange(e.arg)
          \/ e.type = "add"    /\ ProcessAdd(e.arg)
          \/ e.type = "remove" /\ ProcessRemove(e.arg)
          \/ e.type = "loaded" /\ ProcessLoaded
    /\ UNCHANGED <<hideWindow, raised>>

EventsAreProcessed ==
    /\ phase = "events" /\ queue = <<>> /\ phase' = "update"
    /\ UNCHANGED <<resourceVars, sceneVars, hideWindow, queue, raised>>

(* The dispatch of UpdateAllGameObjects; the loop may update once more.    *)
UpdateAllGameObjects ==
    /\ phase = "update" /\ UpdateAllObjects(Queued)
    /\ phase' \in {"input", "draw"}
    /\ UNCHANGED <<resourceVars, layers, currentSceneName, owned, drawn,
                   hideWindow, queue, raised>>

(* The dispatch of DrawCurrentScene.  A hidden window draws nothing.  The  *)
(* game may say that it is done at any time; the loop ends after drawing.  *)
Draw ==
    /\ phase = "draw"
    /\ IF hideWindow THEN UNCHANGED drawn ELSE DrawScene(Queued)
    /\ phase' \in {"input", "done"}
    /\ UNCHANGED <<resourceVars, layers, currentSceneName, owned, updated,
                   hideWindow, queue, raised>>

(* GameStructure::Unload: the assets, then SDL_ttf and the rest. *)
Unload ==
    /\ phase = "done"
    /\ IF UnloadFollowsNull
       THEN phase' = "crashed" /\ UNCHANGED <<assets, mixer, ttf>>
       ELSE /\ phase' = "unloaded" /\ assets' = UnloadAll
            /\ mixer' = FALSE /\ ttf' = FALSE
    /\ UNCHANGED <<maps, counts, level, lost, sceneVars, hideWindow, queue, raised>>

Next == \/ Initialize \/ InitializeThrows
        \/ ReadInput \/ InputIsRead \/ ProcessEvent \/ EventsAreProcessed
        \/ UpdateAllGameObjects \/ Draw \/ Unload

Spec == Init /\ [][Next]_vars

-----------------------------------------------------------------------------
(* What must hold.                                                         *)

TypeOK ==
    /\ phase \in Phases /\ hideWindow \in BOOLEAN /\ raised \in 0 .. MaxRaised
    /\ currentSceneName \in 0 .. 4 /\ owned \subseteq Objects
    /\ \A k \in DOMAIN layers :
           /\ layers[k].order \in Nat /\ layers[k].visible \in BOOLEAN
           /\ layers[k].from \in SceneFiles \X Nat
           /\ layers[k].objects \in Seq(Objects \cup {Expired})
    /\ Range(resourcesByName) \cup Range(resourcesById) \subseteq 0 .. Len(assets)
    /\ countResources = Len(assets)
    /\ countLoadedResources \in Nat /\ countUnloadedResources = -countLoadedResources

(* After a change of the scene (ResourceManager.cpp:60) what is in memory  *)
(* is what the scene and every scene needs, as far as it can be loaded.    *)
(* Fonts are left out: they never know that they were loaded.              *)
CanBeLoaded(a) == a.kind = "fx" \/ a.readable
SceneIsResident ==
    Running /\ level # NoLevel =>
        \A i \in DOMAIN assets : assets[i].kind # "font" =>
            (assets[i].loaded <=> assets[i].scene \in {level, 0} /\ CanBeLoaded(assets[i]))

(* With assets that can be loaded and remember it, the number of loaded    *)
(* resources (ResourceManager.cpp:82, 100) is the number in memory.        *)
CountsAgree ==
    Running /\ (\A i \in DOMAIN assets : assets[i].kind # "font" /\ CanBeLoaded(assets[i])) =>
        countLoadedResources = Cardinality({i \in DOMAIN assets : assets[i].loaded})

(* The only handles that are overwritten or dropped without being freed    *)
(* are those of fonts, loaded again by every change (ResourceManager.cpp:  *)
(* 68 reads what FontAsset.cpp:20 does not set), and those of assets that  *)
(* are hidden by another one of their name (ResourceManager.cpp:113).      *)
OnlyFontsAreLost == \A l \in lost : l.kind = "font" \/ l.shared

(* When the game has unloaded, no library object is left behind but in     *)
(* assets that share their name with an earlier one.                       *)
UnloadFreesAll ==
    phase = "unloaded" => \A i \in DOMAIN assets : assets[i].handle => SharesName(i)

(* The two managers agree on the name of the scene: that of the assets, if *)
(* its file can be read, is that of the file that was read last            *)
(* (SceneManager.cpp:221, 311).                                            *)
ManagersAgree ==
    /\ Running /\ level # NoLevel /\ FileOf(level) \in SceneFiles =>
           currentSceneName = FileOf(level)
    /\ currentSceneName \in SceneFiles \cup {0}

(* The layers at the head of the list, which are drawn first and below all *)
(* others, are those of the scene: all of them, the last of its file first,*)
(* each as its file says (SceneManager.cpp:239-311).                       *)
HeadedBy(ls, name) ==
    name # 0 =>
        LET n == Len(SceneFile[name])
        IN /\ n <= Len(ls)
           /\ \A i \in 1 .. n : /\ ls[i].from = <<name, n - i + 1>>
                                /\ ls[i].visible = SceneFile[name][n - i + 1].visible
SceneIsFirst == Running => HeadedBy(layers, currentSceneName)

(* Behind them are those of every scene before, in falling order down to 0 *)
(* (SceneManager.cpp:250, 308): a layer's order is its place from the end. *)
LayersInOrder == Running => \A i \in DOMAIN layers : layers[i].order = Len(layers) - i

Pointers(ls) == UNION {{k} \X DOMAIN ls[k].objects : k \in DOMAIN ls}
PlacesOf(ls, o) == {p \in Pointers(ls) : ls[p[1]].objects[p[2]] = o}
Occurrences(o) == Cardinality(PlacesOf(layers, o))

(* An object gets into the layers by an event that adds it, once: neither  *)
(* the moves of remove_if nor a change of the scene make it appear again.  *)
AddedOnce ==
    [][\A o \in Objects :
           Occurrences(o)' > Occurrences(o) =>
               Head(queue) = Event("add", o) /\ Occurrences(o)' = Occurrences(o) + 1]_vars

(* Removing an object takes no object of another id out of a layer, and    *)
(* nothing else takes an object out (SceneManager.cpp:105).                *)
OthersStay ==
    [][\A o \in Objects :
           Occurrences(o)' < Occurrences(o) =>
               \E r \in Objects : /\ IdOf[r] = IdOf[o]
                                  /\ Head(queue) = Event("remove", r)]_vars

(* No layer is ever taken away or changed but in its objects: those of a   *)
(* new scene come before the others, which keep their order (SceneManager. *)
(* cpp:219-320), unless the new scene throws.                              *)
SameLayer(a, b) == a.order = b.order /\ a.from = b.from /\ a.visible = b.visible
EarlierStay(new) ==
    /\ Len(layers) <= Len(new)
    /\ \A i \in DOMAIN layers : SameLayer(new[Len(new) - Len(layers) + i], layers[i])
EarlierLayersStay == [][phase' # "thrown" => EarlierStay(layers')]_vars

(* What is drawn is visible, in a visible layer, and was updated in the    *)
(* update before (SceneManager.cpp:88, 182), although both loops meet      *)
(* pointers that have expired and what was moved about in between.         *)
DrawnWasUpdated ==
    [][drawn' # drawn =>
           \A i \in DOMAIN drawn' :
               /\ drawn'[i] \in Range(updated) \ Hidden
               /\ \E k \in DOMAIN layers :
                      layers[k].visible /\ drawn'[i] \in Range(layers[k].objects)]_vars

(* What is shown: the assets of one scene and of no other; the layers of   *)
(* that scene if its file can be read, and over them those of all scenes   *)
(* that were read before (ResourceManager.cpp:60-105, SceneManager.cpp:    *)
(* 219-320, which clears no layer).                                        *)
WhatIsShown == SceneIsResident /\ ManagersAgree /\ SceneIsFirst /\ LayersInOrder

(* The books of the assets balance: the counter, the handles that are lost *)
(* and those that are left at the end (ResourceManager.cpp:60-135).        *)
AssetsOK == TypeOK /\ CountsAgree /\ OnlyFontsAreLost /\ UnloadFreesAll

(* No object appears in the layers, disappears from them, with a layer or  *)
(* alone, or is drawn but by its own events (SceneManager.cpp:28-110,      *)
(* 160-320).                                                               *)
ObjectsAreTraced == AddedOnce /\ OthersStay /\ EarlierLayersStay /\ DrawnWasUpdated
=============================================================================
