------------------------------ MODULE Character ------------------------------
(***************************************************************************)
(* A character of a game (character/): an Npc with its AnimatedSprite and  *)
(* its Hotspot, and the movements that tell where it goes and which way it *)
(* looks.                                                                  *)
(***************************************************************************)
EXTENDS Integers, Sequences

CONSTANTS
    KeyFrames,      \* the group of each key frame of the sprite
    FrameDuration,  \* frameDurationMs
    Width, Height,  \* the Npc's dimensions
    Movements,      \* the movements that the game or the player makes
    MaxMoves        \* bound: movements and turns of a behaviour

Directions == {"up", "right", "down", "left"}
KeyStates == {"Pressed", "Released", "Unknown"}

ASSUME CharacterAssumption ==
    /\ KeyFrames \in Seq(STRING) /\ KeyFrames # <<>>
    /\ FrameDuration \in Nat \ {0} /\ {Width, Height} \subseteq Nat /\ MaxMoves \in Nat
    /\ \A m \in Movements :
        \/ m.kind = "atSpeed" /\ m.speed \in Int /\ m.direction \in Directions \cup {"none"}
        \/ /\ m.kind = "stateful" /\ m.speed \in Nat
           /\ DOMAIN m.keys \subseteq Directions /\ \A d \in DOMAIN m.keys : m.keys[d] \in KeyStates

VARIABLES
    npc,        \* its Position and currentFacingDirection
    shown,      \* where its sprite, hotspot and bounds are
    sprite,     \* currentFrameNumber (from 0), animationFrameGroup and deltaTime
    skipping,   \* in the loop of SkipUnsupportedAnimationGroupFrames
    moves,      \* bounds the movements
    step,       \* observer: the last displacement, and the movement
    chosenFor,  \* observer: the direction the frame was chosen for
    updatedAt   \* observer: the time of the last Update

characterVars == <<npc, shown, sprite, skipping, moves, step, chosenFor, updatedAt>>

Origin == <<0, 0>>
NoMovement == [kind |-> "none"]

CharacterInit ==
    /\ npc = [position |-> Origin, facing |-> "down"]
    /\ shown = [sprite |-> Origin, hotspot |-> Origin, bounds |-> Origin]
    /\ sprite = [frame |-> 0, group |-> "", since |-> -FrameDuration]
    /\ skipping = FALSE /\ moves = 0 /\ chosenFor = "" /\ updatedAt = 0
    /\ step = [by |-> Origin, of |-> NoMovement]

-----------------------------------------------------------------------------
(* DirectionUtils::GetOppositeDirectionTo, and Npc::InvertCurrentDirection *)
Opposite(d) ==
    CASE d = "up" -> "down" [] d = "down" -> "up"
      [] d = "left" -> "right" [] d = "right" -> "left" [] OTHER -> d

(* MovementAtSpeed: a negative speed is a speed the other way. *)
AtSpeedDirectionSigned(m) == m.direction
AtSpeedDirection(m) == IF m.speed < 0 THEN Opposite(m.direction) ELSE m.direction

AtSpeedBy(m) ==
    CASE m.direction = "down" -> <<0, m.speed>>
      [] m.direction = "up" -> <<0, -m.speed>>
      [] m.direction = "left" -> <<-m.speed, 0>>
      [] m.direction = "right" -> <<m.speed, 0>>
      [] OTHER -> Origin

(* StatefulMove.  GetPosition takes a key that it does not know for one    *)
(* that is not pressed; GetDirection inserts it, and the first KeyState is *)
(* Pressed.                                                                *)
StatefulBy(m) ==
    LET move(d) == IF d \in DOMAIN m.keys /\ m.keys[d] = "Pressed" THEN m.speed ELSE 0
    IN <<IF move("right") # 0 THEN move("right") ELSE -move("left"),
         IF move("up") # 0 THEN -move("up") ELSE move("down")>>

PressedOrNew(m, d) == d \in DOMAIN m.keys => m.keys[d] = "Pressed"
StatefulDirection(m) ==
    CASE PressedOrNew(m, "up") -> "up"
      [] PressedOrNew(m, "down") -> "down"
      [] PressedOrNew(m, "left") -> "left"
      [] PressedOrNew(m, "right") -> "right"
      [] OTHER -> "none"

By(m) == IF m.kind = "atSpeed" THEN AtSpeedBy(m) ELSE StatefulBy(m)
DirectionOf(m) == IF m.kind = "atSpeed" THEN AtSpeedDirection(m) ELSE StatefulDirection(m)

(* The game moves the character by a movement and turns it to the          *)
(* movement's direction ...                                                *)
MoveNpc(m) ==
    /\ npc' = [position |-> <<npc.position[1] + By(m)[1], npc.position[2] + By(m)[2]>>,
               facing |-> DirectionOf(m)]
    /\ step' = [by |-> By(m), of |-> m]

(* ... or turns it round, where it cannot go on.                           *)
InvertCurrentDirection ==
    /\ npc' = [npc EXCEPT !.facing = Opposite(@)]
    /\ step' = [by |-> Origin, of |-> NoMovement]

Movement ==
    /\ moves < MaxMoves /\ moves' = moves + 1
    /\ InvertCurrentDirection \/ \E m \in Movements : MoveNpc(m)
    /\ UNCHANGED <<shown, sprite, skipping, chosenFor, updatedAt>>

-----------------------------------------------------------------------------
GroupOf(frame) == KeyFrames[frame + 1]
NextFrameStays(frame) == IF frame + 1 >= Len(KeyFrames) THEN frame ELSE frame + 1
NextFrame(frame) == IF frame + 1 >= Len(KeyFrames) THEN 0 ELSE frame + 1

(* Hotspot::Update and CalculateHotspotPosition: its width is half the     *)
(* Npc's, and both coordinates are centred with ParentWidth.               *)
HotspotWidth == Width \div 2
HotspotPosition(position) ==
    LET offset == Width \div 2 - HotspotWidth \div 2
    IN <<position[1] + offset, position[2] + offset>>

(* Npc::Update with AnimatedSprite::Update: the group is set at once, the  *)
(* frame changes when its time is up.  A frame of another group is skipped,*)
(* in the steps of Skip.                                                   *)
NpcUpdate(now) ==
    LET group == npc.facing
        next == NextFrame(sprite.frame)
    IN
    /\ shown' = [sprite |-> npc.position, hotspot |-> HotspotPosition(npc.position),
                 bounds |-> npc.position]
    /\ updatedAt' = now
    /\ IF now - sprite.since < FrameDuration
       THEN /\ sprite' = [sprite EXCEPT !.group = group]
            /\ UNCHANGED <<skipping, chosenFor>>
       ELSE /\ chosenFor' = group
            /\ sprite' = [frame |-> next, group |-> group, since |-> now]
            /\ skipping' = (GroupOf(next) # group)
    /\ UNCHANGED <<npc, moves, step>>

SkipsUntilFound == GroupOf(NextFrame(sprite.frame)) # sprite.group
SkipUnsupportedAnimationGroupFrames ==
    /\ skipping
    /\ sprite' = [sprite EXCEPT !.frame = NextFrame(@)]
    /\ skipping' = SkipsUntilFound
    /\ UNCHANGED <<npc, shown, moves, step, chosenFor, updatedAt>>

(* The loop above does not end where no key frame is of the group.         *)
Hangs == skipping /\ \A f \in 1..Len(KeyFrames) : KeyFrames[f] # sprite.group

-----------------------------------------------------------------------------
CharacterTypeOK ==
    /\ npc \in [position : Int \X Int, facing : Directions \cup {"none"}]
    /\ shown \in [sprite : Int \X Int, hotspot : Int \X Int, bounds : Int \X Int]
    /\ sprite \in [frame : 0..(Len(KeyFrames) - 1), group : Directions \cup {"", "none"},
                   since : Int]
    /\ step.by \in Int \X Int
    /\ skipping \in BOOLEAN /\ moves \in 0..MaxMoves /\ updatedAt \in Nat

Along(by, d) ==
    CASE d = "up" -> -by[2] [] d = "down" -> by[2]
      [] d = "left" -> -by[1] [] d = "right" -> by[1] [] OTHER -> 0

Opposed(m) == m.kind = "stateful" /\
    \E d \in Directions : \A e \in {d, Opposite(d)} : e \in DOMAIN m.keys /\ m.keys[e] = "Pressed"
Unset(m) == m.kind = "stateful" /\ DOMAIN m.keys # Directions

(* A character looks where it goes: GetDirection and GetPosition of a      *)
(* movement agree, also for a negative speed, as long as the player does   *)
(* not press two opposing keys and every key has a state                   *)
(* (MovementAtSpeed.cpp:14-68, StatefulMove.cpp:5-54).                     *)
LooksWhereItGoes ==
    step.by # Origin /\ ~Opposed(step.of) /\ ~Unset(step.of) => Along(step.by, npc.facing) > 0

(* An update leaves on the screen a frame of the direction the character   *)
(* looked in when the frame was chosen, and that is not longer ago than a  *)
(* frame lasts (AnimatedSprite.cpp:39-84).                                 *)
FrameIsOfTheGroup ==
    chosenFor # "" /\ ~skipping =>
        GroupOf(sprite.frame) = chosenFor /\ updatedAt - sprite.since < FrameDuration

(* The hotspot is in the middle of what is drawn, to the pixel (Hotspot.cpp*)
(* :14 "calculate the center of the parent"), for a character as high as   *)
(* it is wide.                                                             *)
HotspotCentred == Width = Height /\ updatedAt > 0 =>
    \A i \in 1..2 :
        2 * shown.hotspot[i] + HotspotWidth - (2 * shown.sprite[i] + Width) \in -1..1

(* A character goes, looks and is shown one way                            *)
(* (MovementAtSpeed.cpp, StatefulMove.cpp, AnimatedSprite.cpp, Hotspot.cpp)*)
CharacterOK == /\ CharacterTypeOK /\ LooksWhereItGoes /\ FrameIsOfTheGroup
               /\ HotspotCentred

-----------------------------------------------------------------------------
(* The invariant behind CharacterOK: while it skips frames, a sprite looks *)
(* for the group it was given when the frame was due.                      *)
CharacterInv ==
    /\ CharacterTypeOK /\ LooksWhereItGoes
    /\ skipping => sprite.group = chosenFor
    /\ chosenFor # "" => updatedAt - sprite.since < FrameDuration
    /\ chosenFor # "" /\ ~skipping => GroupOf(sprite.frame) = chosenFor
    /\ updatedAt > 0 => shown.hotspot = HotspotPosition(shown.sprite)
==============================================================================
