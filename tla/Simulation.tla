------------------------------ MODULE Simulation ------------------------------
(***************************************************************************)
(* What time does in a game: a game loop, the timers and the frame rate it *)
(* updates, and a character, which the player or the game moves between    *)
(* frames.                                                                 *)
(***************************************************************************)
EXTENDS GameLoops, Character

simulationVars == <<loopVars, timerVars, characterVars>>

SimulationInit == LoopsInit /\ TimersInit /\ CharacterInit

(* A game's update updates its objects too; it is not over until the       *)
(* sprite has found its frame.                                             *)
UpdateAll == ~skipping /\ Update /\ NpcUpdate(clock)
FindFrame == SkipUnsupportedAnimationGroupFrames /\ UNCHANGED <<loopVars, timerVars>>
Begin == ~skipping /\ BeginFrame /\ UNCHANGED characterVars
End == ~skipping /\ EndFrame /\ UNCHANGED characterVars

(* Between frames: network events reach the monitor, keys the character.   *)
Input == at = "frame" /\ moves < loop.moves /\ Movement /\ UNCHANGED <<loopVars, timerVars>>
Network ==
    at = "frame" /\ Len(heard) < loop.events /\ Traffic /\ UNCHANGED <<loopVars, characterVars>>

SimulationNext == Begin \/ UpdateAll \/ FindFrame \/ End \/ Input \/ Network

(* An update, once begun, is run to its end.                               *)
Fairness == WF_simulationVars(UpdateAll) /\ WF_simulationVars(FindFrame) /\ WF_simulationVars(End)

SimulationSpec == SimulationInit /\ [][SimulationNext]_simulationVars /\ Fairness

-----------------------------------------------------------------------------
(* A frame's updates come to an end, and the game is drawn, unless a       *)
(* character looks in a direction that its sprite has no frames for        *)
(* (FixedStepGameLoop.cpp:32-38, VariableGameLoop.cpp:70,                  *)
(* AnimatedSprite.cpp:78-82).                                              *)
FramesEnd == at = "update" ~> (at = "frame" \/ Hangs)
=============================================================================
