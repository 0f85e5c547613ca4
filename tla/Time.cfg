SPECIFICATION SimulationSpec
CONSTANTS
  SendRate = 5
  SaveEvery = 4
  Second = 6
  Traffics <- MCTraffics
  MaxEvents = 2
  Loops <- MCLoops
  Costs = {0, 2, 11}
  MaxClock = 13
  KeyFrames <- MCKeyFrames
  FrameDuration = 2
  Width = 14
  Height = 14
  Movements <- MCMovements
  MaxMoves = 2
INVARIANTS LoopsOK TimersOK CharacterOK
PROPERTIES FramesEnd
CHECK_DEADLOCK FALSE
