SPECIFICATION Spec
CONSTANTS
  s1 = s1
  s2 = s2
  a = a
  u = u
  Subscribers = {s1, s2}
  GameObjects = {s1}
  Types = {a, u}
  SameNumber <- MCSameNumber
  FrameTypes <- MCFrameTypes
  Setups <- MCSetups
INVARIANTS QueuesOK EveryoneHears AtMostOnce
PROPERTIES QueuedIsProcessed
CHECK_DEADLOCK FALSE
