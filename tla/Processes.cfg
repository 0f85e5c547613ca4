SPECIFICATION Spec
CONSTANTS
  p1 = p1
  p2 = p2
  p3 = p3
  d1 = d1
  d2 = d2
  Processes = {p1, p2, p3, d1, d2}
  NoProcess = NoProcess
  Children <- MCChildren
  Delays = {d1, d2}
  DelayTarget = 2
  Deltas = {1}
INVARIANTS ChainsOK EveryoneIsVisited
PROPERTIES DelaysEnd
CHECK_DEADLOCK FALSE
