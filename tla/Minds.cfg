SPECIFICATION Spec
CONSTANTS
  Setups <- MCSetups
  RepeatCount = 2
  own = own
  shared = shared
  Boards = {own, shared}
  NoBoard = NoBoard
  Parent <- MCParent
  Keys <- MCKeys
  Lifetimes = {0, 2}
  Watched = {own}
  MaxSubscriptions = 3
  MaxWrites = 3
  idle = idle
  alert = alert
  chase = chase
  States = {idle, alert, chase}
  NoState = NoState
  InitialState = idle
  Transitions <- MCTransitions
INVARIANTS TreeOK BoardOK MachineOK
PROPERTIES TickEnds BoardKeepsAndTells
CHECK_DEADLOCK FALSE
