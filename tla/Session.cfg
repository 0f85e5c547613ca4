SPECIFICATION Spec
CONSTANTS
  SeqModulus = 32
  BufferSize = 8
  Garbage = {3, 5}
  AckBits = 3
  HeaderBytes = 1
  MaxBytes = 100
  NoPayload <- MCNoPayload
  c1 = c1
  c2 = c2
  Clients = {c1, c2}
  Setups <- MCSetups
INVARIANTS EndpointsOK KeysAgree NoDataInTheClear AloneAckedDataWasRaised
PROPERTIES HandshakeSafety
CHECK_DEADLOCK FALSE
