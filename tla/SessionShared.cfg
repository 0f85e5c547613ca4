SPECIFICATION Spec
CONSTANTS
  SeqModulus = 32
  BufferSize = 8
  Garbage = {}
  AckBits = 3
  HeaderBytes = 1
  MaxBytes = 100
  NoPayload <- MCNoPayload
  c1 = c1
  c2 = c2
  Clients = {c1, c2}
  Setups <- MCShared
INVARIANT AckedDataWasRaised
CHECK_DEADLOCK FALSE
