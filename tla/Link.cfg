SPECIFICATION Spec
CONSTANTS
  SeqModulus = 4
  BufferSize = 2
  Garbage = {0}
  NoPayload = 0
  AckBits = 2
  HeaderBytes = 1
  MaxBytes = 5
  Alice = alice
  Bob = bob
  Senders = {alice, bob}
  Sizes = {1, 3}
  MaxSent = 3
SYMMETRY PeersAreAlike
INVARIANTS TypeOK NoFalseAck  LastAckedIsNewest NoNullDereference
PROPERTIES DeliverySpec
CHECK_DEADLOCK FALSE
