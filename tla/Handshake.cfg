SPECIFICATION HandshakeSpec
CONSTANTS
  Clients = {c1, c2}
  NoClient = NoClient
  Lossy = TRUE
INVARIANTS SessionsOK
PROPERTIES SessionEventually SessionsLast
CHECK_DEADLOCK FALSE
