SPECIFICATION Spec
CONSTANTS
  c1 = c1
  c2 = c2
  Clients = {c1, c2}
  NickName <- MCNickName
  ServerName = "Server"
  Networks <- MCTcp
  Room = 2
  Lengths = {1, 2, 3, 5}
  MaxRecords = 3
  LocalClients = {c1, c2}
  LocalServer = LocalServer
  Nobody = Nobody
  MaxGreetings = 3
INVARIANTS OthersHear
CHECK_DEADLOCK FALSE
