SPECIFICATION Spec
CONSTANTS
  c1 = c1
  c2 = c2
  Clients = {c1, c2}
  NickName <- MCNickName
  ServerName = "Server"
  Networks <- MCNetworks
  Room = 2
  Lengths = {1, 2, 3, 5}
  MaxRecords = 3
  LocalClients = {c1, c2}
  LocalServer = LocalServer
  Nobody = Nobody
  MaxGreetings = 3
INVARIANTS RecordsOK PlayersOK TrafficOK LocalOK
PROPERTIES ServesWhoIsThere
CHECK_DEADLOCK FALSE
