SPECIFICATION FairSpec
CONSTANTS
  Clients = {c1, c2}
  NoClient = NoClient
  MaxListens = 2
  MaxStops = 2
  MaxRounds = 1
INVARIANTS
  TypeOK
  WaitsOnListening
  StoppedMeansClosed
  OneLateConnection
PROPERTIES
  StopEndsListen
  
CHECK_DEADLOCK FALSE
