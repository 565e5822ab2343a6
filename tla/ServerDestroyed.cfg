SPECIFICATION Spec
CONSTANTS
  Clients = {c1}
  NoClient = NoClient
  MaxListens = 1
  MaxStops = 1
  MaxRounds = 1
PROPERTY HandlerOfLiveServer
CHECK_DEADLOCK FALSE
