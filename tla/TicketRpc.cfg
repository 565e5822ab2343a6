SPECIFICATION FairSpec
CONSTANTS
  Handlers = {"echo"}
  LongHandlers = {"render"}
  ForeignJobs = {"job"}
  OtherCommands = {}
  BodyWords = 2
  Garbage = 3
  MaxCalls = 2
  MaxFaults = 1
INVARIANTS
  TypeOK
  InStep
  OneTicketInFlight
  NoForgedResponse
PROPERTY CallReturns
CHECK_DEADLOCK FALSE
