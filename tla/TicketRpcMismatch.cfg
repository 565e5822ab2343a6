SPECIFICATION Spec
CONSTANTS
  Handlers = {"echo"}
  LongHandlers = {}
  ForeignJobs = {}
  OtherCommands = {}
  BodyWords = 2
  Garbage = 3
  MaxCalls = 3
  MaxFaults = 1
INVARIANT ResponseMatchesTicket
CHECK_DEADLOCK FALSE
