SPECIFICATION FairSpec
CONSTANTS
  Threads = 2
  Callers = {c1, c2}
  Handlers = {h1, h2}
  Listeners = {c2}
  MaxWaits = 1
INVARIANTS
  TypeOK
  JoinedMeansQuiet
PROPERTIES
  CallReturns
  ShutdownReturns
  DestroyReleases
CHECK_DEADLOCK FALSE
