SPECIFICATION Spec
CONSTANTS
  Names = {"a", "b", "c"}
  Drives = {"C:", "D:"}
  Targets <- AllPaths
  Dirs <- DriveDirs
  MaxCalls = 4
INVARIANTS
  TypeOK
  InSync
  OnTheWay
  SyncOnDrive
CHECK_DEADLOCK FALSE
