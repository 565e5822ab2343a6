SPECIFICATION FairSpec
CONSTANTS
  Names <- MCNames
  Folders <- MCFolders
  Files <- MCFiles
  Targets <- MCTargets
  Credentials <- MCCredentials
  FeatureSets <- MCFeatures
  MaxCalls = 4
  MaxBacklog = 1
INVARIANTS
  TypeOK
  InStep
PROPERTIES
  OpReturns
  ImplementsStore
CHECK_DEADLOCK FALSE
