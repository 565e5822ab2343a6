SPECIFICATION Spec
CONSTANTS
  Names <- MCNames
  Folders <- MCFolders
  Files <- MCFiles
  Targets <- MCMoreTargets
  Credentials <- MCCredentials
  FeatureSets <- MCFeatures
  MaxCalls = 4
  MaxBacklog = 1
PROPERTIES
  RemovesOnlyTarget
CHECK_DEADLOCK FALSE
