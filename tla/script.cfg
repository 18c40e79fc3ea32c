SPECIFICATION Spec
CONSTANTS
  b1 = b1
  b2 = b2
  c1 = c1
  nobody = nobody
  Nobody = nobody
  Backups <- TwoBackups
  Checks <- OneCheck
  JobFiles <- ManyFiles
  Containers <- AnyState
  BackupPaths <- WholeHome
  ExcludedPlaces <- Engine
  ExcludedNames <- Clutter
  Staging <- StagingRoot
  Faults <- Everything
  MaxRuns = 3
SYMMETRY SameBackups
INVARIANTS
  TypeOK
  OwnDumpsSurvive
  FreshDumpsOnly
  NothingFallsThrough
  DumpsAreAccounted
PROPERTIES
  MarksMoveForward
CHECK_DEADLOCK FALSE
