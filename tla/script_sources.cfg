SPECIFICATION Spec
CONSTANTS
  b1 = b1
  b2 = b2
  c1 = c1
  nobody = nobody
  Nobody = nobody
  Backups <- OneBackup
  Checks <- NoChecks
  JobFiles <- VolumeOnly
  Containers <- AnyState
  BackupPaths <- OneUser
  ExcludedPlaces <- Engine
  ExcludedNames <- Clutter
  Staging <- StagingRoot
  Faults <- Nothing
  MaxRuns = 1
INVARIANTS
  NothingFallsThrough
CHECK_DEADLOCK FALSE
