SPECIFICATION Spec
CONSTANTS
  m1 = m1
  m2 = m2
  b1 = b1
  nobody = nobody
  Nobody = nobody
  Migrations <- OneMigration
  Backups <- OneBackup
  Tasks <- MoveAndBackup
  Remotes <- OneRemote
  Paths <- NestedPaths
  HomeRemote <- G
  HomePath <- A
  Foreign <- NoForeign
  Sealed <- NoForeign
  Faults <- NoFaults
  MaxStarts = 2
  MaxBackups = 1
PROPERTIES
  KeepsCustody
CHECK_DEADLOCK FALSE
