SPECIFICATION Spec
CONSTANTS
  m1 = m1
  m2 = m2
  b1 = b1
  nobody = nobody
  Nobody = nobody
  Migrations <- TwoMigrations
  Backups <- NoBackup
  Tasks <- TwoMigrations
  Remotes <- TwoRemotes
  Paths <- TwoPaths
  HomeRemote <- G
  HomePath <- A
  Foreign <- NoForeign
  Sealed <- NoForeign
  Faults <- NoFaults
  MaxStarts = 2
  MaxBackups = 1
INVARIANTS
  ActiveHoldsHistory
CHECK_DEADLOCK FALSE
