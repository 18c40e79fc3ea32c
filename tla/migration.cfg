SPECIFICATION FairSpec
CONSTANTS
  m1 = m1
  m2 = m2
  b1 = b1
  nobody = nobody
  Nobody = nobody
  Migrations <- TwoMigrations
  Backups <- OneBackup
  Tasks <- MovesAndBackup
  Remotes <- TwoRemotes
  Paths <- TwoPaths
  HomeRemote <- G
  HomePath <- A
  Foreign <- ForeignTwice
  Sealed <- SealedAtHome
  Faults <- Survivable
  MaxStarts = 2
  MaxBackups = 1
INVARIANTS
  TypeOK
  MoveCarriesEverything
  ActiveHoldsGate
  DoneIsDurable
PROPERTIES
  KeepsCustody
  PurgeComesLast
  MigrationEnds
