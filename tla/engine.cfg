SPECIFICATION FairSpec
CONSTANTS
  b1 = b1
  b2 = b2
  c1 = c1
  r1 = r1
  r2 = r2
  m1 = m1
  nobody = nobody
  Nobody = nobody
  Tasks <- OneOfEach
  Backups <- TwoBackups
  Checks <- OneCheck
  Restores <- TwoRestores
  Maintenances <- OneMaintenance
  StoreFaults <- AnyStatement
  RemoveFails = TRUE
  MaxRuns = 2
INVARIANTS
  TypeOK
  MutualExclusion
  RunningRowIsTheHolders
  IdleMeansRecorded
  OkRowNamesItsSnapshot
  SoloRestoreIsWhole
PROPERTIES
  FinalRowsAreFinal
  GateIsReleased
  RowsSettle
