SPECIFICATION Spec
CONSTANTS
  b1 = b1
  b2 = b2
  c1 = c1
  r1 = r1
  r2 = r2
  m1 = m1
  nobody = nobody
  Nobody = nobody
  Tasks <- RestoresOnly
  Backups <- NoTasks
  Checks <- NoTasks
  Restores <- RestoresOnly
  Maintenances <- NoTasks
  StoreFaults <- NoStatement
  RemoveFails = FALSE
  MaxRuns = 3
INVARIANTS
  RestoreIsExact
CHECK_DEADLOCK FALSE
