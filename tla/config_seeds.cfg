SPECIFICATION FairSpec
CONSTANTS
    config = config
    excludes = excludes
    alert = alert
    w1 = w1
    w2 = w2
    off = off
    bad = bad
    nightly = nightly
    checks = checks
    text = text
    none = none
    Files <- SeededFiles
    Config = config
    Removable <- NoFiles
    Writers <- MCWriters
    Bodies <- MCBodies
    Lists <- MCLists
    Off = off
    Refused <- MCRefused
    Bad = bad
    Seeded <- SeededFiles
    Example = text
    None = none
    Overlap <- NoFiles
    Faults = TRUE
INVARIANTS
    TypeOK
    WholeFile
    CronFollowsFile
    ShownAsInstalled
PROPERTIES
    SavesFinish
    SavesAreAtomic
