SPECIFICATION FairUsers
CONSTANTS
    s1 = s1
    s2 = s2
    s3 = s3
    Sessions <- MCSessions
    termMaxConc = 1
    RunFaults = TRUE
    RmFaults = FALSE
INVARIANTS
    RunningHoldsSlot
    TerminalsAreCapped
PROPERTIES
    SlotComesBack
    TerminalsEnd
