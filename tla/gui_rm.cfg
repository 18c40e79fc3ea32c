SPECIFICATION Spec
CONSTANTS
    r1 = r1
    r2 = r2
    a1 = a1
    a2 = a2
    Requests <- MCRequests
    Alarms <- MCAlarms
    RunFaults = FALSE
    RmFaults = TRUE
INVARIANT
    GuiHasDeadline
