SPECIFICATION Spec
CONSTANTS
    pwA = pwA
    pwB = pwB
    pwLong = pwLong
    random = random
    none = none
    Passwords <- MCPasswords
    Long <- MCLong
    Random = random
    None = none
    MaxSalt = 3
    MaxKey = 2
    WriteFaults = TRUE
INVARIANT
    SessionsSurviveFailedWrites
