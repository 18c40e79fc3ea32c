SPECIFICATION Spec
CONSTANTS
    q1 = q1
    q2 = q2
    Readers <- MCReaders
    Ttl = 2
    Limit = 3
INVARIANTS
    AnswersAreRecent
PROPERTIES
    NeverBlankAgain
