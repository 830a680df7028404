SPECIFICATION Spec
CONSTANTS
    None = None
    w1 = w1
    w2 = w2
    Loops <- TwoWorkers
    IdleDelay = 1
    ErrorDelay = 1
    Pendings <- TwoPendings
    Contended <- OlderContended
    FirstDelay = 1
    BaseDelay = 1
    MaxDelay = 2
    Ttl = 5
    MaxAttempts = 3
    LockTimeout = 2
    MaxHeld = 3
    MaxExits = 1
    LeastTime <- LeastTimes
\* Everything may have been answered.
CHECK_DEADLOCK FALSE
INVARIANTS
    TypeOK
    AnsweredAfterItsTerm
    ContentionKeepsNoOneElse
    StopWaitsForTheStepAlone
PROPERTIES
    TermEndsBeforeAttempts
