SPECIFICATION Spec
CONSTANTS
    Callers = {runner, password, connect}
    Lifetimes <- ShortLives
    Margin = 2
    MaxLatency = 1
    MaxPause = 1
    MaxHold = 4
    MaxTime = 9
INVARIANTS
    TypeOK
    ShortCallsAuthorised
PROPERTIES
    PromiseKept
    Answered
