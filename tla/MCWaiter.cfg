SPECIFICATION Spec
CONSTANTS
    Interval = 2
    Timeout = 6
    Latencies = {1, 3}
INVARIANTS
    TypeOK
    EndsInTime
    DecisionNoticed
PROPERTIES
    PromiseKept
    Ends
