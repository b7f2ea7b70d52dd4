SPECIFICATION Spec
CONSTANTS
    Values = {v1, v2}
    Statuses <- AllStatuses
INVARIANTS
    CreationKnown
    ReadsAreNarrow
PROPERTIES
    PromiseKept
    CancelEndsCall
