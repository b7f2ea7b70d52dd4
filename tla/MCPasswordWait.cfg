SPECIFICATION PasswordSpec
INVARIANTS
    PasswordTypeOK
    GoesOnWithPassword
PROPERTIES
    RunEnds
    HelperEnds
