CONSTANTS
    Regions = {"space", "r1", "r2"}
    Space = "space"
    Templates <- AllTemplates
    Records <- AllRecords
    MaxPolls = 2

SPECIFICATION Spec

INVARIANTS
    PrepareSettled
    AcceptedRuns
    HostAsAsked
    VolumesListed

PROPERTIES
    AddressFound
    Unwinds
