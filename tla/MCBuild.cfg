SPECIFICATION Spec
CONSTANTS
    sda = sda
    sdb = sdb
    Devices = {sda, sdb}
    OldImages = {old1, old2}
    Configs <- AllConfigs
INVARIANTS
    TypeOK
    NoTrackedLeak
    ArtifactIsUsable
    NameTakenStopsBuild
    VolumesSettled
PROPERTIES
    ImageFromStoppedVm
    OldImagesKept
    PromiseKept
    Termination
