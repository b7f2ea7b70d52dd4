SPECIFICATION Spec
CONSTANTS
    sda = sda
    sdb = sdb
    Devices = {sda, sdb}
    OldImages = {old1, old2}
    Configs <- UsualConfigs
INVARIANT AbortedBuildLeavesNoImage
