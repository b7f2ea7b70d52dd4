SPECIFICATION Spec
CONSTANTS
    Builders = {b1, b2}
    OldImages = {old}
    None = None
SYMMETRY Symmetry
INVARIANTS
    TypeOK
    LastImageStands
    NameClearedFirst
    SnapshotsAccounted
