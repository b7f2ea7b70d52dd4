SPECIFICATION Spec
CONSTANTS
    Nets = {net1, net2}
    SubnetIds = {subnet1, subnet2, subnet3}
    Zones = {zone1, zone2}
    MaxFree = 1
    None = None
SYMMETRY Symmetry
INVARIANTS
    SubnetWellChosen
    GroupInNetOfVm
