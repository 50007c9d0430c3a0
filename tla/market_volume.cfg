SPECIFICATION Spec
CONSTANTS
    c1 = c1
    c2 = c2
    Coins = {c1, c2}
    Volumes = {1}
    MaxTime = 1
    MaxFaults = 1
INVARIANTS
    StoredVolumeServed
