SPECIFICATION DefaultsSpec
CONSTANTS
    y1 = y1
    y2 = y2
    Yaks = {y1, y2}
    MaxSets = 6
INVARIANTS DefaultsInv ArraysFollowTaps
SYMMETRY YakSymmetry
