SPECIFICATION FileSpec
CONSTANTS
    Target = config
    NoInode = NoInode
    Inodes = {i1, i2, i3}
    Pids = {p1}
    MaxSaves = 3
    MaxStops = 2
SYMMETRY InodeSymmetry
INVARIANTS NeverTruncated AckedSurvives
CHECK_DEADLOCK FALSE
