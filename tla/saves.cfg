SPECIFICATION Spec
CONSTANTS
    Writers = {w1, w2}
    Inodes = {i1, i2, i3}
    NoInode = none
    Profiles = {p, q}
INVARIANT TypeOK NeverTorn AckedSurvives NoTempLeft
PROPERTY ImplementsStore
CHECK_DEADLOCK FALSE
