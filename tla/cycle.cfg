SPECIFICATION Spec
CONSTANTS
    Indexes = {0, 1}
    Duties <- EditedDuties
    Modes <- EditedModes
INVARIANT RestoreConverges SaveRestoresToItself
PROPERTY RestoreIsSelective
