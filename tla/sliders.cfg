SPECIFICATION FairSpec
CONSTANTS
    Rows = {1, 2}
    Writable = {1, 2}
    Percents = {39, 60}
    OtherDuties = {101}
    MaxMoves = 3
    MaxOthers = 1
    MaxFaults = 1
INVARIANT TypeOK ThumbIsAsked RestingSliderInForce
PROPERTY SlidersShowTheChip
