SPECIFICATION Spec
CONSTANTS
    Fans = {1, 2}
    Headers = {1, 2}
    PwmWritable = {1, 2}
    EnableFile <- BothRW
    FirmwareDuties = {90}
    PowerOnModes = {0}
    Handlers = {h1, h2}
    Main = main
    Clis = {}
    Reporters = {}
    Percents = {50}
    MaxCalls = 2
    MaxFaults = 0
    MaxReverts = 0
    InitDisk <- OneSaved
SYMMETRY Symmetry
INVARIANT CommandTakesEffect
PROPERTY NoVerifyAfterCommand
CHECK_DEADLOCK FALSE
