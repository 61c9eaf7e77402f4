SPECIFICATION Spec
CONSTANTS
    Fans = {1, 2}
    Headers = {1, 2}
    PwmWritable = {1, 2}
    EnableFile <- OneWithout
    FirmwareDuties = {90}
    PowerOnModes = {0}
    Handlers = {}
    Main = main
    Clis = {}
    Reporters = {}
    Percents = {50}
    MaxCalls = 0
    MaxFaults = 0
    MaxReverts = 0
    InitDisk <- OneSaved
PROPERTY WindowLastsUntilTouched
CHECK_DEADLOCK FALSE
