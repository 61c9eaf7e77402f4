SPECIFICATION Spec
CONSTANTS
    Fans = {1}
    Headers = {1, 2}
    PwmWritable = {1}
    EnableFile <- OneFan
    FirmwareDuties = {90}
    PowerOnModes = {0}
    Handlers = {h1}
    Main = main
    Clis = {}
    Reporters = {}
    Percents = {50}
    MaxCalls = 1
    MaxFaults = 0
    MaxReverts = 0
    InitDisk <- OneSaved
PROPERTY VerifyNeverFightsSlider
CHECK_DEADLOCK FALSE
