SPECIFICATION Spec
CONSTANTS
    Fans = {1, 2}
    Headers = {1, 2}
    PwmWritable = {1}
    EnableFile <- OneReadOnly
    FirmwareDuties = {90}
    PowerOnModes = {1}
    Handlers = {h1}
    Main = main
    Clis = {c1}
    Reporters = {}
    Percents = {50}
    MaxCalls = 2
    MaxFaults = 1
    MaxReverts = 0
    InitDisk <- OneSaved
INVARIANT CommandTakesEffect SavedSettingsTaken
CHECK_DEADLOCK FALSE
