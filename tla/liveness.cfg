SPECIFICATION FairSpec
CONSTANTS
    Fans = {1}
    Headers = {1, 2}
    PwmWritable = {1}
    EnableFile <- OneFan
    FirmwareDuties = {90}
    PowerOnModes = {0}
    Handlers = {h1}
    Main = main
    Clis = {}
    Reporters = {h1, main}
    Percents = {50}
    MaxCalls = 1
    MaxFaults = 1
    MaxReverts = 1
    InitDisk <- OneSaved
PROPERTY SubscribersCatchUp CallsReturn VerifyRepairs
