SPECIFICATION Spec
CONSTANTS
    Fans = {1, 2}
    Headers = {1, 2}
    PwmWritable = {1, 2}
    EnableFile <- OneWithout
    FirmwareDuties = {90}
    PowerOnModes = {0}
    Handlers = {h1}
    Main = main
    Clis = {c1}
    Reporters = {h1}
    Percents = {50}
    MaxCalls = 1
    MaxFaults = 2
    MaxReverts = 0
    InitDisk <- AnyFile
INVARIANT TypeOK ManualRunsAtCommanded SavedSettingsTaken
PROPERTY SaveIsFaithful RestoreGoesOn StepsRunOut ImplementsBoard
CHECK_DEADLOCK FALSE
