SPECIFICATION FairSpec
CONSTANTS
    Stems = {"CPU", "FAN1", "FAN2"}
    FanStem <- MCFanStem
    Unit = unit
    Hand = {shell}
    Paths = {hwmon3, hwmon4}
    Fans = {1, 2}
    Example <- MCExample
    Edits <- MCEdits
    ChipWait = 1
    RetryEach = 1
    StartTimeout = 3
    RestartSec = 2
    MaxLoads = 2
    MaxWrites = 2
    MaxStops = 1
    MaxSets = 1
INVARIANT TypeOK StartTimeoutUnused OneDaemonServes
PROPERTY NamesLeadBack ComesUp
