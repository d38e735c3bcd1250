SPECIFICATION FairSpec
CONSTANTS
    Devices = {d1}
    NoDev = NoDev
    NetMode = FALSE
    AutoRecord = FALSE
    Upgrade = FALSE
    Services = {"unload"}
    MaxFaults = 1
    MaxEvents = 1
PROPERTY UnloadCompletes
CHECK_DEADLOCK FALSE
