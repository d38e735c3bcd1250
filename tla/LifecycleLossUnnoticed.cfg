SPECIFICATION FairSpec
CONSTANTS
    Devices = {d1}
    NoDev = NoDev
    NetMode = FALSE
    AutoRecord = FALSE
    Upgrade = FALSE
    Services = {}
    MaxFaults = 1
    MaxEvents = 2
PROPERTY LossIsNoticed
CHECK_DEADLOCK FALSE
