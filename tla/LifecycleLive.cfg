SPECIFICATION FairSpec
CONSTANTS
    Devices = {d1}
    NoDev = NoDev
    NetMode = FALSE
    AutoRecord = FALSE
    Upgrade = TRUE
    Services = {}
    MaxFaults = 1
    MaxEvents = 1
INVARIANTS TypeOK WaitersWillBeWoken
PROPERTIES ResetIsServed AlwaysReconnects FirmwareIsReset
CHECK_DEADLOCK FALSE
