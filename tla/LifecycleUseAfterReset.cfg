SPECIFICATION Spec
CONSTANTS
    Devices = {d1}
    NoDev = NoDev
    NetMode = FALSE
    AutoRecord = FALSE
    Upgrade = FALSE
    Services = {}
    MaxFaults = 1
    MaxEvents = 2
INVARIANT NoUseAfterReset
CHECK_DEADLOCK FALSE
