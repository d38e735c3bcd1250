SPECIFICATION Spec
CONSTANTS
    Devices = {d1}
    NoDev = NoDev
    NetMode = TRUE
    AutoRecord = TRUE
    Upgrade = TRUE
    Services = {"reboot", "bag", "unload"}
    MaxFaults = 1
    MaxEvents = 1
INVARIANT RebootKeepsNode
PROPERTY RecordingFinalizedFirst
CHECK_DEADLOCK FALSE
