SPECIFICATION Spec
CONSTANTS
    Devices = {d1, d2}
    NoDev = NoDev
    NetMode = FALSE
    AutoRecord = FALSE
    Upgrade = FALSE
    Services = {"timers","check"}
    MaxFaults = 1
    MaxEvents = 1
SYMMETRY CameraSymmetry
INVARIANT LocksMoveOn
PROPERTIES KeepsLockPromise SerialIsSticky
CHECK_DEADLOCK FALSE
