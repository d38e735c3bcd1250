SPECIFICATION Spec
CONSTANTS
  Modes = {"off", "hw"}
  Togglable = {"color"}
  MaxRequests = 2
  MaxFrames = 1
  MaxFaults = 2
INVARIANTS
  TypeOK
  DecodesIntoBuffer
  ColorIsServed
  StartedIsHonest
  RegistrationIsAtomic
  OnlyKnownRaces
  StreamsMoveOn
PROPERTIES
  FilterSwappedStopped
  CleanJoinsColor
  ServicePromise
\* the clients stop asking
CHECK_DEADLOCK FALSE
