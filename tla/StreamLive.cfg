SPECIFICATION FairSpec
CONSTANTS
  Modes = {"off"}
  Togglable = {"color"}
  MaxRequests = 1
  MaxFrames = 2
  MaxFaults = 1
PROPERTIES
  EveryoneReturns
  QueueDrains
\* the clients stop asking
CHECK_DEADLOCK FALSE
