SPECIFICATION Spec
CONSTANTS
  Filters = {"threshold", "hardware"}
  DeviceOn = {"hardware"}
  LaunchOn = {"threshold"}
  Values = {"v1"}
  MaxRequests = 2
  MaxFrames = 1
  MaxFaults = 1
INVARIANTS
  TypeOK
  StatusHonest
  AnswerKept
  RejectedHarmless
  EnabledWorks
  FrameFollowsThreshold
  NoLeftover
CHECK_DEADLOCK FALSE
