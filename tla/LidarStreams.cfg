SPECIFICATION Spec
CONSTANTS
  MaxPkts = 3
  MaxFrames = 5
  MaxFaults = 3
INVARIANTS
  TypeOK
  CallbacksOutlived
  TfThreadJoined
  BufferBounded
\* the node has been destroyed
CHECK_DEADLOCK FALSE
