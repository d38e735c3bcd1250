SPECIFICATION FairSpec
CONSTANTS
    MaxRows = 2
    MaxRestarts = 1
INVARIANT TypeOK
PROPERTIES LogPromise ShutdownReturns
CHECK_DEADLOCK FALSE
