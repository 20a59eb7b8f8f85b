SPECIFICATION Spec
CONSTANT Limit = 1
INVARIANT TypeOK
INVARIANT CleanMeansDown
INVARIANT HardwareLast
PROPERTY SignalEndsLaunch
PROPERTY FailedStartStaysDown
CHECK_DEADLOCK FALSE
