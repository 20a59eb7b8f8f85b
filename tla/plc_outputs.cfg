SPECIFICATION FairSpec
CONSTANTS
  Bits = {"left", "right"}
  IdModulus = 3
  VerifyTries = 1
  Limit <- MCLimit
  CallCount = 2
  HmiCount = 1
  MishapCount = 1
INVARIANT TypeOK
INVARIANT ReplyMatchesRequest
INVARIANT StreamClean
INVARIANT VerifiedOutputHolds
PROPERTY RemoteControlRestored
CHECK_DEADLOCK FALSE
