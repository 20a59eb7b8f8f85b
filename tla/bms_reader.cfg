SPECIFICATION FairSpec
CONSTANTS
  Frames = 2
  Failures = 2
  FrameTimeout = 2
INVARIANT TypeOK
INVARIANT MessageFromOneFrame
PROPERTY SilenceShows
PROPERTY StopReachesReader
CHECK_DEADLOCK FALSE
