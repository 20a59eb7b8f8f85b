SPECIFICATION Spec
CONSTANTS
  Axes = {1, 2}
  Ti5 = {2}
  Batches <- MCBatches
  InitStatus = {"SwitchOnDisabled"}
  Upsets = {"Fault"}
  Limits <- MCRaces
INVARIANT TypeOK
INVARIANT SwitchExclusive
INVARIANT IdleIsVoltageFree
PROPERTY LaterBatchesHeldOff
PROPERTY ReadyMeansPowered
PROPERTY IdleAfterConfirmation
PROPERTY EmergencyRunsOut
CHECK_DEADLOCK FALSE
