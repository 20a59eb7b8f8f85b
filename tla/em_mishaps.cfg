SPECIFICATION Spec
CONSTANTS
  Axes = {2}
  Ti5 = {2}
  Batches <- MCSingleBatch
  InitStatus = {"FaultReactionActive", "OperationEnabled"}
  Upsets = {"Fault", "QuickStopActive"}
  Limits <- MCMishaps
INVARIANT SwitchExclusive
INVARIANT IdleIsVoltageFree
PROPERTY IdleAfterConfirmation
PROPERTY FaultResetDiscipline
CHECK_DEADLOCK FALSE
