SPECIFICATION Spec
CONSTANTS
  Axes = {2}
  Ti5 = {2}
  Batches <- MCSingleBatch
  InitStatus = {"SwitchOnDisabled"}
  Upsets = {"Fault"}
  Limits <- MCServices
PROPERTY DisablePreemptsReset
CHECK_DEADLOCK FALSE
