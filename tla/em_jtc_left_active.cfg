SPECIFICATION Spec
CONSTANTS
  Axes = {2}
  Ti5 = {2}
  Batches <- MCSingleBatch
  InitStatus = {"SwitchOnDisabled"}
  Upsets = {"Fault"}
  Limits <- MCCalls
PROPERTY DisableDeactivatesJtc
CHECK_DEADLOCK FALSE
