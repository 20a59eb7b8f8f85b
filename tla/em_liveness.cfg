SPECIFICATION FairSpec
CONSTANTS
  Axes = {2}
  Ti5 = {2}
  Batches <- MCSingleBatch
  InitStatus = {"SwitchOnDisabled"}
  Upsets = {"Fault"}
  Limits <- MCAbsent
PROPERTY DescentEnds
PROPERTY FaultStopReachesJtc
PROPERTY EnableSequenceEnds
PROPERTY EnableAnswered
PROPERTY DisableTakesEffect
CHECK_DEADLOCK FALSE
