SPECIFICATION Spec
CONSTANT Limit = 0
PROPERTY ReadyMeansActive
CHECK_DEADLOCK FALSE
