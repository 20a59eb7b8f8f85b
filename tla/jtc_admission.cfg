SPECIFICATION Spec
CONSTANTS
  Dof = 2
  Positions <- MCPositions
  Ages = {0, 2}
  NaN = NaN
  Goals <- MCGoals
  Tolerance <- MCTolerance
  MaxAge = 1
  MaxAttempts = 2
  MaxCycles = 3
INVARIANT TypeOK
INVARIANT AdmissionInv
PROPERTY SnapshotIsRegister
PROPERTY GoalAnswered
