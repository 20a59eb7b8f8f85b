SPECIFICATION Spec
CONSTANTS
  AxisProfiles <- MCAxisProfiles
  Roots <- MCRoots
  LongerNames <- MCLongerNames
  MaxDepth = 5
  Paths <- MCPaths
  Traits <- MCTraits
  RequiredSections <- MCRequiredSections
  FilledSections <- MCFilledSections
  RequiredGates <- MCRequiredGates
  Commits <- MCCommits
  Worktrees <- MCWorktrees
  Edits <- MCEdits
  MaxEdits = 2
INVARIANT TypeOK
INVARIANT PassMeansMigrated
INVARIANT StandingFlawReported
INVARIANT GreenRanEveryGate
INVARIANT ContractVerdict
