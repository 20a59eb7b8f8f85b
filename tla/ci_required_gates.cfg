SPECIFICATION Spec
CONSTANTS
  AxisProfiles <- MCAxisProfiles
  Roots <- MCRoots
  LongerNames <- MCLongerNames
  MaxDepth = 5
  Paths <- MCPaths
  Traits <- MCTraits
  RequiredSections <- MCRequiredSections
  FilledSections <- MCFilledSections
  RequiredGates <- MCRequiredGates
  Commits <- MCShortened
  Worktrees <- MCWorktrees
  Edits <- MCEdits
  MaxEdits = 2
INVARIANT RequiredGatesKept
