SPECIFICATION Spec
CONSTANTS
  N = 4
  Patterns <- AllPatterns
  Tasks <- AllTasks
  BlockSize = 4
  Slack = 1
INVARIANTS
  FillLevels
  LevelsExact
  SolveExact
