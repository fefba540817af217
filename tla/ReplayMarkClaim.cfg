SPECIFICATION MCSpec
CONSTANTS
  s1 = s1
  p1 = p1
  p2 = p2
  None = None
  OptOut = OptOut
  Steps <- MCSteps
  Prompts <- MCPrompts
  Confs <- MCConfs
  Gates = {g1, g2}
  Scale = 10
  BinWidth = 5
  TTL = 1
  K = 2
  Slots = 1
  Names = {"a", "b"}
  Absent = Absent
  Severities = {"critical"}
  MaxEdits = 2
  MaxDeaths = 1
  Files <- MCFiles
  FileOf <- MCFileOf
  StepBodies <- MCStepBodies
  PipeBodies <- MCPipeBodies
CHECK_DEADLOCK FALSE
INVARIANT CandidateCanBeMarked
