\* Two pipelines, one crash.
SPECIFICATION RerunSpec
CONSTANTS
  Pipelines <- MCRerunPipelines
  MaxCrashes = 1
INVARIANT EarlierStepsStayUnexecuted
CHECK_DEADLOCK FALSE
