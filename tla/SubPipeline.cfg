\* A child of two steps, two attempts of the step that calls it, two crashes.
SPECIFICATION Spec
CONSTANTS
  ChildSteps = 2
  MaxAttempts = 2
  MaxCrashes = 2
  Confs <- MCConfs
INVARIANT OrphansAreExplained
INVARIANT TwoAtWorkOnlyIfBothResume
INVARIANT PassNeedsACompletedStep
PROPERTY ParentEnds
