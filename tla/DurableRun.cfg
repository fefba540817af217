\* Five pipelines, two crashes each.  The run may stop: it ends, or an exception
\* leaves its row 'running'.
SPECIFICATION Spec
CONSTANTS
  Pipelines <- MCPipelines
  MaxCrashes = 2
INVARIANT OnlyUnrecordedRepeats
INVARIANT EscalateMeansOnce
INVARIANT GatePassedOnlyByWindowCrash
INVARIANT CompletedAccountsForAll
INVARIANT SkipIsStable
INVARIANT OverrunBounded
INVARIANT ContextMatchesRows
PROPERTY ImplementsLedger
PROPERTY ClosedOrRaised
CHECK_DEADLOCK FALSE
