\* Is max_runs the maximum of simultaneous executions?
SPECIFICATION Spec
CONSTANTS
  Requests = {r1, r2}
  Firings = {s1}
  Keys = {a, b}
  NoKey = NoKey
  OptOut = {b}
  MaxConcurrent = 1
  MaxCrashes = 0
INVARIANT WebhookRunsWithinLimit
CHECK_DEADLOCK FALSE
