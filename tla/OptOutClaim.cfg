\* Does every alert of a pipeline that opted out of dedup get its own run?
SPECIFICATION Spec
CONSTANTS
  Requests = {r1, r2}
  Firings = {s1}
  Keys = {a, b}
  NoKey = NoKey
  OptOut = {b}
  MaxConcurrent = 2
  MaxCrashes = 0
INVARIANT OptedOutGetTheirOwnRun
CHECK_DEADLOCK FALSE
