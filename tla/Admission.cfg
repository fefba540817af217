\* Two deliveries and a scheduled run racing for a cap of one.  The system may stop.
SPECIFICATION Spec
CONSTANTS
  Requests = {r1, r2}
  Firings = {s1}
  Keys = {a, b}
  NoKey = NoKey
  OptOut = {b}
  MaxConcurrent = 1
  MaxCrashes = 1
INVARIANT OneExecutionPerKey
INVARIANT CapHolds
PROPERTY RowsGetClosed
PROPERTY AcceptedEnds
CHECK_DEADLOCK FALSE
