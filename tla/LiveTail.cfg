\* One run of each kind, two tails, one crash.
SPECIFICATION Spec
CONSTANTS
  r1 = r1
  t1 = t1
  t2 = t2
  Runs = {r1}
  Tails = {t1, t2}
  MaxEvents = 3
  MaxCrashes = 1
CHECK_DEADLOCK FALSE
INVARIANT TailShowsAll
INVARIANT CompleteShowsLog
INVARIANT NothingLeftBehind
PROPERTY TailCloses
