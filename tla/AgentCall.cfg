\* Two calls, the first retried once.
SPECIFICATION Spec
CONSTANTS
  first = first
  second = second
  Calls = {first, second}
  MaxAttempts = 2
  Worlds <- MCWorlds
INVARIANT SessionsStayInRun
INVARIANT SecondAgentOnlyWhenCut
PROPERTY CallEnds
