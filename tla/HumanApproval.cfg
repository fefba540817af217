\* One ask in each of its configurations and over either channel (two
\* clicks or commands, one crash) or in the UI (two crashes).
SPECIFICATION ListenSpec
CONSTANTS
  a1 = a1
  Askers = {a1}
  NoToken = NoToken
  MaxAttempts = 2
  MaxCrashes = 2
  Kinds <- MCKinds
  Setups <- MCSetups
  MaxUpdates = 2
  MaxMailCrashes = 1
INVARIANT ListedIffAwaited
INVARIANT DecisionLostOnlyByFailure
INVARIANT UpdatesActOnce
PROPERTY ImplementsApproval
PROPERTY EveryAskEnds
PROPERTY UpdatesGetHandled
