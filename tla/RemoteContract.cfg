\* One embedding call.
CONSTANTS
  None = None
  Clients = {"embed"}
  MaxAttempts <- MCMaxAttempts
  MaxWait = 10
  Announced <- MCAnnounced
  MaxCalls = 1
SPECIFICATION Spec
CHECK_DEADLOCK FALSE
INVARIANT BreachesAreRemoteCallErrors
