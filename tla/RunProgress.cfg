\* Every interleaving of the requests of two attempts: no bound on requests.
\* The worker never reports a failure: attempts end by lease expiry, success,
\* pause or cancellation.
CONSTANTS
  MaxAttempts = 2
  Workers = {w1}
  Calls = {}
  Codes = {}
  PauseReasons = {}
  MaxInFlight = 9
SPECIFICATION FairSpec
PROPERTIES
  EveryAttemptEnds
  RunComesToRest
CHECK_DEADLOCK FALSE
