\* Two attempts, two workers racing for the claim, one model call; at most two
\* requests being served at once.
CONSTANTS
  MaxAttempts = 2
  Workers = {w1, w2}
  Calls = {c1}
  Codes = {"MODEL_RATE_LIMIT", "AGENT_STUCK", "VERIFY_SCOPE_VIOLATION"}
  PauseReasons = {"NOT_REPRODUCED"}
  MaxInFlight = 2
SPECIFICATION Spec
INVARIANTS
  TypeOK
  OneOwner
  StatusAgreement
  OutboxInOrder
  DispatchFunded
  ChargedOnce
  ApprovalBacked
PROPERTIES
  EndIsFinal
  CheckpointsAdvance
  BlockedStaysParked
  TimelineComplete
  ImplementsContract
CONSTRAINT InFlightBounded
SYMMETRY MCSymmetry
CHECK_DEADLOCK FALSE
