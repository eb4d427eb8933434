\* A fixture task and two requests about its approval.
CONSTANTS
  Processes = {p1, p2}
  Reviewers = {r1, r2}
  Kinds = {"fixture"}
  MaxTries = 2
  MaxPrs = 2
  MaxFaults = 2
SPECIFICATION Spec
PROPERTY DecidedOnce
CHECK_DEADLOCK FALSE
