\* Both kinds of run, two attempts, two workers, any one fault.
CONSTANTS
  MaxAttempts = 2
  Workers = {w1, w2}
  Slots = {s1}
  Kinds = {TRUE, FALSE}
  MaxStream = 1
  MaxFaults = 1
SPECIFICATION FairSpec
PROPERTIES
  WaitingIsClaimed
  PendingDrains
CHECK_DEADLOCK FALSE
