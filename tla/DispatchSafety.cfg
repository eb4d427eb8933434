\* Both kinds of run, two attempts, two workers, any two faults.
CONSTANTS
  MaxAttempts = 2
  Workers = {w1, w2}
  Slots = {s1, s2}
  Kinds = {TRUE, FALSE}
  MaxStream = 2
  MaxFaults = 2
SPECIFICATION Spec
INVARIANTS
  TypeOK
  ExecutedOnce
  CommandKept
SYMMETRY MCSymmetry
CHECK_DEADLOCK FALSE
