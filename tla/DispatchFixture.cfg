\* A fixture run, two attempts, two workers, any one fault.
CONSTANTS
  MaxAttempts = 2
  Workers = {w1, w2}
  Slots = {s1, s2}
  Kinds = {TRUE}
  MaxStream = 2
  MaxFaults = 1
SPECIFICATION Spec
INVARIANT FixtureCommandKept
SYMMETRY MCSymmetry
CHECK_DEADLOCK FALSE
