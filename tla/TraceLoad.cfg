\* No fault is needed: the first load alone races the SSE connection.
CONSTANTS
  MaxEvents = 2
  Malformed = {2}
  Ingestors = {i1, i2}
  Transactions = {t1}
  Count = 2
  Take = 1
  MaxFaults = 0
SPECIFICATION Spec
INVARIANT ShownComplete
CHECK_DEADLOCK FALSE
