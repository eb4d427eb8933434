\* An event and a malformed one, two processes, one synthetic event, one fault.
CONSTANTS
  MaxEvents = 2
  Malformed = {2}
  Ingestors = {i1, i2}
  Transactions = {t1}
  Count = 2
  Take = 1
  MaxFaults = 1
SPECIFICATION FairSpec
INVARIANTS
  TypeOK
  StoredOnce
  NothingBehind
PROPERTY EmittedIsReceived
CHECK_DEADLOCK FALSE
