\* Every kind of task, two control-plane processes, two requests, two tries of
\* a job, three faults.
CONSTANTS
  Processes = {p1, p2}
  Reviewers = {r1, r2}
  Kinds = {"patch", "pull-request", "fixture", "fixture-github"}
  MaxTries = 2
  MaxPrs = 2
  MaxFaults = 3
SPECIFICATION FairSpec
INVARIANTS
  TypeOK
  RowsAgree
  TriesBounded
PROPERTIES
  OutcomeIsFinal
  NoPrAfterPr
  ForeignCommitsKept
  JobSettles
CHECK_DEADLOCK FALSE
