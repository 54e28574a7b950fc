SPECIFICATION FairBrokerSpec
CONSTANTS
  Ids = {1, 2}
  Issues = {1, 2}
  Hour = 2
  MaxPerHour = 1
  RetryAfter = 1
  ExpireAfter = 9
  MaxTime = 2
  MaxEvents = 1
  FaultKinds = {"approver", "search", "create", "herdr", "launch", "store", "crash"}
  MaxFaults = 1
INVARIANTS
  RowTracksOwnIssue
  NoticesWithinCap
PROPERTY
  ApprovedIsSettled
CHECK_DEADLOCK FALSE
