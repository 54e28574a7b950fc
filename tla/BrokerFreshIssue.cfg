SPECIFICATION BrokerSpec
CONSTANTS
  Ids = {1}
  Issues = {1, 2}
  Hour = 1
  MaxPerHour = 1
  RetryAfter = 1
  ExpireAfter = 1
  MaxTime = 1
  MaxEvents = 7
  FaultKinds = {"search", "herdr", "store", "crash"}
  MaxFaults = 0
INVARIANT
  FreshIssuePerCycle
CHECK_DEADLOCK FALSE
