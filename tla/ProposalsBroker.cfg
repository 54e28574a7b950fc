SPECIFICATION BrokerSpec
CONSTANTS
  Ids = {1}
  Issues = {1, 2}
  Hour = 2
  MaxPerHour = 1
  RetryAfter = 1
  ExpireAfter = 1
  MaxTime = 2
  MaxEvents = 5
  FaultKinds = {"approver", "no_gh", "search", "create", "herdr", "launch", "store", "crash"}
  MaxFaults = 2
INVARIANTS
  WorkNeedsGrant
  IssuesPerBlindSearch
  OneSeatPerIssue
  NoticeWasAsked
  WorkIsGranted
  ExpiryFollowsOwner
PROPERTY
  ImplementsOwnerApproval
CHECK_DEADLOCK FALSE
