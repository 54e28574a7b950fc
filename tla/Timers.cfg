SPECIFICATION FairSpec
CONSTANTS
  Durations = {1}
  Periods = {2}
  DailyAt = {0}
  WeeklyAt = {2}
  MaxAhead = 2
  Day = 2
  Week = 4
  SummerFrom = 2
  SummerTo = 4
  Shift = 1
  FoldReach = 2
  ScanDays = 6
  Capacity = 1
  History = 1
  MaxTime = 3
  MaxBirths = 2
  MaxSnoozes = 1
  FaultKinds = {"save", "load", "crash"}
  MaxFaults = 2
INVARIANTS
  MemoryIsDurable
  AnnouncedOnce
  NothingSwallowed
  Coalesced
PROPERTY
  HistoryKeepsLatest
  EveryTimerAnnounced
CHECK_DEADLOCK FALSE
