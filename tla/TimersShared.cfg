SPECIFICATION SharedSpec
CONSTANTS
  Durations = {1}
  Periods = {}
  DailyAt = {}
  WeeklyAt = {}
  MaxAhead = 2
  Day = 2
  Week = 4
  SummerFrom = 2
  SummerTo = 4
  Shift = 1
  FoldReach = 2
  ScanDays = 6
  Capacity = 1
  History = 1
  MaxTime = 3
  MaxBirths = 1
  MaxSnoozes = 0
  FaultKinds = {"crash"}
  MaxFaults = 1
INVARIANT
  MissedIsReported
CHECK_DEADLOCK FALSE
