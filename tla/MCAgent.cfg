SPECIFICATION MCSpec
CONSTANTS
  Machines = {"lane", "dashboard", "reuse", "value", "recovery", "process"}
  Selections = {"a", "b"}
  Charts = {"time", "project"}
  Pages = {"first", "second"}
  Slots = {"s1", "s2"}
  MaxRevision = 1
  MaxMoves = 1
  MaxForgets = 1
  MaxClicks = 2
  UsageTimes = {1, 6}
  QuotaTimes = {3, 8}
  Percents = {1, 2}
  Readers = {"r1", "r2"}
  JournalLimit = 1
  Horizon = 9
  MaxWrites = 3
  MaxReads = 2
  Tasks = {"t1", "t2"}
  Untimed = {"t2"}
  CandidateLimit = 1
  MaxLines = 2
  MaxGens = 2
  MaxChanges = 2
  Keys = {capture, rebuild}
  Jobs = {j1, j2}
  Priorities = {0, 10, 30}
  StopPriority = 99
  MaxSequence = 4
  None = None
  MaxRecords = 2
  Responses <- SomeResponses
INVARIANTS LaneInv ValuedOnce RecoveredIsThere NothingSurvives
PROPERTIES TakesMostUrgent CloseDrains ImplementsJobLane ShowsWhatWasAsked DashboardCatchesUp ReuseIsExact BoundedWorkEnds
CHECK_DEADLOCK FALSE
