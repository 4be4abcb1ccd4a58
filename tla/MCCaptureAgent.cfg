SPECIFICATION MCSpec
CONSTANTS
  Scheduler = scheduler
  Worker = worker
  Callers = {caller}
  Jobs = {j1, j2, j3, j4}
  None = None
  MaxParts = 2
  MaxChanges = 1
  MaxRequests = 1
  MaxFailures = 1
  MaxSettings = 1
INVARIANT CapturesAreSerial
 
CHECK_DEADLOCK FALSE
