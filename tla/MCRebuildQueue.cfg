SPECIFICATION MCSpec
CONSTANTS
  Keys = {a, b}
  Threads = {worker, caller}
  Worker = worker
  LateSource = a
  MaxCapture = 1
  MaxEvidence = 1
  None = None
PROPERTIES
  CaptureScopedRetries
  EveryStaleSourceIsTried
CHECK_DEADLOCK FALSE
