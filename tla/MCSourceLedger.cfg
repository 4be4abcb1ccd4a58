SPECIFICATION FairSpec
CONSTANTS
  Texts <- MCTexts
  Halves = {"half"}
  Inodes = {1, 2}
  None = None
  CaptureQuantum = 1
  SliceQuantum = 1
  MaxWrites = 3
  MaxEpoch = 1
  MaxFailures = 1
INVARIANTS SourceIsSafe
PROPERTIES TrustIsEarned ReadableIsCaptured
CHECK_DEADLOCK FALSE
