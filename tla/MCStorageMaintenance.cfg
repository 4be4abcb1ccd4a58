SPECIFICATION FairSpec
CONSTANTS
  LaneThread = lane
  Handlers = {h}
  None = None
  MaxWork = 2
  MaxRestarts = 1
INVARIANT MaintenanceInv
PROPERTY EventuallyClean
CHECK_DEADLOCK FALSE
