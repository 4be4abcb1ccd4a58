SPECIFICATION FairSpec
CONSTANTS
  Operations = {o1, o2}
  Clients = {client}
  Shutdown = shutdown
  None = None
INVARIANT RegistryInv
PROPERTIES
  ImplementsLifecycle
  AcceptedSettles
CHECK_DEADLOCK FALSE
