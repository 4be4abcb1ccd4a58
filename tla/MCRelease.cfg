SPECIFICATION MCSpec
CONSTANTS
  Parts = {"journal", "commands"}
  Runs = {r1, r2}
  Requesters = {}
  Targets = {"mac", "win"}
  Qualifications = {"d1", "d2"}
  Shas = {s1, s2}
  MaxAttempts = 2
  MaxBindings = 2
  MaxChecks = 2
  LocalTargets = {"mac"}
  LocalCheckouts = {"checkout"}
  LocalAttempts = 1
  CheckoutOf <- OneCheckout
  None = None
SYMMETRY Symmetric
INVARIANTS UploadsAreRecorded CommandsAreSafe
PROPERTY ImplementsPublication
CHECK_DEADLOCK FALSE
