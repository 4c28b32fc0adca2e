\* One job; an operation that raises an exception without a message.
SPECIFICATION Spec
CONSTANTS
  j1 = j1  r1 = r1  p1 = p1
  Jobs = {j1}
  TaskJobs = {}
  Registries = {r1}
  Processes = {p1}
  ProcessOf <- Alone
  LeaseSeconds = 1
  MaxWorkers = 1
  KeptOutput = 1
  None = None
  MaxJobs = 1
  MaxEpoch = 2
  MaxCursor = 0
  MaxTime = 1
INVARIANTS NoFalseSuccess

CHECK_DEADLOCK FALSE
