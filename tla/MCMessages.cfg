\* Two messages after the conversation's first one and one restart; a child with
\* two activations, each with up to two claims, and two messages; or up to four tasks
\* delegated under a cap of two, with one slot and one restart.
SPECIFICATION AllSpec
CONSTANTS
  r0 = r0  f1 = f1  f2 = f2  m1 = m1  m2 = m2  a1 = a1  k1 = k1  k2 = k2  None = None  Nil = Nil
  Root = r0
  Runs = {r0, f1, f2}
  Messages = {m1, m2}
  MaxRestarts = 1
  MaxContinues = 0
  Agents = {a1}
  JobIds = {k1, k2}
  MaxAgents = 1
  MaxWorkers = 2
  MaxMessages = 2
  MaxEpoch = 3
  MaxThreads = 2
  MaxChildren = 2
  MaxDepth = 2
  TreeCap = 2
  ModelSlots = 1
  MaxRequests = 1
  MaxCalls = 2
  MaxDeaths = 1
SYMMETRY Symmetry
INVARIANTS DeliveredOnce CompletedHasRun FifoTurns IdleMeansDrained EndedJobFreesChild ChildrenAreCounted
PROPERTIES StartsInQueueOrder
CHECK_DEADLOCK FALSE
