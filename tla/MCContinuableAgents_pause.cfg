\* One child, two activations of up to two claims, two messages: a paused child whose old thread fails.
SPECIFICATION ChildSpec
CONSTANTS
  Agents = {a1}
  JobIds = {k1, k2}
  MaxAgents = 1
  MaxWorkers = 2
  Nil = Nil
  MaxMessages = 2
  MaxEpoch = 3
  MaxThreads = 2
SYMMETRY JobSymmetry
PROPERTIES PauseHolds
CHECK_DEADLOCK FALSE
