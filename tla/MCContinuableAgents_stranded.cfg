\* One child, two activations of up to two claims, two messages: a child whose job is cancelled or lost before it
\* began, under a serving supervisor.
SPECIFICATION ChildSpec
CONSTANTS
  Agents = {a1}
  JobIds = {k1, k2}
  MaxAgents = 1
  MaxWorkers = 2
  Nil = Nil
  MaxMessages = 2
  MaxEpoch = 3
  MaxThreads = 2
SYMMETRY JobSymmetry
INVARIANTS RunningChildConsumes
CHECK_DEADLOCK FALSE
