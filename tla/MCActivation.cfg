\* Seven parts, one at a time: the bounds of the gate, of three tool calls of which one
\* only reads, called twice at a time, of a terminal activated twice, with one fault,
\* of two versions of a file and three writes, and of six messages of two sizes, the
\* longer of which is spilled; those of the jobs are with their instance.
SPECIFICATION ActivationSpec
CONSTANTS
  c1 = c1  c2 = c2  w1 = w1  w2 = w2  w3 = w3  m1 = m1  m2 = m2
  j1 = j1  j2 = j2  j3 = j3  g1 = g1  p1 = p1
  a1 = a1  a2 = a2  None = None
  Calls = {c1, c2}
  Works = {w1, w2, w3}
  ToolOf <- Tool
  PolicyOf <- Policy
  MaxToolCalls = 1
  MaxRepeat = 1
  GoalCalls = 2
  Messages = {m1, m2}
  MaxActivations = 2
  Callers = {c1, c2}
  Length = 3
  ReadOnly = {2}
  MaxRestarts = 1
  MaxRead = 1
  MaxOutput = 1
  MaxEpoch = 4
  MaxFaults = 1
  Clients = {a1, a2}
  Texts <- Versions
  Size = 7
  Overlap = 1
  MaxWrites = 3
  Limit = 5
  Spilled = 3
  StateSize = 1
  Sizes = {1, 3}
  MaxMessages = 7
SYMMETRY Symmetry
INVARIANTS GateIsSound SteeringReachesOnce ResumesSafely TerminalIsSound FindsWhatIsIndexed RequestKeepsTheTask
PROPERTIES ControlReachesChildren
CHECK_DEADLOCK FALSE
