\* Two messages after the first, posted at one time; no restarts.
SPECIFICATION Spec
CONSTANTS
  r0 = r0
  Root = r0
  Runs = {r0, f1, f2}
  Messages = {m1, m2}
  None = None
  MaxRestarts = 0
  MaxContinues = 0
SYMMETRY Symmetry
INVARIANTS OneRunAtATime
CHECK_DEADLOCK FALSE
