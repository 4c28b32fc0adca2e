\* A repair starts a terminal that goes on while the change is verified.
SPECIFICATION Spec
CONSTANTS
  t1 = t1  c1 = c1
  Jobs = {t1, c1}
  Terminals = {t1}
  Specs <- OnlyApproved
  MaxRepairs = 1
  RalphRounds = 2
  MaxEdits = 2
  MaxActivations = 1
  MaxRestarts = 0
PROPERTIES EveryEditIsVerified
CHECK_DEADLOCK FALSE
