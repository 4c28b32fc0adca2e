\* Two jobs that share one thread, a conversation with one queued message, one
\* restart and one run resumed, approved or verified again, or delegated children
\* that share one slot.
SPECIFICATION AllSpec
CONSTANTS
  j1 = j1  j2 = j2  g1 = g1  p1 = p1  r0 = r0
  Root = r0
  Runs = {r0, f1}
  Messages = {m1}
  None = None
  MaxRestarts = 1
  MaxContinues = 1
PROPERTIES StoppedRunDrains QueueMoves DelegationReturns
CHECK_DEADLOCK FALSE
