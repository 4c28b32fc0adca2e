\* Jobs: one, background or task, with up to three outputs of which two are
\* kept, two registries in two processes, crashes, recovery.
\* Session: two processes, an events.jsonl of one line that is older than it.
SPECIFICATION AllSpec
CONSTANTS
  j1 = j1  t1 = t1  r1 = r1  r2 = r2  p1 = p1  p2 = p2
  Jobs = {j1, t1}
  TaskJobs = {t1}
  Registries = {r1, r2}
  Processes = {p1, p2}
  ProcessOf <- TwoProcesses
  LeaseSeconds = 1
  MaxWorkers = 1
  KeptOutput = 2
  MaxJobs = 1
  MaxEpoch = 2
  MaxCursor = 3
  MaxTime = 3
  w1 = w1  w2 = w2
  Writers = {w1, w2}
  Keys = {k}
  Legacy = 1
  ReadLimit = 1
  MaxEvents = 3
  None = None  Absent = Absent
SYMMETRY TwoWriters
INVARIANTS
  TypeOK SingleHolder RunningHasThread OutputIsGapFreeAndOrdered StoppedTaskIsSettled
  OncePerKey StateIsLastSet LinesStoredOnce FollowsGapFree
PROPERTIES AuthorityNeverReturns ImplementsFencedJobs ImplementsSessionLog
\* The last job ends, and no process is left to claim one.
CHECK_DEADLOCK FALSE
