\* One schedule, two services, two occurrences, three troubles; one of six
\* tasks; or a fixed workflow with one repair, activated twice again.
SPECIFICATION AllSpec
CONSTANTS
  Schedules = {s1}
  Services = {d1, d2}
  MaxOccurrence = 2
  MaxTroubles = 3
  t1 = t1  c1 = c1  c2 = c2  None = None
  Jobs = {t1, c1, c2}
  Terminals = {t1}
  Specs <- Tasks
  MaxRepairs = 1
  RalphRounds = 2
  MaxEdits = 2
  MaxActivations = 1
  MaxRestarts = 1
  WaysToCheck = {"configured", "needed", "not_needed"}
  FlowRepairs = 1
  FlowEdits = 2
  FlowActivations = 2
INVARIANTS OncePerOccurrence CountedHasRun EndedRunIsSettled IdleGivesSlotBack JobsEndWithTheRun WaitingHasRequest FlowIsSound
PROPERTIES StoppedScheduleHolds DueIsHandled SuccessIsVerified ActivationEnds
CHECK_DEADLOCK FALSE
