\* Short messages and calls without results; a limit of five of them.
SPECIFICATION HistorySpec
CONSTANTS
  Limit = 5
  Spilled = 3
  StateSize = 1
  Sizes = {1}
  MaxMessages = 11
INVARIANTS LatestInputStays
CHECK_DEADLOCK FALSE
