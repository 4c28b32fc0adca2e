\* A file is indexed again while it is removed.
SPECIFICATION IndexSpec
CONSTANTS
  Clients = {a1, a2}
  Texts <- Versions
  Size = 7
  Overlap = 1
  MaxWrites = 3
INVARIANTS RemovesEveryChunk
CHECK_DEADLOCK FALSE
