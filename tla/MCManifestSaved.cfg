SPECIFICATION Spec
CONSTANTS
  Bad = Bad
  PowersOfTen = {10, 100}
  MaxChunkSize = 3
  MaxChunkCount = 4
  MaxSize = 4
  MaxEdits = 0
INVARIANT SavedIsComplete
CHECK_DEADLOCK FALSE
