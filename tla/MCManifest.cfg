SPECIFICATION Spec
CONSTANTS
  Bad = Bad
  PowersOfTen = {10, 100}
  MaxChunkSize = 3
  MaxChunkCount = 11
  MaxSize = 12
  MaxEdits = 1
INVARIANTS
  TypeOK
  ChunksTileFile
  DigestsAreOfChunks
  RefusesOnlyForLimits
  LoadsWhatWasSaved
CHECK_DEADLOCK FALSE
