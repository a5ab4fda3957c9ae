SPECIFICATION ZiplistSpec
CONSTANTS
  ByteValues = 16
  Str6Max = 9
  Str14Max = 20
  ImmMax = 1
  LongSize = 5
  CapLen = 3
  MaxEntries = 4
  Counts = {0, 2, 4}
  TakesBack = TRUE
  Elements <- MCElements
PROPERTY InsertionKeeps
CHECK_DEADLOCK FALSE
