SPECIFICATION LzfSpec
CONSTANTS
  MaxLit = 2
  LongLen = 3
  Unroll = 2
  OutLens = {2, 4, 6, 8, 10, 30}
  Inputs <- MCInputs
INVARIANTS StaysInBuffer
CHECK_DEADLOCK FALSE
