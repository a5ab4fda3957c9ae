SPECIFICATION Spec
CONSTANTS
  BUFFER = 4
  MaxCmds = 2
  MaxFaults = 3
  Faults <- RefusalsAndNoise
  Snapshots <- EmptyOnly
  CapaReplies <- Knows
  UseAuth = TRUE
  Fragment = TRUE
  MaxStarts = 1
INVARIANTS NoGap OffsetHonest NeverSkips NeverStuck
PROPERTIES ExactlyOnce
CHECK_DEADLOCK FALSE
