SPECIFICATION Spec
CONSTANTS
  BUFFER = 4
  MaxCmds = 4
  MaxFaults = 1
  Faults <- Drops
  Snapshots <- OneKey
  CapaReplies <- Knows
  UseAuth = FALSE
  Fragment = TRUE
  MaxStarts = 1
INVARIANTS NoCommandTwice
CHECK_DEADLOCK FALSE
