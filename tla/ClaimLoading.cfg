SPECIFICATION Spec
CONSTANTS
  BUFFER = 8
  MaxCmds = 0
  MaxFaults = 1
  Faults <- Boots
  Snapshots <- OneKey
  CapaReplies <- Knows
  UseAuth = FALSE
  Fragment = FALSE
  MaxStarts = 1
PROPERTIES LoadingHandled
CHECK_DEADLOCK FALSE
