SPECIFICATION FairSpec
CONSTANTS
  BUFFER = 4
  MaxCmds = 2
  MaxFaults = 2
  Faults <- Live
  Snapshots <- BelowAtOrTwice
  CapaReplies <- MayKnow
  UseAuth = TRUE
  Fragment = FALSE
  MaxStarts = 1
INVARIANTS HeartbeatArmed PayloadLoads
PROPERTIES ShutdownStops CatchesUp AckCatchesUp
CHECK_DEADLOCK FALSE
