SPECIFICATION Spec
CONSTANTS
  BUFFER = 4
  MaxCmds = 1
  MaxFaults = 2
  Faults <- Anything
  Snapshots <- UpToTwo
  CapaReplies <- MayKnow
  UseAuth = FALSE
  Fragment = TRUE
  MaxStarts = 2
INVARIANTS TypeOK NeverWedged NeverDeaf SnapshotWhole
PROPERTIES FeedsCallback
CHECK_DEADLOCK FALSE
