SPECIFICATION Spec
CONSTANTS
  MaxR = 2
  MaxT = 3
  ReplTimeout = 2
  Sleep = 1
  MaxNow = 6
INVARIANTS IInv GivesUpAfterBurst AcksSilence LeaksSlowly
PROPERTY ComesBack
CHECK_DEADLOCK FALSE
