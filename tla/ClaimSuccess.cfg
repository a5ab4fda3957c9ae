SPECIFICATION RioSpec
CONSTANTS
  NumFds = 2
  IOBufLen = 20
  Chunk = 6
  MaxCmds = 2
  LongMax = 127
  Cmds <- MCCmds
  LongText <- MCLongText
INVARIANTS SuccessIsWritten
CHECK_DEADLOCK FALSE
