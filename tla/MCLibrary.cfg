SPECIFICATION Spec
VIEW View
CONSTANTS
  MaxLit = 2
  LongLen = 3
  Unroll = 2
  OutLens = {2, 4, 6, 8, 10, 30}
  Inputs <- MCInputs
  Radix = 3
  LLMax = 2097151
  Slots = 2
  Bytes <- MCBytes
  Junk = 256
  MaxPrealloc = 3
  StaticBuf = 3
  Texts <- MCTexts
  Sets <- MCSets
  Formats <- MCFormats
  MaxLen = 3
  ByteValues = 16
  Str6Max = 9
  Str14Max = 20
  ImmMax = 1
  LongSize = 5
  CapLen = 3
  MaxEntries = 4
  Counts = {0, 2, 4}
  TakesBack = FALSE
  Elements <- MCElements
  NumFds = 2
  IOBufLen = 20
  Chunk = 6
  MaxCmds = 2
  LongMax = 127
  Cmds <- MCCmds
  LongText <- MCLongText
INVARIANTS Expands Fits Writes Parses Quotes Splits Sound
  TypeOK Linked Indexed Finds Counted
  Delivered LossIsOneChunk ParsesWhole
PROPERTIES ImplementsString ImplementsSeq
CHECK_DEADLOCK FALSE
