SPECIFICATION FairSpec
CONSTANTS
  Words <- MCWords
  Ints <- MCInts
  Nuls <- MCNuls
  Empty = ""
  LIST_MAX = 2
  Saves <- MCSaves
INVARIANTS TypeOK
PROPERTIES FeedsDump LoadEnds
CHECK_DEADLOCK FALSE
