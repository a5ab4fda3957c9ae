SPECIFICATION Spec
CONSTANTS
  Words <- MCWords
  Ints <- MCInts
  Nuls <- MCNuls
  Empty = ""
  LIST_MAX = 2
  Saves <- MCSaves
PROPERTY KeepsExpired
CHECK_DEADLOCK FALSE
