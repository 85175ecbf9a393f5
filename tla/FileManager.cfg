\* Three blocks, a refetch, two reads, and a read or write that fails.
CONSTANTS
  p1 = p1
  p2 = p2
  None = None
  Piece <- TwoPieces
  Slot <- ThreeSlots
  MaxWrites = 4
  MaxReads = 2
  MaxErrors = 1
  StaleDump = FALSE
SPECIFICATION Spec
CHECK_DEADLOCK FALSE
INVARIANTS
  NoLostWakeUp
  NoSpuriousFailure
  CompletedPiecesOnDisk
  VerdictFindsPiece
  ServedBlocksAreRight
PROPERTIES
  KeepsContract
