\* Two one-block pieces, a refetch, a read, a failing read or write, a dumped state that may
\* be stale.
CONSTANTS
  p1 = p1
  p2 = p2
  None = None
  Piece <- TwoPieces
  Slot <- OneSlotEach
  MaxWrites = 3
  MaxReads = 1
  MaxErrors = 1
  StaleDump = TRUE
SPECIFICATION FairSpec
CHECK_DEADLOCK FALSE
PROPERTIES
  ReadsAnswered
  VerdictArrives
