SPECIFICATION FairSpec
CONSTANTS
  c1 = c1
  c2 = c2
  Peer = {c1, c2}
  None = None
  PieceCount = 2
  Slot <- ThreeBlocks
  MaxBlocksInProgress = 2
  MaxBlocksInMultiMode = 1
  WarmUpPieces = 2
  EndgamePieces = 5
  MaxStray = 0
  MaxFailures = 1
PROPERTIES
  DownloadCompletes
CHECK_DEADLOCK FALSE
