SPECIFICATION Spec
CONSTANTS
  c1 = c1
  c2 = c2
  Peer = {c1, c2}
  None = None
  PieceCount = 3
  Slot <- ThreeBlocks
  MaxBlocksInProgress = 3
  MaxBlocksInMultiMode = 2
  WarmUpPieces = 2
  EndgamePieces = 5
  MaxStray = 1
  MaxFailures = 1
SYMMETRY PeerSymmetry
INVARIANTS
  PayloadsPointToPendingPieces
  VerdictFindsFullPiece
  NoOrphanRequest
  QuotaRespected
  NoEndgame
CHECK_DEADLOCK FALSE
