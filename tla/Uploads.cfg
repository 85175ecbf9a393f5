SPECIFICATION UploadsSpec
CONSTANTS
  Clients = {c1, c2, c3}
  Pieces = {p1, p2}
  MaxUploads = 1
INVARIANTS
  PeersKnowOurPieces
  InterestIsTold
  UploadsAreLimited
CHECK_DEADLOCK FALSE
