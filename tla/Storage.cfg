\* Blocks of two bytes; pieces of one to three blocks, files shorter and longer.
CONSTANTS
  Torrents <- SomeTorrents
  Contents <- ContentsOf
  Reading <- ReadingOf
  BlockSize = 2
  MaxWrong = 1
SPECIFICATION Spec
CHECK_DEADLOCK FALSE
INVARIANTS
  ParsedIsTheTorrent
  BlocksMakeThePiece
  VerifiedIsInPlace
