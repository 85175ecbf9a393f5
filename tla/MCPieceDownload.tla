-------------------------- MODULE MCPieceDownload --------------------------
EXTENDS PieceDownload, TLC

CONSTANTS c1, c2

\* Piece 0 has two blocks, piece 1 has one; a third piece, as the last, has none.
ThreeBlocks == {<<0, 0>>, <<0, 1>>, <<1, 0>>}
PeerSymmetry == Permutations({c1, c2})
=============================================================================
