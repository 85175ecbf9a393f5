------------------------ MODULE MCTorrentConnections ------------------------
EXTENDS TorrentConnections, TLC

CONSTANTS k1, k2, k3

ConnSymmetry == Permutations({k1, k2, k3})
=============================================================================
