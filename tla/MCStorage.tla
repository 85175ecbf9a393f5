------------------------------ MODULE MCStorage ------------------------------
(* Storage with torrents that put the bounds of files, pieces and blocks in     *)
(* different places; the last three have a last piece as long as the others.    *)
EXTENDS TorrentFile

Torrent(several, lengths, length, tierCount) ==
  [multi |-> several, files |-> lengths, pieceLength |-> length, tiers |-> tierCount]

SomeTorrents == {
  Torrent(TRUE, <<5>>, 3, 0),
  Torrent(TRUE, <<2, 3>>, 3, 1),
  Torrent(TRUE, <<1, 0, 4>>, 4, 0),
  Torrent(TRUE, <<1, 1, 1, 2>>, 4, 2),
  Torrent(TRUE, <<4, 3>>, 5, 0),
  Torrent(TRUE, <<3, 3>>, 3, 0),
  Torrent(TRUE, <<1, 3>>, 4, 0),
  Torrent(FALSE, <<4>>, 2, 1)}
=============================================================================
