--------------------------- MODULE MCFileManager ---------------------------
(***************************************************************************)
(* FileManager on a torrent of two pieces, the last one shorter than the   *)
(* first, as the last piece of a torrent usually is.                       *)
(***************************************************************************)
EXTENDS FileManager

CONSTANTS p1, p2

TwoPieces == {p1, p2}
OneSlotEach == {<<p1, 0>>, <<p2, 0>>}
ThreeSlots == {<<p1, 0>>, <<p1, 1>>, <<p2, 0>>}
=============================================================================
