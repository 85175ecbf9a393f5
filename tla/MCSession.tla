------------------------------ MODULE MCSession ------------------------------
(* Session with three torrent files, two of which describe the same torrent. *)
EXTENDS Session

CONSTANTS f1, f2, f3

Files == {f1, f2, f3}
HashOf(f) == IF f = f3 THEN f2 ELSE f
=============================================================================
