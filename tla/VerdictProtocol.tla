-------------------------- MODULE VerdictProtocol --------------------------
(***************************************************************************)
(* The contract between a torrent and its disk thread about the pieces.    *)
(* Once the content has been checked, the torrent asks for a verdict on a  *)
(* piece that is neither complete nor awaiting one; the disk thread gives  *)
(* one verdict for each time it was asked, in any order, and only a piece  *)
(* that passed becomes complete.  After closing nothing is answered.       *)
(***************************************************************************)
CONSTANT Piece

VARIABLES
  phase,     \* "checking" the content, "open" to peers, or "closed"
  complete,  \* the pieces the torrent counts as complete
  awaited    \* the pieces that a verdict was asked for and has not come

vars == <<phase, complete, awaited>>

Init ==
  /\ phase = "checking"
  /\ complete = {}
  /\ awaited = {}

\* The result of the full verification.
Open ==
  /\ phase = "checking"
  /\ phase' = "open"
  /\ complete' \in SUBSET Piece
  /\ UNCHANGED awaited

Ask(p) ==
  /\ phase = "open"
  /\ p \notin complete \cup awaited
  /\ awaited' = awaited \cup {p}
  /\ UNCHANGED <<phase, complete>>

Verdict(p) ==
  /\ phase = "open"
  /\ p \in awaited
  /\ awaited' = awaited \ {p}
  /\ UNCHANGED phase

Pass(p) == Verdict(p) /\ complete' = complete \cup {p}

Fail(p) == Verdict(p) /\ UNCHANGED complete

Close ==
  /\ phase' = "closed"
  /\ UNCHANGED <<complete, awaited>>

Next ==
  \/ Open
  \/ \E p \in Piece : Ask(p) \/ Pass(p) \/ Fail(p)
  \/ Close

Spec == Init /\ [][Next]_vars

\* The same from the moment the content has been checked.
OpenInit ==
  /\ phase = "open"
  /\ complete \in SUBSET Piece
  /\ awaited = {}

OpenSpec == OpenInit /\ [][Next]_vars
=============================================================================
