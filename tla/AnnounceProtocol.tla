-------------------------- MODULE AnnounceProtocol --------------------------
(***************************************************************************)
(* What a torrent is promised by its tracker client, whatever the network  *)
(* does: a list of peers, or the news that the client has stopped, is the  *)
(* answer to an announce; an announce needs a connection granted by the    *)
(* tracker since the last time the list was asked for; after stop() there  *)
(* are no more lists, and stopped() answers an announce made after stop(). *)
(***************************************************************************)

VARIABLES
  phase,    \* "off", "connecting" (asked, nothing granted yet) or "announcing"
  closing,  \* has stop() been called?
  out       \* the last that the torrent was told: "none", "list" or "ended"

vars == <<phase, closing, out>>

Init ==
  /\ phase = "off"
  /\ closing = FALSE
  /\ out = "none"

\* The list of peers is asked for, again perhaps.
Fetch == phase' = "connecting" /\ UNCHANGED <<closing, out>>

\* The tracker grants a connection, and the client announces itself.
Grant == phase = "connecting" /\ phase' = "announcing" /\ UNCHANGED <<closing, out>>

\* The announce is answered.
Answer == phase = "announcing" /\ ~closing /\ out' = "list" /\ UNCHANGED <<phase, closing>>

\* stop()
Close == closing' = TRUE /\ phase' = "connecting" /\ UNCHANGED out

\* The last announce is answered.
End == phase = "announcing" /\ closing /\ out' = "ended" /\ UNCHANGED <<phase, closing>>

Next == Fetch \/ Grant \/ Answer \/ Close \/ End

Spec == Init /\ [][Next]_vars
=============================================================================
