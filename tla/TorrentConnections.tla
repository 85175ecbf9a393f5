------------------------- MODULE TorrentConnections -------------------------
(***************************************************************************)
(* The run state of one torrent and the connections it owns: TorrentClient *)
(* (start, stop, setPaused, connectToPeers, removeClient ...), the server  *)
(* that accepts connections and hands them over (torrentserver.cpp) and the*)
(* program-wide set that limits them (connectionmanager.cpp).  Sockets are *)
(* added to and removed from RateController together with that set.        *)
(*                                                                         *)
(* Everything runs in the main thread; each action is one event.  A        *)
(* PeerWireClient object is used once.  Pieces are only counted here;      *)
(* PieceDownload has the details, and shows that `Endgame' is not entered. *)
(***************************************************************************)
EXTENDS Integers, Sequences, FiniteSets, SequencesExt

CONSTANTS
  Conn,            \* PeerWireClient objects
  MaxConnections,  \* limit of ConnectionManager (250)
  PieceCount,      \* pieces of the torrent
  MaxPauses        \* bound: pauses by the user or after a file error

ASSUME ConstantsAssumption == /\ IsFiniteSet(Conn)
                              /\ MaxConnections \in Nat
                              /\ PieceCount \in Nat \ {0}
                              /\ MaxPauses \in Nat

VARIABLES
  state,           \* TorrentClientPrivate::state
  connections,     \* TorrentClientPrivate::connections
  link,            \* each PeerWireClient object: "unused", "pending" (without info hash),
                   \* "connecting", "open", "failed", "closed" (removed) or "deleted"
  managed,         \* ConnectionManager::m_connections
  served,          \* how often the torrent is in TorrentServer::clients
  connectingToClients,  \* connectingToClients
  timers,          \* single-shot timers that will call connectToPeers()
  completed,       \* number of completed pieces
  verdicts,        \* pieces whose verification is under way
  verification,    \* the full verification of the worker thread
  tracked,         \* has the tracker client been started?
  removed,         \* has the user removed the torrent (stop)?
  pauses           \* counter of the bound

peerVars == <<connections, link, managed>>
dataVars == <<completed, verdicts, verification, tracked>>
vars == <<state, peerVars, served, connectingToClients, timers, dataVars,
          removed, pauses>>

Active == {"Searching", "Connecting", "WarmingUp", "Downloading", "Seeding"}

\* "failed" is an outgoing connection that was refused: the socket is back in
\* UnconnectedState without having emitted disconnected() or aboutToClose().
Live == {"pending", "connecting", "open"}

Init ==
  /\ state = "Idle"
  /\ connections = <<>>
  /\ link = [c \in Conn |-> "unused"]
  /\ managed = {}
  /\ served = 0
  /\ connectingToClients = FALSE
  /\ timers = 0
  /\ completed \in 0 .. PieceCount
  /\ verdicts = 0
  /\ verification = "none"
  /\ tracked = FALSE
  /\ removed = FALSE
  /\ pauses = 0

-----------------------------------------------------------------------------
(* Closing connections *)

Linked(cs, to) == link' = [c \in Conn |-> IF c \in cs THEN to ELSE link[c]]

\* abort() makes a socket emit aboutToClose(), and so run removeClient(), before
\* it returns, unless the socket is unconnected.
Aborts(c) == link[c] \in {"connecting", "open"}

\* One round of `for (auto client : d->connections) client->abort()'.  The loop
\* has fixed its first and last cell at the start; removeClient() moves the later
\* entries of the list one cell down, and leaves the last cell as it was.
AbortNext(loop, i) ==
  LET c == loop.cells[i]
      at == CHOOSE j \in 1 .. loop.size : loop.cells[j] = c
  IN IF Aborts(c) /\ c \notin loop.visited
       THEN [cells |-> [j \in DOMAIN loop.cells |->
                          IF j \in at .. loop.size - 1 THEN loop.cells[j + 1]
                                                       ELSE loop.cells[j]],
             size |-> loop.size - 1,
             visited |-> loop.visited \cup {c}]
       ELSE [loop EXCEPT !.visited = @ \cup {c}]

\* The connections that such a loop visits.
Visited ==
  LET loop[i \in 0 .. Len(connections)] ==
        IF i = 0
          THEN [cells |-> connections, size |-> Len(connections), visited |-> {}]
          ELSE AbortNext(loop[i - 1], i)
  IN loop[Len(connections)].visited

\* Fault: the flag is raised without starting the timer.
RaiseFlagOnly == connectingToClients' = TRUE /\ UNCHANGED timers

\* callPeerConnector
CallPeerConnector ==
  IF connectingToClients
    THEN UNCHANGED <<connectingToClients, timers>>
    ELSE connectingToClients' = TRUE /\ timers' = timers + 1

\* Fault: the connection keeps its place in the connection manager.
LeaveManaged(c) ==
  /\ connections' = RemoveFirst(connections, c)
  /\ Linked({c}, "closed")
  /\ UNCHANGED managed

\* removeClient: forget the connection, which is in the list once at most, and delete
\* it later.
RemoveClient(c) ==
  /\ connections' = RemoveFirst(connections, c)
  /\ managed' = managed \ {c}
  /\ Linked({c}, "closed")

\* An open or connecting connection ends: the peer closes it, it times out, or the
\* torrent aborts it (a full seed while seeding, an empty block, the choker).
Close(c) ==
  /\ Aborts(c)
  /\ RemoveClient(c)
  /\ CallPeerConnector
  /\ UNCHANGED <<state, served, dataVars, removed, pauses>>

\* The event loop deletes what deleteLater() was called for.
DeferredDelete(c) ==
  /\ link[c] = "closed"
  /\ Linked({c}, "deleted")
  /\ UNCHANGED <<state, connections, managed, served, connectingToClients, timers,
                 dataVars, removed, pauses>>

-----------------------------------------------------------------------------
(* Outgoing connections *)

\* Fault: the limit is taken for the last number that is still refused.
RoomForOneMore == MaxConnections - Cardinality(managed) + 1

\* canAddConnection
Room == MaxConnections - Cardinality(managed)

\* connectToPeers, in the state st: any number of new connections, as chance and
\* the list of known peers have it, while the limit is not reached.
ConnectToPeers(st) ==
  /\ connectingToClients' = FALSE
  /\ IF st \in {"Stopping", "Idle", "Paused"}
       THEN state' = st /\ UNCHANGED peerVars
       ELSE /\ state' = IF st = "Searching" THEN "Connecting" ELSE st
            /\ \E new \in SUBSET {c \in Conn : link[c] = "unused"} :
                 /\ Cardinality(new) <= Room \/ new = {}
                 /\ \E list \in SetToSeqs(new) : connections' = connections \o list
                 /\ managed' = managed \cup new
                 /\ Linked(new, "connecting")

\* The timer of callPeerConnector fires.
PeerConnectorTimer ==
  /\ timers > 0
  /\ timers' = timers - 1
  /\ ConnectToPeers(state)
  /\ UNCHANGED <<served, dataVars, removed, pauses>>

\* addToPeerList: the tracker has answered.
AddToPeerList ==
  /\ tracked
  /\ \/ /\ state \in {"Searching", "WarmingUp"}
        /\ ConnectToPeers(state)
        /\ UNCHANGED timers
     \/ /\ state \in (Active \ {"Searching", "WarmingUp"}) \cup {"Preparing"}
        /\ CallPeerConnector
        /\ UNCHANGED <<state, peerVars>>
  /\ UNCHANGED <<served, dataVars, removed, pauses>>

\* The state of a torrent that has just got a connection.
StateWithPeer ==
  IF state \in {"Searching", "Connecting"} /\ completed = 0 THEN "WarmingUp" ELSE state

\* setupOutgoingConnection
Established(c) ==
  /\ link[c] = "connecting"
  /\ Linked({c}, "open")
  /\ state' = StateWithPeer
  /\ UNCHANGED <<connections, managed, served, connectingToClients, timers,
                 dataVars, removed, pauses>>

\* The peer refuses: no signal that the torrent listens to.
Refused(c) ==
  /\ link[c] = "connecting"
  /\ Linked({c}, "failed")
  /\ UNCHANGED <<state, connections, managed, served, connectingToClients, timers,
                 dataVars, removed, pauses>>

-----------------------------------------------------------------------------
(* Incoming connections *)

\* TorrentServer::incomingConnection; without room, or a torrent to serve, the
\* new object is deleted at once.
IncomingConnection(c) ==
  /\ link[c] = "unused"
  /\ Room > 0
  /\ served > 0
  /\ managed' = managed \cup {c}
  /\ Linked({c}, "pending")
  /\ UNCHANGED <<state, connections, served, connectingToClients, timers, dataVars,
                 removed, pauses>>

\* TorrentServer::removeClient, after an error, a time out or a hash of no torrent.
ServerRemoveClient(c) ==
  /\ link[c] = "pending"
  /\ managed' = managed \ {c}
  /\ Linked({c}, "closed")
  /\ UNCHANGED <<state, connections, served, connectingToClients, timers, dataVars,
                 removed, pauses>>

\* processInfoHash with this torrent's hash, and setupIncomingConnection.
ProcessInfoHash(c) ==
  /\ link[c] = "pending"
  /\ served > 0
  /\ state \in Active
  /\ connections' = Append(connections, c)
  /\ Linked({c}, "open")
  /\ state' = StateWithPeer
  /\ UNCHANGED <<managed, served, connectingToClients, timers, dataVars, removed,
                 pauses>>

-----------------------------------------------------------------------------
(* Blocks and verifications, as far as they change the state *)

\* blockReceived, for a missing piece: from any connection whose signals are still
\* connected.  The block may be the last one of its piece.
BlockReceived(c) ==
  /\ link[c] = "open"
  /\ verification = "done"
  /\ completed + verdicts < PieceCount
  /\ state' = IF state \notin {"Downloading", "Paused"} /\ completed > 0
                THEN "Downloading" ELSE state
  /\ verdicts' \in {verdicts, verdicts + 1}
  /\ UNCHANGED <<peerVars, served, connectingToClients, timers, completed,
                 verification, tracked, removed, pauses>>

\* Fault: the last piece is not counted.
VerifiedTooLate ==
  /\ verdicts > 0
  /\ verdicts' = verdicts - 1
  /\ completed' = completed + 1
  /\ state' = IF completed = PieceCount THEN "Seeding"
              ELSE IF completed' = 1 THEN "Downloading" ELSE state
  /\ UNCHANGED <<peerVars, served, connectingToClients, timers, verification,
                 tracked, removed, pauses>>

\* pieceVerified(true); it does not look at the state.
PieceVerified ==
  /\ verdicts > 0
  /\ verdicts' = verdicts - 1
  /\ completed' = completed + 1
  /\ state' = IF completed' = PieceCount THEN "Seeding"
              ELSE IF completed' = 1 THEN "Downloading" ELSE state
  /\ UNCHANGED <<peerVars, served, connectingToClients, timers, verification,
                 tracked, removed, pauses>>

\* pieceVerified(false)
PieceFailed ==
  /\ verdicts > 0
  /\ verdicts' = verdicts - 1
  /\ UNCHANGED <<state, peerVars, served, connectingToClients, timers, completed,
                 verification, tracked, removed, pauses>>

\* fullVerificationDone: a dumped state is believed, otherwise the files decide.
\* The server may fail to listen, and the torrent is left as it is.
FullVerificationDone ==
  /\ verification = "running"
  /\ verification' = "done"
  /\ completed' \in IF completed > 0 THEN {completed} ELSE 0 .. PieceCount
  /\ \/ /\ state' = IF completed' = PieceCount THEN "Seeding" ELSE "Searching"
        /\ tracked' = TRUE
     \/ UNCHANGED <<state, tracked>>
  /\ UNCHANGED <<peerVars, served, connectingToClients, timers, verdicts, removed,
                 pauses>>

-----------------------------------------------------------------------------
(* The user *)

Start ==
  /\ state = "Idle"
  /\ ~removed
  /\ served' = served + 1
  /\ state' = "Preparing"
  /\ verification' = "running"
  /\ UNCHANGED <<peerVars, connectingToClients, timers, completed, verdicts, tracked,
                 removed, pauses>>

\* removeClient() runs for every visited connection that is not unconnected.
AbortedAmong(cs) == {c \in cs : Aborts(c)}

AbortCalls(cs) ==
  IF AbortedAmong(cs) = {}
    THEN UNCHANGED <<connectingToClients, timers>>
    ELSE CallPeerConnector

\* setPaused(true)
Pause ==
  /\ state' = "Paused"
  /\ managed' = managed \ AbortedAmong(Visited)
  /\ Linked(AbortedAmong(Visited), "closed")
  /\ AbortCalls(Visited)
  /\ connections' = <<>>
  /\ served' = 0
  /\ pauses < MaxPauses
  /\ pauses' = pauses + 1
  /\ UNCHANGED <<dataVars, removed>>

\* The play/pause button and the pause action of the window.
UserPauses == ~removed /\ state \in {"Downloading", "Seeding"} /\ Pause

\* handleFileError; a read that fails during the full verification does not end it.
HandleFileError == verification # "none" /\ state # "Paused" /\ Pause

\* setPaused(false), by the same button.
Resume ==
  /\ ~removed
  /\ state = "Paused"
  /\ ConnectToPeers(IF completed = PieceCount THEN "Seeding" ELSE "Searching")
  /\ served' = served + 1
  /\ UNCHANGED <<timers, dataVars, removed, pauses>>

\* Fault: the server still hands connections to the stopped torrent.
StopServed ==
  /\ ~removed
  /\ removed' = TRUE
  /\ managed' = managed \ Visited
  /\ Linked(AbortedAmong(Visited), "closed")
  /\ AbortCalls(Visited)
  /\ connections' = <<>>
  /\ state' = IF state \in Active THEN "Stopping" ELSE "Idle"
  /\ UNCHANGED <<served, dataVars, pauses>>

\* The slot setStop of the model: stop() the client and drop it from the list.  The tracker's
\* stopped() does not change the state: nothing calls trackerStopped().
Stop ==
  /\ ~removed
  /\ state # "Idle"
  /\ removed' = TRUE
  /\ served' = 0
  /\ managed' = managed \ Visited
  /\ Linked(AbortedAmong(Visited), "closed")
  /\ AbortCalls(Visited)
  /\ connections' = <<>>
  /\ state' = IF state \in Active THEN "Stopping" ELSE "Idle"
  /\ UNCHANGED <<dataVars, pauses>>

-----------------------------------------------------------------------------
Next ==
  \/ \E c \in Conn : \/ Close(c) \/ DeferredDelete(c)
                     \/ Established(c) \/ Refused(c)
                     \/ IncomingConnection(c) \/ ServerRemoveClient(c)
                     \/ ProcessInfoHash(c) \/ BlockReceived(c)
  \/ PeerConnectorTimer \/ AddToPeerList
  \/ PieceVerified \/ PieceFailed \/ FullVerificationDone
  \/ Start \/ UserPauses \/ HandleFileError \/ Resume \/ Stop

Spec == Init /\ [][Next]_vars

-----------------------------------------------------------------------------
(* Properties *)

Owned == {connections[i] : i \in DOMAIN connections}

\* The limit of ConnectionManager is on everything that is connected or tries to:
\* a connection the abort loops overlook is still counted, and one that is handed
\* over from the server to the torrent is counted all the time.
LimitCountsEveryConnection ==
  /\ Cardinality(managed) <= MaxConnections
  /\ \A c \in Conn : link[c] \in Live => c \in managed

\* No list holds a pointer to an object that is deleted or soon will be.
NoDanglingPointer ==
  \A c \in Conn : link[c] \in {"closed", "deleted"} => c \notin managed \cup Owned

\* connectingToClients never stays set without a timer that will clear it: else no
\* closed connection would ever be replaced.
ReconnectIsOnItsWay == connectingToClients => timers > 0

\* Once its pieces are known an active torrent seeds when all of them are complete,
\* and only then, in whatever order pauses, verdicts and connections come.
SeedingWhenComplete ==
  state \in Active /\ tracked => (state = "Seeding" <=> completed = PieceCount)

\* A torrent is offered to incoming connections at most once, and never again once
\* it was removed or while it is paused.
ServedAtMostOnce ==
  /\ served <= 1
  /\ removed \/ state = "Paused" => served = 0

\* torrentclient.cpp:429: "Abort all connections, and set the max number of
\* connections to 0."  A paused torrent has no connection left.
PausedIsDisconnected ==
  state = "Paused" => \A c \in Conn : link[c] \notin {"connecting", "open"}
=============================================================================
