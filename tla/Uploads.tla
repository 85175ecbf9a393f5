------------------------------ MODULE Uploads ------------------------------
(***************************************************************************)
(* What a torrent tells its peers: the opening of a connection (handshake, *)
(* list of pieces), the announcement of new pieces, whether it wants their *)
(* pieces, and whether it lets them download (scheduleUploads).            *)
(*                                                                         *)
(* `connections' holds every connection object that connectToPeers() made  *)
(* and removeClient() has not removed: also those that still connect, and  *)
(* those that were refused, which nothing removes.                         *)
(***************************************************************************)
EXTENDS Integers, FiniteSets, Sequences

CONSTANTS
  Clients,      \* connection objects
  Pieces,       \* the pieces of the torrent
  MaxUploads    \* (4)

ASSUME ConstantsAssumption == /\ MaxUploads \in Nat /\ IsFiniteSet(Clients)
                              /\ IsFiniteSet(Pieces) /\ Pieces # {}

VARIABLES
  connections,  \* d->connections, as a set
  socket,       \* state of each client's socket, "new" before it is made
  shaken,       \* clients whose handshake and peer id have come
  completed,    \* d->completedPieces
  has,          \* availablePieces() of each client
  unchoked,     \* clients without the flag ChokingPeer
  interested,   \* clients with the flag InterestedInPeer
  wants,        \* clients with the flag IsInterestedPeer
  told,         \* history: the pieces each client has been told we have
  early         \* history: clients sent an Unchoke by the last schedule before they connected

flags == <<unchoked, interested, wants>>
uploadsVars == <<connections, socket, shaken, completed, has, flags, told, early>>

Seeding == completed = Pieces
Connected == {c \in connections : socket[c] = "connected"}
Seeds == {c \in Clients : has[c] = Pieces}

UploadsInit ==
  /\ connections = {}
  /\ socket = [c \in Clients |-> "new"]
  /\ shaken = {}
  /\ completed \in SUBSET Pieces
  /\ has = [c \in Clients |-> {}]
  /\ unchoked = {}
  /\ interested = {}
  /\ wants = {}
  /\ told = [c \in Clients |-> {}]
  /\ early = {}

-----------------------------------------------------------------------------
(* Connections *)

\* The state of the client objects without those of cs, which are deleted.
Without(cs, f) == [c \in Clients |-> IF c \in cs THEN {} ELSE f[c]]

\* removeClient
RemoveClients(cs) ==
  /\ connections' = connections \ cs
  /\ socket' = [c \in Clients |-> IF c \in cs THEN "closed" ELSE socket[c]]
  /\ shaken' = shaken \ cs
  /\ has' = Without(cs, has)
  /\ wants' = wants \ cs
  /\ interested' = interested \ cs
  /\ told' = Without(cs, told)

\* connectToPeers
ConnectToPeer(c) ==
  /\ socket[c] = "new"
  /\ connections' = connections \cup {c}
  /\ socket' = [socket EXCEPT ![c] = "connecting"]
  /\ UNCHANGED <<shaken, completed, has, flags, told, early>>

\* setupOutgoingConnection: initialize() sends the handshake, sendPieceList() our pieces.
Established(c) ==
  /\ c \in connections
  /\ socket[c] = "connecting"
  /\ socket' = [socket EXCEPT ![c] = "connected"]
  /\ told' = [told EXCEPT ![c] = completed]
  /\ UNCHANGED <<connections, shaken, completed, has, flags, early>>

\* setupIncomingConnection, for the info hash of this torrent; the peer id comes later.
Accept(c) ==
  /\ socket[c] = "new"
  /\ connections' = connections \cup {c}
  /\ socket' = [socket EXCEPT ![c] = "connected"]
  /\ told' = [told EXCEPT ![c] = completed]
  /\ UNCHANGED <<shaken, completed, has, flags, early>>

\* The peer refuses: no slot hears of it.
Refused(c) ==
  /\ socket[c] = "connecting"
  /\ socket' = [socket EXCEPT ![c] = "refused"]
  /\ UNCHANGED <<connections, shaken, completed, has, flags, told, early>>

\* A connection is lost, or a timer aborts it; a refused one is not open any more.
Lost(c) ==
  /\ c \in connections
  /\ socket[c] # "refused"
  /\ RemoveClients({c})
  /\ unchoked' = unchoked \ {c}
  /\ early' = early \ {c}
  /\ UNCHANGED completed

\* processIncomingData: the hash of this torrent and the id of the peer.
HandShake(c) ==
  /\ c \in Connected \ shaken
  /\ shaken' = shaken \cup {c}
  /\ UNCHANGED <<connections, socket, completed, has, flags, told, early>>

-----------------------------------------------------------------------------
(* Pieces *)

\* Fault: only the pieces of the message are looked at, not those it had before.
InterestInNews(c, ps) ==
  interested' = IF ps \subseteq completed THEN interested \ {c} ELSE interested \cup {c}

\* peerPiecesAvailable: sendInterested() or sendNotInterested(), if it is news.  ps: the
\* pieces of the message.
Interest(c, ps) ==
  interested' = IF ps \cup has[c] \subseteq completed THEN interested \ {c}
                                                    ELSE interested \cup {c}

\* HavePacket or BitFieldPacket.  A seeding torrent aborts the connection to a seed.
PiecesAvailable(c, ps) ==
  /\ c \in Connected \cap shaken
  /\ IF has[c] \cup ps = Pieces /\ Seeding
       THEN RemoveClients({c}) /\ unchoked' = unchoked \ {c} /\ early' = early \ {c}
       ELSE /\ has' = [has EXCEPT ![c] = @ \cup ps]
            /\ Interest(c, ps)
            /\ UNCHANGED <<connections, socket, shaken, unchoked, wants, told, early>>
  /\ UNCHANGED completed

\* Fault: only clients that have shown their own pieces are notified.
NotifyKnown(p) == {c \in Connected : p \notin has[c] /\ has[c] # {}}

\* The clients that pieceVerified() notifies of a new piece.
Notify(p) == {c \in Connected : p \notin has[c]}

\* pieceVerified
PieceVerified(p) ==
  /\ p \notin completed
  /\ completed' = completed \cup {p}
  /\ told' = [c \in Clients |-> IF c \in Notify(p) THEN told[c] \cup {p} ELSE told[c]]
  /\ UNCHANGED <<connections, socket, shaken, has, flags, early>>

-----------------------------------------------------------------------------
(* Uploads *)

\* InterestedPacket, NotInterestedPacket
PeerInterest(c) ==
  /\ c \in Connected \cap shaken
  /\ wants' = IF c \in wants THEN wants \ {c} ELSE wants \cup {c}
  /\ UNCHANGED <<connections, socket, shaken, completed, has, unchoked, interested, told,
                 early>>

\* The clients that take part in the race for a slot.
Racing == Connected \ Seeds

\* Fault: a client that still wants pieces keeps its slot.
ToChokeUninterested(top) == ((Racing \ top) \cap unchoked) \ wants

\* The clients that lose the slot they have.
ToChoke(top) == (Racing \ top) \cap unchoked

\* The clients left in allClients: those that were not in the race, and the choked ones
\* that want pieces.
Candidates(top, choked) ==
  connections \ (top \cup choked \cup (Racing \ wants))

\* scheduleUploads: the fastest clients are unchoked, the others are choked, or aborted by
\* chance, and one of allClients is unchoked.
ScheduleUploads ==
  \E top \in SUBSET Racing :
    LET choked == ToChoke(top)
    IN /\ \/ Cardinality(top) = MaxUploads
          \/ Cardinality(top) < MaxUploads /\ top = Racing
       /\ \E aborted \in SUBSET choked, lucky \in SUBSET Candidates(top, choked) :
            /\ Cardinality(lucky) = IF Candidates(top, choked) = {} THEN 0 ELSE 1
            /\ unchoked' = (unchoked \ choked) \cup top \cup lucky
            /\ early' = unchoked' \ Connected
            /\ RemoveClients(aborted)
  /\ UNCHANGED completed

-----------------------------------------------------------------------------
UploadsNext ==
  \/ \E c \in Clients :
       \/ ConnectToPeer(c) \/ Established(c) \/ Accept(c) \/ Refused(c) \/ Lost(c)
       \/ HandShake(c) \/ PeerInterest(c)
       \/ \E ps \in SUBSET Pieces : PiecesAvailable(c, ps)
  \/ \E p \in Pieces : PieceVerified(p)
  \/ ScheduleUploads

UploadsSpec == UploadsInit /\ [][UploadsNext]_uploadsVars

-----------------------------------------------------------------------------
(* Properties *)

\* Every variable has its type.
UploadsTypeOK ==
  /\ connections \subseteq Clients
  /\ socket \in [Clients -> {"new", "connecting", "connected", "refused", "closed"}]
  /\ shaken \subseteq Clients
  /\ completed \subseteq Pieces
  /\ has \in [Clients -> SUBSET Pieces]
  /\ unchoked \subseteq Clients
  /\ interested \subseteq Clients
  /\ wants \subseteq Clients
  /\ told \in [Clients -> SUBSET Pieces]
  /\ early \subseteq Clients

\* A connected peer knows of each piece that we have, or has it itself, whatever the order of
\* connecting, verifying and its own announcements; and nothing is announced that we lack.
PeersKnowOurPieces ==
  \A c \in Clients : /\ told[c] \subseteq completed
                     /\ c \in Connected => completed \subseteq told[c] \cup has[c]

\* A peer with a piece that we lack has been told that we are interested.
InterestIsTold ==
  \A c \in Connected : ~(has[c] \subseteq completed) => c \in interested

\* Apart from clients that were unchoked before they had connected, no more peers download
\* than MaxUploads and the optimistic one.  Unchoked seeds do not count.
UploadsAreLimited == Cardinality((unchoked \cap Connected) \ (Seeds \cup early)) <= MaxUploads + 1
=============================================================================
