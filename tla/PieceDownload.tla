--------------------------- MODULE PieceDownload ---------------------------
(***************************************************************************)
(* How TorrentClient downloads the pieces of a torrent from its peers      *)
(* (torrentclient.cpp): which piece a connection works on (payloads), which*)
(* blocks are asked, done and awaited, and when a piece is verified.       *)
(*                                                                         *)
(* Everything runs in the main thread, one event at a time.  A handler that*)
(* ends in requestMore(), and the loop of scheduleDownloads(), take several*)
(* steps here; no other event is handled before they are over (`Idle').    *)
(*                                                                         *)
(* The file manager is seen through its two calls: a verification that is  *)
(* asked for is answered once, later, with either verdict.  A connection is*)
(* a PeerWireClient object, so it is opened and closed at most once.       *)
(***************************************************************************)
EXTENDS Integers, Sequences, FiniteSets, FiniteSetsExt

CONSTANTS
  Peer,                  \* PeerWireClient objects
  None,                  \* no connection, no piece
  PieceCount,            \* number of pieces of the torrent
  Slot,                  \* blocks: pairs of a piece and a position inside it; a last
                         \* piece as long as the others has none (see WithBlocks)
  MaxBlocksInProgress,   \* requests per connection (5)
  MaxBlocksInMultiMode,  \* the same while warming up or finishing (2)
  WarmUpPieces,          \* pending pieces that end the spreading of warm-up (4)
  EndgamePieces,         \* missing pieces below which the endgame may start (5)
  MaxStray,              \* bound: blocks sent that are not awaited
  MaxFailures            \* bound: verifications that fail

Piece == 0 .. PieceCount - 1

ASSUME PieceCountAssumption == PieceCount \in Nat \ {0}
ASSUME SlotAssumption == Slot \subseteq Piece \X Nat /\ IsFiniteSet(Slot)
ASSUME NoneAssumption == None \notin Peer /\ None \notin Piece
ASSUME QuotaAssumption == /\ MaxBlocksInProgress \in Nat \ {0}
                          /\ MaxBlocksInMultiMode \in 1 .. MaxBlocksInProgress
                          /\ WarmUpPieces \in Nat /\ EndgamePieces \in Nat
                          /\ MaxStray \in Nat /\ MaxFailures \in Nat

VARIABLES
  state,            \* TorrentClientPrivate::state
  completed,        \* completedPieces; incompletePieces is its complement
  live,             \* keys of pendingPieces
  inProgress,       \* pieces with IsInProgress
  done,             \* CompletedBlocks of the pending pieces
  asked,            \* RequestedBlocks of the pending pieces
  connections,      \* connections
  payloads,         \* payloads: per connection, newest first
  choked,           \* connections that choke us (ChokedByPeer)
  available,        \* availablePieces() per connection
  incoming,         \* incomingBlocks(): how often each block is awaited
  used,             \* connections opened so far
  verifying,        \* verifications asked for and not answered, per piece
  schedulerCalled,  \* schedulerCalled: a scheduleDownloads() event is queued
  toSchedule,       \* connections scheduleDownloads() has still to visit
  asking,           \* requestMore() under way, or None
  stray, failures   \* counters of the bounds

pieceVars == <<completed, live, inProgress, done, asked>>
peerVars  == <<connections, choked, available, used>>
envVars   == <<stray, failures>>
vars == <<state, pieceVars, peerVars, payloads, incoming, verifying,
          schedulerCalled, toSchedule, asking, envVars>>

SlotsOf(p) == {s \in Slot : s[1] = p}

\* The last piece is total % pieceLength bytes long for FileManager: none, and so no
\* blocks, when all the pieces are equally long.
WithBlocks == {p \in Piece : SlotsOf(p) # {}}

Incomplete == Piece \ completed
NoRequests == [s \in Slot |-> 0]

\* Several connections may ask for the same blocks.
MultiMode(st) == st \in {"WarmingUp", "Endgame"}
Quota(st) == IF MultiMode(st) THEN MaxBlocksInMultiMode ELSE MaxBlocksInProgress

\* incomingBlocks().size(): every block as often as it is awaited.
Awaited(blocks) == Cardinality(UNION {{s} \X (1 .. blocks[s]) : s \in Slot})

PiecesOf(list) == {list[i] : i \in DOMAIN list}

\* The entries of a list that are in a set, in their order.
Among(list, set) ==
  LET among[i \in 0 .. Len(list)] ==
        IF i = 0 THEN <<>>
                 ELSE among[i - 1] \o IF list[i] \in set THEN <<list[i]>> ELSE <<>>
  IN among[Len(list)]

WithoutPiece(list, p) == Among(list, Piece \ {p})

Idle == toSchedule = {} /\ asking = None

(***************************************************************************)
(* fullVerificationDone has run: completed pieces are known, partial pieces*)
(* of the dumped state are pending, nobody is connected yet.               *)
(***************************************************************************)
Init ==
  /\ completed \in SUBSET Piece
  /\ done \in SUBSET {s \in Slot : s[1] \notin completed}
  /\ \A p \in WithBlocks : ~(SlotsOf(p) \subseteq done)
  /\ live = {s[1] : s \in done}
  /\ state = IF completed = Piece THEN "Seeding" ELSE "Searching"
  /\ inProgress = {}
  /\ asked = {}
  /\ connections = {}
  /\ payloads = [c \in Peer |-> <<>>]
  /\ choked = Peer
  /\ available = [c \in Peer |-> {}]
  /\ incoming = [c \in Peer |-> NoRequests]
  /\ used = {}
  /\ verifying = [p \in Piece |-> 0]
  /\ schedulerCalled = FALSE
  /\ toSchedule = {}
  /\ asking = None
  /\ stray = 0
  /\ failures = 0

-----------------------------------------------------------------------------
(* Connections come and go *)

\* The test that is to start the endgame.
NearlyDone ==
  /\ Cardinality(Incomplete) < EndgamePieces
  /\ Cardinality(live) > Cardinality(Incomplete)

\* setupIncomingConnection and setupOutgoingConnection.
Connect(c) ==
  /\ Idle
  /\ c \notin used
  /\ used' = used \cup {c}
  /\ connections' = connections \cup {c}
  /\ state' = CASE state # "Searching" -> state
                [] completed = {} -> "WarmingUp"
                [] NearlyDone -> "Endgame"
                [] OTHER -> state
  /\ UNCHANGED <<pieceVars, choked, available, payloads, incoming, verifying,
                 schedulerCalled, toSchedule, asking, envVars>>

\* Fault: the payloads of the connection are not erased.
KeepPayloads(c) ==
  /\ inProgress' = inProgress \ PiecesOf(payloads[c])
  /\ asked' = {s \in asked : s[1] \notin PiecesOf(payloads[c])}
  /\ incoming' = [incoming EXCEPT ![c] = NoRequests]
  /\ UNCHANGED payloads

\* Fault: the blocks asked from the connection stay marked as requested.
KeepAsked(c) ==
  /\ inProgress' = inProgress \ PiecesOf(payloads[c])
  /\ payloads' = [payloads EXCEPT ![c] = <<>>]
  /\ incoming' = [incoming EXCEPT ![c] = NoRequests]
  /\ UNCHANGED asked

\* The connection's pieces are given up, by whoever works on them.
ForgetPieces(c) ==
  /\ inProgress' = inProgress \ PiecesOf(payloads[c])
  /\ asked' = {s \in asked : s[1] \notin PiecesOf(payloads[c])}
  /\ payloads' = [payloads EXCEPT ![c] = <<>>]
  /\ incoming' = [incoming EXCEPT ![c] = NoRequests]

\* removeClient, however the connection ended.
RemoveClient(c) ==
  /\ connections' = connections \ {c}
  /\ ForgetPieces(c)

Disconnect(c) ==
  /\ Idle
  /\ c \in connections
  /\ RemoveClient(c)
  /\ UNCHANGED <<state, completed, live, done, choked, available, used,
                 verifying, schedulerCalled, toSchedule, asking, envVars>>

\* peerChoked, after PeerWireClient has cleared its list of awaited blocks.
Choke(c) ==
  /\ Idle
  /\ c \in connections \ choked
  /\ choked' = choked \cup {c}
  /\ ForgetPieces(c)
  /\ UNCHANGED <<state, completed, live, done, connections, available, used,
                 verifying, schedulerCalled, toSchedule, asking, envVars>>

\* Fault: being unchoked does not call the scheduler.
UnchokeQuietly(c) ==
  /\ Idle
  /\ c \in connections \cap choked
  /\ choked' = choked \ {c}
  /\ UNCHANGED <<state, pieceVars, connections, available, used, payloads,
                 incoming, verifying, schedulerCalled, toSchedule, asking, envVars>>

\* peerUnchoked
Unchoke(c) ==
  /\ Idle
  /\ c \in connections \cap choked
  /\ choked' = choked \ {c}
  /\ schedulerCalled' = (schedulerCalled \/ state # "Seeding")
  /\ UNCHANGED <<state, pieceVars, connections, available, used, payloads,
                 incoming, verifying, toSchedule, asking, envVars>>

\* RequestedBlocks of the pieces this connection works on.
OutstandingFor(c) ==
  {s \in asked : s[1] \in PiecesOf(payloads[c]) \cap inProgress}

\* peerPiecesAvailable, for a HAVE or a BITFIELD message: seeds do not talk to
\* seeds; otherwise the scheduler is called for a seed, and for a peer with a
\* missing piece that nothing is asked from.
PiecesAvailable(c, pieces) ==
  /\ Idle
  /\ c \in connections
  /\ available' = [available EXCEPT ![c] = @ \cup pieces]
  /\ IF available'[c] = Piece /\ state = "Seeding"
       THEN /\ RemoveClient(c)
            /\ UNCHANGED schedulerCalled
       ELSE /\ schedulerCalled' =
                 \/ schedulerCalled
                 \/ available'[c] = Piece
                 \/ /\ ~(available'[c] \subseteq completed)
                    /\ OutstandingFor(c) = {}
            /\ UNCHANGED <<connections, payloads, incoming, inProgress, asked>>
  /\ UNCHANGED <<state, completed, live, done, choked, used, verifying,
                 toSchedule, asking, envVars>>

-----------------------------------------------------------------------------
(* Asking for blocks *)

\* Fault: the blocks that are awaited already are not counted.
RequestQuota(c) ==
  LET pieces == Among(payloads'[c], IF MultiMode(state') THEN Piece ELSE inProgress')
      starved == pieces = <<>> /\ completed' # Piece
  IN /\ schedulerCalled' = (schedulerCalled \/ starved)
     /\ asking' = IF starved
                    THEN None
                    ELSE [peer |-> c, pieces |-> pieces, room |-> Quota(state')]

(***************************************************************************)
(* requestMore(c), the last thing a handler does, up to its loop over the  *)
(* pieces: the scheduler is called if the connection has no piece to ask   *)
(* for, else `asking' records the pieces and the room that is left.  It is *)
(* about the state the handler leaves behind.                              *)
(***************************************************************************)
RequestMore(c) ==
  LET pieces == Among(payloads'[c], IF MultiMode(state') THEN Piece ELSE inProgress')
      room == Quota(state') - Awaited(incoming'[c])
      starved == pieces = <<>> /\ completed' # Piece
  IN /\ schedulerCalled' = (schedulerCalled \/ starved)
     /\ asking' = IF starved \/ room = 0
                    THEN None
                    ELSE [peer |-> c, pieces |-> pieces, room |-> room]

MissingBlocks(p) == SlotsOf(p) \ done

\* The blocks requestBlocks() chooses from: those nobody asked for, or else,
\* in multi mode, every missing block once more.
Wanted(p) ==
  LET fresh == MissingBlocks(p) \ asked
  IN IF fresh = {} /\ MultiMode(state) THEN MissingBlocks(p) ELSE fresh

\* requestBlocks() asks for the first blocks, in multi mode for any.
Selections(p, room) ==
  {blocks \in kSubset(Min({room, Cardinality(Wanted(p))}), Wanted(p)) :
     \/ MultiMode(state)
     \/ \A s \in blocks, t \in Wanted(p) \ blocks : s[2] < t[2]}

\* One round of the loop of requestMore().
AskBlocks ==
  /\ asking # None
  /\ asking.pieces # <<>>
  /\ asking.room > 0
  /\ \E blocks \in Selections(Head(asking.pieces), asking.room) :
       /\ asked' = asked \cup blocks
       /\ incoming' = [incoming EXCEPT ![asking.peer] =
                         [s \in Slot |-> @[s] + IF s \in blocks THEN 1 ELSE 0]]
       /\ asking' = [asking EXCEPT !.pieces = Tail(@),
                                   !.room = @ - Cardinality(blocks)]
  /\ UNCHANGED <<state, completed, live, inProgress, done, peerVars, payloads,
                 verifying, schedulerCalled, toSchedule, envVars>>

\* The end of requestMore(): a quota not filled calls for another piece.
AskDone ==
  /\ asking # None
  /\ asking.pieces = <<>> \/ asking.room <= 0
  /\ asking' = None
  /\ schedulerCalled' =
       (schedulerCalled \/ (asking.room > 0 /\ state # "WarmingUp"))
  /\ UNCHANGED <<state, pieceVars, peerVars, payloads, incoming, verifying,
                 toSchedule, envVars>>

-----------------------------------------------------------------------------
(* Blocks and verdicts *)

\* The block is no longer awaited from c; in multi mode the connections that
\* work on its piece are told that it is no longer wanted from them either.
Received(c, s, cancel) ==
  incoming' = [k \in Peer |->
    IF k = c \/ (cancel /\ s[1] \in PiecesOf(payloads[k]))
      THEN [incoming[k] EXCEPT ![s] = 0]
      ELSE incoming[k]]

\* A block that is not needed: fill up the pipeline.
DiscardBlock(c, s) ==
  /\ s[1] \notin live \/ s \in done
  /\ Received(c, s, FALSE)
  /\ UNCHANGED <<state, pieceVars, payloads, verifying>>

\* Fault: a block that is stored already is taken again.
StoreAgain(c, s) ==
  /\ s[1] \in live
  /\ Received(c, s, MultiMode(state))
  /\ state' = IF completed # {} /\ state # "Endgame" THEN "Downloading" ELSE state
  /\ done' = done \cup {s}
  /\ asked' = asked \ {s}
  /\ IF SlotsOf(s[1]) \subseteq done'
       THEN /\ verifying' = [verifying EXCEPT ![s[1]] = @ + 1]
            /\ payloads' = [k \in Peer |-> WithoutPiece(payloads[k], s[1])]
       ELSE UNCHANGED <<verifying, payloads>>
  /\ UNCHANGED <<completed, live, inProgress>>

\* A block that is needed: it is written, and with it the piece may be full.
StoreBlock(c, s) ==
  /\ s[1] \in live
  /\ s \notin done
  /\ Received(c, s, MultiMode(state))
  /\ state' = IF completed # {} /\ state # "Endgame" THEN "Downloading" ELSE state
  /\ done' = done \cup {s}
  /\ asked' = asked \ {s}
  /\ IF SlotsOf(s[1]) \subseteq done'
       THEN /\ verifying' = [verifying EXCEPT ![s[1]] = @ + 1]
            /\ payloads' = [k \in Peer |-> WithoutPiece(payloads[k], s[1])]
       ELSE UNCHANGED <<verifying, payloads>>
  /\ UNCHANGED <<completed, live, inProgress>>

\* blockReceived, after PeerWireClient has dropped the block from its list.
BlockReceived(c, s) ==
  /\ Idle
  /\ c \in connections
  /\ \/ incoming[c][s] > 0 /\ UNCHANGED stray
     \/ incoming[c][s] = 0 /\ stray < MaxStray /\ stray' = stray + 1
  /\ DiscardBlock(c, s) \/ StoreBlock(c, s)
  /\ RequestMore(c)
  /\ UNCHANGED <<peerVars, toSchedule, failures>>

\* The verdict is removed from those awaited, and the piece from all payloads.
TakeVerdict(p) ==
  /\ Idle
  /\ verifying[p] > 0
  /\ verifying' = [verifying EXCEPT ![p] = @ - 1]
  /\ payloads' = [c \in Peer |-> WithoutPiece(payloads[c], p)]

\* pieceVerified(p, false): start the piece again.
PieceFailed(p) ==
  /\ TakeVerdict(p)
  /\ failures < MaxFailures
  /\ failures' = failures + 1
  /\ inProgress' = inProgress \ {p}
  /\ done' = done \ SlotsOf(p)
  /\ asked' = asked \ SlotsOf(p)
  /\ schedulerCalled' = TRUE
  /\ UNCHANGED <<state, completed, live, peerVars, incoming, toSchedule, asking,
                 stray>>

\* Fault: the completed piece stays pending.
VerifiedStaysPending(p) ==
  /\ TakeVerdict(p)
  /\ completed' = completed \cup {p}
  /\ inProgress' = inProgress \ {p}
  /\ UNCHANGED <<live, done, asked>>
  /\ state' = CASE completed' = Piece -> "Seeding"
                [] completed' # Piece /\ NearlyDone' -> "Endgame"
                [] OTHER -> "Downloading"
  /\ schedulerCalled' = (schedulerCalled \/ completed' # Piece)
  /\ UNCHANGED <<peerVars, incoming, toSchedule, asking, envVars>>

\* pieceVerified(p, true): the piece is complete.
PieceVerified(p) ==
  /\ TakeVerdict(p)
  /\ live' = live \ {p}
  /\ inProgress' = inProgress \ {p}
  /\ done' = done \ SlotsOf(p)
  /\ asked' = asked \ SlotsOf(p)
  /\ completed' = completed \cup {p}
  /\ state' = CASE completed' = Piece -> "Seeding"
                [] Cardinality(completed') = 1 /\ completed' # Piece -> "Downloading"
                [] Cardinality(completed') # 1 /\ completed' # Piece /\ NearlyDone'
                     -> "Endgame"
                [] OTHER -> state
  /\ schedulerCalled' = (schedulerCalled \/ completed' # Piece)
  /\ UNCHANGED <<peerVars, incoming, toSchedule, asking, envVars>>

-----------------------------------------------------------------------------
(* The scheduler *)

\* scheduleDownloads, up to its loop.
ScheduleDownloads ==
  /\ Idle
  /\ schedulerCalled
  /\ schedulerCalled' = FALSE
  /\ toSchedule' = connections
  /\ UNCHANGED <<state, pieceVars, peerVars, payloads, incoming, verifying,
                 asking, envVars>>

\* currentPieces: what the connection works on already.
CurrentPieces(c) == PiecesOf(payloads[c]) \cap inProgress

\* lastPendingPiece: the oldest piece of a connection that awaits nothing and
\* has a piece that is not marked as in progress.
LastPendingPiece(c) ==
  IF CurrentPieces(c) # PiecesOf(payloads[c]) /\ Awaited(incoming[c]) = 0
    THEN payloads[c][Len(payloads[c])]
    ELSE None

Skipped(c) == c \in choked \/ Awaited(incoming[c]) >= Quota(state)

\* Warm-up with enough pieces pending: everybody works on these.
Spreading == state = "WarmingUp" /\ Cardinality(live) >= WarmUpPieces

\* Pieces that the connection may be given.
Assignable(c) ==
  ((Incomplete \ IF state = "WarmingUp" THEN {} ELSE inProgress)
     \cap available[c]) \ CurrentPieces(c)

Occurrences(p) == Cardinality({c \in connections : p \in available[c]})

\* The first partial piece that can be recovered, or else a new piece: the most
\* common one while warming up, later the rarest one or any.
Candidates(c) ==
  LET pieces == Assignable(c)
      partial == {p \in pieces \cap live : MultiMode(state) \/ p \notin inProgress}
  IN CASE partial # {} -> {p \in partial : \A q \in partial : p <= q}
       [] partial = {} /\ state = "WarmingUp" ->
            {p \in pieces : \A q \in pieces : Occurrences(q) <= Occurrences(p)}
       [] OTHER -> pieces

Assign(c, p) ==
  /\ live' = live \cup {p}
  /\ inProgress' = inProgress \cup {p}
  /\ payloads' = [payloads EXCEPT ![c] = <<p>> \o @]

\* schedulePieceForClient returns early.
LeaveClient(c) ==
  /\ \/ Skipped(c)
     \/ ~Spreading /\ LastPendingPiece(c) = None /\ Assignable(c) = {}
  /\ UNCHANGED <<live, inProgress, payloads, schedulerCalled, asking>>

\* The connection's newest piece, or any pending piece, is asked for.
SpreadPiece(c) ==
  /\ ~Skipped(c)
  /\ Spreading
  /\ \E p \in live :
       /\ IF payloads[c] = <<>>
            THEN Assign(c, p)
            ELSE p = Head(payloads[c]) /\ UNCHANGED <<live, inProgress, payloads>>
       /\ IF Cardinality(MissingBlocks(p)) = Awaited(incoming[c])
            THEN UNCHANGED <<schedulerCalled, asking>>
            ELSE RequestMore(c)

\* The connection goes on with the piece it has.
ResumePiece(c) ==
  /\ ~Skipped(c)
  /\ ~Spreading
  /\ LastPendingPiece(c) # None
  /\ UNCHANGED <<live, inProgress, payloads>>
  /\ RequestMore(c)

\* The connection is given another piece.
AssignPiece(c) ==
  /\ ~Skipped(c)
  /\ ~Spreading
  /\ LastPendingPiece(c) = None
  /\ \E p \in Candidates(c) : Assign(c, p)
  /\ RequestMore(c)

\* schedulePieceForClient
SchedulePieceForClient(c) ==
  /\ asking = None
  /\ c \in toSchedule
  /\ toSchedule' = toSchedule \ {c}
  /\ UNCHANGED <<state, completed, done, asked, peerVars, incoming, verifying,
                 envVars>>
  /\ LeaveClient(c) \/ SpreadPiece(c) \/ ResumePiece(c) \/ AssignPiece(c)

-----------------------------------------------------------------------------
Scheduler ==
  \/ ScheduleDownloads
  \/ \E c \in Peer : SchedulePieceForClient(c)
  \/ AskBlocks
  \/ AskDone

Next ==
  \/ \E c \in Peer : \/ Connect(c) \/ Disconnect(c)
                     \/ Choke(c) \/ Unchoke(c)
                     \/ \E pieces \in SUBSET Piece : PiecesAvailable(c, pieces)
                     \/ \E s \in Slot : BlockReceived(c, s)
  \/ \E p \in Piece : PieceFailed(p) \/ PieceVerified(p)
  \/ Scheduler

Spec == Init /\ [][Next]_vars

(***************************************************************************)
(* The event loop runs the scheduler and, sooner or later, delivers what a  *)
(* socket has received and what the file manager has posted: strong        *)
(* fairness, since none of this happens while a handler is under way.  A    *)
(* peer answers what it was asked for as long as it stays connected, and a  *)
(* piece does not fail its verification for ever.                          *)
(***************************************************************************)
Answer(c) == \E s \in Slot : incoming[c][s] > 0 /\ BlockReceived(c, s)

Fairness == /\ WF_vars(Scheduler)
            /\ \A c \in Peer : SF_vars(Answer(c))
            /\ SF_vars(\E p \in Piece : PieceVerified(p))

FairSpec == Spec /\ Fairness

-----------------------------------------------------------------------------
(* Properties *)

\* payloads holds pointers to pending pieces and keys of connections: no handler
\* leaves behind a piece that was deleted or a connection that was removed.
PayloadsPointToPendingPieces ==
  \A c \in Peer : /\ PiecesOf(payloads[c]) \subseteq live
                  /\ c \notin connections => payloads[c] = <<>>

\* pieceVerified dereferences the pending piece it looks up: a verdict is awaited
\* at most once per piece, for a pending piece that has blocks, is full and not
\* completed.
VerdictFindsFullPiece ==
  \A p \in Piece : verifying[p] > 0 =>
    /\ verifying[p] = 1
    /\ p \in (live \cap WithBlocks) \ completed
    /\ SlotsOf(p) \subseteq done

\* Conversely a full piece that has blocks is never forgotten: its verification is
\* under way.  (One without is full as soon as it is pending, and nobody asks.)
FullPieceIsVerified ==
  \A p \in live \cap WithBlocks : SlotsOf(p) \subseteq done => verifying[p] > 0

\* A last piece without blocks that the full verification did not find is never
\* completed, and so the torrent is not either.
CompletesWithBlocks == completed' \ completed \subseteq WithBlocks

\* A block marked as requested, which no other connection will ask for outside
\* multi mode, is awaited from a connection that still works on its piece.
NoOrphanRequest ==
  \A s \in asked : \E c \in connections \ choked :
    /\ incoming[c][s] > 0
    /\ s[1] \in PiecesOf(payloads[c])

\* A block that is stored is not marked as requested, whatever duplicates of it
\* are on their way: pieces that fail their verification start from nothing.
StoredIsNotAsked == done \cap asked = {}

\* The scheduler never keeps more requests on the wire than the larger quota.
QuotaRespected == \A c \in Peer : Awaited(incoming[c]) <= MaxBlocksInProgress

\* A pending piece is not completed, so that there are never more pending pieces
\* than missing ones.
PendingIsIncomplete == live \subseteq Incomplete

\* The condition that starts the endgame compares them the wrong way round: no torrent
\* ever enters it.
NoEndgame == state # "Endgame"

SeedsStay == \A c \in Peer : c \in connections \ choked /\ available[c] = Piece

\* Choking cannot stall the download: if from some time on all the peers are seeds
\* that stay connected and do not choke us, the torrent is completed, whatever
\* pieces were shared, given up or failed on the way, provided that each of its
\* pieces has blocks.  (This is not true of the peers that remain after one of them
\* left: a connection that shared a piece with it may never be given another one.
\* Nor of a torrent whose last piece is as long as the others, which cannot be
\* completed; while warming up, a connection given that piece is left with it.)
DownloadCompletes ==
  WithBlocks = Piece /\ <>[]SeedsStay => <>(completed = Piece)

\* The client's side of VerdictProtocol: it asks about a piece when the last block is
\* stored, never about one that is complete or awaited already.
Contract == INSTANCE VerdictProtocol
              WITH phase <- "open", complete <- completed,
                   awaited <- {p \in Piece : verifying[p] > 0}

AsksByContract == Contract!OpenSpec
=============================================================================
