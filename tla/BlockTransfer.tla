--------------------------- MODULE BlockTransfer ---------------------------
(***************************************************************************)
(* The blocks that one client asks of another over an open connection:     *)
(* the two ends of a PeerWireClient, the slots of TorrentClient that serve *)
(* requests, and the read requests of the server's disk thread in between. *)
(*                                                                         *)
(* Both ends run the code of src/; the model follows one direction, from   *)
(* the server's blocks to the requester.  Messages of one end arrive in    *)
(* order, but what an end has queued is not what it has written: control   *)
(* messages overtake the blocks in pendingBlocks.                          *)
(***************************************************************************)
EXTENDS Integers, FiniteSets, SequencesExt

CONSTANTS
  Blocks,       \* the blocks that are asked for
  Quota,        \* MaxBlocksInProgress, or MaxBlocksInMultiMode
  DataSize,     \* bytes of a block
  HeaderSize,   \* bytes around it in a Piece message (13)
  QueueLimit,   \* pendingBlockSizes above this chokes (32 * 16384)
  MaxUnderWay   \* bound: messages and blocks between the ends when one more is sent

ASSUME SizesAssumption == /\ DataSize \in Nat \ {0}
                          /\ HeaderSize \in Nat
                          /\ QueueLimit \in Nat /\ QueueLimit >= DataSize + HeaderSize
ASSUME BoundsAssumption == /\ Quota \in Nat /\ MaxUnderWay \in Nat
                           /\ IsFiniteSet(Blocks)

VARIABLES
  open,          \* is the connection up?
  incoming,      \* requester: the blocks in `incoming'
  choked,        \* requester: ChokedByPeer
  timer,         \* requester: does pendingRequestTimer run?
  toServer,      \* messages on their way to the server
  choking,       \* server: ChokingPeer
  reads,         \* server: the blocks that FileManager has yet to read
  pendingBlocks,
  pendingBlockSizes,
  outgoing,      \* server: the messages in outgoingBuffer
  toRequester    \* messages written to the server's socket

requester == <<incoming, choked, timer>>
queue == <<pendingBlocks, pendingBlockSizes, outgoing>>
server == <<choking, reads, queue>>
vars == <<open, requester, toServer, server, toRequester>>

Message(type) == [type : {type}, block : Blocks]
Control == [type : {"Choke", "Unchoke"}]
FromServer == Message("Piece") \cup Control
FromRequester == Message("Request") \cup Message("Cancel")
Request(b) == [type |-> "Request", block |-> b]
Piece(b) == [type |-> "Piece", block |-> b]

\* All that is between the two ends.
UnderWay == Len(toServer) + Len(reads) + Len(pendingBlocks) + Len(outgoing) + Len(toRequester)

Init ==
  /\ open = TRUE
  /\ incoming = {}
  /\ choked = TRUE
  /\ timer = FALSE
  /\ toServer = <<>>
  /\ choking = TRUE
  /\ reads = <<>>
  /\ pendingBlocks = <<>>
  /\ pendingBlockSizes = 0
  /\ outgoing = <<>>
  /\ toRequester = <<>>

-----------------------------------------------------------------------------
(* The requester *)

\* requestBlock for some blocks that the connection does not wait for, up to the quota.
RequestBlocks(awaited) ==
  \E bs \in SUBSET (Blocks \ awaited) :
    /\ Cardinality(awaited) + Cardinality(bs) <= Quota
    /\ UnderWay + Cardinality(bs) <= MaxUnderWay  \* the bound
    /\ incoming' = awaited \cup bs
    /\ toServer' = toServer \o SetToSeq({Request(b) : b \in bs})

\* requestBlock, called by the scheduler
RequestBlock ==
  /\ open /\ ~choked
  /\ RequestBlocks(incoming)
  /\ toServer' # toServer
  /\ timer' = TRUE
  /\ UNCHANGED <<open, choked, server, toRequester>>

\* cancelRequest: another peer was faster.
CancelRequest(b) ==
  /\ open
  /\ b \in incoming
  /\ UnderWay < MaxUnderWay  \* the bound
  /\ incoming' = incoming \ {b}
  /\ toServer' = Append(toServer, [type |-> "Cancel", block |-> b])
  /\ UNCHANGED <<open, choked, timer, server, toRequester>>

\* sendInterested starts the timer, unchokePeer kills it: the requester serves the other
\* end in turn.
OtherDirection ==
  /\ open
  /\ timer' \in BOOLEAN
  /\ UNCHANGED <<open, incoming, choked, toServer, server, toRequester>>

\* processIncomingData, ChokePacket
ReceiveChoke ==
  /\ choked' = TRUE
  /\ incoming' = {}
  /\ timer' = FALSE
  /\ UNCHANGED toServer

\* processIncomingData, PiecePacket: blockReceived() asks for more, then the timer is killed.
ReceivePiece(b) ==
  /\ timer' = FALSE
  /\ \/ ~choked /\ RequestBlocks(incoming \ {b})
     \/ incoming' = incoming \ {b} /\ UNCHANGED toServer
  /\ UNCHANGED choked

RequesterReceives ==
  /\ open
  /\ toRequester # <<>>
  /\ toRequester' = Tail(toRequester)
  /\ LET m == Head(toRequester) IN
       \/ m.type = "Choke" /\ ReceiveChoke
       \/ m.type = "Unchoke" /\ choked' = FALSE /\ UNCHANGED <<incoming, timer, toServer>>
       \/ m.type = "Piece" /\ ReceivePiece(m.block)
  /\ UNCHANGED <<open, server>>

-----------------------------------------------------------------------------
(* The server *)

\* Fault: the queue of blocks survives the choke, its size does not.
ChokeWithoutClear ==
  /\ choking' = TRUE
  /\ outgoing' = Append(outgoing, [type |-> "Choke"])
  /\ pendingBlockSizes' = 0
  /\ UNCHANGED pendingBlocks

\* chokePeer
Choke ==
  /\ choking' = TRUE
  /\ outgoing' = Append(outgoing, [type |-> "Choke"])
  /\ pendingBlocks' = <<>>
  /\ pendingBlockSizes' = 0

\* scheduleUploads
ChokePeer ==
  /\ open /\ ~choking
  /\ UnderWay < MaxUnderWay  \* the bound
  /\ Choke
  /\ UNCHANGED <<open, requester, toServer, reads, toRequester>>

\* scheduleUploads, unchokePeer
UnchokePeer ==
  /\ open /\ choking
  /\ UnderWay < MaxUnderWay  \* the bound
  /\ choking' = FALSE
  /\ outgoing' = Append(outgoing, [type |-> "Unchoke"])
  /\ UNCHANGED <<open, requester, toServer, reads, pendingBlocks, pendingBlockSizes,
                 toRequester>>

\* RequestPacket and peerRequestsBlock: requests of a choked peer are ignored.
ReceiveRequest(b) ==
  /\ reads' = IF choking THEN reads ELSE Append(reads, b)
  /\ UNCHANGED <<choking, queue>>

\* CancelPacket: the first such block in pendingBlocks is dropped; its size stays counted.
ReceiveCancel(b) ==
  /\ pendingBlocks' = RemoveFirst(pendingBlocks, b)
  /\ UNCHANGED <<choking, reads, pendingBlockSizes, outgoing>>

ServerReceives ==
  /\ open
  /\ toServer # <<>>
  /\ toServer' = Tail(toServer)
  /\ LET m == Head(toServer) IN
       \/ m.type = "Request" /\ ReceiveRequest(m.block)
       \/ m.type = "Cancel" /\ ReceiveCancel(m.block)
  /\ UNCHANGED <<open, requester, toRequester>>

\* Fault: the queue is emptied with nothing said to the peer.
SendBlockOrDrop(b) ==
  /\ IF pendingBlockSizes + HeaderSize + DataSize > QueueLimit
       THEN pendingBlocks' = <<>> /\ pendingBlockSizes' = 0
       ELSE /\ pendingBlocks' = Append(pendingBlocks, b)
            /\ pendingBlockSizes' = pendingBlockSizes + HeaderSize + DataSize
  /\ UNCHANGED <<choking, outgoing>>

\* sendBlock: a queue that is too long is emptied by choking and unchoking the peer.
SendBlock(b) ==
  IF pendingBlockSizes + HeaderSize + DataSize > QueueLimit
    THEN /\ pendingBlocks' = <<>>
         /\ pendingBlockSizes' = 0
         /\ outgoing' = outgoing \o <<[type |-> "Choke"], [type |-> "Unchoke"]>>
         /\ choking' = FALSE
    ELSE /\ pendingBlocks' = Append(pendingBlocks, b)
         /\ pendingBlockSizes' = pendingBlockSizes + HeaderSize + DataSize
         /\ UNCHANGED <<choking, outgoing>>

\* Fault: whether the peer has been choked since its request is not asked.
SendToPeerAnyway ==
  /\ reads # <<>>
  /\ reads' = Tail(reads)
  /\ IF open THEN SendBlock(Head(reads)) ELSE UNCHANGED <<choking, queue>>
  /\ UNCHANGED <<open, requester, toServer, toRequester>>

\* sendToPeer: a block has been read.  removeClient() has cleared readIds.
SendToPeer ==
  /\ reads # <<>>
  /\ reads' = Tail(reads)
  /\ IF open /\ ~choking THEN SendBlock(Head(reads)) ELSE UNCHANGED <<choking, queue>>
  /\ UNCHANGED <<open, requester, toServer, toRequester>>

\* Fault: a block is taken from the queue only while the peer is told something else.
FillBufferBehind ==
  /\ open
  /\ outgoing # <<>> /\ pendingBlocks # <<>>
  /\ outgoing' = Append(outgoing, Piece(Head(pendingBlocks)))
  /\ pendingBlocks' = Tail(pendingBlocks)
  /\ pendingBlockSizes' = pendingBlockSizes - DataSize
  /\ UNCHANGED <<open, requester, toServer, choking, reads, toRequester>>

\* writeToSocket moves a block to the empty outgoingBuffer; its budget may end before the
\* message does.
FillBuffer ==
  /\ open
  /\ outgoing = <<>> /\ pendingBlocks # <<>>
  /\ outgoing' = <<Piece(Head(pendingBlocks))>>
  /\ pendingBlocks' = Tail(pendingBlocks)
  /\ pendingBlockSizes' = pendingBlockSizes - DataSize
  /\ UNCHANGED <<open, requester, toServer, choking, reads, toRequester>>

\* writeToSocket has written the last byte of a message.
WriteMessage ==
  /\ open
  /\ outgoing # <<>>
  /\ toRequester' = Append(toRequester, Head(outgoing))
  /\ outgoing' = Tail(outgoing)
  /\ UNCHANGED <<open, requester, toServer, choking, reads, pendingBlocks, pendingBlockSizes>>

-----------------------------------------------------------------------------
(* The end of the connection *)

\* abort() at either end: a timer has fired, or scheduleUploads() aborts instead of choking.
\* The objects are deleted with what they hold.
Close ==
  /\ open
  /\ open' = FALSE
  /\ incoming' = {}
  /\ toServer' = <<>>
  /\ toRequester' = <<>>
  /\ pendingBlocks' = <<>>
  /\ outgoing' = <<>>
  /\ UNCHANGED <<choked, timer, choking, reads, pendingBlockSizes>>

-----------------------------------------------------------------------------
Next ==
  \/ RequestBlock \/ (\E b \in Blocks : CancelRequest(b)) \/ OtherDirection
  \/ RequesterReceives
  \/ ChokePeer \/ UnchokePeer \/ ServerReceives \/ SendToPeer \/ FillBuffer \/ WriteMessage
  \/ Close

Spec == Init /\ [][Next]_vars

\* The network delivers, the disk thread reads, RateController lets the socket write.
FairSpec ==
  /\ Spec
  /\ WF_vars(RequesterReceives) /\ WF_vars(ServerReceives) /\ WF_vars(SendToPeer)
  /\ WF_vars(FillBuffer) /\ WF_vars(WriteMessage)

-----------------------------------------------------------------------------
(* Properties *)

\* Every variable has its type.
TypeOK ==
  /\ open \in BOOLEAN
  /\ incoming \subseteq Blocks
  /\ choked \in BOOLEAN
  /\ timer \in BOOLEAN
  /\ toServer \in Seq(FromRequester)
  /\ choking \in BOOLEAN
  /\ reads \in Seq(Blocks)
  /\ pendingBlocks \in Seq(Blocks)
  /\ pendingBlockSizes \in Nat
  /\ outgoing \in Seq(FromServer)
  /\ toRequester \in Seq(FromServer)

\* A block that the requester waits for is never lost between the two ends: its request,
\* or the block, or a Choke that takes the request back, is under way.  So it is through
\* cancels, chokes and unchokes that cross the requests and overtake the blocks.
NoLostRequest ==
  \A b \in incoming :
    \/ Contains(toServer, Request(b))
    \/ Contains(reads, b) \/ Contains(pendingBlocks, b)
    \/ \E m \in {Piece(b), [type |-> "Choke"]} :
         Contains(outgoing, m) \/ Contains(toRequester, m)

\* The count that sendBlock() compares with its limit never falls below the bytes that are
\* queued, though sizes are added and taken off by different measures.
QueueIsCounted ==
  /\ (HeaderSize + DataSize) * Len(pendingBlocks) <= pendingBlockSizes
  /\ pendingBlockSizes <= QueueLimit

\* Nothing is queued for a choked peer, also when the disk answers after the choke.
ChokedGetsNothing == choking => pendingBlocks = <<>>

\* What is asked for comes, or is taken back, or the connection ends.
RequestsEnd == \A b \in Blocks : b \in incoming ~> b \notin incoming
=============================================================================
