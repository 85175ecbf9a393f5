# Verification of torrent-client-qt

TLA+ models of the BitTorrent client in `src/`, checked with TLC on small
instances and, where it says so, proved with TLAPS for every value of the
constants. Paths below are relative to `src/`.

## The system

A Qt 5 program. One main thread runs the event loop with everything in it: user
interface, sockets, timers, all the torrents. Each torrent has one more thread,
`FileManager`, that does its disk I/O. Nothing else is concurrent, so the hard
behaviours are (1) the hand-over between main thread and disk thread, (2) the order
in which the events of the main thread arrive, and (3) handlers that run inside
other handlers, because a Qt signal calls its slots before `emit` or `abort()` returns.

### Inventory

| Component | State | Operations | What makes it correct | Modelled by |
|---|---|---|---|---|
| **FileManager** `filemanager.cpp` | request queues, `m_wokeUp`, `m_startVerification`, `m_quit` under `m_mutex`/`m_cond`; files; `m_verifiedPieces` | `read`, `write`, `verifyPiece`, `startDataVerification`, `wakeUp`, destructor; worker `run` | no request is slept on; a piece is hashed after all its blocks are written; each byte goes to its place | `FileManager`, `Storage` |
| **TorrentClient, downloading** `torrentclient.cpp` | `pendingPieces`, `payloads`, completed/requested blocks, `schedulerCalled` | `peerPiecesAvailable`, `blockReceived`, `pieceVerified`, `peerChoked/Unchoked`, `removeClient`, `scheduleDownloads`, `requestMore` | no dangling piece or connection; a full piece is verified once; lost requests are asked again; quotas; the download ends | `PieceDownload` |
| **TorrentClient, run state and connections** | `state`, `connections`, `connectingToClients` | `start`, `stop`, `setPaused`, `connectToPeers`, `removeClient`, `fullVerificationDone`, `handleFileError` | the state agrees with the pieces; a paused or removed torrent is quiet; lost connections are replaced | `TorrentConnections` |
| **TorrentClient, uploading** | upload rates, `readIds`, what each peer was told | `scheduleUploads`, `peerRequestsBlock`, `sendToPeer`, `pieceVerified`, `peerPiecesAvailable` | peers know our pieces and our interest; few unchoked peers; answers reach who asked | `Uploads`, `BlockTransfer` |
| **TorrentClient, dumped state** | `dumpedState`, progress | `dumpedState`, `setDumpedState`, `updateProgress` | what is saved is on disk and comes back | `Storage`, `Session` |
| **PeerWireClient** `peerwireclient.cpp` | `incoming`, `pendingBlocks`, `pendingBlockSizes`, `outgoingBuffer`, choke and interest flags, three timers | packet handlers, `requestBlock`, `cancelRequest`, `sendBlock`, `chokePeer`, `writeToSocket`, ... | no request is lost between the two ends; queue sizes are right | `BlockTransfer`, `Uploads`, `RateControl` |
| **TrackerClient** `trackerclient.cpp` | last action, transaction, tries, current tracker, two timers, three flags | `start`, `stop`, `startSeeding`, response and time-out handlers | lists and `stopped()` are answers to announces; every lost datagram is made up for | `Tracker`, `AnnounceProtocol` |
| **RateController** `ratecontroller.cpp` | sockets, limits, `transferScheduled`, `stopWatch` | `addSocket`, `removeSocket`, `transfer`, limits | limits are kept; no socket with work is forgotten | `RateControl` |
| **TorrentServer** `torrentserver.cpp` | torrents to serve; accepted connections without info hash | `incomingConnection`, `processInfoHash`, `removeClient`, `addClient` | a connection goes to one torrent that runs | `TorrentConnections` |
| **ConnectionManager** `connectionmanager.cpp` | set of all connections | `canAddConnection`, `addConnection`, `removeConnection` | the limit counts exactly what exists | `TorrentConnections` |
| **MetaInfo, BencodeParser** | the parsed torrent, the info section | `parse`, `clear`, copying, sizes | the parsed torrent is the written one, with the right section hashed | `Bencode`, `TorrentFile`, `Storage` |
| **TorrentModel, TorrentSerializer** | list of torrents, saved settings | `addTorrent`, `setPause`, `setStop`, `save`, `load`, `startAutoSave` | a restart restores the list; no torrent twice; progress never falls | `Session` |
| **QML interface, `main.cpp`** | presentation | | modelled as far as it decides when the user may pause and in which order loading and saving begin | `TorrentConnections`, `Session` |
| **Widget interface** `mainwindow.cpp`, `addtorrentdialog.cpp` | presentation | | not modelled: compiled out of `main()` | |
| **Earlier downloader** (`downloader.cpp`, `peersmanager.cpp`, `peerconnection.cpp`, `torrentfileparser.cpp`, ...) | | | not modelled: `TorrentClient.pro` does not build it | |

Interactions. `TorrentClient` calls `FileManager` under its mutex and gets queued
signals back (`dataRead`, `pieceVerified`, `verificationDone`, `error`).
`PeerWireClient` and `TrackerClient` emit signals that `TorrentClient` handles at once.
`RateController::transfer()` makes sockets read and write, which runs those same slots in the
midst of its loop. `connections`, the server's list, `RateController::sockets` and
`ConnectionManager::m_connections` refer to the same objects and must be changed together;
`payloads` and `pendingPieces` refer to the same pieces. The scheduler, the peer
connector and `transfer()` are deferred with a flag (`schedulerCalled`, `connectingToClients`,
`transferScheduled`) that must not outlive the event it stands for. `TorrentSerializer`
listens to the list of torrents and saves what the clients tell.

`PROJECT.json` lists every hazard found, at its line, with the properties that
cover it or the reason why none does.

## Modules

| Module | Models | Proofs | Instance |
|---|---|---|---|
| `VerdictProtocol` | what torrent and disk thread owe each other about the verification of pieces (abstract) | | |
| `FileManager` | the two threads around `filemanager.cpp`, implements `VerdictProtocol` | `FileManagerProofs` | `MCFileManager` |
| `PieceDownload` | downloading of pieces in `torrentclient.cpp`, implements the client's side of `VerdictProtocol` | `PieceDownloadProofs` | `MCPieceDownload` |
| `TorrentConnections` | run state, connections, server, connection limit | `TorrentConnectionsProofs` | `MCTorrentConnections` |
| `AnnounceProtocol` | what a torrent is promised by its tracker client (abstract) | | |
| `Tracker` | `trackerclient.cpp`, implements `AnnounceProtocol` | `TrackerProofs` | itself |
| `BlockTransfer` | requests, cancels, chokes and blocks between the two ends of a connection | `UploadProofs` | itself |
| `Uploads` | what peers are told: pieces, interest, who may download | `UploadProofs` | itself |
| `RateControl` | `ratecontroller.cpp` and the buffers it empties | `RateControlProofs` | itself |
| `Session` | list of torrents, settings, start, quit and crash | `SessionProofs` | `MCSession` |
| `Bencode` | `bencodeparser.cpp`, a parser over tokens | (recursive) | through `TorrentFile` |
| `Storage` | `MetaInfo` as far as files and pieces go, and which byte of a block goes where in which file | `StorageProofs` | `MCStorage` |
| `TorrentFile` | `MetaInfo::parse` with `Bencode`: what `Storage` is told of a torrent file | (recursive) | `MCStorage` |

Each has, beside its actions, a few operators commented `Fault:`. They are plausible
mistakes in the code, used one at a time in place of the definition that follows
them; each property is violated by at least one of them (`mutants` in `PROJECT.json`).

### VerdictProtocol

The contract between `TorrentClient` and `FileManager`: once the content has been checked, the
client asks (`Ask`) about a piece that is neither complete nor awaiting a verdict, and each
time it asked is answered at most once (`Pass`, `Fail`), in any order; after the destructor nothing is.
`FileManager` maps the request list, the worker's list and the queued signals to the one set of
awaited pieces, `PieceDownload` its `verifying`. Each of the two models is given the
other's side as its environment: `FileManager` asks only about pieces just received, `PieceDownload`
takes verdicts only of pieces being verified. That each keeps its own side (`KeepsContract`,
`AsksByContract`) is what entitles the other to that.

### FileManager

Every region of `run()` between two uses of the mutex is an action of the worker
(`wpc` is its program counter); every function the main thread calls is one action of
the main thread, guarded by the mutex if the function takes it. The mutex is held
across steps from `TakeWrites` to `EndScan`/`EndCheck`, as in the code. The destructor
takes no mutex, hence `CheckForWork` (evaluate the condition) and `EnterWait` (release
and sleep) are separate steps, and `SetQuit`/`WakeForQuit` may fall between them.
`wakeUp()` is an event of the main thread (`wakeUps` counts those posted), signals
are one FIFO queue. A block on disk is one bit: right or not. What peers send is
`"good"` or `"bad"`; a piece verifies if all its blocks are right.
The main thread is `TorrentClient` as far as the file manager can see it: it asks for
reads of completed pieces, writes missing blocks, and verifies when the last is written.
A failing `generateFiles` ends the worker after one `error`.

Reads and writes may fail, and not always aloud. `readBlock` returns what it has: less than it was
asked for, because of the destructor, because a file does not open (`error` is emitted), or because
one gives too little (nothing is emitted, and the loop goes on with the next file). `run()` sends the result in
`dataRead` all the same, and `verifySinglePiece` hashes it. `writeBlock` tells of a file that
does not open or take the data; what `QFile` holds back and `close()` cannot flush is lost in silence.
A failed write may have written part of the block. Two histories keep apart what the properties distinguish:
the field `whole` of a signal (did `readBlock` give all of it), and `unwritten` (the blocks whose last write
failed). That a truncated read is answered, too short, is point 14 below.

### PieceDownload

One variable per container of `TorrentClientPrivate` that the download uses. Handlers
are single actions, up to a trailing `requestMore()`: that and the loop of
`scheduleDownloads()` take several steps (`asking`, `toSchedule`), which no other event
interrupts (`Idle`). Random choices (which blocks in multi mode, which piece) are `\E`.
The connection's own list of awaited blocks counts them, since a block may be asked
twice from one connection. The file manager is reduced to what `VerdictProtocol`
promises: one verdict for each `verifyPiece`, some time later. Cancelling is the local
effect only; the peer's answer may still come (`MaxStray`).
The last piece may have no blocks (`filemanager.cpp:87`): it can be complete from the first
verification on, and otherwise is made pending like any other, is full at once, and nobody asks for its
verification (`WithBlocks` are the other pieces).
Left out: upload speed in endgame (the state is never reached, see `NoEndgame`), peer
statistics, wrong block lengths.

### TorrentConnections

The run state with every event that changes it, and the life of a connection object:
`connecting` or `pending` (accepted, hash unknown), `open`, then `closed` (removed,
to be deleted) and `deleted`, or `failed` (refused). The loops of `stop()` and
`setPaused()` iterate over `connections` while `abort()` runs `removeClient()`, which
shortens it: `Visited` computes which connections the loop really meets. `removeAll()` takes the first
entry out (`RemoveFirst`), for no connection is listed twice (proved: `OnceInList`). Pieces are
counted. The user pauses only where `main.qml` and `TorrentDelegate.qml` let him; a
file error pauses in every state.
External behaviour, taken from how the code uses Qt: `abort()` emits `aboutToClose()`
unless the socket is unconnected; a refused connection emits only `error()`.

### Tracker and AnnounceProtocol

Each slot and time-out handler is one action. UDP is a set of answers that may be lost, late
(`earlier` in place of `last` transaction id, since the id is the time in seconds) or delivered
again: `Deliver` leaves the answer in the set. `fetchTimeoutHandler()` runs inside
`announceResponseHandler()` when action or id is wrong, possibly twice, and the answer is then
used all the same; that is one action, as in the code. `m_currentAnnounceIt` wraps around,
`m_requestTryNum` is not reset by it. The event of an announce is 1 for Completed as well as
Stopped (`trackerclient.cpp:126,132`), 2 for Started.
`AnnounceProtocol` says what the torrent can rely on: a list or `stopped()` answers an
announce, an announce follows a granted connection, no list after `stop()`. `Tracker` maps its
last action to the phases of it (`Promise`, an `INSTANCE ... WITH`); `KeepsPromise` is checked
by TLC and proved.

### BlockTransfer

One direction of one connection, both ends: the requester's `incoming`, its timer and quota; the
messages under way; the server's `readIds` (`reads`), `pendingBlocks` with its counted size, and
`outgoingBuffer`. Control messages go straight into `outgoingBuffer`, a block only when that is
empty, as in `writeToSocket()`: so control messages overtake blocks. `sendBlock()` over the limit
chokes and unchokes, which drops the queue. What is asked after a block has come is chosen freely up to
the quota. Closing takes everything with it, except reads the disk still does.

### Uploads

All the peers of one torrent: connection, handshake, piece lists and notices, interest, and
`scheduleUploads()`. Speeds are left to chance: any set of racing clients of the right size may be
the fastest. `told` records what each peer has been told of our pieces, which the code keeps
nowhere; `early` the clients unchoked while they were connecting.

### RateControl

`transfer()` runs round by round and socket by socket (`Begin`, `Round`, `Serve`, `Skip`, `End`); between
its steps nothing else runs except what `Serve` itself causes: an answer queued by a slot, which
schedules a transfer, or the close of the socket. Time is counted in the 50 ms of the timer.
`load` is a leaky bucket: bytes sent, less what the highest limit lets flow. Only the upload limit
changes; the download limit has the same setter.

### Session

The list, the clients, the settings in memory and on disk, several runs of the program. `load()` is one
action per row; `countChanged` saves only once `startAutoSave()` has connected it. QSettings writes at
any idle moment (`Sync`) and at the end; a crash may come between any two actions. A client taken from
the list is never deleted: it stays in `client`, still verifies and becomes active
again. `kept` records the torrents that have reached the disk and that nothing has taken away
since.

### Bencode, TorrentFile and Storage

`Bencode` parses sequences of tokens as `bencodeparser.cpp` does, with the info section it notes on the
way, and is compared with `Meaning`, what was written. `TorrentFile` writes the files of torrents, whole or
with one token damaged, and reads them as `MetaInfo::parse()` does. `Storage` goes on from there, through
`MetaInfo` (with `copy()` as it is), the geometry of pieces and blocks, `readBlock`/`writeBlock` over the
span of files, verification, and restarts with a dumped state. Byte k of the torrent has the content k, so
that a byte in a wrong place shows.

`Storage` knows of the parser only two constants, `Contents` (what the file of a torrent may hold) and
`Reading` (what is read from it), and `ReadingAssumption`: whatever is read with sums of pieces has the
lengths that belong to them, in the fields of the form it has. The run gives the constants the operators of
`TorrentFile` (`ContentsOf`, `ReadingOf`), so that it goes from the bytes of the torrent file to those of its
files, and TLC evaluates the assumption for every torrent and every damage of the run.

## Runs

| Run | Shows | Bounds | States |
|---|---|---|---|
| `file_manager` | five invariants and the implementation of `VerdictProtocol`, over all interleavings of two threads | two pieces, three blocks, four writes (one refetch), two reads, one failing read or write | 4.5 M |
| `file_manager_live` | every read is answered, every full piece gets a verdict | one block per piece, three writes, one read, one failing read or write, stale dump or none | 532 k |
| `piece_download` | five invariants | two peers, three pieces, the last without blocks, three blocks, quota 3 and 2, warm-up at 2 pieces, one stray block, one failed verification | 2.5 M |
| `piece_download_live` | the download completes if the peers end up staying | two pieces, three blocks, quota 2 and 1, one failed verification, no stray block | |
| `torrent_connections` | five invariants | three connections under a limit of two, two pieces, two pauses | 61 k |
| `torrent_connections_pause` | violated: pausing leaves a connection open | three connections, limit three | |
| `tracker` | the announce promise is kept (refinement), answers arrive, stopping ends, what is reported as stopped was announced | two trackers, three tries | 52 k |
| `block_transfer` | no request is lost, the queue is counted, a choked peer gets nothing, every request ends | two blocks, quota 2, block of 3+1 bytes, queue limit 9, five messages under way | 297 k |
| `uploads` | peers know our pieces and our interest, few upload | three clients, two pieces, one slot | 609 k |
| `rate_control` | no socket is forgotten, the limit is kept, work is done | two sockets, limits 0, 2, 3 up and 4 down, two ticks to the second, three bytes | 82 k |
| `session` | no torrent twice, the list is saved, kept and restored, progress never falls | three files of two torrents, two clients, one piece, one byte, two launches | 679 k |
| `storage` | the parsed torrent is the written one, blocks make the piece, verified data is in place | eight torrents, a key `info` inside an earlier dictionary, blocks of two bytes, one wrong block, any one damaged token | 46 k |

Deadlock is checked in `tracker`, whose timers never end. Elsewhere the bounded environment
runs out (all blocks delivered, all connection objects used, connection closed, last launch over)
and then nothing is left to happen. What must not stop is stated as a liveness property instead.

Why the bounds are enough for what is asked.

- `FileManager`: the worker has one slot for each phase and the main thread one handler at a
  time, so two pieces and a refetch give every order of write, verify, verdict and
  second write of one block, with another piece in between. One failure, told or not, may hit any read or
  write; a second one would only add reasons of the same kind.
- `PieceDownload`: sharing and orphaning of requests need two connections and a piece with two blocks;
  the third piece is the last one of length 0.
  Quotas and warm-up thresholds are lowered with the number of blocks, so that they are reached.
- `TorrentConnections`: the faulty loop needs three entries to skip one with another after it; a limit of
  two makes room run out.
- `Tracker`: two trackers for moving to the next and wrapping around; three tries are what the code has,
  and the double repeat inside one answer reaches two of them.
- `BlockTransfer`: the queue limit holds two blocks, so the third drops it; five
  messages let a request, its cancel, a second request and a choke cross a block.
- `Uploads`: one regular slot, one optimistic, and a third client that loses.
- `RateControl`: with two bytes per two ticks a transfer may find less than one byte per
  socket, nothing at all, or more than it can use; the limit 0 is the user's "no upload".
- `Session`: two files of one torrent show duplicates; a second launch loads what the first one saved,
  and a third would start from a state like the second's.
- `Storage`: the torrents put the ends of files, pieces and blocks at different, equal
  and neighbouring places, with an empty file, several files in one block, and a last piece
  as long as the others.

Fairness. `FileManager`: the operating system schedules both threads (`WF` of
the worker) and Qt's event loop delivers what is queued (`WF` of the main thread's
slots); no peer or user is obliged to do anything. `PieceDownload`: the queued scheduler
event runs (`WF`); what a connected peer was asked for arrives, and a verdict that is
repeatedly possible is finally a good one (`SF`, because between events the
main thread is busy with handlers). `DownloadCompletes` assumes that finally all peers
are seeds that stay connected and do not choke, and that every piece has blocks. Without either it is
false (points 5 and 6 below).
`Tracker`: the queued first fetch and the timer fire (`WF`); of ever more lookups one
succeeds and of ever more requests one is answered before the next (`SF`: each try may fail).
`BlockTransfer`: the network delivers, the disk thread answers reads, the rate controller lets the
socket write (`WF` each; that is what `file_manager_live` and `rate_control` show of
those parts), which presumes an upload limit other than 0 and reads that succeed.
`RateControl`: time passes and a transfer that is due runs to its end (`WF`). An upload limit yields at least
one byte in the 50 ms before the watch is restarted: under 20 B/s it would yield none, ever, and `WorkIsDone`
would not hold. The user interface sets no such limit except 0.

## What disagrees

A run shows:

1. `torrentclient.cpp:429` "Abort all connections": `abort()` runs `removeClient()`, which
   shortens the list the loop iterates over. Connections are skipped and stay open, counted
   by `ConnectionManager` and in no list of the torrent (`torrent_connections_pause`).

Met while modelling; the models have this behaviour, so no property denies it:

2. `filemanager.cpp:26` The destructor sets `m_quit` and wakes without the mutex. Both can
   fall between the worker's test and its wait; the worker sleeps, the destructor waits.
3. `filemanager.cpp:152` "Write pending write requests": `writeBlock` stops at `m_quit`, which is
   always set there; nothing is written.
4. `filemanager.cpp:365` "Verify all pieces the first time": not if a dumped state names any.
5. `torrentclient.cpp:1136` "If no pieces are currently in progress, schedule a new one": not if
   a piece of the connection lost its mark because another connection went away.
   `requestMore()` and the scheduler then call each other without end.
6. `filemanager.cpp:87` A last piece as long as the others gets the length 0: it has no blocks,
   nothing asks for it, and the torrent cannot be completed (`LastPieceNeverDownloaded`,
   `BlocklessNeverCompleted`). A connection that is given it has nothing to ask for, and while
   warming up the scheduler is not called again (`AskDone`): if every connection gets it then, the other
   pieces wait too.
7. `metainfo.cpp:70` Copying and moving leave out the form and the single file, so `FileManager` reads
   a form that was never set (`filemanager.h:67`) and a single-file torrent has no file
   (`SingleFileNeverStored`).
8. `metainfo.cpp:144` Each tier of `announce-list` becomes an empty string, as it is a list.
9. `bencodeparser.cpp:165` A key `info` at any depth moves the section that is hashed.
10. `trackerclient.cpp:126` Completed and Stopped are announced with the same number; a client stopped
    before its first announce says Started.
11. `torrentclient.cpp:1066` The optimistic unchoke may pick a client that is still connecting: its
    Unchoke precedes the handshake.
12. `peerwireclient.cpp:562` The request timer is killed after `blockReceived()` has asked for more, so
    these requests are not timed.
13. `torrentmodel.cpp:183` A stopped client is not deleted; stopped in the midst of its
    verification it becomes active again. A torrent file that cannot be read at the start is
    dropped with the next save, and the end of the program does not save.
14. `filemanager.cpp:307` `length < 0` is to detect a read that got too little, and is never true. A read that
    fails, in either way, is answered with what it got: a peer is sent a block that is too short, or with
    bytes of the next file in the wrong place, and a piece that is right on disk fails its verification.

## Proofs

Checked by TLAPS for every value of the constants that satisfies the `ASSUME`s of the
modules. TLC evaluates these assumptions in every run.

*`FileManagerProofs`.* `TypeCorrect`: `Spec => []TypeOK`. `WakeUpNeverLost`:
`Spec => []NoLostWakeUp`. The property is not inductive: that a sleeping worker with work
queued has an event on its way follows from how it fell asleep and how the work came. `WakeInv`
adds: the worker holds the mutex exactly in the phases the code locks (`MutexHeld`);
`m_wokeUp` means that an event is posted (`FlagMeansEvent`); between test and wait no
request slips in, for the mutex is held (`NothingSlipsIn`); whoever queues work for a
sleeper posts an event or finds the flag set, which `wakeUp()` clears with the same
step that wakes (`SleeperIsCalled`).

`FailureHasReason`, `VerdictIsExpected`, `CompletedStayOnDisk` and `ServedAreRight` are about the pipeline
a piece goes through, and need all of it in one invariant, `PieceInv`: each list of `run()` is in
use only in its part of the loop, and while the worker verifies nothing that was queued before is
still unwritten (`ListsInv`); nothing is received before the full verification is over, which is announced
once (`PhaseInv`); a queued write is of a piece that nobody has verified and is what the client holds as
received (`WritesInv`); a right block that was received is on disk or still queued, unless its last write failed
(`StoredInv`); a piece is in one place only from its last block to its verdict, and in none twice
(`OnceInv`, `NoSignalTwice`), fully received and not complete (`HeldInv`); `m_verifiedPieces` is the
client's complete pieces and those whose good verdict is under way (`VerifiedInv`); blocks are read of
complete pieces only (`ReadsInv`). `FailureHasReason` names every cause a failed verification can have: a read
that was cut short, a block of that piece whose last write failed, a wrong block of that piece.
`ServedAreRight` is about the reads that gave all they were asked for. The last two theorems assume `~StaleDump`, a constant: the files hold what
the dumped state says when the program starts. Without it they are false, which is the hazard at
`filemanager.cpp:367`.

`ContractIsKept`: `Spec => KeepsContract`, that is `FileManager` implements `VerdictProtocol`. The worker's
steps only move a piece between the places that count as awaited (`WorkerContract`); verifying, the
two verdicts, the end of the full verification and the destructor are the contract's own steps
(`ContractStep`). That a verdict leaves nothing of its piece behind is `OnceInv`.

*`PieceDownloadProofs`.* `PieceInv` joins: pending pieces are incomplete, blocks are recorded
only for pending pieces, and verifications under way match the full pending pieces that have blocks one to
one. The last two need each other: a block is stored only while its piece is not full,
so the piece becomes full once; a verdict removes either the blocks or the piece.
From it: `PendingPiecesAreIncomplete`, `VerdictsMatchFullPieces`, `BlocklessNeverCompleted` (no step completes a
piece without blocks), `StoredBlocksAreNotAsked`,
`EndgameNeverStarts` (the test for endgame compares the cardinality of a subset with
that of its superset, the wrong way round) and `ContractIsKept`, the client's side of `VerdictProtocol`.

`WorkInv` is about who works on what: payloads are pending pieces of connected clients (`PayloadsNeverDangle`),
a connection that chokes us has none (`ChokedIsIdle`), and a `requestMore()` under way asks
for pieces its connection still has (`AskingOwnPieces`). With it `NoOrphanRequest` is inductive
(`RequestsAreAwaited`): what is marked as requested on the way was put on the list of the connection in
the same step, and whoever gives up a piece gives up all its marks. `QuotaInv` adds to `QuotaRespected`
that the room `requestMore()` has left and what is awaited are together within the quota
(`QuotaIsRespected`); what each step does to `Awaited`, a cardinality, is said by `AwaitedLess` and
`AwaitedMore`, and for it the slots are assumed to be finitely many.

*`TorrentConnectionsProofs`.* `ReconnectAlwaysComes`: flag and timer are raised together.
`SeedsExactlyWhenComplete`: nothing is counted before the single full verification,
and completed and verified pieces never exceed the number of pieces (`CountsOK`,
`VerifiedOnce`). `NeverServedTwice`: a torrent is entered in the server's list only from
`Idle` and `Paused`, in which it is not there. `EveryConnectionCounts` and `NoPointerDangles` rest on
`PeersInv`: a connection is in the list once at most (`OnceInList`), what is in the list was opened
and not removed (`OwnedConnected`), and so was what the manager counts (`ManagedInUse`); everything open or
being opened is counted, within the limit. The loops that abort while the list shrinks only meet connections
of the list (`VisitedAreOwned`).

*`TrackerProofs`.* `Refinement`: `Spec => KeepsPromise`, that is `Tracker` implements
`AnnounceProtocol`. Initial states map to initial states; each action maps to the one the lemma
`PromiseStep` names or to a stutter, given that the socket is connected exactly
while an answer to a request is awaited (`RequestsNeedSocket`) and that the timer runs until a
connection is granted (`ConnectingIsTimed`, also proved). `StopAnnounced` follows with what
the flags say of the announces made since `stop()`.

*`UploadProofs`*, of `Uploads`. `PeersAlwaysKnow` and `InterestAlwaysTold` need that only connected clients
have shown pieces (`OnlyConnectedShow`): a new connection then starts with nothing on either side.
`UploadsAlwaysLimited` needs that whoever is unchoked without being connected is remembered
in `early` (`UnchokedEarly`). A schedule leaves the slots to the fastest and to one more; every other
handler can only give a slot back, for a client that connects later is in `early`.

The same module, of `BlockTransfer`. `RequestsAreKept` needs the most: that a choked server never leaves a
requester waiting. `TransferInv` adds, for a closed connection, that nothing is awaited; that if the
server is choking then its Choke is the last control message told, or the requester awaits
nothing (`ChokeIsTold`); that a block cancelled and awaited again is asked again later in
the stream than the cancel (`CancelsAreOld`), so that the cancel cannot take the new request;
and `QueueIsCounted`, `ChokedGetsNothing`. Lemmas on sequences say what appending,
taking the head and `RemoveFirst` do to what they contain.

*`RateControlProofs`.* `NeverForgotten` rests on `WorkIsPending`: during a transfer a socket with work is
pending, or a further transfer is certain, or nothing is left of one direction's bytes.
`UploadAlwaysLimited` rests on `BudgetKept`: what was sent, what the transfer under way may still send and
what the watch has collected since are together within one second of the highest limit,
`load + toWrite * Second + Max(UpLimits) * watch <= Max(UpLimits) * Second`.

*`SessionProofs`.* `SessionInv`: a listed file has the client made for it and only such
clients are served (`ClientsMatch`), list, settings and disk name no torrent twice (`Distinct`),
during loading the list shows only earlier rows and what is `kept` is listed or still to be loaded
(`LoadedFromRows`). `TypeCorrect`, `TorrentsAreSingle` and
`TorrentsAlwaysKept` follow. `SavedListAlwaysShown` needs the same of the loading (`ShownInv`): after k
rows the list is the readable ones among the first k; `Shows` says so by the order of the rows, as a
function from places of the list to rows, so that it can be reasoned about row by row.
`ProgressAlwaysKept` is an action property; it holds because what the settings say of a listed torrent is
never more than what its client has (`CountersInv`), and the client only counts up.

*`StorageProofs`.* First what the two loops over the files do, for any files, place and length:
`ReadIsExact`, `WriteIsExact`, and `ReadAfterWrite` from both. `BytesRead`, `BytesWritten` and `Ends` are recursive
functions over the files; the lemmas carry a statement from file to file (`FileInduction`, for
a set of indices, so that no operator is a parameter).
Then `StorageInv`. `RightBlocksVerify` and `VerifiedStaysInPlace` are not inductive: what a hash sees depends on
which lengths the copy has, when the files were resized and what else was written. It joins: what the client and
its copy know is what was read (`ReadInv`); the files have the torrent's lengths before a block is
written or a piece verified, and keep them through restarts (`FilesInv`); pieces and their blocks are
those of the torrent, and no verified piece is pending (`PiecesInv`); a block that counts as right is on
the disk at its place, and so is every byte of a verified piece, through any later writes (`RightInv`).
Under it verification passes exactly if each byte of the piece is in place
(`VerificationIsExact`); the blocks of a piece cover it (`BlocksCoverThePiece`) and different blocks, of the
same piece or of others, have no byte in common, so that writing one leaves the others right. That is
arithmetic of `\div` and `%` over unknown piece and block lengths, done by lemmas of its own.
The same invariant gives two theorems that no run lists, on points 6 and 7 above: a torrent with a
single file never gets a piece or a block (`SingleFileNeverStored`), and a last piece as long as
the others is never downloaded, only found complete by the first verification
(`LastPieceNeverDownloaded`).

Every strengthening, and `AsksByContract`, which no run lists, was also given to TLC on the instance of the
component's run.

What the models compute over lists (`Among`, `Visited`, the loops of `Storage`) is a recursive function over the places of the list:
the provers know nothing of `SelectSeq` or of folds. The lemmas about them (`AmongFacts`, `VisitedAreOwned`)
show first that the function exists, then what it is at each place, by way of the least place where
it would be otherwise (`LeastNat`).

Only model-checked:

- all liveness properties, `ReadsAnswered`, `VerdictArrives`, `DownloadCompletes`, `AnswerArrives`, `StopEnds`,
  `RequestsEnd`, `WorkIsDone`: TLAPS does not prove them here;
- `ParsedIsTheTorrent`: what the recursive operators of `Bencode` compute is an induction over data. With it stays
  that `ContentsOf` and `ReadingOf` satisfy `ReadingAssumption`, on which the proofs about `Storage` rest;
- the finding `PausedIsDisconnected`, which is violated.

## Not modelled

- User interfaces beyond what is said above, and the sources `TorrentClient.pro` does not build.
- `PeerWireClient`: assembling packets from bytes, keep-alive, the speed window, and what the parser
  does after a slot has aborted the connection.
- `TorrentClient`: the rate window of `updateProgress()`, statistics of peers and their effect on
  `weighedFreePeers()` (any order of peers is allowed), wrong block lengths.
- `TrackerClient`: the contents of the peer list, and scraping, whose handler is empty.
- `Storage`: every read and write is whole; failing ones are in `FileManager`, where a block is one bit. That the
  rest of a short write goes to the beginning of the next file is therefore only seen as a block that may
  be wrong.
- `Uploads`: peers that are let in before the full verification is over, which takes a file error and a resume.
- `Session`: a stopped client that still runs writes to the same files as a new one of the same torrent;
  `NoTorrentTwice` is about the list and the clients served.
- Of damaged torrent files nothing is stated but that what is read keeps `ReadingAssumption`; nor of a
  key `info` within the info section or after it (point 9).
- The dumped state is taken with blocks whose writes are still queued; each part is modelled, the
  composition of saving with the disk thread is not.

## What could follow

The composition of `Session` with the writes of `FileManager` would cover the last hazard of saving.
An abstract store, in which a received piece is verified in one step and its content is known, would
carry the theorems about the disk over to the client; so would one of a connection between two
peers, implemented by `BlockTransfer`.
