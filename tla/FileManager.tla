---------------------------- MODULE FileManager ----------------------------
(***************************************************************************)
(* The disk thread of one torrent (filemanager.cpp) and the main thread    *)
(* that feeds it.  The main thread appends read, write and verification    *)
(* requests under m_mutex and posts itself a wakeUp() event; the worker    *)
(* thread (FileManager::run) sleeps on m_cond, takes the requests, performs*)
(* them and answers with signals that are queued to the main thread.       *)
(*                                                                         *)
(* The destructor sets m_quit and calls wakeOne() without the mutex, so the*)
(* worker's `check m_quit' and `wait' are separate steps here.             *)
(*                                                                         *)
(* Data is abstracted to one bit per block: a block on disk either has the *)
(* content the piece's SHA1 sum was computed from or it has not.  A read   *)
(* or a write may fail, and either may do so without a word.               *)
(***************************************************************************)
EXTENDS Integers, Sequences, FiniteSets

CONSTANTS
  Piece,        \* piece indices of the torrent
  Slot,         \* the blocks: pairs of a piece and a position inside it
  None,         \* no piece
  MaxWrites,    \* bound: blocks the peers deliver in a run
  MaxReads,     \* bound: blocks the peers request in a run
  MaxErrors,    \* bound: failing reads and writes in a run
  StaleDump     \* may the dumped state name pieces the files no longer hold?

\* Every piece has bytes on disk.  (Where FileManager gives the last one the length 0
\* nobody writes it, asks to verify it or reads it; see WithBlocks in PieceDownload.)
ASSUME SlotAssumption == /\ Slot \subseteq Piece \X Nat
                         /\ \A p \in Piece : \E s \in Slot : s[1] = p
ASSUME NoneAssumption == None \notin Piece
ASSUME BoundAssumption == /\ MaxWrites \in Nat
                          /\ MaxReads \in Nat
                          /\ MaxErrors \in Nat
                          /\ StaleDump \in BOOLEAN

VARIABLES
  \* Members of FileManager that both threads touch
  mutex,                \* who holds m_mutex across steps: "worker" or "free"
  quit,                 \* m_quit, written without the mutex
  wokeUp,               \* m_wokeUp
  readRequests,         \* m_readRequests
  writeRequests,        \* m_writeRequests
  startVerification,    \* m_startVerification
  pendingVerification,  \* m_pendingVerificationRequests
  verifiedPieces,       \* m_verifiedPieces
  \* The worker thread
  wpc,                  \* where run() is
  newReads,             \* run()'s newReadRequests
  newWrites,            \* run()'s newWriteRequests
  newPending,           \* m_newPendingVerificationRequests still to verify
  scan,                 \* pieces the full verification has still to visit
  newFile,              \* m_newFile
  disk,                 \* slots whose content on disk is the right one
  unwritten,            \* history: slots whose last write failed
  errors,               \* failing reads and writes so far
  \* Main-thread event queue
  wakeUps,              \* queued invocations of wakeUp()
  signals,              \* queued signals of the worker, oldest first
  \* The main thread: TorrentClient as the file manager sees it
  mpc,                  \* "starting", "preparing", "loop", the steps of ~FileManager
  received,             \* per block: what was handed to write()
  toVerify,             \* piece whose last block was just written, or None
  completedPieces,      \* TorrentClientPrivate::completedPieces
  readId,               \* m_readId
  writes                \* calls of write() so far

lockVars   == <<mutex, wokeUp, readRequests, writeRequests, startVerification,
                pendingVerification>>
workerVars == <<wpc, newReads, newWrites, newPending, scan, newFile, errors>>
diskVars   == <<disk, unwritten, verifiedPieces>>
clientVars == <<received, toVerify, completedPieces, readId, writes>>
eventVars  == <<wakeUps, signals>>
vars == <<lockVars, workerVars, diskVars, clientVars, eventVars, quit, mpc>>

SlotsOf(p) == {s \in Slot : s[1] = p}

\* The SHA1 of piece p, read back from disk, equals the sum in the metainfo.
HashMatches(p) == SlotsOf(p) \subseteq disk

ReadRequest  == [id : Nat, slot : Slot]
WriteRequest == [slot : Slot, data : {"good", "bad"}]

\* Signals: `ok' is the truth about the block sent or the piece judged; the field
\* `whole', a history, says whether readBlock gave all it was asked for.
DataRead(id, s, whole, ok) ==
  [kind |-> "dataRead", id |-> id, slot |-> s, whole |-> whole, ok |-> ok]
PieceVerified(p, whole, ok) ==
  [kind |-> "pieceVerified", piece |-> p, whole |-> whole, ok |-> ok]
VerificationDone == [kind |-> "verificationDone"]
FileError        == [kind |-> "error"]
Signal ==
  [kind : {"dataRead"}, id : Nat, slot : Slot, whole : BOOLEAN, ok : BOOLEAN]
    \cup [kind : {"pieceVerified"}, piece : Piece, whole : BOOLEAN, ok : BOOLEAN]
    \cup {VerificationDone, FileError}

WorkerPc == {"generate", "check", "enterWait", "waiting", "woken", "takeReads",
             "reading", "writing", "scanning", "checking", "endLoop", "drain",
             "finished"}
MainPc   == {"starting", "preparing", "loop", "dtorWake", "dtorJoin", "gone"}

\* The main thread is between two events, not inside a handler.
InEventLoop == mpc \in {"preparing", "loop"} /\ toVerify = None

\* blocksLeftForPiece(p) == 0
FullyReceived(p) == \A s \in SlotsOf(p) : received[s] # "none"

(***************************************************************************)
(* TorrentClient::start has handed the dumped completed pieces over and    *)
(* started the thread; startDataVerification is its next call.  Unless the *)
(* files changed behind the client's back, a dumped piece is on disk.      *)
(***************************************************************************)
Init ==
  /\ disk \in SUBSET Slot
  /\ verifiedPieces \in SUBSET Piece
  /\ StaleDump \/ \A p \in verifiedPieces : HashMatches(p)
  /\ mutex = "free"
  /\ quit = FALSE
  /\ wokeUp = FALSE
  /\ readRequests = <<>>
  /\ writeRequests = <<>>
  /\ startVerification = FALSE
  /\ pendingVerification = <<>>
  /\ wpc = "generate"
  /\ newReads = <<>>
  /\ newWrites = <<>>
  /\ newPending = <<>>
  /\ scan = {}
  /\ newFile = FALSE
  /\ unwritten = {}
  /\ errors = 0
  /\ wakeUps = 0
  /\ signals = <<>>
  /\ mpc = "starting"
  /\ received = [s \in Slot |-> "none"]
  /\ toVerify = None
  /\ completedPieces = {}
  /\ readId = 0
  /\ writes = 0

-----------------------------------------------------------------------------
(* m_cond and the wake-up event *)

\* Fault: the wake-up is forgotten.
WakeNobody == UNCHANGED wpc

\* QWaitCondition::wakeOne: lost unless the worker is inside wait().
WakeOne == wpc' = IF wpc = "waiting" THEN "woken" ELSE wpc

\* Fault: the flag is raised and no event posted.
RaiseFlagOnly == wokeUp' = TRUE /\ UNCHANGED wakeUps

\* The tail of read(), write() and verifyPiece().
PostWakeUp ==
  /\ wokeUp' = TRUE
  /\ wakeUps' = IF wokeUp THEN wakeUps ELSE wakeUps + 1

\* The slot wakeUp(), run by the main event loop.
WakeUp ==
  /\ InEventLoop
  /\ wakeUps > 0
  /\ mutex = "free"
  /\ wakeUps' = wakeUps - 1
  /\ wokeUp' = FALSE
  /\ WakeOne
  /\ UNCHANGED <<mutex, readRequests, writeRequests, startVerification,
                 pendingVerification, newReads, newWrites, newPending, scan,
                 newFile, errors, diskVars, clientVars, signals, quit, mpc>>

-----------------------------------------------------------------------------
(* Calls of the main thread *)

StartDataVerification ==
  /\ mpc = "starting"
  /\ mutex = "free"
  /\ mpc' = "preparing"
  /\ startVerification' = TRUE
  /\ WakeOne
  /\ UNCHANGED <<mutex, wokeUp, readRequests, writeRequests,
                 pendingVerification, newReads, newWrites, newPending, scan,
                 newFile, errors, diskVars, clientVars, eventVars, quit>>

EnqueueRead(s) ==
  /\ mpc = "loop" /\ toVerify = None
  /\ readId < MaxReads
  /\ mutex = "free"
  /\ readRequests' = Append(readRequests, [id |-> readId, slot |-> s])
  /\ readId' = readId + 1
  /\ PostWakeUp
  /\ UNCHANGED <<mutex, writeRequests, startVerification, pendingVerification,
                 workerVars, diskVars, received, toVerify, completedPieces,
                 writes, signals, quit, mpc>>

\* peerRequestsBlock: only blocks of completed pieces are read.
Read(s) ==
  /\ s[1] \in completedPieces
  /\ EnqueueRead(s)

EnqueueWrite(s, data) ==
  /\ mpc = "loop" /\ toVerify = None
  /\ writes < MaxWrites
  /\ s[1] \notin completedPieces
  /\ mutex = "free"
  /\ writeRequests' = Append(writeRequests, [slot |-> s, data |-> data])
  /\ writes' = writes + 1
  /\ received' = [received EXCEPT ![s] = data]
  /\ toVerify' = IF FullyReceived(s[1])' THEN s[1] ELSE None
  /\ PostWakeUp
  /\ UNCHANGED <<mutex, readRequests, startVerification, pendingVerification,
                 workerVars, diskVars, completedPieces, readId, signals, quit,
                 mpc>>

\* blockReceived: a block that is already there is discarded; the last one of
\* a piece makes the same handler call verifyPiece.
Write(s, data) ==
  /\ received[s] = "none"
  /\ EnqueueWrite(s, data)

EnqueueVerification ==
  /\ mutex = "free"
  /\ pendingVerification' = Append(pendingVerification, toVerify)
  /\ startVerification' = TRUE
  /\ toVerify' = None
  /\ PostWakeUp
  /\ UNCHANGED <<mutex, readRequests, writeRequests, workerVars, diskVars,
                 received, completedPieces, readId, writes, signals, quit, mpc>>

VerifyPiece ==
  /\ toVerify # None
  /\ EnqueueVerification

-----------------------------------------------------------------------------
(* Slots of the main thread for the worker's signals *)

NextSignal(kind) ==
  /\ InEventLoop
  /\ signals # <<>>
  /\ Head(signals).kind = kind
  /\ signals' = Tail(signals)

\* fullVerificationDone copies the result under the mutex (completedPieces())
\* and lets peers in: only from here on are blocks requested and received.
OnVerificationDone ==
  /\ NextSignal("verificationDone")
  /\ mutex = "free"
  /\ completedPieces' = verifiedPieces
  /\ mpc' = "loop"
  /\ UNCHANGED <<lockVars, workerVars, diskVars, received, toVerify, readId,
                 writes, wakeUps, quit>>

\* TorrentClient::pieceVerified: a good piece is complete, a bad one restarts.
OnPieceVerified ==
  /\ NextSignal("pieceVerified")
  /\ LET p == Head(signals).piece IN
       /\ received' = [s \in Slot |-> IF s[1] = p THEN "none" ELSE received[s]]
       /\ completedPieces' = IF Head(signals).ok THEN completedPieces \cup {p}
                                                 ELSE completedPieces
  /\ UNCHANGED <<lockVars, workerVars, diskVars, toVerify, readId, writes,
                 wakeUps, quit, mpc>>

\* sendToPeer and handleFileError do not call the file manager back.
OnOtherSignal ==
  /\ NextSignal("dataRead") \/ NextSignal("error")
  /\ UNCHANGED <<lockVars, workerVars, diskVars, clientVars, wakeUps, quit, mpc>>

-----------------------------------------------------------------------------
(* ~FileManager, run by the main thread: no event is processed any more *)

SetQuit ==
  /\ InEventLoop
  /\ quit' = TRUE
  /\ mpc' = "dtorWake"
  /\ UNCHANGED <<lockVars, workerVars, diskVars, clientVars, eventVars>>

WakeForQuit ==
  /\ mpc = "dtorWake"
  /\ mpc' = "dtorJoin"
  /\ WakeOne
  /\ UNCHANGED <<lockVars, newReads, newWrites, newPending, scan, newFile,
                 errors, diskVars, clientVars, eventVars, quit>>

JoinWorker ==
  /\ mpc = "dtorJoin"
  /\ wpc = "finished"
  /\ mpc' = "gone"
  /\ UNCHANGED <<lockVars, workerVars, diskVars, clientVars, eventVars, quit>>

-----------------------------------------------------------------------------
(* FileManager::run *)

\* Fault: the mutex is taken and given back at once.
PassMutex == mutex = "free" /\ mutex' = "free"

LockMutex == mutex = "free" /\ mutex' = "worker"

\* generateFiles: a file that had to be resized keeps at most what it held.
GenerateFiles ==
  /\ wpc = "generate"
  /\ mutex = "free"
  /\ \/ /\ wpc' = "check"
        /\ UNCHANGED <<newFile, disk, signals>>
     \/ /\ wpc' = "check"
        /\ newFile' = TRUE
        /\ verifiedPieces = {} \/ StaleDump
        /\ disk' \in SUBSET disk
        /\ UNCHANGED signals
     \/ /\ wpc' = "finished"
        /\ signals' = Append(signals, FileError)
        /\ UNCHANGED <<newFile, disk>>
  /\ UNCHANGED <<lockVars, newReads, newWrites, newPending, scan, errors,
                 unwritten, verifiedPieces, clientVars, wakeUps, quit, mpc>>

\* The condition is evaluated with the mutex held, but m_quit may change
\* before wait() releases it.
CheckForWork ==
  /\ wpc = "check"
  /\ mutex = "free"
  /\ IF ~quit /\ readRequests = <<>> /\ writeRequests = <<>> /\ ~startVerification
       THEN wpc' = "enterWait" /\ mutex' = "worker"
       ELSE wpc' = "takeReads" /\ mutex' = "free"
  /\ UNCHANGED <<wokeUp, readRequests, writeRequests, startVerification,
                 pendingVerification, newReads, newWrites, newPending, scan,
                 newFile, errors, diskVars, clientVars, eventVars, quit, mpc>>

EnterWait ==
  /\ wpc = "enterWait"
  /\ wpc' = "waiting"
  /\ mutex' = "free"
  /\ UNCHANGED <<wokeUp, readRequests, writeRequests, startVerification,
                 pendingVerification, newReads, newWrites, newPending, scan,
                 newFile, errors, diskVars, clientVars, eventVars, quit, mpc>>

\* wait() returns with the mutex, which the end of the scope releases.
ReturnFromWait ==
  /\ wpc = "woken"
  /\ mutex = "free"
  /\ wpc' = "takeReads"
  /\ UNCHANGED <<lockVars, newReads, newWrites, newPending, scan, newFile,
                 errors, diskVars, clientVars, eventVars, quit, mpc>>

TakeReads ==
  /\ wpc = "takeReads"
  /\ mutex = "free"
  /\ wpc' = "reading"
  /\ newReads' = readRequests
  /\ readRequests' = <<>>
  /\ UNCHANGED <<mutex, wokeUp, writeRequests, startVerification,
                 pendingVerification, newWrites, newPending, scan, newFile,
                 errors, diskVars, clientVars, eventVars, quit, mpc>>

\* The queue with what a failure adds to it: error(), or nothing at all.
Told == {signals, Append(signals, FileError)}

\* readBlock gives all it was asked for; or less, because m_quit is set, because a
\* file does not open, which is told, or gives too little, which is not: the test
\* for that is `length < 0', and the loop goes on with the next file.
ReadBlock(whole, told) ==
  \/ whole = ~quit /\ told = signals /\ UNCHANGED errors
  \/ /\ ~whole /\ ~quit
     /\ errors < MaxErrors
     /\ errors' = errors + 1
     /\ told \in Told

\* dataRead is emitted with whatever readBlock returned.
PerformRead ==
  /\ wpc = "reading"
  /\ newReads # <<>>
  /\ \E whole \in BOOLEAN, told \in Told :
       /\ ReadBlock(whole, told)
       /\ LET r == Head(newReads) IN
            signals' = Append(told, DataRead(r.id, r.slot, whole,
                                             whole /\ r.slot \in disk))
  /\ newReads' = Tail(newReads)
  /\ UNCHANGED <<lockVars, wpc, newWrites, newPending, scan, newFile,
                 diskVars, clientVars, wakeUps, quit, mpc>>

\* The mutex stays locked from here to the end of the verification.
TakeWrites ==
  /\ wpc = "reading"
  /\ newReads = <<>>
  /\ LockMutex
  /\ wpc' = "writing"
  /\ newWrites' = writeRequests
  /\ writeRequests' = <<>>
  /\ UNCHANGED <<wokeUp, readRequests, startVerification, pendingVerification,
                 newReads, newPending, scan, newFile, errors, diskVars,
                 clientVars, eventVars, quit, mpc>>

\* What is on disk once r is written.
DiskWith(r) == IF r.data = "good" THEN disk \cup {r.slot} ELSE disk \ {r.slot}

\* writeBlock: the loop goes on after a failure.  One to open the file or to write
\* to it is told; QFile holds a block back, and when close() cannot flush it
\* nobody hears.  Part of the block may have been written.
PerformWrite ==
  /\ wpc = "writing"
  /\ ~quit
  /\ newWrites # <<>>
  /\ newWrites' = Tail(newWrites)
  /\ LET r == Head(newWrites) IN
       \/ /\ disk' = DiskWith(r)
          /\ unwritten' = unwritten \ {r.slot}
          /\ UNCHANGED <<signals, errors>>
       \/ /\ errors < MaxErrors
          /\ errors' = errors + 1
          /\ disk' \in {disk, DiskWith(r)}
          /\ unwritten' = unwritten \cup {r.slot}
          /\ signals' \in Told
  /\ UNCHANGED <<lockVars, wpc, newReads, newPending, scan, newFile,
                 verifiedPieces, clientVars, wakeUps, quit, mpc>>

\* Fault: the list is copied and not cleared.
CopyVerificationList ==
  newPending' = pendingVerification /\ UNCHANGED pendingVerification

TakeVerificationList ==
  newPending' = pendingVerification /\ pendingVerification' = <<>>

\* The write loop is over, because the list is empty or because m_quit is set:
\* what is left of newWriteRequests is forgotten.  verifyFileContents starts
\* with a full scan when there is no list of pieces.
EndWrites ==
  /\ wpc = "writing"
  /\ quit \/ newWrites = <<>>
  /\ newWrites' = <<>>
  /\ IF ~startVerification
       THEN /\ wpc' = "endLoop"
            /\ mutex' = "free"
            /\ UNCHANGED <<newPending, pendingVerification, scan>>
       ELSE /\ TakeVerificationList
            /\ UNCHANGED mutex
            /\ IF pendingVerification = <<>>
                 THEN /\ wpc' = "scanning"
                      /\ scan' = IF verifiedPieces = {} /\ ~newFile
                                   THEN Piece ELSE {}
                 ELSE /\ wpc' = "checking"
                      /\ UNCHANGED scan
  /\ UNCHANGED <<wokeUp, readRequests, writeRequests, startVerification,
                 newReads, newFile, errors, diskVars, clientVars, eventVars,
                 quit, mpc>>

\* verifySinglePiece hashes whatever readBlock returned.
VerifySucceeds(p, whole) == whole /\ HashMatches(p)

MarkVerified(p, whole) ==
  verifiedPieces' = IF VerifySucceeds(p, whole) THEN verifiedPieces \cup {p}
                                                ELSE verifiedPieces

ScanPiece(p) ==
  /\ wpc = "scanning"
  /\ p \in scan
  /\ scan' = scan \ {p}
  /\ \E whole \in BOOLEAN, told \in Told :
       /\ ReadBlock(whole, told)
       /\ MarkVerified(p, whole)
       /\ signals' = told
  /\ UNCHANGED <<lockVars, wpc, newReads, newWrites, newPending, newFile,
                 disk, unwritten, clientVars, wakeUps, quit, mpc>>

EndScan ==
  /\ wpc = "scanning"
  /\ scan = {}
  /\ signals' = Append(signals, VerificationDone)
  /\ startVerification' = FALSE
  /\ mutex' = "free"
  /\ wpc' = "endLoop"
  /\ UNCHANGED <<wokeUp, readRequests, writeRequests, pendingVerification,
                 newReads, newWrites, newPending, scan, newFile, errors,
                 diskVars, clientVars, wakeUps, quit, mpc>>

CheckPiece ==
  /\ wpc = "checking"
  /\ newPending # <<>>
  /\ \E whole \in BOOLEAN, told \in Told :
       /\ ReadBlock(whole, told)
       /\ LET p == Head(newPending) IN
            /\ MarkVerified(p, whole)
            /\ signals' = Append(told, PieceVerified(p, whole, VerifySucceeds(p, whole)))
  /\ newPending' = Tail(newPending)
  /\ UNCHANGED <<lockVars, wpc, newReads, newWrites, scan, newFile,
                 disk, unwritten, clientVars, wakeUps, quit, mpc>>

EndCheck ==
  /\ wpc = "checking"
  /\ newPending = <<>>
  /\ startVerification' = FALSE
  /\ mutex' = "free"
  /\ wpc' = "endLoop"
  /\ UNCHANGED <<wokeUp, readRequests, writeRequests, pendingVerification,
                 newReads, newWrites, newPending, scan, newFile, errors,
                 diskVars, clientVars, eventVars, quit, mpc>>

EndIteration ==
  /\ wpc = "endLoop"
  /\ wpc' = IF quit THEN "drain" ELSE "check"
  /\ UNCHANGED <<lockVars, newReads, newWrites, newPending, scan, newFile,
                 errors, diskVars, clientVars, eventVars, quit, mpc>>

\* After the loop: the requests are taken and writeBlock is called for each,
\* but its file loop runs only while !m_quit, so no byte is written.
DrainWrites ==
  /\ wpc = "drain"
  /\ mutex = "free"
  /\ wpc' = "finished"
  /\ writeRequests' = <<>>
  /\ UNCHANGED <<mutex, wokeUp, readRequests, startVerification,
                 pendingVerification, newReads, newWrites, newPending, scan,
                 newFile, errors, diskVars, clientVars, eventVars, quit, mpc>>

-----------------------------------------------------------------------------
Worker ==
  \/ GenerateFiles \/ CheckForWork \/ EnterWait \/ ReturnFromWait
  \/ TakeReads \/ PerformRead \/ TakeWrites \/ PerformWrite \/ EndWrites
  \/ \E p \in Piece : ScanPiece(p)
  \/ EndScan \/ CheckPiece \/ EndCheck \/ EndIteration \/ DrainWrites

\* What the main thread does for events that are already queued.
EventLoop ==
  \/ StartDataVerification \/ VerifyPiece \/ WakeUp
  \/ OnVerificationDone \/ OnPieceVerified \/ OnOtherSignal

Destructor == SetQuit \/ WakeForQuit \/ JoinWorker

Environment ==
  \/ \E s \in Slot : Read(s)
  \/ \E s \in Slot, data \in {"good", "bad"} : Write(s, data)

Next == Worker \/ EventLoop \/ Destructor \/ Environment

Spec == Init /\ [][Next]_vars

(***************************************************************************)
(* The operating system schedules the worker and the main thread, and the  *)
(* Qt event loop delivers what is queued.  Nothing obliges peers to send or*)
(* request blocks, nor the program to quit.                                *)
(***************************************************************************)
Fairness ==
  /\ WF_vars(Worker)
  /\ WF_vars(StartDataVerification \/ VerifyPiece)
  /\ WF_vars(WakeUp)
  /\ WF_vars(OnVerificationDone \/ OnPieceVerified \/ OnOtherSignal)
  /\ WF_vars(WakeForQuit \/ JoinWorker)

FairSpec == Spec /\ Fairness

-----------------------------------------------------------------------------
(* Properties *)

\* Every member and local has a value of its kind.
TypeOK ==
  /\ mutex \in {"free", "worker"}
  /\ quit \in BOOLEAN /\ wokeUp \in BOOLEAN /\ startVerification \in BOOLEAN
  /\ readRequests \in Seq(ReadRequest) /\ newReads \in Seq(ReadRequest)
  /\ writeRequests \in Seq(WriteRequest) /\ newWrites \in Seq(WriteRequest)
  /\ pendingVerification \in Seq(Piece) /\ newPending \in Seq(Piece)
  /\ verifiedPieces \in SUBSET Piece /\ completedPieces \in SUBSET Piece
  /\ wpc \in WorkerPc /\ mpc \in MainPc
  /\ scan \in SUBSET Piece /\ newFile \in BOOLEAN
  /\ disk \in SUBSET Slot /\ unwritten \in SUBSET Slot
  /\ errors \in Nat /\ wakeUps \in Nat /\ readId \in Nat /\ writes \in Nat
  /\ signals \in Seq(Signal)
  /\ received \in [Slot -> {"none", "good", "bad"}]
  /\ toVerify \in Piece \cup {None}

WorkQueued ==
  readRequests # <<>> \/ writeRequests # <<>> \/ startVerification

\* The worker never sleeps on a request nobody will wake it for: while it is
\* inside wait() with work queued, a wakeUp() event is on its way.  This is
\* what makes the m_wokeUp flag of read(), write() and verifyPiece() safe.
NoLostWakeUp == wpc = "waiting" /\ WorkQueued => wakeUps > 0

\* A piece fails its verification for a reason of its own: it could not be read in
\* full (a file, or the destructor), the last write of one of its blocks failed, or
\* a peer sent a wrong one.  A write still queued, or overtaken by the verification,
\* or an error of another piece, is never the reason.
NoSpuriousFailure ==
  \A i \in DOMAIN signals :
    signals[i].kind = "pieceVerified" /\ ~signals[i].ok =>
      \/ ~signals[i].whole
      \/ SlotsOf(signals[i].piece) \cap unwritten # {}
      \/ \E s \in SlotsOf(signals[i].piece) : received[s] = "bad"

\* What the client counts as complete is, and stays, right on disk: no write
\* that was still queued when the piece was verified spoils it afterwards.
CompletedPiecesOnDisk == \A p \in completedPieces : HashMatches(p)

\* A verdict is about a piece the client holds as fully received: the handler
\* never meets a piece that is already deleted or was already restarted.
VerdictFindsPiece ==
  \A i \in DOMAIN signals :
    signals[i].kind = "pieceVerified" =>
      /\ FullyReceived(signals[i].piece)
      /\ signals[i].piece \notin completedPieces

\* Whatever is being written meanwhile, what is read for a peer is a block of a
\* completed piece and right.  A read that fails is the exception: what it got is
\* sent all the same, cut short or, over several files, wrong.
ServedBlocksAreRight ==
  \A i \in DOMAIN signals :
    signals[i].kind = "dataRead" /\ signals[i].whole => signals[i].ok

\* Every block requested is answered, unless the torrent is being destroyed.
ReadsAnswered ==
  \A id \in 0 .. MaxReads - 1 :
    (\E i \in DOMAIN readRequests : readRequests[i].id = id)
      ~> (quit \/ \E i \in DOMAIN signals :
                    signals[i].kind = "dataRead" /\ signals[i].id = id)

\* Every piece that was completely received gets its verdict.
VerdictArrives ==
  \A p \in Piece :
    FullyReceived(p) ~> (quit \/ ~FullyReceived(p))

\* What VerdictProtocol knows of: a piece is awaited from verifyPiece() until the
\* handler of its verdict, wherever its number is kept on the way.
Phase ==
  CASE mpc \in {"starting", "preparing"} -> "checking"
    [] mpc = "loop" -> "open"
    [] OTHER -> "closed"

Holds(list, p) == \E i \in DOMAIN list : list[i] = p

Awaited ==
  {p \in Piece :
     \/ Holds(pendingVerification, p)
     \/ Holds(newPending, p)
     \/ \E i \in DOMAIN signals :
          signals[i].kind = "pieceVerified" /\ signals[i].piece = p}

Contract == INSTANCE VerdictProtocol
              WITH phase <- Phase, complete <- completedPieces, awaited <- Awaited

\* The disk thread gives one verdict for each piece the client asks about, none for
\* any other, and the client counts exactly the pieces that passed.
KeepsContract == Contract!Spec
=============================================================================
