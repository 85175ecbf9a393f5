------------------------- MODULE FileManagerProofs -------------------------
(***************************************************************************)
(* For every torrent geometry and every bound: type correctness of the     *)
(* disk thread, the absence of lost wake-ups, and what a piece goes through*)
(* from its last block to its verdict.                                     *)
(***************************************************************************)
EXTENDS FileManager, Functions, TLAPS

\* The worker is inside one of run()'s critical sections that span steps.
HoldsMutex == {"enterWait", "writing", "scanning", "checking"}

\* m_mutex is held by the worker exactly there.
MutexHeld == mutex = "worker" <=> wpc \in HoldsMutex

\* The flag m_wokeUp says whether a wakeUp() event is queued.
FlagMeansEvent == wakeUps = IF wokeUp THEN 1 ELSE 0

\* Between its check and wait() the worker keeps the callers out.
NothingSlipsIn == wpc = "enterWait" => ~WorkQueued

\* A request that finds the worker asleep has an event queued for it.
SleeperIsCalled == wpc = "waiting" /\ WorkQueued => wokeUp

WakeInv ==
  /\ TypeOK
  /\ MutexHeld
  /\ FlagMeansEvent
  /\ NothingSlipsIn
  /\ SleeperIsCalled

-----------------------------------------------------------------------------
(* Facts about the data *)

\* The signals the actions build are signals.
LEMMA SignalTypes ==
  /\ \A id \in Nat, s \in Slot, whole \in BOOLEAN, ok \in BOOLEAN :
       DataRead(id, s, whole, ok) \in Signal
  /\ \A p \in Piece, whole \in BOOLEAN, ok \in BOOLEAN :
       PieceVerified(p, whole, ok) \in Signal
  /\ VerificationDone \in Signal /\ FileError \in Signal
BY DEF Signal, DataRead, PieceVerified, VerificationDone, FileError

\* A signal of kind "pieceVerified" carries a piece.
LEMMA VerdictHasPiece ==
  ASSUME NEW x \in Signal, x.kind = "pieceVerified"
  PROVE  x.piece \in Piece /\ x.whole \in BOOLEAN /\ x.ok \in BOOLEAN
BY DEF Signal, VerificationDone, FileError

\* A slot belongs to a piece.
LEMMA SlotHasPiece == \A s \in Slot : s[1] \in Piece
BY SlotAssumption

\* Taking the first element of a non-empty sequence.
LEMMA HeadTailType ==
  ASSUME NEW S, NEW q \in Seq(S), q # <<>>
  PROVE  Head(q) \in S /\ Tail(q) \in Seq(S)
OBVIOUS

\* Emitting a signal.
LEMMA EmitType ==
  ASSUME NEW S, NEW q \in Seq(S), NEW x \in S
  PROVE  Append(q, x) \in Seq(S)
OBVIOUS

\* A failure adds a signal to the queue, or none, and to their count one or nothing.
LEMMA ToldType ==
  ASSUME TypeOK
  PROVE  /\ Told \subseteq Seq(Signal)
         /\ \A whole \in BOOLEAN, told \in Told : ReadBlock(whole, told) => errors' \in Nat
BY SignalTypes, EmitType DEF Told, ReadBlock, TypeOK

-----------------------------------------------------------------------------
(* Type correctness *)

LEMMA InitType == Init => TypeOK
<1> SUFFICES ASSUME Init PROVE TypeOK
  OBVIOUS
<1>1. /\ <<>> \in Seq(ReadRequest) /\ <<>> \in Seq(WriteRequest)
      /\ <<>> \in Seq(Piece) /\ <<>> \in Seq(Signal)
  OBVIOUS
<1> QED BY <1>1 DEF Init, TypeOK, WorkerPc, MainPc

\* Calls of the main thread keep the types.
LEMMA MainType ==
  ASSUME TypeOK, EventLoop \/ Destructor \/ Environment
  PROVE  TypeOK'
<1> USE DEF TypeOK, vars, lockVars, workerVars, diskVars, clientVars, eventVars,
            WorkerPc, MainPc
<1>1. CASE StartDataVerification
  BY <1>1 DEF StartDataVerification, WakeOne
<1>2. CASE VerifyPiece
  BY <1>2 DEF VerifyPiece, EnqueueVerification, PostWakeUp
<1>3. CASE WakeUp
  <2>1. wakeUps' \in Nat
    BY <1>3 DEF WakeUp
  <2> QED BY <1>3, <2>1 DEF WakeUp, WakeOne
<1>4. CASE OnVerificationDone
  BY <1>4, HeadTailType DEF OnVerificationDone, NextSignal
<1>5. CASE OnPieceVerified
  <2>1. Head(signals) \in Signal /\ Tail(signals) \in Seq(Signal)
    BY <1>5, HeadTailType DEF OnPieceVerified, NextSignal
  <2>2. Head(signals).piece \in Piece
    BY <1>5, <2>1, VerdictHasPiece DEF OnPieceVerified, NextSignal
  <2> QED BY <1>5, <2>1, <2>2 DEF OnPieceVerified, NextSignal
<1>6. CASE OnOtherSignal
  <2>1. signals' \in Seq(Signal)
    BY <1>6, HeadTailType DEF OnOtherSignal, NextSignal
  <2> QED BY <1>6, <2>1 DEF OnOtherSignal, NextSignal
<1>7. CASE Destructor
  BY <1>7 DEF Destructor, SetQuit, WakeForQuit, JoinWorker, WakeOne
<1>8. ASSUME NEW s \in Slot, Read(s) PROVE TypeOK'
  <2>1. [id |-> readId, slot |-> s] \in ReadRequest
    BY DEF ReadRequest
  <2> QED BY <1>8, <2>1 DEF Read, EnqueueRead, PostWakeUp
<1>9. ASSUME NEW s \in Slot, NEW data \in {"good", "bad"}, Write(s, data)
      PROVE  TypeOK'
  <2>1. [slot |-> s, data |-> data] \in WriteRequest
    BY DEF WriteRequest
  <2>2. toVerify' \in Piece \cup {None}
    BY <1>9, SlotHasPiece DEF Write, EnqueueWrite
  <2> QED BY <1>9, <2>1, <2>2 DEF Write, EnqueueWrite, PostWakeUp
<1> QED BY <1>1, <1>2, <1>3, <1>4, <1>5, <1>6, <1>7, <1>8, <1>9
        DEF EventLoop, Environment

\* Steps of the worker keep the types.
LEMMA WorkerType ==
  ASSUME TypeOK, Worker
  PROVE  TypeOK'
<1> USE DEF TypeOK, lockVars, workerVars, diskVars, clientVars, eventVars,
            WorkerPc, MainPc
<1>0. <<>> \in Seq(ReadRequest) /\ <<>> \in Seq(WriteRequest) /\ <<>> \in Seq(Piece)
  OBVIOUS
<1>1. CASE GenerateFiles
  <2>1. signals' \in Seq(Signal)
    BY <1>1, SignalTypes, EmitType DEF GenerateFiles
  <2> QED BY <1>1, <2>1 DEF GenerateFiles
<1>2. CASE CheckForWork
  BY <1>2 DEF CheckForWork
<1>3. CASE EnterWait
  BY <1>3 DEF EnterWait
<1>4. CASE ReturnFromWait
  BY <1>4 DEF ReturnFromWait
<1>5. CASE TakeReads
  BY <1>0, <1>5 DEF TakeReads
<1>6. CASE PerformRead
  <2>1. Head(newReads) \in ReadRequest /\ Tail(newReads) \in Seq(ReadRequest)
    BY <1>6, HeadTailType DEF PerformRead
  <2>2. /\ Head(newReads).id \in Nat /\ Head(newReads).slot \in Slot
    BY <2>1 DEF ReadRequest
  <2>3. signals' \in Seq(Signal)
    <3>1. \A whole \in BOOLEAN :
            DataRead(Head(newReads).id, Head(newReads).slot, whole,
                     whole /\ Head(newReads).slot \in disk) \in Signal
      BY <2>2, SignalTypes
    <3> QED BY <1>6, <3>1, EmitType, ToldType DEF PerformRead
  <2>4. errors' \in Nat
    BY <1>6, ToldType DEF PerformRead
  <2> QED BY <1>6, <2>1, <2>3, <2>4 DEF PerformRead
<1>7. CASE TakeWrites
  BY <1>0, <1>7 DEF TakeWrites, LockMutex
<1>8. CASE PerformWrite
  <2>1. Head(newWrites) \in WriteRequest /\ Tail(newWrites) \in Seq(WriteRequest)
    BY <1>8, HeadTailType DEF PerformWrite
  <2>2. Head(newWrites).slot \in Slot
    BY <2>1 DEF WriteRequest
  <2>3. signals' \in Seq(Signal)
    BY <1>8, ToldType DEF PerformWrite
  <2>4. disk' \in SUBSET Slot /\ unwritten' \in SUBSET Slot
    BY <1>8, <2>2 DEF PerformWrite, DiskWith
  <2> QED BY <1>8, <2>1, <2>3, <2>4 DEF PerformWrite
<1>9. CASE EndWrites
  BY <1>0, <1>9 DEF EndWrites, TakeVerificationList
<1>10. ASSUME NEW p \in Piece, ScanPiece(p) PROVE TypeOK'
  <2>1. signals' \in Seq(Signal) /\ errors' \in Nat
    BY <1>10, ToldType DEF ScanPiece
  <2> QED BY <1>10, <2>1 DEF ScanPiece, MarkVerified
<1>11. CASE EndScan
  <2>1. signals' \in Seq(Signal)
    BY <1>11, SignalTypes, EmitType DEF EndScan
  <2> QED BY <1>11, <2>1 DEF EndScan
<1>12. CASE CheckPiece
  <2>1. Head(newPending) \in Piece /\ Tail(newPending) \in Seq(Piece)
    BY <1>12, HeadTailType DEF CheckPiece
  <2>2. \A whole \in BOOLEAN :
          PieceVerified(Head(newPending), whole, VerifySucceeds(Head(newPending), whole))
            \in Signal
    BY <2>1, SignalTypes DEF VerifySucceeds
  <2>3. signals' \in Seq(Signal) /\ errors' \in Nat
    BY <1>12, <2>2, EmitType, ToldType DEF CheckPiece
  <2>4. verifiedPieces' \in SUBSET Piece
    BY <1>12, <2>1 DEF CheckPiece, MarkVerified
  <2> QED BY <1>12, <2>1, <2>3, <2>4 DEF CheckPiece
<1>13. CASE EndCheck
  BY <1>13 DEF EndCheck
<1>14. CASE EndIteration
  BY <1>14 DEF EndIteration
<1>15. CASE DrainWrites
  BY <1>0, <1>15 DEF DrainWrites
<1> QED BY <1>1, <1>2, <1>3, <1>4, <1>5, <1>6, <1>7, <1>8, <1>9, <1>10, <1>11,
           <1>12, <1>13, <1>14, <1>15 DEF Worker

LEMMA StepType == TypeOK /\ [Next]_vars => TypeOK'
<1> SUFFICES ASSUME TypeOK, [Next]_vars PROVE TypeOK'
  OBVIOUS
<1>1. CASE Next
  BY <1>1, MainType, WorkerType DEF Next
<1>2. CASE UNCHANGED vars
  BY <1>2 DEF TypeOK, vars, lockVars, workerVars, diskVars, clientVars, eventVars
<1> QED BY <1>1, <1>2

\* FileManager: every member and every local of run() keeps a value of its kind.
THEOREM TypeCorrect == Spec => []TypeOK
BY InitType, StepType, PTL DEF Spec

-----------------------------------------------------------------------------
(* No lost wake-up *)

LEMMA InitWake == Init => WakeInv
BY InitType
   DEF Init, WakeInv, MutexHeld, HoldsMutex, FlagMeansEvent, NothingSlipsIn,
       SleeperIsCalled, WorkQueued

\* The main thread changes the queues only with the mutex free, so never
\* between the worker's check and its wait, and leaves an event behind.
LEMMA MainWake ==
  ASSUME WakeInv, EventLoop \/ Destructor \/ Environment
  PROVE  WakeInv'
<1>0. TypeOK'
  BY MainType DEF WakeInv
<1> USE DEF WakeInv, TypeOK, MutexHeld, HoldsMutex, FlagMeansEvent,
            NothingSlipsIn, SleeperIsCalled, WorkQueued, lockVars, workerVars,
            eventVars
<1>1. CASE StartDataVerification
  BY <1>0, <1>1 DEF StartDataVerification, WakeOne
<1>2. CASE VerifyPiece
  BY <1>0, <1>2 DEF VerifyPiece, EnqueueVerification, PostWakeUp
<1>3. CASE WakeUp
  BY <1>0, <1>3 DEF WakeUp, WakeOne
<1>4. CASE OnVerificationDone
  BY <1>0, <1>4 DEF OnVerificationDone, NextSignal
<1>5. CASE OnPieceVerified
  BY <1>0, <1>5 DEF OnPieceVerified, NextSignal
<1>6. CASE OnOtherSignal
  BY <1>0, <1>6 DEF OnOtherSignal, NextSignal
<1>7. CASE Destructor
  BY <1>0, <1>7 DEF Destructor, SetQuit, WakeForQuit, JoinWorker, WakeOne
<1>8. ASSUME NEW s \in Slot, Read(s) PROVE WakeInv'
  BY <1>0, <1>8 DEF Read, EnqueueRead, PostWakeUp
<1>9. ASSUME NEW s \in Slot, NEW data \in {"good", "bad"}, Write(s, data)
      PROVE  WakeInv'
  BY <1>0, <1>9 DEF Write, EnqueueWrite, PostWakeUp
<1> QED BY <1>1, <1>2, <1>3, <1>4, <1>5, <1>6, <1>7, <1>8, <1>9
        DEF EventLoop, Environment

\* The worker goes to sleep only through its check; no other step of it makes
\* requests appear.
LEMMA WorkerWake ==
  ASSUME WakeInv, Worker
  PROVE  WakeInv'
<1>0. TypeOK'
  BY WorkerType DEF WakeInv
<1> USE DEF WakeInv, TypeOK, MutexHeld, HoldsMutex, FlagMeansEvent,
            NothingSlipsIn, SleeperIsCalled, WorkQueued, lockVars, workerVars,
            eventVars
<1>1. CASE GenerateFiles
  BY <1>0, <1>1 DEF GenerateFiles
<1>2. CASE CheckForWork
  BY <1>0, <1>2 DEF CheckForWork
<1>3. CASE EnterWait
  BY <1>0, <1>3 DEF EnterWait
<1>4. CASE ReturnFromWait \/ EndIteration \/ DrainWrites
  BY <1>0, <1>4 DEF ReturnFromWait, EndIteration, DrainWrites
<1>5. CASE TakeReads
  BY <1>0, <1>5 DEF TakeReads
<1>6. CASE PerformRead
  BY <1>0, <1>6 DEF PerformRead
<1>7. CASE TakeWrites
  BY <1>0, <1>7 DEF TakeWrites, LockMutex
<1>8. CASE PerformWrite
  BY <1>0, <1>8 DEF PerformWrite
<1>9. CASE EndWrites
  BY <1>0, <1>9 DEF EndWrites, TakeVerificationList
<1>10. ASSUME NEW p \in Piece, ScanPiece(p) PROVE WakeInv'
  BY <1>0, <1>10 DEF ScanPiece
<1>11. CASE EndScan \/ EndCheck
  BY <1>0, <1>11 DEF EndScan, EndCheck
<1>12. CASE CheckPiece
  BY <1>0, <1>12 DEF CheckPiece
<1> QED BY <1>1, <1>2, <1>3, <1>4, <1>5, <1>6, <1>7, <1>8, <1>9, <1>10, <1>11,
           <1>12 DEF Worker

LEMMA StepWake == WakeInv /\ [Next]_vars => WakeInv'
<1> SUFFICES ASSUME WakeInv, [Next]_vars PROVE WakeInv'
  OBVIOUS
<1>1. CASE Next
  BY <1>1, MainWake, WorkerWake DEF Next
<1>2. CASE UNCHANGED vars
  BY <1>2, StepType
     DEF WakeInv, MutexHeld, FlagMeansEvent, NothingSlipsIn, SleeperIsCalled,
         WorkQueued, vars, lockVars, workerVars, eventVars
<1> QED BY <1>1, <1>2

LEMMA WakeInvImpliesGoal == WakeInv => NoLostWakeUp
BY DEF WakeInv, FlagMeansEvent, SleeperIsCalled, NoLostWakeUp

\* read(), write() and verifyPiece(): whatever the schedule, the worker never
\* sleeps on queued work without a wakeUp() event on its way.
THEOREM WakeUpNeverLost == Spec => []NoLostWakeUp
BY InitWake, StepWake, WakeInvImpliesGoal, PTL DEF Spec

-----------------------------------------------------------------------------
(* What a piece goes through: its blocks are queued, written and verified,  *)
(* and its verdict travels back                                             *)

\* No piece has two verdicts in the queue, and the end of the full verification
\* is not announced twice.
NoSignalTwice(q) ==
  \A i, j \in DOMAIN q :
    /\ q[i].kind = q[j].kind
    /\ \/ q[i].kind = "verificationDone"
       \/ q[i].kind = "pieceVerified" /\ q[i].piece = q[j].piece
    => i = j

QueuedReads  == Range(readRequests) \cup Range(newReads)
QueuedWrites == Range(writeRequests) \cup Range(newWrites)

\* A verdict on piece p is on its way to the main thread.
Judged(p) == \E x \in Range(signals) : x.kind = "pieceVerified" /\ x.piece = p
Passed(p) == \E x \in Range(signals) :
               x.kind = "pieceVerified" /\ x.piece = p /\ x.ok

\* The end of the full verification is on its way to the main thread.
Announced == \E x \in Range(signals) : x.kind = "verificationDone"

\* Nothing of a download has happened yet.
Untouched ==
  /\ \A s \in Slot : received[s] = "none"
  /\ toVerify = None
  /\ completedPieces = {}
  /\ pendingVerification = <<>> /\ newPending = <<>>
  /\ writeRequests = <<>> /\ newWrites = <<>>
  /\ readRequests = <<>> /\ newReads = <<>>
  /\ \A x \in Range(signals) : x.kind \notin {"pieceVerified", "dataRead"}

\* fullVerificationDone has been handled.
Opened == mpc = "loop" \/ ~Untouched

\* A list of run() is in use only in its own part of the loop, and from taking
\* the writes to the end of the verification nothing new is queued.
ListsInv ==
  /\ newReads # <<>> => wpc = "reading"
  /\ newWrites # <<>> => wpc = "writing"
  /\ newPending # <<>> => wpc = "checking"
  /\ wpc \in {"writing", "scanning", "checking"} => writeRequests = <<>>
  /\ wpc \in {"scanning", "checking"} => pendingVerification = <<>>
  /\ wpc = "drain" => quit

\* The full verification runs, and its end is announced, before anything is
\* received or requested; afterwards a verification has a list of pieces.
PhaseInv ==
  /\ mpc \in {"starting", "preparing"} => Untouched
  /\ wpc \in {"generate", "scanning"} => Untouched
  /\ wpc = "generate" => signals = <<>>
  /\ wpc \in {"scanning", "checking"} => startVerification
  /\ mpc = "starting" => ~startVerification /\ ~Announced
  /\ Announced => Untouched /\ ~startVerification /\ wpc # "scanning"
  /\ Opened => /\ wpc \notin {"generate", "scanning"}
               /\ ~Announced
               /\ startVerification /\ wpc # "checking" => pendingVerification # <<>>

\* Only blocks of completed pieces are read.
ReadsInv == \A r \in QueuedReads : r.slot[1] \in completedPieces

\* A queued write is what the client holds as received, of a piece nobody has
\* verified.
WritesInv ==
  \A r \in QueuedWrites :
    /\ received[r.slot] = r.data
    /\ r.slot[1] \notin verifiedPieces
    /\ ~Judged(r.slot[1])

\* A right block that was received is on disk, or still queued, or could not be
\* written.
StoredInv ==
  \A s \in Slot :
    received[s] = "good" =>
      s \in disk \/ (\E r \in QueuedWrites : r.slot = s) \/ s \in unwritten \/ quit

\* A piece is verified at most once for each time it is received: it is in one
\* place only from its last block to its verdict.
AwaitsVerdict(p) ==
  \/ p = toVerify
  \/ p \in Range(pendingVerification)
  \/ p \in Range(newPending)

OnceInv ==
  /\ IsInjective(pendingVerification) /\ IsInjective(newPending)
  /\ Range(pendingVerification) \cap Range(newPending) = {}
  /\ toVerify \notin Range(pendingVerification) \cup Range(newPending)
  /\ \A p \in Piece : AwaitsVerdict(p) => ~Judged(p)

\* Whoever waits for a verdict is fully received, and not complete yet.
HeldInv ==
  \A p \in Piece :
    AwaitsVerdict(p) \/ Judged(p) => FullyReceived(p) /\ p \notin completedPieces

\* m_verifiedPieces against the client's completedPieces.
VerifiedInv ==
  /\ completedPieces \subseteq verifiedPieces
  /\ \A p \in Piece : Passed(p) => p \in verifiedPieces
  /\ Opened => \A p \in verifiedPieces : p \in completedPieces \/ Passed(p)

VerifiedOnDisk == StaleDump \/ \A p \in verifiedPieces : HashMatches(p)

\* A failed verdict has a reason, of which no later write takes anything away.
FailureInv ==
  \A x \in Range(signals) :
    x.kind = "pieceVerified" /\ ~x.ok =>
      \/ ~x.whole
      \/ \E s \in SlotsOf(x.piece) : s \in unwritten \/ received[s] = "bad"

PieceInv ==
  /\ ListsInv
  /\ PhaseInv
  /\ NoSignalTwice(signals)
  /\ ReadsInv
  /\ WritesInv
  /\ StoredInv
  /\ OnceInv
  /\ HeldInv
  /\ VerifiedInv
  /\ VerifiedOnDisk
  /\ FailureInv

-----------------------------------------------------------------------------
(* Facts about queues: elements, repetition, the two ends *)

\* An empty queue has no elements.
LEMMA RangeNil == Range(<<>>) = {} /\ IsInjective(<<>>) /\ NoSignalTwice(<<>>)
BY DEF Range, IsInjective, NoSignalTwice

\* The elements of a queue are of its kind.
LEMMA RangeType ==
  ASSUME NEW S, NEW q \in Seq(S)
  PROVE  Range(q) \subseteq S
BY DEF Range

\* Append adds one element.
LEMMA RangeAppend ==
  ASSUME NEW S, NEW q \in Seq(S), NEW x \in S
  PROVE  Range(Append(q, x)) = Range(q) \cup {x}
<1>1. /\ DOMAIN Append(q, x) = 1 .. Len(q) + 1
      /\ DOMAIN q = 1 .. Len(q) /\ Len(q) \in Nat
      /\ \A i \in 1 .. Len(q) : Append(q, x)[i] = q[i]
      /\ Append(q, x)[Len(q) + 1] = x
  OBVIOUS
<1> QED BY <1>1 DEF Range

\* A queue is its head and its tail.
LEMMA RangeTail ==
  ASSUME NEW S, NEW q \in Seq(S), q # <<>>
  PROVE  Range(q) = {Head(q)} \cup Range(Tail(q))
<1>1. /\ DOMAIN q = 1 .. Len(q) /\ Len(q) \in Nat \ {0}
      /\ DOMAIN Tail(q) = 1 .. Len(q) - 1
      /\ \A i \in 1 .. Len(q) - 1 : Tail(q)[i] = q[i + 1]
      /\ Head(q) = q[1]
  OBVIOUS
<1>2. \A i \in DOMAIN q : i = 1 \/ (i - 1 \in DOMAIN Tail(q) /\ Tail(q)[i - 1] = q[i])
  BY <1>1
<1>3. \A i \in DOMAIN Tail(q) : i + 1 \in DOMAIN q /\ q[i + 1] = Tail(q)[i]
  BY <1>1
<1>4. 1 \in DOMAIN q
  BY <1>1
<1>5. ASSUME NEW i \in DOMAIN q
      PROVE  q[i] \in {Head(q)} \cup Range(Tail(q))
  <2>1. CASE i = 1
    BY <1>1, <2>1
  <2>2. CASE i - 1 \in DOMAIN Tail(q) /\ Tail(q)[i - 1] = q[i]
    BY <2>2 DEF Range
  <2> QED BY <1>2, <2>1, <2>2
<1>6. ASSUME NEW i \in DOMAIN Tail(q)
      PROVE  Tail(q)[i] \in Range(q)
  BY <1>3 DEF Range
<1>7. Head(q) \in Range(q)
  BY <1>1, <1>4 DEF Range
<1>8. Range(q) \subseteq {Head(q)} \cup Range(Tail(q))
  BY <1>5 DEF Range
<1>9. Range(Tail(q)) \subseteq Range(q)
  BY <1>6 DEF Range
<1> QED BY <1>7, <1>8, <1>9

\* Appending something new keeps a queue free of repetition.
LEMMA InjectiveAppend ==
  ASSUME NEW S, NEW q \in Seq(S), NEW x \in S, IsInjective(q), x \notin Range(q)
  PROVE  IsInjective(Append(q, x))
<1>1. /\ DOMAIN Append(q, x) = 1 .. Len(q) + 1
      /\ DOMAIN q = 1 .. Len(q) /\ Len(q) \in Nat
      /\ \A i \in 1 .. Len(q) : Append(q, x)[i] = q[i]
      /\ Append(q, x)[Len(q) + 1] = x
  OBVIOUS
<1>2. \A i \in 1 .. Len(q) : q[i] # x
  BY <1>1 DEF Range
<1>3. \A i \in DOMAIN Append(q, x) : i \in 1 .. Len(q) \/ i = Len(q) + 1
  BY <1>1
<1> QED BY <1>1, <1>2, <1>3 DEF IsInjective

\* The head of a queue without repetition is not in its tail.
LEMMA InjectiveTail ==
  ASSUME NEW S, NEW q \in Seq(S), q # <<>>, IsInjective(q)
  PROVE  IsInjective(Tail(q)) /\ Head(q) \notin Range(Tail(q))
<1>1. /\ DOMAIN q = 1 .. Len(q) /\ Len(q) \in Nat \ {0}
      /\ DOMAIN Tail(q) = 1 .. Len(q) - 1
      /\ \A i \in 1 .. Len(q) - 1 : Tail(q)[i] = q[i + 1]
      /\ Head(q) = q[1]
  OBVIOUS
<1>2. \A i \in DOMAIN Tail(q) :
        /\ i \in Int /\ i # 0
        /\ i + 1 \in DOMAIN q /\ q[i + 1] = Tail(q)[i]
  BY <1>1
<1>3. 1 \in DOMAIN q
  BY <1>1
<1> QED BY <1>1, <1>2, <1>3 DEF Range, IsInjective

\* A signal like no other may be emitted.
LEMMA NoSignalTwiceAppend ==
  ASSUME NEW q \in Seq(Signal), NEW x \in Signal, NoSignalTwice(q),
         \A y \in Range(q) :
           /\ ~(y.kind = "verificationDone" /\ x.kind = "verificationDone")
           /\ ~(y.kind = "pieceVerified" /\ x.kind = "pieceVerified"
                  /\ y.piece = x.piece)
  PROVE  NoSignalTwice(Append(q, x))
<1>1. /\ DOMAIN Append(q, x) = 1 .. Len(q) + 1
      /\ DOMAIN q = 1 .. Len(q) /\ Len(q) \in Nat
      /\ \A i \in 1 .. Len(q) : Append(q, x)[i] = q[i]
      /\ Append(q, x)[Len(q) + 1] = x
  OBVIOUS
<1>2. \A i \in 1 .. Len(q) : q[i] \in Range(q)
  BY <1>1 DEF Range
<1>3. \A i \in DOMAIN Append(q, x) : i \in 1 .. Len(q) \/ i = Len(q) + 1
  BY <1>1
<1> QED BY <1>1, <1>2, <1>3 DEF NoSignalTwice

\* Once the oldest signal is taken, nothing like it is left.
LEMMA NoSignalTwiceTail ==
  ASSUME NEW q \in Seq(Signal), q # <<>>, NoSignalTwice(q)
  PROVE  /\ NoSignalTwice(Tail(q))
         /\ \A y \in Range(Tail(q)) :
              /\ ~(y.kind = "verificationDone" /\ Head(q).kind = "verificationDone")
              /\ ~(y.kind = "pieceVerified" /\ Head(q).kind = "pieceVerified"
                     /\ y.piece = Head(q).piece)
<1>1. /\ DOMAIN q = 1 .. Len(q) /\ Len(q) \in Nat \ {0}
      /\ DOMAIN Tail(q) = 1 .. Len(q) - 1
      /\ \A i \in 1 .. Len(q) - 1 : Tail(q)[i] = q[i + 1]
      /\ Head(q) = q[1]
  OBVIOUS
<1>2. \A i \in DOMAIN Tail(q) :
        /\ i \in Int /\ i # 0
        /\ i + 1 \in DOMAIN q /\ q[i + 1] = Tail(q)[i]
  BY <1>1
<1>3. 1 \in DOMAIN q
  BY <1>1
<1>4. NoSignalTwice(Tail(q))
  BY <1>2 DEF NoSignalTwice
<1>5. ASSUME NEW i \in DOMAIN Tail(q)
      PROVE  /\ ~(Tail(q)[i].kind = "verificationDone" /\ q[1].kind = "verificationDone")
             /\ ~(Tail(q)[i].kind = "pieceVerified" /\ q[1].kind = "pieceVerified"
                     /\ Tail(q)[i].piece = q[1].piece)
  <2>1. i \in Int /\ i # 0 /\ i + 1 \in DOMAIN q /\ q[i + 1] = Tail(q)[i]
    BY <1>2
  <2>2. i + 1 # 1
    BY <2>1
  <2> QED BY <1>3, <2>1, <2>2 DEF NoSignalTwice
<1> QED BY <1>1, <1>4, <1>5 DEF Range

\* Queued requests are about slots.
LEMMA QueuedTypes ==
  ASSUME TypeOK
  PROVE  /\ \A r \in QueuedReads : r.slot \in Slot
         /\ \A r \in QueuedWrites : r.slot \in Slot /\ r.data \in {"good", "bad"}
<1>1. /\ Range(readRequests) \subseteq ReadRequest
      /\ Range(newReads) \subseteq ReadRequest
      /\ Range(writeRequests) \subseteq WriteRequest
      /\ Range(newWrites) \subseteq WriteRequest
  BY RangeType DEF TypeOK
<1> QED BY <1>1 DEF QueuedReads, QueuedWrites, ReadRequest, WriteRequest

-----------------------------------------------------------------------------
(* Every step keeps the invariant *)

\* Before the thread starts nothing is queued.
LEMMA InitPiece == Init => PieceInv
<1> SUFFICES ASSUME Init PROVE PieceInv
  OBVIOUS
<1>1. /\ Range(signals) = {} /\ DOMAIN signals = {}
      /\ QueuedReads = {} /\ QueuedWrites = {}
  BY RangeNil DEF Init, QueuedReads, QueuedWrites
<1>2. ListsInv /\ ReadsInv /\ WritesInv /\ VerifiedOnDisk /\ FailureInv
  BY <1>1 DEF Init, ListsInv, ReadsInv, WritesInv, VerifiedOnDisk, FailureInv
<1>3. NoSignalTwice(signals)
  BY <1>1 DEF NoSignalTwice
<1>4. StoredInv
  BY DEF Init, StoredInv
<1>5. Untouched /\ ~Opened
  BY <1>1 DEF Init, Untouched, Opened
<1>6. PhaseInv
  BY <1>1, <1>5 DEF Init, PhaseInv, Announced
<1>7. OnceInv /\ HeldInv
  BY <1>1, RangeNil, NoneAssumption DEF Init, OnceInv, HeldInv, AwaitsVerdict, Judged
<1>8. VerifiedInv
  BY <1>1, <1>5 DEF Init, VerifiedInv, Passed
<1> QED BY <1>2, <1>3, <1>4, <1>6, <1>7, <1>8 DEF PieceInv

\* Steps that only move a program counter, the mutex or a wake-up.
LEMMA QuietPiece ==
  ASSUME WakeInv, PieceInv,
         \/ CheckForWork \/ EnterWait \/ ReturnFromWait \/ EndIteration \/ WakeUp
         \/ SetQuit \/ WakeForQuit \/ JoinWorker \/ StartDataVerification
  PROVE  PieceInv'
<1> USE DEF PieceInv, ListsInv, PhaseInv, Untouched, Opened, Announced, ReadsInv,
            WritesInv, StoredInv, OnceInv, HeldInv, AwaitsVerdict, FullyReceived,
            Judged, Passed, VerifiedInv, VerifiedOnDisk, HashMatches, FailureInv,
            QueuedReads, QueuedWrites, WakeInv, TypeOK, MutexHeld, HoldsMutex, lockVars,
            workerVars, diskVars, clientVars, eventVars
<1>1. CASE CheckForWork
  BY <1>1 DEF CheckForWork
<1>2. CASE EnterWait
  BY <1>2 DEF EnterWait
<1>3. CASE ReturnFromWait
  BY <1>3 DEF ReturnFromWait
<1>4. CASE EndIteration
  BY <1>4 DEF EndIteration
<1>5. CASE WakeUp
  BY <1>5 DEF WakeUp, WakeOne
<1>6. CASE SetQuit
  BY <1>6 DEF SetQuit
<1>7. CASE WakeForQuit
  BY <1>7 DEF WakeForQuit, WakeOne
<1>8. CASE JoinWorker
  BY <1>8 DEF JoinWorker
<1>9. CASE StartDataVerification
  BY <1>9 DEF StartDataVerification, WakeOne
<1> QED BY <1>1, <1>2, <1>3, <1>4, <1>5, <1>6, <1>7, <1>8, <1>9

\* Steps of the worker that take requests over or end a part of its loop.
LEMMA TakePiece ==
  ASSUME WakeInv, PieceInv,
         \/ TakeReads \/ TakeWrites \/ DrainWrites \/ EndCheck \/ EndWrites \/ GenerateFiles
  PROVE  PieceInv'
<1> USE RangeNil
        DEF PieceInv, ListsInv, PhaseInv, Untouched, Opened, Announced, ReadsInv,
            WritesInv, StoredInv, OnceInv, HeldInv, AwaitsVerdict, FullyReceived,
            Judged, Passed, VerifiedInv, VerifiedOnDisk, HashMatches, FailureInv,
            QueuedReads, QueuedWrites, WakeInv, TypeOK, MutexHeld, HoldsMutex, lockVars,
            workerVars, diskVars, clientVars, eventVars
<1>1. CASE TakeReads
  BY <1>1 DEF TakeReads
<1>2. CASE TakeWrites
  BY <1>2 DEF TakeWrites, LockMutex
<1>3. CASE DrainWrites
  BY <1>3 DEF DrainWrites
<1>4. CASE EndCheck
  BY <1>4 DEF EndCheck
<1>5. CASE EndWrites
  BY <1>5 DEF EndWrites, TakeVerificationList
<1>6. CASE GenerateFiles
  <2>1. Range(signals') \subseteq {FileError} /\ NoSignalTwice(signals')
    <3>1. signals = <<>> /\ Append(signals, FileError) \in Seq(Signal)
      BY <1>6, SignalTypes DEF GenerateFiles
    <3>2. Range(Append(signals, FileError)) = Range(signals) \cup {FileError}
      BY SignalTypes, RangeAppend
    <3>3. NoSignalTwice(Append(signals, FileError))
      BY <3>1, SignalTypes, NoSignalTwiceAppend DEF FileError
    <3> QED BY <1>6, <3>1, <3>2, <3>3 DEF GenerateFiles
  <2>2. FileError.kind = "error"
    BY DEF FileError
  <2>3. \A i \in DOMAIN signals' : signals'[i].kind = "error"
    BY <2>1, <2>2 DEF Range
  <2> QED BY <1>6, <2>1, <2>2, <2>3 DEF GenerateFiles
<1> QED BY <1>1, <1>2, <1>3, <1>4, <1>5, <1>6

\* The signals in the queue, with or without an error().
LEMMA ToldEffect ==
  ASSUME TypeOK, NoSignalTwice(signals), NEW told \in Told
  PROVE  /\ told \in Seq(Signal) /\ NoSignalTwice(told)
         /\ Range(told) \in {Range(signals), Range(signals) \cup {FileError}}
<1>1. signals \in Seq(Signal) /\ FileError \in Signal /\ FileError.kind = "error"
  BY SignalTypes DEF TypeOK, FileError
<1>2. NoSignalTwice(Append(signals, FileError))
  BY <1>1, NoSignalTwiceAppend
<1>3. Range(Append(signals, FileError)) = Range(signals) \cup {FileError}
  BY <1>1, RangeAppend
<1> QED BY <1>1, <1>2, <1>3, EmitType DEF Told

\* An answer behind them.
LEMMA AnswerEffect ==
  ASSUME TypeOK, NoSignalTwice(signals), NEW told \in Told, NEW x \in Signal,
         x.kind \in {"dataRead", "pieceVerified"},
         \A y \in Range(signals) :
           ~(y.kind = "pieceVerified" /\ x.kind = "pieceVerified" /\ y.piece = x.piece)
  PROVE  /\ NoSignalTwice(Append(told, x))
         /\ \/ Range(Append(told, x)) = Range(signals) \cup {x}
            \/ Range(Append(told, x)) = Range(signals) \cup {FileError, x}
<1>1. /\ told \in Seq(Signal) /\ NoSignalTwice(told)
      /\ Range(told) \in {Range(signals), Range(signals) \cup {FileError}}
  BY ToldEffect
<1>2. Range(Append(told, x)) = Range(told) \cup {x}
  BY <1>1, RangeAppend
<1>3. \A y \in Range(told) : y \in Range(signals) \/ y.kind = "error"
  BY <1>1 DEF FileError
<1>4. NoSignalTwice(Append(told, x))
  BY <1>1, <1>3, NoSignalTwiceAppend
<1> QED BY <1>1, <1>2, <1>4

\* PerformRead answers the oldest request of newReads.
LEMMA PerformReadEffect ==
  ASSUME TypeOK, NoSignalTwice(signals), PerformRead
  PROVE  \E r \in ReadRequest, x \in Signal :
           /\ r.slot \in Slot
           /\ x.kind = "dataRead" /\ (x.ok <=> x.whole /\ r.slot \in disk)
           /\ NoSignalTwice(signals')
           /\ \/ Range(signals') = Range(signals) \cup {x}
              \/ Range(signals') = Range(signals) \cup {FileError, x}
           /\ Range(newReads) = {r} \cup Range(newReads')
<1> DEFINE r == Head(newReads)
           x(whole) == DataRead(r.id, r.slot, whole, whole /\ r.slot \in disk)
<1>1. newReads \in Seq(ReadRequest) /\ newReads # <<>> /\ newReads' = Tail(newReads)
  BY DEF PerformRead, TypeOK
<1>2. PICK whole \in BOOLEAN, told \in Told : signals' = Append(told, x(whole))
  BY DEF PerformRead
<1>3. r \in ReadRequest
  BY <1>1, HeadTailType
<1>4. r.id \in Nat /\ r.slot \in Slot
  BY <1>3 DEF ReadRequest
<1>5. x(whole) \in Signal
  BY <1>4, SignalTypes
<1>6. /\ x(whole).kind = "dataRead"
      /\ x(whole).ok <=> x(whole).whole /\ r.slot \in disk
  BY DEF DataRead
<1>7. Range(newReads) = {r} \cup Range(newReads')
  BY <1>1, RangeTail
<1> HIDE DEF x, r
<1>8. /\ NoSignalTwice(signals')
      /\ \/ Range(signals') = Range(signals) \cup {x(whole)}
         \/ Range(signals') = Range(signals) \cup {FileError, x(whole)}
  BY <1>2, <1>5, <1>6, AnswerEffect
<1> QED BY <1>3, <1>4, <1>5, <1>6, <1>7, <1>8

\* PerformWrite takes the oldest request of newWrites; it stores the block or
\* fails, in part and in silence perhaps.
LEMMA PerformWriteEffect ==
  ASSUME TypeOK, NoSignalTwice(signals), PerformWrite
  PROVE  \E r \in WriteRequest :
           /\ r.slot \in Slot /\ r.slot[1] \in Piece
           /\ Range(newWrites) = {r} \cup Range(newWrites')
           /\ NoSignalTwice(signals')
           /\ Range(signals') \in {Range(signals), Range(signals) \cup {FileError}}
           /\ \/ disk' = DiskWith(r) /\ unwritten' = unwritten \ {r.slot}
              \/ disk' \in {disk, DiskWith(r)} /\ unwritten' = unwritten \cup {r.slot}
<1> DEFINE r == Head(newWrites)
<1>1. newWrites \in Seq(WriteRequest) /\ newWrites # <<>> /\ newWrites' = Tail(newWrites)
  BY DEF PerformWrite, TypeOK
<1>2. r \in WriteRequest
  BY <1>1, HeadTailType
<1>3. r.slot \in Slot
  BY <1>2 DEF WriteRequest
<1>4. r.slot[1] \in Piece
  BY <1>3, SlotHasPiece
<1>5. Range(newWrites) = {r} \cup Range(newWrites')
  BY <1>1, RangeTail
<1>6. \/ disk' = DiskWith(r) /\ unwritten' = unwritten \ {r.slot}
      \/ disk' \in {disk, DiskWith(r)} /\ unwritten' = unwritten \cup {r.slot}
  BY DEF PerformWrite
<1>7. signals' \in Told
  BY DEF PerformWrite, Told
<1>8. /\ NoSignalTwice(signals')
      /\ Range(signals') \in {Range(signals), Range(signals) \cup {FileError}}
  BY <1>7, ToldEffect
<1> HIDE DEF r
<1> QED BY <1>2, <1>3, <1>4, <1>5, <1>6, <1>8

\* ScanPiece marks a piece that could be read and is right.
LEMMA ScanPieceEffect ==
  ASSUME TypeOK, NoSignalTwice(signals), NEW p \in Piece, ScanPiece(p)
  PROVE  /\ NoSignalTwice(signals')
         /\ Range(signals') \in {Range(signals), Range(signals) \cup {FileError}}
         /\ \/ verifiedPieces' = verifiedPieces
            \/ verifiedPieces' = verifiedPieces \cup {p} /\ HashMatches(p)
<1>1. PICK whole \in BOOLEAN, told \in Told :
         signals' = told /\ MarkVerified(p, whole)
  BY DEF ScanPiece
<1> QED BY <1>1, ToldEffect DEF MarkVerified, VerifySucceeds

\* CheckPiece judges the first piece of its list.
LEMMA CheckPieceEffect ==
  ASSUME TypeOK, NoSignalTwice(signals), CheckPiece, IsInjective(newPending),
         \A q \in Range(newPending) : ~Judged(q)
  PROVE  \E p \in Piece, x \in Signal :
           /\ Range(newPending) = {p} \cup Range(newPending')
           /\ IsInjective(newPending') /\ p \notin Range(newPending')
           /\ x.kind = "pieceVerified" /\ x.piece = p
           /\ x.whole => ~quit
           /\ x.ok <=> x.whole /\ HashMatches(p)
           /\ NoSignalTwice(signals')
           /\ \/ Range(signals') = Range(signals) \cup {x}
              \/ Range(signals') = Range(signals) \cup {FileError, x}
           /\ verifiedPieces' = IF x.ok THEN verifiedPieces \cup {p} ELSE verifiedPieces
<1> DEFINE p == Head(newPending)
           x(whole) == PieceVerified(p, whole, VerifySucceeds(p, whole))
<1>1. newPending \in Seq(Piece) /\ newPending # <<>> /\ newPending' = Tail(newPending)
  BY DEF CheckPiece, TypeOK
<1>2. PICK whole \in BOOLEAN, told \in Told :
         /\ ReadBlock(whole, told)
         /\ MarkVerified(p, whole)
         /\ signals' = Append(told, x(whole))
  BY DEF CheckPiece
<1>3. p \in Piece
  BY <1>1, HeadTailType
<1>4. x(whole) \in Signal
  BY <1>3, SignalTypes DEF VerifySucceeds
<1>5. /\ x(whole).kind = "pieceVerified" /\ x(whole).piece = p
      /\ x(whole).whole <=> whole
      /\ x(whole).ok <=> whole /\ HashMatches(p)
  BY DEF PieceVerified, VerifySucceeds
<1>6. whole => ~quit
  BY <1>2 DEF ReadBlock, TypeOK
<1>7. Range(newPending) = {p} \cup Range(newPending')
  BY <1>1, RangeTail
<1>8. IsInjective(newPending') /\ p \notin Range(newPending')
  BY <1>1, InjectiveTail
<1>9. verifiedPieces' = IF x(whole).ok THEN verifiedPieces \cup {p} ELSE verifiedPieces
  BY <1>2, <1>5 DEF MarkVerified, VerifySucceeds
<1> HIDE DEF x, p
<1>10. ~Judged(p)
  BY <1>7
<1>11. /\ NoSignalTwice(signals')
       /\ \/ Range(signals') = Range(signals) \cup {x(whole)}
          \/ Range(signals') = Range(signals) \cup {FileError, x(whole)}
  BY <1>2, <1>4, <1>5, <1>10, AnswerEffect DEF Judged
<1> QED BY <1>3, <1>4, <1>5, <1>6, <1>7, <1>8, <1>9, <1>11

\* Steps of the worker that answer or may report an error.
LEMMA EmitPiece ==
  ASSUME WakeInv, PieceInv,
         \/ PerformRead \/ PerformWrite \/ EndScan \/ CheckPiece
         \/ \E p \in Piece : ScanPiece(p)
  PROVE  PieceInv'
<1>0. TypeOK /\ signals \in Seq(Signal) /\ NoSignalTwice(signals)
  BY DEF WakeInv, TypeOK, PieceInv
<1>a. FileError \in Signal /\ FileError.kind = "error"
  BY SignalTypes DEF FileError
<1> USE DEF PieceInv, ListsInv, PhaseInv, Untouched, Opened, Announced, ReadsInv,
            WritesInv, StoredInv, OnceInv, HeldInv, AwaitsVerdict, FullyReceived,
            Judged, Passed, VerifiedInv, VerifiedOnDisk, HashMatches, FailureInv,
            QueuedReads, QueuedWrites, WakeInv, MutexHeld, HoldsMutex, lockVars,
            workerVars, diskVars, clientVars, eventVars
<1>1. CASE PerformRead
  <2>1. PICK r \in ReadRequest, x \in Signal :
           /\ r.slot \in Slot
           /\ x.kind = "dataRead" /\ (x.ok <=> x.whole /\ r.slot \in disk)
           /\ NoSignalTwice(signals')
           /\ \/ Range(signals') = Range(signals) \cup {x}
              \/ Range(signals') = Range(signals) \cup {FileError, x}
           /\ Range(newReads) = {r} \cup Range(newReads')
    BY <1>0, <1>1, PerformReadEffect
  <2>2. \A y \in Range(signals') : y \in Range(signals) \/ y.kind \in {"dataRead", "error"}
    BY <1>a, <2>1
  <2>3. Range(signals) \subseteq Range(signals')
    BY <2>1
  <2>4. ListsInv'
    BY <1>1, <2>1 DEF PerformRead
  <2>5. PhaseInv'
    BY <1>1, <2>1, <2>2, <2>3 DEF PerformRead
  <2>6. ReadsInv' /\ WritesInv' /\ StoredInv'
    BY <1>1, <2>1, <2>2, <2>3 DEF PerformRead
  <2>7. OnceInv' /\ HeldInv'
    BY <1>1, <2>1, <2>2, <2>3 DEF PerformRead
  <2>8. VerifiedInv' /\ VerifiedOnDisk'
    BY <1>1, <2>1, <2>2, <2>3 DEF PerformRead
  <2>9. FailureInv'
    BY <1>1, <2>1, <2>2 DEF PerformRead
  <2> QED BY <2>1, <2>4, <2>5, <2>6, <2>7, <2>8, <2>9
<1>2. CASE PerformWrite
  <2>1. PICK r \in WriteRequest :
           /\ r.slot \in Slot /\ r.slot[1] \in Piece
           /\ Range(newWrites) = {r} \cup Range(newWrites')
           /\ NoSignalTwice(signals')
           /\ Range(signals') \in {Range(signals), Range(signals) \cup {FileError}}
           /\ \/ disk' = DiskWith(r) /\ unwritten' = unwritten \ {r.slot}
              \/ disk' \in {disk, DiskWith(r)} /\ unwritten' = unwritten \cup {r.slot}
    BY <1>0, <1>2, PerformWriteEffect
  <2>2. Range(signals) \subseteq Range(signals')
    BY <2>1
  <2>3. \A y \in Range(signals') : y \in Range(signals) \/ y.kind = "error"
    BY <1>a, <2>1
  <2>4. ListsInv'
    BY <1>2, <2>1 DEF PerformWrite
  <2>5. PhaseInv'
    BY <1>2, <2>1, <2>2, <2>3 DEF PerformWrite
  <2>6. ReadsInv' /\ WritesInv'
    BY <1>2, <2>1, <2>2, <2>3 DEF PerformWrite
  <2>7. StoredInv'
    BY <1>2, <2>1 DEF PerformWrite, DiskWith
  <2>8. OnceInv'
    BY <1>2, <2>1, <2>3 DEF PerformWrite
  <2>9. HeldInv'
    BY <1>2, <2>1, <2>3 DEF PerformWrite
  <2>10. VerifiedInv'
    BY <1>2, <2>1, <2>2, <2>3 DEF PerformWrite
  <2>11. VerifiedOnDisk'
    BY <1>2, <2>1 DEF PerformWrite, DiskWith, SlotsOf
  <2>12. FailureInv'
    BY <1>2, <2>1, <2>3 DEF PerformWrite, SlotsOf
  <2> QED BY <2>1, <2>4, <2>5, <2>6, <2>7, <2>8, <2>9, <2>10, <2>11, <2>12
<1>3. CASE EndScan
  <2>1. VerificationDone \in Signal /\ VerificationDone.kind = "verificationDone"
    BY SignalTypes DEF VerificationDone
  <2>2. Range(signals') = Range(signals) \cup {VerificationDone}
    BY <1>0, <1>3, <2>1, RangeAppend DEF EndScan
  <2>3. NoSignalTwice(signals')
    BY <1>0, <1>3, <2>1, NoSignalTwiceAppend DEF EndScan
  <2> QED BY <1>3, <2>1, <2>2, <2>3 DEF EndScan
<1>4. CASE CheckPiece
  <2>1. PICK p \in Piece, x \in Signal :
           /\ Range(newPending) = {p} \cup Range(newPending')
           /\ IsInjective(newPending') /\ p \notin Range(newPending')
           /\ x.kind = "pieceVerified" /\ x.piece = p
           /\ x.whole => ~quit
           /\ x.ok <=> x.whole /\ HashMatches(p)
           /\ NoSignalTwice(signals')
           /\ \/ Range(signals') = Range(signals) \cup {x}
              \/ Range(signals') = Range(signals) \cup {FileError, x}
           /\ verifiedPieces' = IF x.ok THEN verifiedPieces \cup {p} ELSE verifiedPieces
    <3>1. \A q \in Range(newPending) : q \in Piece /\ ~Judged(q)
      BY <1>0, RangeType DEF TypeOK
    <3> QED BY <1>0, <1>4, <3>1, CheckPieceEffect
  <2>2. /\ \A y \in Range(signals') : y \in Range(signals) \/ y = x \/ y.kind = "error"
        /\ Range(signals) \cup {x} \subseteq Range(signals')
    BY <1>a, <2>1
  <2>3. ListsInv'
    BY <1>4, <2>1 DEF CheckPiece
  <2>4. PhaseInv'
    BY <1>4, <2>1, <2>2 DEF CheckPiece
  <2>5. ReadsInv' /\ WritesInv'
    BY <1>4, <2>1, <2>2 DEF CheckPiece
  <2>6. StoredInv'
    BY <1>4, <2>1 DEF CheckPiece
  <2>7. OnceInv'
    BY <1>4, <2>1, <2>2 DEF CheckPiece
  <2>8. HeldInv'
    BY <1>4, <2>1, <2>2 DEF CheckPiece
  <2>9. VerifiedInv'
    BY <1>4, <2>1, <2>2 DEF CheckPiece
  <2>10. VerifiedOnDisk'
    BY <1>4, <2>1 DEF CheckPiece
  <2>11. FailureInv'
    <3>1. QueuedWrites = {} /\ UNCHANGED <<received, unwritten>>
      BY <1>4, RangeNil DEF CheckPiece
    <3>2. \A s \in SlotsOf(p) : s \in Slot /\ received[s] \in {"good", "bad"}
      BY <1>0, <2>1 DEF TypeOK, SlotsOf
    <3>3. ASSUME ~x.ok, x.whole
          PROVE  \E s \in SlotsOf(p) : s \in unwritten \/ received[s] = "bad"
      BY <2>1, <3>1, <3>2, <3>3
    <3> QED BY <2>1, <2>2, <3>1, <3>3
  <2> QED BY <2>1, <2>3, <2>4, <2>5, <2>6, <2>7, <2>8, <2>9, <2>10, <2>11
<1>5. ASSUME NEW p \in Piece, ScanPiece(p) PROVE PieceInv'
  <2>1. /\ NoSignalTwice(signals')
        /\ Range(signals') \in {Range(signals), Range(signals) \cup {FileError}}
        /\ \/ verifiedPieces' = verifiedPieces
           \/ verifiedPieces' = verifiedPieces \cup {p} /\ HashMatches(p)
    BY <1>0, <1>5, ScanPieceEffect
  <2>2. Range(signals) \subseteq Range(signals')
    BY <2>1
  <2>3. \A y \in Range(signals') : y \in Range(signals) \/ y.kind = "error"
    BY <1>a, <2>1
  <2>4. ListsInv' /\ PhaseInv'
    BY <1>5, <2>1, <2>2, <2>3 DEF ScanPiece
  <2>5. ReadsInv' /\ WritesInv' /\ StoredInv'
    BY <1>5, <2>1, <2>2, <2>3 DEF ScanPiece
  <2>6. OnceInv' /\ HeldInv'
    BY <1>5, <2>1, <2>2, <2>3 DEF ScanPiece
  <2>7. VerifiedInv' /\ VerifiedOnDisk' /\ FailureInv'
    BY <1>5, <2>1, <2>2, <2>3 DEF ScanPiece
  <2> QED BY <2>1, <2>4, <2>5, <2>6, <2>7
<1> QED BY <1>1, <1>2, <1>3, <1>4, <1>5

\* Handling the oldest signal, which is of the given kind.
LEMMA NextSignalEffect ==
  ASSUME TypeOK, NoSignalTwice(signals), NEW kind, NextSignal(kind)
  PROVE  \E x \in Signal :
           /\ x = Head(signals) /\ x.kind = kind
           /\ Range(signals) = {x} \cup Range(signals')
           /\ NoSignalTwice(signals')
           /\ kind = "verificationDone" =>
                \A y \in Range(signals') : y.kind # "verificationDone"
           /\ kind = "pieceVerified" =>
                \A y \in Range(signals') :
                  ~(y.kind = "pieceVerified" /\ y.piece = x.piece)
<1>1. signals \in Seq(Signal) /\ signals # <<>> /\ signals' = Tail(signals)
      /\ Head(signals).kind = kind
  BY DEF NextSignal, TypeOK
<1>2. Head(signals) \in Signal
  BY <1>1, HeadTailType
<1>3. Range(signals) = {Head(signals)} \cup Range(signals')
  BY <1>1, RangeTail
<1>4. NoSignalTwice(signals')
  BY <1>1, NoSignalTwiceTail
<1>5. \A y \in Range(signals') :
        /\ ~(y.kind = "verificationDone" /\ Head(signals).kind = "verificationDone")
        /\ ~(y.kind = "pieceVerified" /\ Head(signals).kind = "pieceVerified"
               /\ y.piece = Head(signals).piece)
  BY <1>1, NoSignalTwiceTail
<1> QED BY <1>1, <1>2, <1>3, <1>4, <1>5

\* Calls and slots of the main thread.
LEMMA MainPiece ==
  ASSUME WakeInv, PieceInv,
         \/ VerifyPiece \/ OnVerificationDone \/ OnPieceVerified \/ OnOtherSignal
         \/ Environment
  PROVE  PieceInv'
<1>0. TypeOK /\ signals \in Seq(Signal)
  BY DEF WakeInv, TypeOK
<1> USE DEF PieceInv, ListsInv, PhaseInv, Untouched, Opened, Announced, ReadsInv,
            WritesInv, StoredInv, OnceInv, HeldInv, AwaitsVerdict, FullyReceived,
            Judged, Passed, VerifiedInv, VerifiedOnDisk, HashMatches, FailureInv,
            QueuedReads, QueuedWrites, WakeInv, MutexHeld, HoldsMutex, lockVars,
            workerVars, diskVars, clientVars, eventVars
<1>1. CASE VerifyPiece
  <2>1. toVerify \in Piece /\ pendingVerification \in Seq(Piece)
        /\ pendingVerification' = Append(pendingVerification, toVerify)
    BY <1>0, <1>1 DEF VerifyPiece, EnqueueVerification, TypeOK
  <2>2. Range(pendingVerification') = Range(pendingVerification) \cup {toVerify}
    BY <2>1, RangeAppend
  <2>3. IsInjective(pendingVerification')
    BY <2>1, InjectiveAppend
  <2>4. pendingVerification' # <<>>
    BY <2>1
  <2>5. ListsInv'
    BY <1>1, <2>1, <2>2, <2>3, <2>4 DEF VerifyPiece, EnqueueVerification
  <2>6. PhaseInv'
    BY <1>1, <2>1, <2>2, <2>3, <2>4 DEF VerifyPiece, EnqueueVerification
  <2>7. ReadsInv'
    BY <1>1, <2>1, <2>2, <2>3, <2>4 DEF VerifyPiece, EnqueueVerification
  <2>8. WritesInv'
    BY <1>1, <2>1, <2>2, <2>3, <2>4 DEF VerifyPiece, EnqueueVerification
  <2>9. StoredInv'
    BY <1>1, <2>1, <2>2, <2>3, <2>4 DEF VerifyPiece, EnqueueVerification
  <2>10. None \notin Range(pendingVerification') \cup Range(newPending')
    <3>1. Range(pendingVerification) \subseteq Piece /\ Range(newPending) \subseteq Piece
      BY <1>0, RangeType DEF TypeOK
    <3> QED BY <1>1, <2>1, <2>2, <3>1, NoneAssumption DEF VerifyPiece, EnqueueVerification
  <2>11. OnceInv'
    BY <1>1, <2>1, <2>2, <2>3, <2>4, <2>10, NoneAssumption
       DEF VerifyPiece, EnqueueVerification
  <2>12. HeldInv'
    BY <1>1, <2>1, <2>2, <2>3, <2>4, NoneAssumption DEF VerifyPiece, EnqueueVerification
  <2>13. VerifiedInv'
    BY <1>1, <2>1, <2>2, <2>3, <2>4 DEF VerifyPiece, EnqueueVerification
  <2>14. VerifiedOnDisk'
    BY <1>1, <2>1, <2>2, <2>3, <2>4 DEF VerifyPiece, EnqueueVerification
  <2>15. FailureInv'
    BY <1>1, <2>1, <2>2, <2>3, <2>4 DEF VerifyPiece, EnqueueVerification
  <2>16. NoSignalTwice(signals')
    BY <1>1 DEF VerifyPiece, EnqueueVerification
  <2> QED BY <2>5, <2>6, <2>7, <2>8, <2>9, <2>11, <2>12, <2>13, <2>14, <2>15,
             <2>16
<1>2. CASE OnVerificationDone
  <2>1. PICK x \in Signal :
           /\ x = Head(signals) /\ x.kind = "verificationDone"
           /\ Range(signals) = {x} \cup Range(signals')
           /\ NoSignalTwice(signals')
           /\ \A y \in Range(signals') : y.kind # "verificationDone"
    BY <1>0, <1>2, NextSignalEffect DEF OnVerificationDone
  <2>2. /\ Untouched /\ ~startVerification /\ mpc' = "loop"
        /\ completedPieces' = verifiedPieces
        /\ wpc \notin {"generate", "scanning"}
        /\ QueuedReads = {} /\ QueuedWrites = {}
    BY <1>2, <2>1, RangeNil DEF OnVerificationDone
  <2>3. ~Announced'
    BY <2>1
  <2>4. ListsInv'
    BY <1>2, <2>1, <2>2, <2>3 DEF OnVerificationDone
  <2>5. PhaseInv'
    BY <1>2, <2>1, <2>2, <2>3 DEF OnVerificationDone
  <2>6. ReadsInv'
    BY <1>2, <2>1, <2>2, <2>3 DEF OnVerificationDone
  <2>7. WritesInv'
    BY <1>2, <2>1, <2>2, <2>3 DEF OnVerificationDone
  <2>8. StoredInv'
    BY <1>2, <2>1, <2>2, <2>3 DEF OnVerificationDone
  <2>9. OnceInv'
    BY <1>2, <2>1, <2>2, <2>3, RangeNil, NoneAssumption DEF OnVerificationDone
  <2>10. HeldInv'
    BY <1>2, <2>1, <2>2, <2>3, RangeNil, NoneAssumption DEF OnVerificationDone
  <2>11. VerifiedInv'
    BY <1>2, <2>1, <2>2, <2>3 DEF OnVerificationDone
  <2>12. VerifiedOnDisk'
    BY <1>2, <2>1, <2>2, <2>3 DEF OnVerificationDone
  <2>13. FailureInv'
    BY <1>2, <2>1, <2>2, <2>3 DEF OnVerificationDone
  <2> QED BY <2>1, <2>4, <2>5, <2>6, <2>7, <2>8, <2>9, <2>10, <2>11, <2>12, <2>13
<1>3. CASE OnPieceVerified
  <2>1. PICK x \in Signal :
           /\ x = Head(signals) /\ x.kind = "pieceVerified"
           /\ Range(signals) = {x} \cup Range(signals')
           /\ NoSignalTwice(signals')
           /\ \A y \in Range(signals') :
                ~(y.kind = "pieceVerified" /\ y.piece = x.piece)
    BY <1>0, <1>3, NextSignalEffect DEF OnPieceVerified
  <2>2. \A t \in Slot : received'[t] = IF t[1] = x.piece THEN "none" ELSE received[t]
    BY <1>3, <2>1 DEF OnPieceVerified
  <2>3. x.piece \in Piece /\ \A q : Judged(q)' <=> Judged(q) /\ q # x.piece
    BY <2>1, VerdictHasPiece
  <2>4. \A r \in QueuedWrites : r.slot \in Slot
    BY <1>0, QueuedTypes
  <2>5. /\ Judged(x.piece)
        /\ completedPieces' = completedPieces \cup (IF x.ok THEN {x.piece} ELSE {})
    BY <1>3, <2>1 DEF OnPieceVerified
  <2>6. ListsInv'
    BY <1>3, <2>1, <2>2, <2>5, <2>3, <2>4 DEF OnPieceVerified, SlotsOf
  <2>7. PhaseInv'
    BY <1>3, <2>1, <2>2, <2>5, <2>3, <2>4 DEF OnPieceVerified, SlotsOf
  <2>8. ReadsInv'
    BY <1>3, <2>1, <2>2, <2>5, <2>3, <2>4 DEF OnPieceVerified, SlotsOf
  <2>9. WritesInv'
    BY <1>3, <2>1, <2>2, <2>5, <2>3, <2>4 DEF OnPieceVerified, SlotsOf
  <2>10. StoredInv'
    BY <1>3, <2>1, <2>2, <2>5, <2>3, <2>4 DEF OnPieceVerified, SlotsOf
  <2>11. OnceInv'
    BY <1>3, <2>1, <2>2, <2>5, <2>3, <2>4 DEF OnPieceVerified, SlotsOf
  <2>12. HeldInv'
    BY <1>3, <2>1, <2>2, <2>5, <2>3, <2>4 DEF OnPieceVerified, SlotsOf
  <2>13. VerifiedInv'
    BY <1>3, <2>1, <2>2, <2>5, <2>3, <2>4 DEF OnPieceVerified, SlotsOf
  <2>14. VerifiedOnDisk'
    BY <1>3, <2>1, <2>2, <2>5, <2>3, <2>4 DEF OnPieceVerified, SlotsOf
  <2>15. FailureInv'
    BY <1>3, <2>1, <2>2, <2>5, <2>3, <2>4 DEF OnPieceVerified, SlotsOf
  <2> QED BY <2>1, <2>6, <2>7, <2>8, <2>9, <2>10, <2>11, <2>12, <2>13, <2>14,
             <2>15
<1>4. CASE OnOtherSignal
  <2>1. PICK x \in Signal :
           /\ x.kind \in {"dataRead", "error"}
           /\ Range(signals) = {x} \cup Range(signals')
           /\ NoSignalTwice(signals')
    BY <1>0, <1>4, NextSignalEffect DEF OnOtherSignal
  <2> QED BY <1>4, <2>1 DEF OnOtherSignal
<1>5. ASSUME NEW s \in Slot, Read(s) PROVE PieceInv'
  <2> DEFINE r == [id |-> readId, slot |-> s]
  <2>1. r \in ReadRequest /\ readRequests \in Seq(ReadRequest) /\ r.slot = s
        /\ readRequests' = Append(readRequests, r)
    BY <1>0, <1>5 DEF Read, EnqueueRead, TypeOK, ReadRequest
  <2>2. Range(readRequests') = Range(readRequests) \cup {r}
    BY <2>1, RangeAppend
  <2> HIDE DEF r
  <2> QED BY <1>5, <2>1, <2>2 DEF Read, EnqueueRead
<1>6. ASSUME NEW s \in Slot, NEW data \in {"good", "bad"}, Write(s, data)
      PROVE  PieceInv'
  <2> DEFINE r == [slot |-> s, data |-> data]
  <2>1. r \in WriteRequest /\ writeRequests \in Seq(WriteRequest) /\ r.slot = s
        /\ r.data = data /\ writeRequests' = Append(writeRequests, r)
        /\ s[1] \in Piece
    BY <1>0, <1>6, SlotHasPiece DEF Write, EnqueueWrite, TypeOK, WriteRequest
  <2>2. Range(writeRequests') = Range(writeRequests) \cup {r}
    BY <2>1, RangeAppend
  <2>3. /\ received'[s] = data /\ received[s] = "none"
        /\ \A t \in Slot : t # s => received'[t] = received[t]
    BY <1>0, <1>6 DEF Write, EnqueueWrite, TypeOK
  <2>4. ~AwaitsVerdict(s[1]) /\ ~Judged(s[1]) /\ s[1] \notin verifiedPieces
    BY <1>6, <2>1, <2>3 DEF Write, EnqueueWrite, SlotsOf
  <2>5. NoSignalTwice(signals')
    BY <1>6 DEF Write, EnqueueWrite
  <2> HIDE DEF r
  <2>6. ListsInv'
    BY <1>0, <1>6, <2>1, <2>2, <2>3, <2>4, QueuedTypes DEF Write, EnqueueWrite, SlotsOf
  <2>7. PhaseInv'
    BY <1>0, <1>6, <2>1, <2>2, <2>3, <2>4, QueuedTypes DEF Write, EnqueueWrite, SlotsOf
  <2>8. ReadsInv'
    BY <1>0, <1>6, <2>1, <2>2, <2>3, <2>4, QueuedTypes DEF Write, EnqueueWrite, SlotsOf
  <2>9. WritesInv'
    BY <1>0, <1>6, <2>1, <2>2, <2>3, <2>4, QueuedTypes DEF Write, EnqueueWrite, SlotsOf
  <2>10. StoredInv'
    BY <1>0, <1>6, <2>1, <2>2, <2>3, <2>4, QueuedTypes DEF Write, EnqueueWrite, SlotsOf
  <2>11. OnceInv'
    BY <1>0, <1>6, <2>1, <2>2, <2>3, <2>4, QueuedTypes DEF Write, EnqueueWrite, SlotsOf
  <2>12. HeldInv'
    BY <1>0, <1>6, <2>1, <2>2, <2>3, <2>4, QueuedTypes DEF Write, EnqueueWrite, SlotsOf
  <2>13. VerifiedInv'
    BY <1>0, <1>6, <2>1, <2>2, <2>3, <2>4, QueuedTypes DEF Write, EnqueueWrite, SlotsOf
  <2>14. VerifiedOnDisk'
    BY <1>0, <1>6, <2>1, <2>2, <2>3, <2>4, QueuedTypes DEF Write, EnqueueWrite, SlotsOf
  <2>15. FailureInv'
    BY <1>0, <1>6, <2>1, <2>2, <2>3, <2>4, QueuedTypes DEF Write, EnqueueWrite, SlotsOf
  <2> QED BY <2>5, <2>6, <2>7, <2>8, <2>9, <2>10, <2>11, <2>12, <2>13, <2>14,
             <2>15
<1> QED BY <1>1, <1>2, <1>3, <1>4, <1>5, <1>6 DEF Environment

LEMMA StepPiece == WakeInv /\ PieceInv /\ [Next]_vars => PieceInv'
<1> SUFFICES ASSUME WakeInv, PieceInv, [Next]_vars PROVE PieceInv'
  OBVIOUS
<1>1. CASE Next
  BY <1>1, QuietPiece, TakePiece, EmitPiece, MainPiece
     DEF Next, Worker, EventLoop, Destructor
<1>2. CASE UNCHANGED vars
  BY <1>2
     DEF PieceInv, ListsInv, PhaseInv, Untouched, Opened, Announced, ReadsInv,
         WritesInv, StoredInv, OnceInv, HeldInv, AwaitsVerdict, FullyReceived,
         Judged, Passed, VerifiedInv, VerifiedOnDisk, HashMatches, FailureInv,
         QueuedReads, QueuedWrites, vars, lockVars, workerVars, diskVars,
         clientVars, eventVars
<1> QED BY <1>1, <1>2

\* The verdicts in the queue are expected and justified.
LEMMA PieceInvImpliesGoals ==
  ASSUME TypeOK, PieceInv
  PROVE  NoSpuriousFailure /\ VerdictFindsPiece
<1>1. \A i \in DOMAIN signals : signals[i] \in Range(signals) /\ signals[i] \in Signal
  BY DEF Range, TypeOK
<1>2. NoSpuriousFailure
  BY <1>1 DEF NoSpuriousFailure, PieceInv, FailureInv, SlotsOf
<1>3. ASSUME NEW i \in DOMAIN signals, signals[i].kind = "pieceVerified"
      PROVE  FullyReceived(signals[i].piece) /\ signals[i].piece \notin completedPieces
  <2>1. signals[i].piece \in Piece /\ Judged(signals[i].piece)
    BY <1>1, <1>3, VerdictHasPiece DEF Judged
  <2> QED BY <2>1 DEF PieceInv, HeldInv
<1> QED BY <1>2, <1>3 DEF VerdictFindsPiece

\* verifySinglePiece: a piece that is read in full fails only for a block a peer sent
\* wrong, or one of its own whose last write failed; a queued write never is the reason.
THEOREM FailureHasReason == Spec => []NoSpuriousFailure
BY InitWake, StepWake, InitPiece, StepPiece, PieceInvImpliesGoals, PTL DEF Spec, WakeInv

\* TorrentClient::pieceVerified: the verdict is about a piece that is fully
\* received and not complete.
THEOREM VerdictIsExpected == Spec => []VerdictFindsPiece
BY InitWake, StepWake, InitPiece, StepPiece, PieceInvImpliesGoals, PTL DEF Spec, WakeInv

\* Complete pieces are verified pieces.
LEMMA CompletedMatch ==
  ASSUME ~StaleDump, PieceInv
  PROVE  CompletedPiecesOnDisk
BY DEF CompletedPiecesOnDisk, PieceInv, VerifiedInv, VerifiedOnDisk

\* If the files match the dumped state at the start, every piece the client
\* counts as complete is right on disk for ever: no queued write spoils it.
THEOREM CompletedStayOnDisk == ASSUME ~StaleDump PROVE Spec => []CompletedPiecesOnDisk
BY InitWake, StepWake, InitPiece, StepPiece, CompletedMatch, PTL DEF Spec

\* A block that was read in full is right.
ServedInv == \A x \in Range(signals) : x.kind = "dataRead" /\ x.whole => x.ok

\* Blocks are read of completed pieces only, which are on disk.
LEMMA StepServed ==
  ASSUME ~StaleDump, WakeInv, PieceInv, ServedInv, [Next]_vars
  PROVE  ServedInv'
<1> USE DEF ServedInv
<1>0. TypeOK /\ signals \in Seq(Signal) /\ NoSignalTwice(signals)
  BY DEF WakeInv, TypeOK, PieceInv
<1>a. FileError.kind = "error" /\ VerificationDone.kind = "verificationDone"
  BY DEF FileError, VerificationDone
<1>1. CASE PerformRead
  <2>1. PICK r \in ReadRequest, x \in Signal :
           /\ r.slot \in Slot
           /\ x.kind = "dataRead" /\ (x.ok <=> x.whole /\ r.slot \in disk)
           /\ NoSignalTwice(signals')
           /\ \/ Range(signals') = Range(signals) \cup {x}
              \/ Range(signals') = Range(signals) \cup {FileError, x}
           /\ Range(newReads) = {r} \cup Range(newReads')
    BY <1>0, <1>1, PerformReadEffect
  <2>2. r.slot[1] \in completedPieces
    BY <2>1 DEF PieceInv, ReadsInv, QueuedReads
  <2>3. r.slot \in disk
    BY <2>1, <2>2, CompletedMatch DEF CompletedPiecesOnDisk, HashMatches, SlotsOf
  <2> QED BY <1>a, <2>1, <2>3
<1>2. ASSUME \A y \in Range(signals') : y \in Range(signals) \/ y.kind # "dataRead"
      PROVE  ServedInv'
  BY <1>2
<1>3. CASE signals' = signals
  BY <1>3
<1>4. ASSUME signals # <<>>, signals' = Tail(signals)
      PROVE  ServedInv'
  BY <1>0, <1>4, RangeTail
<1>5. CASE GenerateFiles \/ PerformWrite \/ (\E p \in Piece : ScanPiece(p))
  <2>1. signals' \in Told
    BY <1>5 DEF GenerateFiles, PerformWrite, ScanPiece, Told
  <2> QED BY <1>0, <1>2, <1>a, <2>1, ToldEffect
<1>6. CASE EndScan
  BY <1>0, <1>2, <1>6, <1>a, SignalTypes, RangeAppend DEF EndScan
<1>7. CASE CheckPiece
  <2>1. IsInjective(newPending) /\ \A q \in Range(newPending) : ~Judged(q)
    BY <1>0, RangeType DEF PieceInv, OnceInv, AwaitsVerdict, TypeOK
  <2>2. PICK x \in Signal :
           /\ x.kind = "pieceVerified"
           /\ \/ Range(signals') = Range(signals) \cup {x}
              \/ Range(signals') = Range(signals) \cup {FileError, x}
    BY <1>0, <1>7, <2>1, CheckPieceEffect
  <2> QED BY <1>2, <1>a, <2>2
<1>8. CASE OnVerificationDone \/ OnPieceVerified \/ OnOtherSignal
  BY <1>4, <1>8
     DEF OnVerificationDone, OnPieceVerified, OnOtherSignal, NextSignal
<1>9. CASE \/ CheckForWork \/ EnterWait \/ ReturnFromWait \/ TakeReads \/ TakeWrites
           \/ EndWrites \/ EndCheck \/ EndIteration \/ DrainWrites
  BY <1>3, <1>9
     DEF CheckForWork, EnterWait, ReturnFromWait, TakeReads, TakeWrites, EndWrites,
         EndCheck, EndIteration, DrainWrites, eventVars
<1>10. CASE StartDataVerification \/ VerifyPiece \/ WakeUp \/ Destructor \/ Environment
  BY <1>3, <1>10
     DEF StartDataVerification, VerifyPiece, EnqueueVerification, WakeUp, Destructor,
         SetQuit, WakeForQuit, JoinWorker, Environment, Read, EnqueueRead, Write,
         EnqueueWrite, eventVars
<1>11. CASE UNCHANGED vars
  BY <1>3, <1>11 DEF vars, eventVars
<1> QED BY <1>1, <1>5, <1>6, <1>7, <1>8, <1>9, <1>10, <1>11
        DEF Next, Worker, EventLoop

LEMMA InitServed == Init => ServedInv
BY RangeNil DEF Init, ServedInv

LEMMA ServedInvImpliesGoal == ServedInv => ServedBlocksAreRight
BY DEF ServedInv, ServedBlocksAreRight, Range

\* dataRead: a block read in full for a peer is right, whatever is written meanwhile.
THEOREM ServedAreRight == ASSUME ~StaleDump PROVE Spec => []ServedBlocksAreRight
<1>1. WakeInv /\ PieceInv /\ ServedInv /\ [Next]_vars => ServedInv'
  BY StepServed
<1> QED BY <1>1, InitWake, StepWake, InitPiece, StepPiece, InitServed,
           ServedInvImpliesGoal, PTL DEF Spec

-----------------------------------------------------------------------------
(* The contract about verdicts *)

\* The handler that stores a block is not interrupted by the destructor.
CallInv == toVerify # None => mpc = "loop"

LEMMA InitCall == Init => CallInv
BY DEF Init, CallInv

LEMMA StepCall ==
  ASSUME CallInv, [Next]_vars PROVE CallInv'
<1> USE DEF CallInv, clientVars
<1>1. CASE StartDataVerification \/ WakeUp \/ VerifyPiece \/ OnVerificationDone
           \/ OnPieceVerified \/ OnOtherSignal
  BY <1>1 DEF StartDataVerification, WakeUp, VerifyPiece, EnqueueVerification,
              OnVerificationDone, OnPieceVerified, OnOtherSignal
<1>2. CASE Destructor
  BY <1>2 DEF Destructor, SetQuit, WakeForQuit, JoinWorker, InEventLoop
<1>3. CASE Environment
  BY <1>3 DEF Environment, Read, EnqueueRead, Write, EnqueueWrite
<1>4. CASE Worker
  BY <1>4 DEF Worker, GenerateFiles, CheckForWork, EnterWait, ReturnFromWait, TakeReads,
              PerformRead, TakeWrites, PerformWrite, EndWrites, ScanPiece, EndScan,
              CheckPiece, EndCheck, EndIteration, DrainWrites
<1>5. CASE UNCHANGED vars
  BY <1>5 DEF vars
<1> QED BY <1>1, <1>2, <1>3, <1>4, <1>5 DEF Next, EventLoop

\* The pieces the contract counts as awaited, as sets of elements.
Listed == Range(pendingVerification) \cup Range(newPending)

LEMMA AwaitedPieces == Awaited = {p \in Piece : p \in Listed \/ Judged(p)}
<1>1. \A p : Holds(pendingVerification, p) <=> p \in Range(pendingVerification)
  BY DEF Holds, Range
<1>2. \A p : Holds(newPending, p) <=> p \in Range(newPending)
  BY DEF Holds, Range
<1>3. \A p : (\E i \in DOMAIN signals :
                signals[i].kind = "pieceVerified" /\ signals[i].piece = p) <=> Judged(p)
  BY DEF Judged, Range
<1> QED BY <1>1, <1>2, <1>3 DEF Awaited, Listed

\* The same, after a step.
LEMMA AwaitedPiecesNext == Awaited' = {p \in Piece : p \in Listed' \/ Judged(p)'}
<1>1. \A p : Holds(pendingVerification', p) <=> p \in Range(pendingVerification')
  BY DEF Holds, Range
<1>2. \A p : Holds(newPending', p) <=> p \in Range(newPending')
  BY DEF Holds, Range
<1>3. \A p : (\E i \in DOMAIN signals' :
                signals'[i].kind = "pieceVerified" /\ signals'[i].piece = p) <=> Judged(p)'
  BY DEF Judged, Range
<1> QED BY <1>1, <1>2, <1>3 DEF Awaited, Listed

\* The contract does not see a step after which the same pieces are listed or judged.
LEMMA ContractStutter ==
  ASSUME \A p \in Piece : (p \in Listed \/ Judged(p))' <=> (p \in Listed \/ Judged(p)),
         completedPieces' = completedPieces, Phase' = Phase
  PROVE  UNCHANGED <<Phase, completedPieces, Awaited>>
BY AwaitedPieces, AwaitedPiecesNext

\* The worker only carries the pieces and their verdicts on.
LEMMA WorkerContract ==
  ASSUME WakeInv, PieceInv, Worker
  PROVE  UNCHANGED <<Phase, completedPieces, Awaited>>
<1>0. TypeOK /\ signals \in Seq(Signal) /\ NoSignalTwice(signals)
  BY DEF WakeInv, TypeOK, PieceInv
<1>a. Phase' = Phase /\ completedPieces' = completedPieces
  BY DEF Worker, GenerateFiles, CheckForWork, EnterWait, ReturnFromWait, TakeReads,
         PerformRead, TakeWrites, PerformWrite, EndWrites, ScanPiece, EndScan,
         CheckPiece, EndCheck, EndIteration, DrainWrites, clientVars, Phase
<1> USE DEF Judged, Listed
<1>b. FileError.kind = "error" /\ VerificationDone.kind = "verificationDone"
  BY DEF FileError, VerificationDone
<1>1. CASE UNCHANGED <<pendingVerification, newPending, signals>>
  BY <1>a, <1>1, ContractStutter
<1>2. ASSUME Range(signals) \subseteq Range(signals'),
             \A y \in Range(signals') : y \in Range(signals) \/ y.kind # "pieceVerified",
             UNCHANGED <<pendingVerification, newPending>>
      PROVE  UNCHANGED <<Phase, completedPieces, Awaited>>
  BY <1>a, <1>2, ContractStutter
<1>3. CASE PerformRead
  <2>1. PICK x \in Signal :
           /\ x.kind = "dataRead"
           /\ \/ Range(signals') = Range(signals) \cup {x}
              \/ Range(signals') = Range(signals) \cup {FileError, x}
    BY <1>0, <1>3, PerformReadEffect
  <2>2. /\ Range(signals) \subseteq Range(signals')
        /\ \A y \in Range(signals') : y \in Range(signals) \/ y.kind # "pieceVerified"
    BY <1>b, <2>1
  <2> QED BY <1>2, <1>3, <2>2 DEF PerformRead, lockVars
<1>4. CASE GenerateFiles \/ PerformWrite \/ (\E p \in Piece : ScanPiece(p))
  <2>1. signals' \in Told /\ UNCHANGED <<pendingVerification, newPending>>
    BY <1>4 DEF GenerateFiles, PerformWrite, ScanPiece, Told, lockVars
  <2>2. Range(signals') \in {Range(signals), Range(signals) \cup {FileError}}
    BY <1>0, <2>1, ToldEffect
  <2> QED BY <1>2, <1>b, <2>1, <2>2
<1>5. CASE EndScan
  <2>1. Range(signals') = Range(signals) \cup {VerificationDone}
    BY <1>0, <1>5, SignalTypes, RangeAppend DEF EndScan
  <2> QED BY <1>2, <1>5, <1>b, <2>1 DEF EndScan
<1>6. CASE EndWrites
  <2>1. newPending = <<>>
    BY <1>6 DEF EndWrites, PieceInv, ListsInv
  <2>2. Listed' = Listed /\ signals' = signals
    BY <1>6, <2>1, RangeNil DEF EndWrites, TakeVerificationList, eventVars
  <2> QED BY <1>a, <2>2, ContractStutter
<1>7. CASE CheckPiece
  <2>1. IsInjective(newPending) /\ \A q \in Range(newPending) : ~Judged(q)
    BY <1>0, RangeType DEF PieceInv, OnceInv, AwaitsVerdict, TypeOK
  <2>2. PICK p \in Piece, x \in Signal :
           /\ Range(newPending) = {p} \cup Range(newPending')
           /\ x.kind = "pieceVerified" /\ x.piece = p
           /\ \/ Range(signals') = Range(signals) \cup {x}
              \/ Range(signals') = Range(signals) \cup {FileError, x}
    BY <1>0, <1>7, <2>1, CheckPieceEffect
  <2>3. \A q : Judged(q)' <=> Judged(q) \/ q = p
    BY <1>b, <2>2
  <2>4. pendingVerification' = pendingVerification
    BY <1>7 DEF CheckPiece, lockVars
  <2> QED BY <1>a, <2>2, <2>3, <2>4, ContractStutter
<1>8. CASE \/ CheckForWork \/ EnterWait \/ ReturnFromWait \/ TakeReads \/ TakeWrites
           \/ EndCheck \/ EndIteration \/ DrainWrites
  BY <1>1, <1>8
     DEF CheckForWork, EnterWait, ReturnFromWait, TakeReads, TakeWrites,
         EndCheck, EndIteration, DrainWrites, eventVars, lockVars
<1> QED BY <1>3, <1>4, <1>5, <1>6, <1>7, <1>8 DEF Worker

\* Every step is a step of the contract or leaves its state alone.
LEMMA ContractStep ==
  ASSUME WakeInv, PieceInv, CallInv, [Next]_vars
  PROVE  Contract!Next \/ UNCHANGED <<Phase, completedPieces, Awaited>>
<1>0. TypeOK /\ signals \in Seq(Signal)
  BY DEF WakeInv, TypeOK
<1> USE DEF Judged, Listed
<1>1. CASE Worker
  BY <1>1, WorkerContract
<1>2. CASE VerifyPiece
  <2>1. /\ toVerify \in Piece /\ pendingVerification \in Seq(Piece)
        /\ pendingVerification' = Append(pendingVerification, toVerify)
        /\ UNCHANGED <<newPending, signals, completedPieces, mpc>>
    BY <1>0, <1>2 DEF VerifyPiece, EnqueueVerification, TypeOK, workerVars
  <2>2. Range(pendingVerification') = Range(pendingVerification) \cup {toVerify}
    BY <2>1, RangeAppend
  <2>3. Phase = "open" /\ Phase' = "open"
    BY <1>2, <2>1 DEF CallInv, VerifyPiece, Phase
  <2>4. toVerify \notin completedPieces /\ toVerify \notin Awaited
    BY <1>2, <2>1, AwaitedPieces
       DEF VerifyPiece, PieceInv, OnceInv, HeldInv, AwaitsVerdict
  <2>5. Awaited' = Awaited \cup {toVerify}
    BY <2>1, <2>2, AwaitedPieces, AwaitedPiecesNext
  <2>6. Contract!Ask(toVerify)
    BY <2>1, <2>3, <2>4, <2>5 DEF Contract!Ask
  <2> QED BY <2>1, <2>6 DEF Contract!Next
<1>3. CASE OnVerificationDone
  <2>1. /\ Untouched /\ Announced
        /\ mpc' = "loop" /\ completedPieces' = verifiedPieces
        /\ Range(signals') \subseteq Range(signals)
        /\ UNCHANGED <<pendingVerification, newPending>>
    <3>1. PICK x \in Signal :
             /\ x = Head(signals) /\ x.kind = "verificationDone"
             /\ Range(signals) = {x} \cup Range(signals')
      BY <1>0, <1>3, NextSignalEffect DEF OnVerificationDone, PieceInv
    <3> QED BY <1>3, <3>1
            DEF OnVerificationDone, lockVars, workerVars, PieceInv, PhaseInv, Announced
  <2>2. Phase = "checking" /\ Phase' = "open"
    BY <1>3, <2>1
       DEF OnVerificationDone, NextSignal, InEventLoop, PieceInv, PhaseInv, Opened, Phase
  <2>3. Awaited' = Awaited
    BY <2>1, RangeNil, AwaitedPieces, AwaitedPiecesNext DEF Untouched
  <2>4. completedPieces' \in SUBSET Piece
    BY <1>0, <2>1 DEF TypeOK
  <2>5. Contract!Open
    BY <2>2, <2>3, <2>4 DEF Contract!Open
  <2> QED BY <2>5 DEF Contract!Next
<1>4. CASE OnPieceVerified
  <2>1. PICK x \in Signal :
           /\ x = Head(signals) /\ x.kind = "pieceVerified"
           /\ Range(signals) = {x} \cup Range(signals')
           /\ \A y \in Range(signals') :
                ~(y.kind = "pieceVerified" /\ y.piece = x.piece)
    BY <1>0, <1>4, NextSignalEffect DEF OnPieceVerified, PieceInv
  <2> DEFINE p == x.piece
  <2>2. p \in Piece /\ Judged(p) /\ ~Judged(p)'
        /\ \A q : q # p => (Judged(q)' <=> Judged(q))
    BY <2>1, VerdictHasPiece
  <2>3. p \notin Listed /\ Listed' = Listed
    BY <1>4, <2>2
       DEF OnPieceVerified, PieceInv, OnceInv, AwaitsVerdict, lockVars, workerVars
  <2>4. Phase = "open" /\ Phase' = "open"
    <3>1. ~Untouched
      BY <2>1 DEF Untouched
    <3> QED BY <1>4, <3>1
            DEF OnPieceVerified, NextSignal, InEventLoop, PieceInv, PhaseInv, Phase
  <2>5. /\ p \in Awaited
        /\ Awaited' = Awaited \ {p}
    BY <2>2, <2>3, AwaitedPieces, AwaitedPiecesNext
  <2>6. completedPieces' = IF x.ok THEN completedPieces \cup {p} ELSE completedPieces
    BY <1>4, <2>1 DEF OnPieceVerified
  <2>7. Contract!Pass(p) \/ Contract!Fail(p)
    BY <2>4, <2>5, <2>6 DEF Contract!Pass, Contract!Fail, Contract!Verdict
  <2> QED BY <2>2, <2>7 DEF Contract!Next
<1>5. CASE OnOtherSignal
  <2>1. PICK x \in Signal :
           /\ x.kind \in {"dataRead", "error"}
           /\ Range(signals) = {x} \cup Range(signals')
    BY <1>0, <1>5, NextSignalEffect DEF OnOtherSignal, PieceInv
  <2>2. UNCHANGED <<pendingVerification, newPending, completedPieces, mpc>>
    BY <1>5 DEF OnOtherSignal, lockVars, workerVars, clientVars
  <2> QED BY <2>1, <2>2, ContractStutter DEF Phase
<1>6. CASE StartDataVerification \/ WakeUp \/ Environment
  <2>1. UNCHANGED <<pendingVerification, newPending, completedPieces, signals>>
        /\ Phase' = Phase
    BY <1>6 DEF StartDataVerification, WakeUp, Environment, Read, EnqueueRead, Write,
                EnqueueWrite, clientVars, eventVars, workerVars, Phase
  <2> QED BY <2>1, ContractStutter
<1>7. CASE Destructor
  <2>1. UNCHANGED <<pendingVerification, newPending, completedPieces, signals>>
        /\ Phase' = "closed"
    BY <1>7 DEF Destructor, SetQuit, WakeForQuit, JoinWorker, lockVars, workerVars,
                clientVars, eventVars, Phase
  <2>2. Awaited' = Awaited
    BY <2>1, AwaitedPieces, AwaitedPiecesNext
  <2> QED BY <2>1, <2>2 DEF Contract!Close, Contract!Next
<1>8. CASE UNCHANGED vars
  <2>1. UNCHANGED <<pendingVerification, newPending, completedPieces, signals, mpc>>
    BY <1>8 DEF vars, lockVars, workerVars, clientVars, eventVars
  <2> QED BY <2>1, ContractStutter DEF Phase
<1> QED BY <1>1, <1>2, <1>3, <1>4, <1>5, <1>6, <1>7, <1>8 DEF Next, EventLoop

\* FileManager and its client implement VerdictProtocol: whatever the two threads do
\* between verifyPiece() and the handler of the verdict, each piece asked about is
\* answered at most once, and nothing else is.
THEOREM ContractIsKept == Spec => KeepsContract
<1>1. Init => Contract!Init
  <2> SUFFICES ASSUME Init PROVE Contract!Init
    OBVIOUS
  <2>1. Awaited = {}
    BY RangeNil, AwaitedPieces DEF Init, Listed, Judged
  <2> QED BY <2>1 DEF Init, Contract!Init, Phase
<1>2. WakeInv /\ PieceInv /\ CallInv /\ [Next]_vars => [Contract!Next]_(Contract!vars)
  BY ContractStep DEF Contract!vars
<1>3. CallInv /\ [Next]_vars => CallInv'
  BY StepCall
<1> QED BY <1>1, <1>2, <1>3, InitWake, StepWake, InitPiece, StepPiece, InitCall, PTL
        DEF Spec, KeepsContract, Contract!Spec
=============================================================================
