---------------------------- MODULE RateControl ----------------------------
(***************************************************************************)
(* RateController: one timer shares the bytes that may be sent and         *)
(* received among the sockets.  transfer() is modelled step by step, since *)
(* what it reads makes other code write, and close sockets, in between.    *)
(*                                                                         *)
(* Time passes in ticks of 50 ms, the delay of scheduleTransfer().         *)
(***************************************************************************)
EXTENDS Integers, FiniteSetsExt

CONSTANTS
  Sockets,     \* the sockets there may be
  UpLimits,    \* upload limits, in bytes per second, that the user may choose
  DownLimit,   \* the download limit
  Second,      \* ticks of a second (20)
  MaxBytes     \* bound: bytes that one socket still gets, in either direction

ASSUME ConstantsAssumption ==
  /\ Second \in Nat \ {0}
  /\ DownLimit \in Nat /\ UpLimits \subseteq Nat
  /\ \E highest \in UpLimits : \A limit \in UpLimits : limit <= highest
  /\ MaxBytes \in Nat /\ IsFiniteSet(Sockets)

VARIABLES
  sockets,      \* `sockets'
  connected,    \* the sockets that are connected
  inbox,        \* bytes that the network has brought to each socket
  outbox,       \* bytes queued for each socket, in outgoingBuffer or pendingBlocks
  supply,       \* bytes that each socket may yet get
  scheduled,    \* "no", or since a scheduleTransfer(): "waiting", after 50 ms "due"
  watch,        \* ticks since stopWatch.start(); Second stands for more, and for never
  upLimit,      \* m_uploadLimit
  running,      \* is transfer() under way?
  pending,      \* pendingSockets
  todo,         \* the sockets that the iterator has yet to reach
  more,         \* canTransferMore
  toWrite,      \* bytesToWrite
  toRead,       \* bytesToRead
  writeChunk,
  readChunk,
  load          \* history: bytes sent, less what the highest limit has let flow since,
                \* in bytes times Second

net == <<sockets, connected, inbox, outbox, supply>>
transfer == <<running, pending, todo, more, toWrite, toRead, writeChunk, readChunk>>
vars == <<net, scheduled, watch, upLimit, transfer, load>>

Init ==
  /\ sockets = {}
  /\ connected = {}
  /\ inbox = [s \in Sockets |-> 0]
  /\ outbox = [s \in Sockets |-> 0]
  /\ supply = [s \in Sockets |-> MaxBytes]
  /\ scheduled = "no"
  /\ watch = Second
  /\ upLimit \in UpLimits
  /\ running = FALSE
  /\ pending = {}
  /\ todo = {}
  /\ more = FALSE
  /\ toWrite = 0
  /\ toRead = 0
  /\ writeChunk = 0
  /\ readChunk = 0
  /\ load = 0

\* scheduleTransfer, which readyToTransfer() of a socket of the controller calls
ScheduleTransfer == scheduled' = IF scheduled = "no" THEN "waiting" ELSE scheduled

\* canTransferMore
HasWork(s) == inbox[s] > 0 \/ outbox[s] > 0

-----------------------------------------------------------------------------
(* The sockets *)

AddSocket(s) ==
  /\ s \notin sockets /\ supply[s] = MaxBytes
  /\ ~running
  /\ sockets' = sockets \cup {s}
  /\ ScheduleTransfer
  /\ UNCHANGED <<connected, inbox, outbox, supply, watch, upLimit, transfer, load>>

\* The socket is connected: readyToTransfer()
Connected(s) ==
  /\ s \in sockets \ connected
  /\ ~running
  /\ connected' = connected \cup {s}
  /\ ScheduleTransfer
  /\ UNCHANGED <<sockets, inbox, outbox, supply, watch, upLimit, transfer, load>>

\* A byte comes in, or is written to the client: readyToTransfer()
Bytes(s) ==
  /\ s \in sockets /\ supply[s] > 0
  /\ ~running
  /\ supply' = [supply EXCEPT ![s] = @ - 1]
  /\ \/ s \in connected /\ inbox' = [inbox EXCEPT ![s] = @ + 1] /\ UNCHANGED outbox
     \/ outbox' = [outbox EXCEPT ![s] = @ + 1] /\ UNCHANGED inbox
  /\ ScheduleTransfer
  /\ UNCHANGED <<sockets, connected, watch, upLimit, transfer, load>>

\* The socket closes, and removeSocket() is called.
RemoveSocket(s) ==
  /\ s \in sockets
  /\ ~running
  /\ sockets' = sockets \ {s}
  /\ connected' = connected \ {s}
  /\ supply' = [supply EXCEPT ![s] = 0]
  /\ UNCHANGED <<inbox, outbox, scheduled, watch, upLimit, transfer, load>>

SetUploadLimit(limit) ==
  /\ ~running
  /\ upLimit' = limit
  /\ UNCHANGED <<net, scheduled, watch, transfer, load>>

-----------------------------------------------------------------------------
(* transfer() *)

\* Fault: the watch is never started anew.
WatchGoesOn == watch

\* stopWatch.start()
WatchStarted == 0

\* The beginning, up to the loop: the bytes that the time since the last transfer allows.
Begin ==
  /\ scheduled = "due"
  /\ ~running
  /\ LET write == (upLimit * watch) \div Second
         read == (DownLimit * watch) \div Second
         ready == {s \in sockets : HasWork(s)}
     IN \/ /\ sockets = {} \/ (write + read > 0 /\ ready = {})
           /\ scheduled' = "no"
           /\ UNCHANGED <<watch, transfer>>
        \/ /\ sockets # {} /\ write + read = 0
           /\ scheduled' = "waiting"
           /\ UNCHANGED <<watch, transfer>>
        \/ /\ write + read > 0 /\ ready # {}
           /\ scheduled' = "no"
           /\ watch' = WatchStarted
           /\ running' = TRUE
           /\ more' = TRUE
           /\ pending' = ready
           /\ toWrite' = write
           /\ toRead' = read
           /\ UNCHANGED <<todo, writeChunk, readChunk>>
  /\ UNCHANGED <<net, upLimit, load>>

RoundIsOver == todo = {} \/ (toWrite = 0 /\ toRead = 0)
AnotherRound == more /\ (toWrite > 0 \/ toRead > 0) /\ pending # {}

\* The shares of a round
Round ==
  /\ running /\ RoundIsOver /\ AnotherRound
  /\ more' = FALSE
  /\ writeChunk' = Max({1, toWrite \div Cardinality(pending)})
  /\ readChunk' = Max({1, toRead \div Cardinality(pending)})
  /\ todo' = pending
  /\ UNCHANGED <<net, scheduled, watch, upLimit, running, pending, toWrite, toRead, load>>

\* A socket that has closed meanwhile is left out.
Skip(s) ==
  /\ running /\ ~RoundIsOver
  /\ s \in todo \ connected
  /\ todo' = todo \ {s}
  /\ pending' = pending \ {s}
  /\ UNCHANGED <<net, scheduled, watch, upLimit, running, more, toWrite, toRead, writeChunk,
                 readChunk, load>>

\* readFromSocket: the bytes read may make other code answer, or close the socket.
BytesRead(s) == Min({inbox[s], readChunk, toRead})

\* writeToSocket; the buffer of the socket itself is taken to be empty.
BytesWritten(s, answer) == Min({2 * upLimit, writeChunk, toWrite, outbox[s] + answer})

\* One socket gets its share.
Serve(s) ==
  /\ running /\ ~RoundIsOver
  /\ s \in todo \cap connected
  /\ todo' = todo \ {s}
  /\ LET read == BytesRead(s) IN
     \E answer \in 0 .. Min({1, read, supply[s]}), closes \in {FALSE, read > 0} :
       LET written == BytesWritten(s, answer)
           left == inbox[s] - read + outbox[s] + answer - written
           goesOn == read + written > 0 /\ left > 0
       IN /\ inbox' = [inbox EXCEPT ![s] = @ - read]
          /\ outbox' = [outbox EXCEPT ![s] = @ + answer - written]
          /\ supply' = [supply EXCEPT ![s] = IF closes THEN 0 ELSE @ - answer]
          /\ IF answer > 0 THEN ScheduleTransfer ELSE UNCHANGED scheduled
          /\ sockets' = IF closes THEN sockets \ {s} ELSE sockets
          /\ connected' = IF closes THEN connected \ {s} ELSE connected
          /\ toRead' = toRead - read
          /\ toWrite' = toWrite - written
          /\ more' = (more \/ goesOn)
          /\ pending' = IF goesOn THEN pending ELSE pending \ {s}
          /\ load' = load + written * Second
  /\ UNCHANGED <<watch, upLimit, running, writeChunk, readChunk>>

\* Fault: a transfer that has used up its bytes is the last.
LeftOverIfMore == more

\* Some socket may have been left with work.
LeftOver == more \/ toWrite = 0 \/ toRead = 0

\* The end
End ==
  /\ running /\ RoundIsOver /\ ~AnotherRound
  /\ IF LeftOver THEN ScheduleTransfer ELSE UNCHANGED scheduled
  /\ running' = FALSE
  /\ more' = FALSE
  /\ pending' = {} /\ todo' = {}
  /\ toWrite' = 0 /\ toRead' = 0 /\ writeChunk' = 0 /\ readChunk' = 0
  /\ UNCHANGED <<net, watch, upLimit, load>>

\* 50 ms pass.
Tick ==
  /\ ~running /\ scheduled # "due"
  /\ scheduled' = IF scheduled = "waiting" THEN "due" ELSE scheduled
  /\ watch' = IF watch < Second THEN watch + 1 ELSE watch
  /\ load' = Max({0, load - Max(UpLimits)})
  /\ UNCHANGED <<net, upLimit, transfer>>

-----------------------------------------------------------------------------
Next ==
  \/ \E s \in Sockets : \/ AddSocket(s) \/ Connected(s) \/ Bytes(s) \/ RemoveSocket(s)
                        \/ Skip(s) \/ Serve(s)
  \/ \E limit \in UpLimits : SetUploadLimit(limit)
  \/ Begin \/ Round \/ End \/ Tick

Spec == Init /\ [][Next]_vars

\* Time passes, and the event loop runs a transfer that is due to its end.
FairSpec ==
  /\ Spec
  /\ WF_vars(Tick) /\ WF_vars(Begin) /\ WF_vars(Round) /\ WF_vars(End)
  /\ \A s \in Sockets : WF_vars(Skip(s)) /\ WF_vars(Serve(s))

-----------------------------------------------------------------------------
(* Properties *)

\* No socket that could send or receive is forgotten: between transfers the next one is
\* scheduled as long as a connected socket has work, although transfer() returns early,
\* leaves sockets out and runs other code on the way.
NoForgottenSocket ==
  ~running /\ scheduled = "no" => \A s \in sockets \cap connected : ~HasWork(s)

\* The upload limit is kept, however transfers, limits and sockets come and go: never is
\* more sent than flows at the highest limit, apart from one second's worth.
UploadLimitKept == load <= Max(UpLimits) * Second

\* What has come in for a connected socket is read in the end, and what is queued for it is
\* sent unless the user finally forbids it with the limit 0: neither direction is held up by
\* the other's.
WorkIsDone ==
  \A s \in Sockets :
    /\ (s \in connected /\ inbox[s] > 0) ~> (s \notin connected \/ inbox[s] = 0)
    /\ <>[](upLimit > 0) =>
         ((s \in connected /\ outbox[s] > 0) ~> (s \notin connected \/ outbox[s] = 0))
=============================================================================
