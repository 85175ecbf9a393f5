------------------------- MODULE RateControlProofs -------------------------
(***************************************************************************)
(* Proofs about RateControl, for any sockets, limits and length of a       *)
(* second: no socket with work is forgotten, and uploads keep their limit. *)
(***************************************************************************)
EXTENDS RateControl, FiniteSetTheorems, TLAPS

-----------------------------------------------------------------------------
(* Minima, maxima and shares *)

LEMMA MinOfThree ==
  ASSUME NEW a \in Int, NEW b \in Int, NEW c \in Int, NEW x, x = Min({a, b, c})
  PROVE  x \in {a, b, c} /\ x <= a /\ x <= b /\ x <= c
<1>1. \E y \in {a, b, c} : \A z \in {a, b, c} : y <= z
  OBVIOUS
<1> QED BY <1>1 DEF Min

LEMMA MaxOfTwo ==
  ASSUME NEW a \in Int, NEW b \in Int, NEW x, x = Max({a, b})
  PROVE  x \in {a, b} /\ x >= a /\ x >= b
<1>1. \E y \in {a, b} : \A z \in {a, b} : y >= z
  OBVIOUS
<1> QED BY <1>1 DEF Max

LEMMA HighestLimit ==
  /\ Max(UpLimits) \in Nat
  /\ \A limit \in UpLimits : limit <= Max(UpLimits)
BY ConstantsAssumption DEF Max

\* The integer division of the rate never gives too much.
LEMMA ShareOfSecond ==
  ASSUME NEW a \in Nat, NEW n \in Nat \ {0}
  PROVE  a \div n \in Nat /\ (a \div n) * n <= a
OBVIOUS

LEMMA ProductGrows ==
  ASSUME NEW a \in Nat, NEW b \in Nat, NEW c \in Nat, a <= b
  PROVE  a * c <= b * c
<1>1. b * c = a * c + (b - a) * c /\ (b - a) * c >= 0
  OBVIOUS
<1> QED BY <1>1

-----------------------------------------------------------------------------
(* The inductive invariant *)

Types ==
  /\ sockets \subseteq Sockets /\ pending \subseteq Sockets
  /\ inbox \in [Sockets -> Nat] /\ outbox \in [Sockets -> Nat] /\ supply \in [Sockets -> Int]
  /\ watch \in 0..Second
  /\ upLimit \in UpLimits
  /\ toWrite \in Nat /\ toRead \in Nat
  /\ writeChunk \in Nat /\ readChunk \in Nat
  /\ load \in Nat

\* In a round the shares are positive; between transfers nothing is left of the last one.
Shares == /\ running /\ todo # {} => writeChunk > 0 /\ readChunk > 0
          /\ ~running => toWrite = 0

\* A transfer has something to send only under a limit that allows it.
NothingAgainstLimit == running /\ upLimit = 0 => toWrite = 0

\* A socket with work is kept for the next round, unless a transfer is to follow.
WorkIsPending ==
  running /\ scheduled = "no" /\ toWrite > 0 /\ toRead > 0 =>
    \A s \in sockets \cap connected : HasWork(s) => s \in pending

\* What is kept for the next round lies ahead in this one, or more can be transferred.
PendingIsAhead == /\ running => more \/ pending \subseteq todo
                  /\ todo \subseteq pending
                  /\ ~running => todo = {}

ControlInv == /\ Types /\ Shares /\ NothingAgainstLimit /\ WorkIsPending /\ PendingIsAhead
              /\ NoForgottenSocket

\* What was sent, what is about to be sent, and what the time since the last transfer
\* allows, together are not more than a second's worth.
BudgetKept ==
  load + toWrite * Second + Max(UpLimits) * watch <= Max(UpLimits) * Second

LEMMA ControlInit == Init => ControlInv /\ BudgetKept
<1> SUFFICES ASSUME Init
             PROVE  ControlInv /\ BudgetKept
  OBVIOUS
<1>1. Types
  BY ConstantsAssumption DEF Init, Types
<1>2. Shares /\ NothingAgainstLimit /\ WorkIsPending /\ PendingIsAhead /\ NoForgottenSocket
  BY DEF Init, Shares, NothingAgainstLimit, WorkIsPending, PendingIsAhead, NoForgottenSocket
<1>3. BudgetKept
  BY HighestLimit, ConstantsAssumption DEF Init, BudgetKept
<1> QED BY <1>1, <1>2, <1>3 DEF ControlInv

-----------------------------------------------------------------------------
(* The steps of a transfer *)

\* What Begin allows is bounded by the highest limit and the time that has passed.
LEMMA BeginFacts ==
  ASSUME Types
  PROVE  LET write == (upLimit * watch) \div Second
             read == (DownLimit * watch) \div Second
         IN /\ write \in Nat /\ read \in Nat
            /\ write * Second <= Max(UpLimits) * watch
            /\ upLimit = 0 => write = 0
<1>1. /\ upLimit \in Nat /\ watch \in Nat /\ Second \in Nat \ {0} /\ DownLimit \in Nat
      /\ upLimit <= Max(UpLimits) /\ Max(UpLimits) \in Nat
  BY HighestLimit, ConstantsAssumption DEF Types
<1>2. upLimit * watch \in Nat /\ DownLimit * watch \in Nat
  BY <1>1
<1>3. /\ (upLimit * watch) \div Second \in Nat
      /\ ((upLimit * watch) \div Second) * Second <= upLimit * watch
      /\ (DownLimit * watch) \div Second \in Nat
  BY <1>1, <1>2, ShareOfSecond
<1>4. upLimit * watch <= Max(UpLimits) * watch /\ Max(UpLimits) * watch \in Nat
  BY <1>1, ProductGrows
<1>5. ((upLimit * watch) \div Second) * Second <= Max(UpLimits) * watch
  <2> DEFINE w == ((upLimit * watch) \div Second) * Second
             u == upLimit * watch
             m == Max(UpLimits) * watch
  <2>1. w <= u /\ u <= m /\ w \in Int /\ u \in Int /\ m \in Int
    BY <1>1, <1>2, <1>3, <1>4
  <2> HIDE DEF w, u, m
  <2>2. w <= m
    BY <2>1
  <2> QED BY <2>2 DEF w, m
<1>6. upLimit = 0 => (upLimit * watch) \div Second = 0
  BY <1>1
<1> QED BY <1>3, <1>5, <1>6

\* What Serve does to the budgets, to the work of its socket and to the others.
LEMMA ServeFacts ==
  ASSUME Types, Shares, NEW s \in Sockets, Serve(s)
  PROVE  \E read, written, left \in Nat :
           /\ toRead' = toRead - read /\ read <= toRead
           /\ toWrite' = toWrite - written /\ written <= toWrite
           /\ load' = load + written * Second
           /\ inbox'[s] \in Nat /\ outbox'[s] \in Nat
           /\ inbox'[s] + outbox'[s] = left
           /\ \A t \in Sockets \ {s} : inbox'[t] = inbox[t] /\ outbox'[t] = outbox[t]
           /\ inbox' \in [Sockets -> Nat] /\ outbox' \in [Sockets -> Nat]
           /\ supply' \in [Sockets -> Int]
           /\ read + written > 0 /\ left > 0 => more' /\ pending' = pending
           /\ ~(read + written > 0 /\ left > 0) =>
                (more' <=> more) /\ pending' = pending \ {s}
           /\ read = 0 => inbox'[s] = 0 \/ toRead = 0
           /\ written = 0 => outbox'[s] = 0 \/ toWrite = 0 \/ upLimit = 0
<1> DEFINE read == BytesRead(s)
<1>1. /\ inbox[s] \in Nat /\ outbox[s] \in Nat /\ toRead \in Nat /\ toWrite \in Nat
      /\ readChunk \in Nat /\ writeChunk \in Nat /\ readChunk > 0 /\ writeChunk > 0
      /\ upLimit \in Nat
  BY ConstantsAssumption DEF Types, Shares, Serve, RoundIsOver
<1>2. /\ read \in Nat /\ read <= inbox[s] /\ read <= toRead
      /\ read = 0 => inbox[s] = 0 \/ toRead = 0
  <2> DEFINE i == inbox[s]
  <2>1. read = Min({i, readChunk, toRead})
    BY DEF BytesRead
  <2>2. i \in Nat /\ i \in Int /\ readChunk \in Int /\ toRead \in Int
    BY <1>1
  <2> HIDE DEF i, read
  <2>3. read \in {i, readChunk, toRead} /\ read <= i /\ read <= toRead
    BY <2>1, <2>2, MinOfThree, Zenon
  <2>4. /\ read \in Nat /\ read <= i /\ read <= toRead
        /\ read = 0 => i = 0 \/ toRead = 0
    BY <1>1, <2>2, <2>3
  <2> QED BY <2>4 DEF i
<1> HIDE DEF read
<1>3. PICK answer \in 0 .. Min({1, read, supply[s]}), closes \in {FALSE, read > 0} :
       LET written == BytesWritten(s, answer)
           left == inbox[s] - read + outbox[s] + answer - written
           goesOn == read + written > 0 /\ left > 0
       IN /\ inbox' = [inbox EXCEPT ![s] = @ - read]
          /\ outbox' = [outbox EXCEPT ![s] = @ + answer - written]
          /\ supply' = [supply EXCEPT ![s] = IF closes THEN 0 ELSE @ - answer]
          /\ toRead' = toRead - read
          /\ toWrite' = toWrite - written
          /\ more' = (more \/ goesOn)
          /\ pending' = IF goesOn THEN pending ELSE pending \ {s}
          /\ load' = load + written * Second
  BY DEF Serve, read
<1>4. answer \in Nat
  OBVIOUS
<1> DEFINE written == BytesWritten(s, answer)
<1>5. /\ written \in Nat /\ written <= toWrite /\ written <= outbox[s] + answer
      /\ written = 0 => outbox[s] + answer = 0 \/ toWrite = 0 \/ upLimit = 0
  <2> DEFINE o == outbox[s] + answer
             l == 2 * upLimit
  <2>1. written = Min({l, writeChunk, toWrite, o})
    BY DEF BytesWritten
  <2>2. /\ o \in Nat /\ l \in Nat /\ (l = 0 => upLimit = 0)
        /\ o \in Int /\ l \in Int /\ writeChunk \in Int /\ toWrite \in Int
    BY <1>1, <1>4
  <2> HIDE DEF o, l, written
  <2>3. written \in {l, writeChunk, toWrite, o} /\ written <= o /\ written <= toWrite
    <3>1. \E y \in {l, writeChunk, toWrite, o} : \A z \in {l, writeChunk, toWrite, o} : y <= z
      BY <2>2
    <3> QED BY <2>1, <2>2, <3>1 DEF Min
  <2>4. /\ written \in Nat /\ written <= toWrite /\ written <= o
        /\ written = 0 => o = 0 \/ toWrite = 0 \/ upLimit = 0
    BY <1>1, <2>2, <2>3
  <2> QED BY <2>4 DEF o
<1> HIDE DEF written
<1> DEFINE left == inbox[s] - read + outbox[s] + answer - written
           goesOn == read + written > 0 /\ left > 0
<1>6. left \in Nat
  BY <1>1, <1>2, <1>4, <1>5
<1>7. /\ inbox' = [inbox EXCEPT ![s] = @ - read]
      /\ outbox' = [outbox EXCEPT ![s] = @ + answer - written]
      /\ supply' = [supply EXCEPT ![s] = IF closes THEN 0 ELSE @ - answer]
      /\ toRead' = toRead - read
      /\ toWrite' = toWrite - written
      /\ load' = load + written * Second
  BY <1>3 DEF written
<1>8. /\ more' = (more \/ goesOn)
      /\ pending' = IF goesOn THEN pending ELSE pending \ {s}
  BY <1>3 DEF written
<1>9. /\ inbox'[s] = inbox[s] - read /\ outbox'[s] = outbox[s] + answer - written
      /\ \A t \in Sockets \ {s} : inbox'[t] = inbox[t] /\ outbox'[t] = outbox[t]
      /\ inbox' \in [Sockets -> Nat] /\ outbox' \in [Sockets -> Nat]
  BY <1>1, <1>2, <1>4, <1>5, <1>7 DEF Types
<1>10. supply' \in [Sockets -> Int]
  BY <1>4, <1>7 DEF Types
<1>11. inbox'[s] + outbox'[s] = left /\ inbox'[s] \in Nat /\ outbox'[s] \in Nat
  BY <1>1, <1>2, <1>4, <1>5, <1>9
<1>12. /\ read = 0 => inbox'[s] = 0 \/ toRead = 0
       /\ written = 0 => outbox'[s] = 0 \/ toWrite = 0 \/ upLimit = 0
  BY <1>1, <1>2, <1>4, <1>5, <1>9
<1> HIDE DEF left
<1>13. /\ read + written > 0 /\ left > 0 => more' /\ pending' = pending
       /\ ~(read + written > 0 /\ left > 0) => (more' <=> more) /\ pending' = pending \ {s}
  BY <1>8
<1> QED BY <1>2, <1>5, <1>6, <1>7, <1>9, <1>10, <1>11, <1>12, <1>13

-----------------------------------------------------------------------------
(* The invariant is kept *)

LEMMA RoundShares ==
  ASSUME Types, Round
  PROVE  writeChunk' \in Nat /\ readChunk' \in Nat /\ writeChunk' > 0 /\ readChunk' > 0
<1> DEFINE w == toWrite \div Cardinality(pending)
           r == toRead \div Cardinality(pending)
<1>1. writeChunk' = Max({1, w}) /\ readChunk' = Max({1, r})
  BY DEF Round
<1>2. w \in Int /\ r \in Int
  <2>1. IsFiniteSet(pending) /\ pending # {}
    BY ConstantsAssumption, FS_Subset DEF Types, Round, AnotherRound
  <2>2. Cardinality(pending) \in Nat \ {0}
    BY <2>1, FS_EmptySet, FS_CardinalityType
  <2>3. toWrite \in Nat /\ toRead \in Nat
    BY DEF Types
  <2> QED BY <2>2, <2>3
<1>3. 1 \in Int
  OBVIOUS
<1> HIDE DEF w, r
<1>4. writeChunk' \in {1, w} /\ writeChunk' >= 1 /\ readChunk' \in {1, r} /\ readChunk' >= 1
  BY <1>1, <1>2, <1>3, MaxOfTwo, Zenon
<1> QED BY <1>2, <1>4

LEMMA TypesStep ==
  ASSUME Types, Shares, [Next]_vars
  PROVE  Types'
<1>1. ASSUME NEW s \in Sockets, AddSocket(s) \/ Connected(s)
      PROVE  Types'
  BY <1>1 DEF AddSocket, Connected, Types, transfer
<1>2. ASSUME NEW s \in Sockets, Bytes(s)
      PROVE  Types'
  BY <1>2 DEF Bytes, Types, transfer
<1>3. ASSUME NEW s \in Sockets, RemoveSocket(s)
      PROVE  Types'
  BY <1>3 DEF RemoveSocket, Types, transfer
<1>4. ASSUME NEW s \in Sockets, Skip(s)
      PROVE  Types'
  BY <1>4 DEF Skip, Types, net
<1>5. ASSUME NEW s \in Sockets, Serve(s)
      PROVE  Types'
  <2>1. /\ inbox' \in [Sockets -> Nat] /\ outbox' \in [Sockets -> Nat]
        /\ supply' \in [Sockets -> Int] /\ toRead' \in Nat /\ toWrite' \in Nat
        /\ pending' \subseteq Sockets
    BY <1>5, ServeFacts DEF Types
  <2>2. load' \in Nat
    <3>1. PICK written \in Nat : load' = load + written * Second
      BY <1>5, ServeFacts
    <3> QED BY <3>1, ConstantsAssumption DEF Types
  <2> QED BY <1>5, <2>1, <2>2 DEF Serve, Types
<1>6. ASSUME NEW limit \in UpLimits, SetUploadLimit(limit)
      PROVE  Types'
  BY <1>6 DEF SetUploadLimit, Types, net, transfer
<1>7. CASE Begin
  <2>1. /\ toWrite' \in Nat /\ toRead' \in Nat
        /\ writeChunk' = writeChunk /\ readChunk' = readChunk
    BY <1>7, BeginFacts DEF Begin, Types, transfer
  <2>2. watch' = watch \/ watch' = 0
    BY <1>7 DEF Begin, WatchStarted
  <2>3. pending' \subseteq Sockets
    BY <1>7 DEF Begin, Types, transfer
  <2>4. /\ sockets' = sockets /\ inbox' = inbox /\ outbox' = outbox /\ supply' = supply
        /\ upLimit' = upLimit /\ load' = load
    BY <1>7 DEF Begin, net
  <2> QED BY <2>1, <2>2, <2>3, <2>4, ConstantsAssumption DEF Types
<1>8. CASE Round
  BY <1>8, RoundShares DEF Round, Types, net
<1>9. CASE End
  BY <1>9 DEF End, Types, net
<1>10. CASE Tick
  <2>1. load' \in Nat
    <3> DEFINE n == load - Max(UpLimits)
    <3>1. n \in Int /\ 0 \in Int
      BY HighestLimit DEF Types
    <3>2. load' = Max({0, n})
      BY <1>10 DEF Tick
    <3> HIDE DEF n
    <3>3. load' \in {0, n} /\ load' >= 0
      BY <3>1, <3>2, MaxOfTwo, Zenon
    <3> QED BY <3>1, <3>3
  <2>2. watch' \in 0..Second
    BY <1>10, ConstantsAssumption DEF Tick, Types
  <2> QED BY <1>10, <2>1, <2>2 DEF Tick, Types, net, transfer
<1>11. CASE UNCHANGED vars
  BY <1>11 DEF vars, net, transfer, Types
<1> QED BY <1>1, <1>2, <1>3, <1>4, <1>5, <1>6, <1>7, <1>8, <1>9, <1>10, <1>11 DEF Next

\* The steps of the sockets and of the user, between transfers.
LEMMA OutsideStep ==
  ASSUME ControlInv,
         \/ \E s \in Sockets : AddSocket(s) \/ Connected(s) \/ Bytes(s) \/ RemoveSocket(s)
         \/ \E limit \in UpLimits : SetUploadLimit(limit)
         \/ Tick
         \/ UNCHANGED vars
  PROVE  /\ Shares' /\ NothingAgainstLimit' /\ WorkIsPending' /\ PendingIsAhead'
         /\ NoForgottenSocket'
<1> USE DEF ControlInv
<1>1. CASE UNCHANGED vars
  BY <1>1 DEF vars, net, transfer, Shares, NothingAgainstLimit, WorkIsPending, PendingIsAhead,
              NoForgottenSocket, HasWork
<1>2. CASE ~UNCHANGED vars
  <2>1. ~running /\ UNCHANGED transfer
    BY <1>2 DEF AddSocket, Connected, Bytes, RemoveSocket, SetUploadLimit, Tick
  <2>2. /\ running' = running /\ pending' = pending /\ todo' = todo /\ more' = more
        /\ toWrite' = toWrite /\ toRead' = toRead
        /\ writeChunk' = writeChunk /\ readChunk' = readChunk
    BY <2>1 DEF transfer
  <2>3. Shares' /\ NothingAgainstLimit' /\ WorkIsPending' /\ PendingIsAhead'
    BY <2>1, <2>2 DEF Shares, NothingAgainstLimit, WorkIsPending, PendingIsAhead
  <2>4. ASSUME NEW s \in Sockets, AddSocket(s) \/ Connected(s) \/ Bytes(s)
        PROVE  NoForgottenSocket'
    BY <2>4 DEF AddSocket, Connected, Bytes, ScheduleTransfer, NoForgottenSocket
  <2>5. ASSUME NEW s \in Sockets, RemoveSocket(s)
        PROVE  NoForgottenSocket'
    BY <2>1, <2>5 DEF RemoveSocket, NoForgottenSocket, HasWork
  <2>6. ASSUME NEW limit \in UpLimits, SetUploadLimit(limit)
        PROVE  NoForgottenSocket'
    BY <2>1, <2>6 DEF SetUploadLimit, net, NoForgottenSocket, HasWork
  <2>7. ASSUME Tick
        PROVE  NoForgottenSocket'
    <3>1. /\ scheduled' = "no" => scheduled = "no"
          /\ sockets' = sockets /\ connected' = connected /\ inbox' = inbox /\ outbox' = outbox
      BY <2>7 DEF Tick, net
    <3> QED BY <2>1, <3>1 DEF NoForgottenSocket, HasWork
  <2>8. NoForgottenSocket'
    BY <1>2, <2>4, <2>5, <2>6, <2>7
  <2> QED BY <2>3, <2>8
<1> QED BY <1>1, <1>2

LEMMA BeginStep ==
  ASSUME ControlInv, Begin
  PROVE  /\ Shares' /\ NothingAgainstLimit' /\ WorkIsPending' /\ PendingIsAhead'
         /\ NoForgottenSocket'
<1> USE DEF ControlInv
<1> DEFINE write == (upLimit * watch) \div Second
           read == (DownLimit * watch) \div Second
           ready == {s \in sockets : HasWork(s)}
<1>1. /\ sockets' = sockets /\ connected' = connected /\ inbox' = inbox /\ outbox' = outbox
      /\ upLimit' = upLimit /\ ~running /\ todo = {} /\ toWrite = 0
  BY DEF Begin, net, PendingIsAhead, Shares
<1>2. upLimit = 0 => write = 0
  BY BeginFacts
<1> HIDE DEF write, read
<1>3. CASE UNCHANGED transfer
  <2>1. /\ running' = running /\ pending' = pending /\ todo' = todo /\ toWrite' = toWrite
    BY <1>3 DEF transfer
  <2>2. scheduled' = "no" => sockets = {} \/ ready = {}
    BY <1>1, <1>3 DEF Begin, transfer
  <2>3. NoForgottenSocket'
    BY <1>1, <2>2 DEF NoForgottenSocket, HasWork
  <2> QED BY <1>1, <2>1, <2>3 DEF Shares, NothingAgainstLimit, WorkIsPending, PendingIsAhead
<1>4. CASE running' = TRUE
  <2>1. /\ more' = TRUE /\ pending' = ready /\ toWrite' = write /\ todo' = {}
    BY <1>1, <1>4 DEF Begin, transfer, write, read
  <2>2. Shares' /\ PendingIsAhead' /\ NoForgottenSocket'
    BY <1>4, <2>1 DEF Shares, PendingIsAhead, NoForgottenSocket
  <2>3. NothingAgainstLimit'
    BY <1>1, <1>2, <2>1 DEF NothingAgainstLimit
  <2>4. WorkIsPending'
    BY <1>1, <2>1 DEF WorkIsPending, HasWork
  <2> QED BY <2>2, <2>3, <2>4
<1> QED BY <1>3, <1>4 DEF Begin

LEMMA ServeStep ==
  ASSUME ControlInv, NEW s \in Sockets, Serve(s)
  PROVE  /\ Shares' /\ NothingAgainstLimit' /\ WorkIsPending' /\ PendingIsAhead'
         /\ NoForgottenSocket'
<1> USE DEF ControlInv
<1>1. /\ running /\ running' = running /\ upLimit' = upLimit /\ todo' = todo \ {s} /\ s \in todo
      /\ writeChunk' = writeChunk /\ readChunk' = readChunk
      /\ sockets' \subseteq sockets /\ connected' \subseteq connected
      /\ scheduled' = "no" => scheduled = "no"
  BY DEF Serve, ScheduleTransfer
<1>2. PICK read, written, left \in Nat :
        /\ toRead' = toRead - read /\ read <= toRead
        /\ toWrite' = toWrite - written /\ written <= toWrite
        /\ inbox'[s] \in Nat /\ outbox'[s] \in Nat
        /\ inbox'[s] + outbox'[s] = left
        /\ \A t \in Sockets \ {s} : inbox'[t] = inbox[t] /\ outbox'[t] = outbox[t]
        /\ read + written > 0 /\ left > 0 => more' /\ pending' = pending
        /\ ~(read + written > 0 /\ left > 0) => (more' <=> more) /\ pending' = pending \ {s}
        /\ read = 0 => inbox'[s] = 0 \/ toRead = 0
        /\ written = 0 => outbox'[s] = 0 \/ toWrite = 0 \/ upLimit = 0
  BY ServeFacts
<1>3. toWrite \in Nat /\ toRead \in Nat
  BY DEF Types
<1>4. Shares' /\ NothingAgainstLimit' /\ NoForgottenSocket'
  BY <1>1, <1>2, <1>3 DEF Shares, NothingAgainstLimit, NoForgottenSocket
<1>5. PendingIsAhead'
  BY <1>1, <1>2 DEF PendingIsAhead
<1>6. ASSUME scheduled' = "no", toWrite' > 0, toRead' > 0,
             NEW t \in sockets' \cap connected', HasWork(t)'
      PROVE  t \in pending'
  <2>1. toWrite > 0 /\ toRead > 0 /\ upLimit # 0 /\ scheduled = "no"
    BY <1>1, <1>2, <1>3, <1>6 DEF NothingAgainstLimit
  <2>2. CASE t # s
    <3>1. t \in Sockets /\ t \in sockets \cap connected /\ HasWork(t)
      BY <1>1, <1>2, <1>6, <2>2 DEF HasWork, Types
    <3> QED BY <1>1, <1>2, <2>1, <2>2, <3>1 DEF WorkIsPending
  <2>3. CASE t = s
    <3>1. left > 0
      BY <1>2, <1>6, <2>3 DEF HasWork
    <3>2. read + written > 0
      BY <1>2, <1>6, <2>1, <2>3 DEF HasWork
    <3> QED BY <1>1, <1>2, <2>3, <3>1, <3>2 DEF PendingIsAhead
  <2> QED BY <2>2, <2>3
<1> QED BY <1>4, <1>5, <1>6 DEF WorkIsPending

LEMMA ControlStep ==
  ASSUME ControlInv, [Next]_vars
  PROVE  ControlInv'
<1>1. Types'
  BY TypesStep DEF ControlInv
<1>2. ASSUME NEW s \in Sockets, Skip(s)
      PROVE  /\ Shares' /\ NothingAgainstLimit' /\ WorkIsPending' /\ PendingIsAhead'
             /\ NoForgottenSocket'
  BY <1>2 DEF ControlInv, Skip, net, Shares, NothingAgainstLimit, WorkIsPending, PendingIsAhead,
              NoForgottenSocket, HasWork
<1>3. CASE Round
  <2>1. writeChunk' > 0 /\ readChunk' > 0
    BY <1>3, RoundShares DEF ControlInv
  <2> QED BY <1>1, <1>3, <2>1 DEF ControlInv, Round, net, Shares, NothingAgainstLimit,
                                  WorkIsPending, PendingIsAhead, NoForgottenSocket, HasWork
<1>4. CASE End
  <2>1. /\ running' = FALSE /\ toWrite' = 0 /\ todo' = {} /\ pending' = {}
        /\ sockets' = sockets /\ connected' = connected /\ inbox' = inbox /\ outbox' = outbox
    BY <1>4 DEF End, net
  <2>2. ASSUME scheduled' = "no", NEW s \in sockets \cap connected
        PROVE  ~HasWork(s)
    <3>1. ~LeftOver /\ scheduled = "no"
      BY <1>4, <2>2 DEF End, ScheduleTransfer
    <3>2. ~more /\ toWrite > 0 /\ toRead > 0 /\ running /\ todo = {}
      BY <1>4, <3>1 DEF End, RoundIsOver, LeftOver, ControlInv, Types
    <3> QED BY <3>1, <3>2 DEF ControlInv, PendingIsAhead, WorkIsPending
  <2> QED BY <1>1, <2>1, <2>2 DEF ControlInv, Shares, NothingAgainstLimit, WorkIsPending,
                                  PendingIsAhead, NoForgottenSocket, HasWork
<1> QED BY <1>1, <1>2, <1>3, <1>4, OutsideStep, BeginStep, ServeStep DEF Next, ControlInv

LEMMA BudgetStep ==
  ASSUME ControlInv, BudgetKept, [Next]_vars
  PROVE  BudgetKept'
<1> DEFINE M == Max(UpLimits)
<1>1. /\ M \in Nat /\ Second \in Nat \ {0} /\ load \in Nat /\ toWrite \in Nat
      /\ watch \in Nat /\ watch <= Second
  BY HighestLimit, ConstantsAssumption DEF ControlInv, Types
<1>2. load + toWrite * Second + M * watch <= M * Second
  BY DEF BudgetKept
<1>3. ASSUME load' = load, toWrite' = toWrite, watch' = watch
      PROVE  BudgetKept'
  BY <1>3 DEF BudgetKept
<1>4. CASE Begin
  <2>1. CASE UNCHANGED transfer
    <3>1. load' = load /\ toWrite' = toWrite /\ (watch' = watch \/ running')
      BY <1>4, <2>1 DEF Begin, transfer
    <3>2. ~running'
      BY <1>4, <2>1 DEF Begin, transfer
    <3> QED BY <1>3, <3>1, <3>2
  <2>2. CASE running'
    <3> DEFINE write == (upLimit * watch) \div Second
    <3>1. write \in Nat /\ write * Second <= M * watch
      BY BeginFacts DEF ControlInv
    <3>2. toWrite = 0 /\ load' = load
      BY <1>4 DEF Begin, ControlInv, Shares
    <3>3. toWrite' = write /\ watch' = 0
      BY <1>4, <2>2 DEF Begin, transfer, WatchStarted
    <3> HIDE DEF write, M
    <3>4. load + write * Second + M * 0 <= M * Second
      <4>1. load + M * watch <= M * Second
        BY <1>1, <1>2, <3>2
      <4>2. write * Second \in Int /\ M * watch \in Int /\ M * Second \in Int /\ M * 0 = 0
        BY <1>1, <3>1
      <4> QED BY <1>1, <3>1, <4>1, <4>2
    <3> QED BY <3>2, <3>3, <3>4 DEF BudgetKept, M
  <2> QED BY <1>4, <2>1, <2>2 DEF Begin
<1>5. ASSUME NEW s \in Sockets, Serve(s)
      PROVE  BudgetKept'
  <2>1. PICK written \in Nat : /\ toWrite' = toWrite - written /\ load' = load + written * Second
    BY <1>5, ServeFacts DEF ControlInv
  <2>2. watch' = watch
    BY <1>5 DEF Serve
  <2>3. (toWrite - written) * Second = toWrite * Second - written * Second
    BY <1>1
  <2> HIDE DEF M
  <2>4. load + written * Second + (toWrite - written) * Second + M * watch <= M * Second
    <3>1. /\ toWrite * Second \in Int /\ written * Second \in Int /\ M * watch \in Int
          /\ M * Second \in Int
      BY <1>1
    <3> QED BY <1>1, <1>2, <2>3, <3>1
  <2> QED BY <2>1, <2>2, <2>4 DEF BudgetKept, M
<1>6. CASE End
  <2>1. toWrite' = 0 /\ load' = load /\ watch' = watch
    BY <1>6 DEF End
  <2>2. load + 0 * Second + M * watch <= M * Second
    <3> HIDE DEF M
    <3>1. toWrite * Second \in Nat /\ M * watch \in Int /\ M * Second \in Int /\ 0 * Second = 0
      BY <1>1
    <3> QED BY <1>1, <1>2, <3>1
  <2> QED BY <2>1, <2>2 DEF BudgetKept
<1>7. CASE Tick
  <2>1. /\ toWrite = 0 /\ toWrite' = toWrite
        /\ watch' = IF watch < Second THEN watch + 1 ELSE watch
    BY <1>7 DEF Tick, transfer, ControlInv, Shares
  <2>2. load' = Max({0, load - M})
    BY <1>7 DEF Tick
  <2> HIDE DEF M
  <2> DEFINE n == load - M
  <2>3. n \in Int /\ 0 \in Int
    BY <1>1
  <2>4. load' \in {0, n}
    <3> HIDE DEF n
    <3>1. load' = Max({0, n})
      BY <2>2 DEF n
    <3> QED BY <2>3, <3>1, MaxOfTwo, Zenon
  <2>5. load + M * watch <= M * Second /\ M * watch \in Int /\ M * Second \in Int
    BY <1>1, <1>2, <2>1
  <2>6. M * (watch + 1) = M * watch + M
    BY <1>1
  <2>7. watch < Second => M * (watch + 1) <= M * Second
    <3>1. M * (watch + 1) = (watch + 1) * M /\ M * Second = Second * M
      BY <1>1
    <3>2. watch < Second => (watch + 1) * M <= Second * M
      BY <1>1, ProductGrows
    <3> QED BY <3>1, <3>2
  <2>8. load' + M * watch' <= M * Second
    <3> DEFINE q == M * watch
               r == M * Second
    <3>1. q \in Int /\ r \in Int /\ load + q <= r
      BY <2>5
    <3>2. CASE watch < Second
      <4>1. M * watch' = q + M /\ q + M <= r
        BY <2>1, <2>6, <2>7, <3>2
      <4> HIDE DEF q
      <4> QED BY <1>1, <2>4, <3>1, <4>1
    <3>3. CASE ~(watch < Second)
      <4>1. M * watch' = q /\ q = r
        BY <1>1, <2>1, <3>3
      <4>2. load = 0
        BY <1>1, <3>1, <4>1
      <4> HIDE DEF q
      <4> QED BY <1>1, <2>4, <3>1, <4>1, <4>2
    <3> QED BY <3>2, <3>3
  <2>9. toWrite' * Second = 0 /\ load' \in Int /\ M * watch' \in Int
    BY <1>1, <2>1, <2>3, <2>4
  <2> QED BY <2>8, <2>9 DEF BudgetKept, M
<1>8. CASE /\ ~Begin /\ ~End /\ ~Tick
           /\ \A s \in Sockets : ~Serve(s)
  <2>1. load' = load /\ toWrite' = toWrite /\ watch' = watch
    BY <1>8 DEF Next, AddSocket, Connected, Bytes, RemoveSocket, SetUploadLimit, Skip, Round, vars,
                transfer
  <2> QED BY <1>3, <2>1
<1> QED BY <1>4, <1>5, <1>6, <1>7, <1>8

-----------------------------------------------------------------------------
(* The theorems *)

LEMMA ControlInvariant == Spec => [](ControlInv /\ BudgetKept)
<1>1. ControlInv /\ BudgetKept /\ [Next]_vars => (ControlInv /\ BudgetKept)'
  BY ControlStep, BudgetStep
<1> QED BY <1>1, ControlInit, PTL DEF Spec

\* Whenever no transfer is under way or scheduled, no connected socket has anything to send
\* or to read, for any sockets, limits and order of events.
THEOREM NeverForgotten == Spec => []NoForgottenSocket
<1>1. ControlInv => NoForgottenSocket
  BY DEF ControlInv
<1> QED BY <1>1, ControlInvariant, PTL

\* The sockets together never send more than the highest limit and one second's worth,
\* whatever the limits are and however often transfer() runs.
THEOREM UploadAlwaysLimited == Spec => []UploadLimitKept
<1>1. ControlInv /\ BudgetKept => UploadLimitKept
  <2> SUFFICES ASSUME ControlInv, BudgetKept
               PROVE  load <= Max(UpLimits) * Second
    BY DEF UploadLimitKept
  <2> DEFINE M == Max(UpLimits)
  <2>1. /\ M \in Nat /\ Second \in Nat /\ load \in Nat /\ toWrite \in Nat /\ watch \in Nat
    BY HighestLimit, ConstantsAssumption DEF ControlInv, Types
  <2>2. load + toWrite * Second + M * watch <= M * Second
    BY DEF BudgetKept
  <2> HIDE DEF M
  <2>3. toWrite * Second \in Nat /\ M * watch \in Nat /\ M * Second \in Nat
    BY <2>1
  <2>4. load <= M * Second
    BY <2>1, <2>2, <2>3
  <2> QED BY <2>4 DEF M
<1> QED BY <1>1, ControlInvariant, PTL
=============================================================================
