---------------------- MODULE TorrentConnectionsProofs ----------------------
(***************************************************************************)
(* Proofs about TorrentConnections, for any number of connections, any     *)
(* limit and any number of pieces: the flag of the peer connector always   *)
(* has its timer, an active torrent seeds exactly when it is complete, the *)
(* torrent is offered to incoming connections at most once, the connection *)
(* manager counts every connection, and no list holds a deleted one.       *)
(***************************************************************************)
EXTENDS TorrentConnections, SequenceTheorems, FiniteSetTheorems, WellFoundedInduction,
        TLAPS

-----------------------------------------------------------------------------
(* The peer connector *)

ConnectorInv == /\ timers \in Nat
                /\ connectingToClients \in BOOLEAN
                /\ ReconnectIsOnItsWay

\* callPeerConnector raises the flag and starts the timer together.
LEMMA CallKeepsConnector ==
  ASSUME ConnectorInv, CallPeerConnector PROVE ConnectorInv'
<1>1. timers + 1 \in Nat /\ timers + 1 > 0
  BY DEF ConnectorInv
<1>2. CASE connectingToClients
  BY <1>2, Zenon DEF CallPeerConnector, ConnectorInv, ReconnectIsOnItsWay
<1>3. CASE ~connectingToClients
  BY <1>1, <1>3, Zenon DEF CallPeerConnector, ConnectorInv, ReconnectIsOnItsWay
<1> QED BY <1>2, <1>3

\* A timer that fires clears the flag.
LEMMA ConnectKeepsConnector ==
  ASSUME ConnectorInv, NEW st, ConnectToPeers(st),
         timers' = timers \/ (timers > 0 /\ timers' = timers - 1)
  PROVE  ConnectorInv'
<1>1. timers' \in Nat
  BY DEF ConnectorInv
<1>2. connectingToClients' = FALSE
  BY DEF ConnectToPeers
<1> QED BY <1>1, <1>2, Zenon DEF ConnectorInv, ReconnectIsOnItsWay

\* Every handler that uses up a timer or raises the flag does both.
LEMMA ConnectorStep == ConnectorInv /\ [Next]_vars => ConnectorInv'
<1> SUFFICES ASSUME ConnectorInv, [Next]_vars PROVE ConnectorInv'
  OBVIOUS
<1> USE DEF ConnectorInv, ReconnectIsOnItsWay
<1>1. ASSUME NEW c \in Conn, Close(c) PROVE ConnectorInv'
  BY <1>1, CallKeepsConnector DEF Close
<1>2. ASSUME NEW c \in Conn,
             \/ DeferredDelete(c) \/ Established(c) \/ Refused(c)
             \/ IncomingConnection(c) \/ ServerRemoveClient(c)
             \/ ProcessInfoHash(c) \/ BlockReceived(c)
      PROVE  ConnectorInv'
  BY <1>2 DEF DeferredDelete, Established, Refused, IncomingConnection,
              ServerRemoveClient, ProcessInfoHash, BlockReceived
<1>3. CASE PeerConnectorTimer
  BY <1>3, ConnectKeepsConnector DEF PeerConnectorTimer
<1>4. CASE AddToPeerList
  BY <1>4, CallKeepsConnector, ConnectKeepsConnector DEF AddToPeerList
<1>5. CASE PieceVerified \/ PieceFailed \/ FullVerificationDone \/ Start
  BY <1>5 DEF PieceVerified, PieceFailed, FullVerificationDone, Start
<1>6. ASSUME Pause PROVE ConnectorInv'
  BY <1>6, CallKeepsConnector DEF Pause, AbortCalls
<1>7. CASE UserPauses \/ HandleFileError
  BY <1>6, <1>7 DEF UserPauses, HandleFileError
<1>8. CASE Resume
  BY <1>8, ConnectKeepsConnector DEF Resume
<1>9. CASE Stop
  BY <1>9, CallKeepsConnector DEF Stop, AbortCalls
<1>10. CASE UNCHANGED vars
  BY <1>10 DEF vars
<1> QED BY <1>1, <1>2, <1>3, <1>4, <1>5, <1>7, <1>8, <1>9, <1>10 DEF Next

\* connectingToClients never stays set without a timer that will clear it, so a
\* closed connection can always be replaced.
THEOREM ReconnectAlwaysComes == Spec => []ReconnectIsOnItsWay
<1>1. Init => ConnectorInv
  <2> SUFFICES ASSUME Init PROVE ConnectorInv
    OBVIOUS
  <2>1. timers \in Nat
    BY DEF Init
  <2> QED BY <2>1, Zenon DEF Init, ConnectorInv, ReconnectIsOnItsWay
<1>2. ConnectorInv => ReconnectIsOnItsWay
  BY DEF ConnectorInv
<1> QED BY <1>1, <1>2, ConnectorStep, PTL DEF Spec

-----------------------------------------------------------------------------
(* Seeding *)

\* Nothing is counted before the full verification, and no piece twice; the
\* tracker is started by the end of the verification, which runs once.
CountsOK == /\ completed \in 0 .. PieceCount
            /\ verdicts \in Nat
            /\ completed + verdicts <= PieceCount
            /\ verdicts > 0 => verification = "done"

VerifiedOnce == /\ tracked => verification = "done"
                /\ state = "Idle" /\ ~removed => verification = "none"

SeedInv == CountsOK /\ VerifiedOnce /\ SeedingWhenComplete

\* A new connection moves a torrent to WarmingUp only when nothing is complete.
LEMMA StateWithPeerCases ==
  \/ StateWithPeer = state
  \/ state \in {"Searching", "Connecting"} /\ completed = 0 /\ StateWithPeer = "WarmingUp"
BY DEF StateWithPeer

LEMMA SeedStep == SeedInv /\ [Next]_vars => SeedInv'
<1> SUFFICES ASSUME SeedInv, [Next]_vars PROVE SeedInv'
  OBVIOUS
<1> USE ConstantsAssumption DEF SeedInv, CountsOK, VerifiedOnce, SeedingWhenComplete,
                               Active, dataVars
<1>1. ASSUME NEW c \in Conn,
             \/ Close(c) \/ DeferredDelete(c) \/ Refused(c)
             \/ IncomingConnection(c) \/ ServerRemoveClient(c)
      PROVE  SeedInv'
  BY <1>1 DEF Close, DeferredDelete, Refused, IncomingConnection, ServerRemoveClient
<1>2. ASSUME NEW c \in Conn, Established(c) \/ ProcessInfoHash(c) PROVE SeedInv'
  BY <1>2, StateWithPeerCases DEF Established, ProcessInfoHash
<1>3. ASSUME NEW c \in Conn, BlockReceived(c) PROVE SeedInv'
  <2>1. CountsOK'
    <3>1. completed + verdicts < PieceCount /\ verification = "done"
      BY <1>3 DEF BlockReceived
    <3>2. verdicts' = verdicts \/ verdicts' = verdicts + 1
      BY <1>3, Zenon DEF BlockReceived
    <3>3. UNCHANGED <<completed, verification>>
      BY <1>3 DEF BlockReceived
    <3> QED BY <3>1, <3>2, <3>3
  <2>2. completed # PieceCount /\ completed' = completed
    BY <1>3 DEF BlockReceived
  <2>3. VerifiedOnce'
    BY <1>3, Zenon DEF BlockReceived
  <2>4. SeedingWhenComplete'
    BY <1>3, <2>2, Zenon DEF BlockReceived
  <2> QED BY <2>1, <2>3, <2>4
<1>4. CASE PeerConnectorTimer
  BY <1>4 DEF PeerConnectorTimer, ConnectToPeers
<1>5. CASE AddToPeerList
  BY <1>5 DEF AddToPeerList, ConnectToPeers
<1>6. CASE PieceVerified
  BY <1>6 DEF PieceVerified
<1>7. CASE PieceFailed
  BY <1>7 DEF PieceFailed
<1>8. CASE FullVerificationDone
  <2>1. ~tracked
    BY <1>8 DEF FullVerificationDone
  <2>2. CountsOK'
    <3>1. PICK n \in 0 .. PieceCount : completed' = n
      BY <1>8 DEF FullVerificationDone
    <3>2. verdicts = 0 /\ verdicts' = verdicts
      BY <1>8 DEF FullVerificationDone
    <3> QED BY <3>1, <3>2
  <2>3. CASE state' = (IF completed' = PieceCount THEN "Seeding" ELSE "Searching")
    BY <1>8, <2>2, <2>3 DEF FullVerificationDone
  <2>4. CASE UNCHANGED <<state, tracked>>
    BY <1>8, <2>1, <2>2, <2>4, Zenon DEF FullVerificationDone
  <2> QED BY <1>8, <2>3, <2>4 DEF FullVerificationDone
<1>9. CASE Start
  BY <1>9 DEF Start
<1>10. CASE UserPauses \/ HandleFileError
  BY <1>10 DEF UserPauses, HandleFileError, Pause
<1>11. CASE Resume
  BY <1>11 DEF Resume, ConnectToPeers
<1>12. CASE Stop
  BY <1>12 DEF Stop
<1>13. CASE UNCHANGED vars
  BY <1>13 DEF vars
<1> QED BY <1>1, <1>2, <1>3, <1>4, <1>5, <1>6, <1>7, <1>8, <1>9, <1>10, <1>11,
           <1>12, <1>13 DEF Next

\* Once its pieces are known an active torrent seeds if and only if all of them are
\* complete, though verdicts, pauses and connections set the state independently.
THEOREM SeedsExactlyWhenComplete == Spec => []SeedingWhenComplete
<1>1. Init => SeedInv
  <2> SUFFICES ASSUME Init PROVE SeedInv
    OBVIOUS
  <2>1. CountsOK
    BY ConstantsAssumption DEF Init, CountsOK
  <2>2. VerifiedOnce /\ SeedingWhenComplete
    BY Zenon DEF Init, VerifiedOnce, SeedingWhenComplete
  <2> QED BY <2>1, <2>2 DEF SeedInv
<1>2. SeedInv => SeedingWhenComplete
  BY DEF SeedInv
<1> QED BY <1>1, <1>2, SeedStep, PTL DEF Spec

-----------------------------------------------------------------------------
(* The list of the server *)

ServedInv == /\ served \in Nat
             /\ state = "Idle" => served = 0
             /\ ServedAtMostOnce

LEMMA ServedStep == ServedInv /\ [Next]_vars => ServedInv'
<1> SUFFICES ASSUME ServedInv, [Next]_vars PROVE ServedInv'
  OBVIOUS
<1> USE DEF ServedInv, ServedAtMostOnce, Active
<1>1. ASSUME NEW c \in Conn,
             \/ Close(c) \/ DeferredDelete(c) \/ Refused(c)
             \/ IncomingConnection(c) \/ ServerRemoveClient(c)
      PROVE  ServedInv'
  BY <1>1 DEF Close, DeferredDelete, Refused, IncomingConnection, ServerRemoveClient
<1>2. ASSUME NEW c \in Conn, Established(c) \/ ProcessInfoHash(c) PROVE ServedInv'
  BY <1>2, StateWithPeerCases DEF Established, ProcessInfoHash
<1>3. ASSUME NEW c \in Conn, BlockReceived(c) PROVE ServedInv'
  BY <1>3 DEF BlockReceived
<1>4. CASE PeerConnectorTimer
  BY <1>4 DEF PeerConnectorTimer, ConnectToPeers
<1>5. CASE AddToPeerList
  BY <1>5 DEF AddToPeerList, ConnectToPeers
<1>6. CASE PieceVerified \/ PieceFailed \/ FullVerificationDone
  BY <1>6 DEF PieceVerified, PieceFailed, FullVerificationDone
<1>7. CASE Start
  BY <1>7 DEF Start
<1>8. CASE UserPauses \/ HandleFileError
  BY <1>8 DEF UserPauses, HandleFileError, Pause
<1>9. CASE Resume
  BY <1>9 DEF Resume, ConnectToPeers
<1>10. CASE Stop
  BY <1>10 DEF Stop
<1>11. CASE UNCHANGED vars
  BY <1>11 DEF vars
<1> QED BY <1>1, <1>2, <1>3, <1>4, <1>5, <1>6, <1>7, <1>8, <1>9, <1>10, <1>11
        DEF Next

\* The server knows a torrent at most once, and not at all once it was removed or
\* while it is paused: no connection is handed over to it then.
THEOREM NeverServedTwice == Spec => []ServedAtMostOnce
<1>1. Init => ServedInv
  BY DEF Init, ServedInv, ServedAtMostOnce
<1>2. ServedInv => ServedAtMostOnce
  BY DEF ServedInv
<1> QED BY <1>1, <1>2, ServedStep, PTL DEF Spec

-----------------------------------------------------------------------------
(* The loops that abort connections *)

\* A set of natural numbers that is not empty has a least element.
LEMMA LeastNat ==
  ASSUME NEW T, T \subseteq Nat, T # {}
  PROVE  \E n \in T : \A m \in T : n <= m
<1> DEFINE Less == {ss \in Nat \X Nat : ss[1] < ss[2]}
<1>1. IsWellFoundedOn(Less, Nat)
  BY NatLessThanWellFounded DEF OpToRel
<1>2. PICK n \in T : \A m \in T : <<m, n>> \notin Less
  <2> HIDE DEF Less
  <2> QED BY <1>1, WFMin
<1>3. ASSUME NEW m \in T PROVE n <= m
  <2>1. n \in Nat /\ m \in Nat /\ <<m, n>> \notin Less
    BY <1>2
  <2>2. m < n => <<m, n>> \in Less
    BY <2>1
  <2> QED BY <2>1, <2>2
<1> QED BY <1>3

\* What the loop has in its hands: connections of the list, in cells enough.
LoopOK(l) == /\ DOMAIN l = {"cells", "size", "visited"}
             /\ l.cells \in [1 .. Len(connections) -> Owned]
             /\ l.size \in Int /\ l.size <= Len(connections)
             /\ l.visited \subseteq Owned

LEMMA AbortNextKeepsLoop ==
  ASSUME connections \in Seq(Conn), NEW l, LoopOK(l), NEW i \in 1 .. Len(connections)
  PROVE  LoopOK(AbortNext(l, i))
<1> DEFINE N == Len(connections)
           c == l.cells[i]
           at == CHOOSE j \in 1 .. l.size : l.cells[j] = c
           moved == [j \in DOMAIN l.cells |->
                       IF j \in at .. l.size - 1 THEN l.cells[j + 1] ELSE l.cells[j]]
<1>1. N \in Nat /\ c \in Owned /\ DOMAIN l.cells = 1 .. N
  BY DEF LoopOK
<1>2. moved \in [1 .. N -> Owned]
  <2> SUFFICES ASSUME NEW j \in 1 .. N
               PROVE  (IF j \in at .. l.size - 1 THEN l.cells[j + 1] ELSE l.cells[j])
                        \in Owned
    BY <1>1
  <2>1. CASE j \in at .. l.size - 1
    <3>1. j <= l.size - 1
      BY <2>1 DEF LoopOK
    <3>2. j + 1 \in 1 .. N
      BY <1>1, <3>1 DEF LoopOK
    <3> QED BY <2>1, <3>2 DEF LoopOK
  <2>2. CASE j \notin at .. l.size - 1
    BY <2>2 DEF LoopOK
  <2> QED BY <2>1, <2>2
<1>3. AbortNext(l, i) =
        IF Aborts(c) /\ c \notin l.visited
          THEN [cells |-> moved, size |-> l.size - 1, visited |-> l.visited \cup {c}]
          ELSE [l EXCEPT !.visited = l.visited \cup {c}]
  BY DEF AbortNext
<1> HIDE DEF moved, c
<1>4. CASE Aborts(c) /\ c \notin l.visited
  BY <1>1, <1>2, <1>3, <1>4 DEF LoopOK
<1>5. CASE ~(Aborts(c) /\ c \notin l.visited)
  BY <1>1, <1>3, <1>5 DEF LoopOK
<1> QED BY <1>4, <1>5

\* The loop visits connections of the list only.
LEMMA VisitedAreOwned ==
  ASSUME connections \in Seq(Conn) PROVE Visited \subseteq Owned
<1> DEFINE N == Len(connections)
           start == [cells |-> connections, size |-> N, visited |-> {}]
           Loop(f, n) == f = [i \in 0 .. n |-> IF i = 0 THEN start
                                                        ELSE AbortNext(f[i - 1], i)]
<1>1. N \in Nat
  OBVIOUS
<1>2. ASSUME NEW n \in Nat, NEW f, Loop(f, n) PROVE \E g : Loop(g, n + 1)
  <2> DEFINE g == [i \in 0 .. n + 1 |-> IF i = n + 1 THEN AbortNext(f[n], n + 1) ELSE f[i]]
  <2>1. \A i \in 0 .. n + 1 : g[i] = IF i = 0 THEN start ELSE AbortNext(g[i - 1], i)
    <3> HIDE DEF start
    <3> QED BY <1>2
  <2> HIDE DEF start
  <2>2. Loop(g, n + 1)
    BY <2>1
  <2> QED BY <2>2
<1>3. \A n \in Nat : \E f : Loop(f, n)
  <2> DEFINE Bad == {n \in Nat : ~\E f : Loop(f, n)}
  <2>1. SUFFICES ASSUME Bad # {} PROVE FALSE
    OBVIOUS
  <2>2. PICK n \in Bad : \A m \in Bad : n <= m
    <3> HIDE DEF Bad
    <3>1. Bad \subseteq Nat
      BY DEF Bad
    <3> QED BY <2>1, <3>1, LeastNat
  <2>3. CASE n = 0
    <3>1. Loop([i \in 0 .. 0 |-> start], 0)
      <4> HIDE DEF start
      <4> QED OBVIOUS
    <3> QED BY <2>2, <2>3, <3>1
  <2>4. CASE n # 0
    <3> HIDE DEF Loop
    <3>1. n - 1 \in Nat /\ n - 1 \notin Bad /\ n - 1 + 1 = n
      <4>1. n \in Nat
        OBVIOUS
      <4>2. n - 1 \in Nat /\ ~(n <= n - 1) /\ n - 1 + 1 = n
        BY <2>4, <4>1
      <4> HIDE DEF Bad
      <4> QED BY <2>2, <4>2
    <3>2. \E f : Loop(f, n - 1)
      BY <3>1
    <3>3. \E g : Loop(g, n)
      BY <1>2, <3>1, <3>2
    <3> QED BY <2>2, <3>3
  <2> QED BY <2>3, <2>4
<1> DEFINE loop == CHOOSE f : Loop(f, N)
<1>4. Loop(loop, N)
  <2> HIDE DEF Loop
  <2> QED BY <1>1, <1>3
<1>5. Visited = loop[N].visited
  BY DEF Visited
<1> HIDE DEF loop
<1>6. \A i \in 0 .. N : LoopOK(loop[i])
  <2> DEFINE Bad == {i \in 0 .. N : ~LoopOK(loop[i])}
  <2>1. SUFFICES ASSUME Bad # {} PROVE FALSE
    OBVIOUS
  <2>2. PICK i \in Bad : \A m \in Bad : i <= m
    <3> HIDE DEF Bad
    <3>1. Bad \subseteq Nat
      BY DEF Bad
    <3> QED BY <2>1, <3>1, LeastNat
  <2>3. CASE i = 0
    <3>1. loop[0] = start
      BY <1>1, <1>4
    <3>2. LoopOK(start)
      BY <1>1 DEF LoopOK, Owned
    <3> QED BY <2>2, <2>3, <3>1, <3>2
  <2>4. CASE i # 0
    <3>1. i - 1 \in 0 .. N /\ i \in 1 .. N /\ LoopOK(loop[i - 1])
      BY <2>2, <2>4
    <3>2. loop[i] = AbortNext(loop[i - 1], i)
      <4> HIDE DEF start
      <4> QED BY <1>4, <2>4, <3>1
    <3> HIDE DEF Loop
    <3>3. LoopOK(loop[i])
      BY <3>1, <3>2, AbortNextKeepsLoop
    <3> QED BY <2>2, <3>3
  <2> QED BY <2>3, <2>4
<1> QED BY <1>1, <1>5, <1>6 DEF LoopOK

-----------------------------------------------------------------------------
(* The list of connections and the connection manager *)

\* RemoveAt takes away the element at its place and keeps the others in order.
LEMMA RemoveAtFacts ==
  ASSUME NEW S, NEW s \in Seq(S), NEW i \in 1..Len(s)
  PROVE  /\ RemoveAt(s, i) \in Seq(S)
         /\ \A k \in 1..Len(RemoveAt(s, i)) :
              \E j \in 1..Len(s) : /\ RemoveAt(s, i)[k] = s[j]
                                   /\ j = IF k < i THEN k ELSE k + 1
         /\ \A j \in 1..Len(s) \ {i} :
              \E k \in 1..Len(RemoveAt(s, i)) : RemoveAt(s, i)[k] = s[j]
<1> DEFINE before == SubSeq(s, 1, i - 1)
           after == SubSeq(s, i + 1, Len(s))
           t == before \o after
<1>1. /\ before \in Seq(S) /\ Len(before) = i - 1
      /\ \A k \in 1..(i - 1) : before[k] = s[k]
  OBVIOUS
<1>2. /\ after \in Seq(S) /\ Len(after) = Len(s) - i
      /\ \A k \in 1..(Len(s) - i) : after[k] = s[i + k]
  OBVIOUS
<1>3. RemoveAt(s, i) = t
  BY DEF RemoveAt
<1> HIDE DEF before, after
<1>4. /\ t \in Seq(S) /\ Len(t) = Len(s) - 1
      /\ \A k \in 1..(Len(before) + Len(after)) :
           t[k] = IF k <= Len(before) THEN before[k] ELSE after[k - Len(before)]
  <2>1. Len(t) = Len(before) + Len(after) /\ t \in Seq(S)
    BY <1>1, <1>2, ConcatProperties
  <2>2. \A k \in 1..(Len(before) + Len(after)) :
          t[k] = IF k <= Len(before) THEN before[k] ELSE after[k - Len(before)]
    BY <1>1, <1>2, ConcatProperties
  <2>3. Len(before) + Len(after) = Len(s) - 1
    BY <1>1, <1>2
  <2> QED BY <2>1, <2>2, <2>3
<1> HIDE DEF t
<1>5. ASSUME NEW k \in 1..(Len(s) - 1)
      PROVE  t[k] = IF k < i THEN s[k] ELSE s[k + 1]
  <2>1. t[k] = IF k <= i - 1 THEN before[k] ELSE after[k - (i - 1)]
    <3>1. Len(before) = i - 1 /\ k \in 1..(Len(before) + Len(after))
      BY <1>1, <1>2
    <3>2. t[k] = IF k <= Len(before) THEN before[k] ELSE after[k - Len(before)]
      BY <1>4, <3>1
    <3> QED BY <3>1, <3>2
  <2>2. CASE k < i
    BY <1>1, <2>1, <2>2
  <2>3. CASE ~(k < i)
    <3>1. k - (i - 1) \in 1..(Len(s) - i) /\ i + (k - (i - 1)) = k + 1
      BY <2>3
    <3>2. t[k] = after[k - (i - 1)]
      BY <2>1, <2>3
    <3> QED BY <1>2, <2>3, <3>1, <3>2
  <2> QED BY <2>2, <2>3
<1>6. \A k \in 1..Len(t) : \E j \in 1..Len(s) : t[k] = s[j] /\ j = IF k < i THEN k ELSE k + 1
  BY <1>4, <1>5
<1>7. ASSUME NEW j \in 1..Len(s) \ {i}
      PROVE  \E k \in 1..Len(t) : t[k] = s[j]
  <2>1. CASE j < i
    BY <1>4, <1>5, <2>1
  <2>2. CASE j > i
    <3>1. j - 1 \in 1..Len(t) /\ t[j - 1] = s[j]
      BY <1>4, <1>5, <2>2
    <3> QED BY <3>1
  <2> QED BY <2>1, <2>2
<1> QED BY <1>3, <1>4, <1>6, <1>7

\* No connection is twice in the list, so that what removeClient takes away is gone.
OnceInList ==
  \A i, j \in DOMAIN connections : connections[i] = connections[j] => i = j

\* The list holds connections that were opened and not removed ...
OwnedConnected == \A c \in Owned : link[c] \in {"connecting", "open", "failed"}

\* ... and so does the connection manager, which knows the server's as well.
ManagedInUse == \A c \in managed : link[c] \in Live \cup {"failed"}

LinkState == {"unused", "pending", "connecting", "open", "failed", "closed", "deleted"}

ConnType == /\ connections \in Seq(Conn)
            /\ link \in [Conn -> LinkState]
            /\ managed \subseteq Conn

PeersInv == ConnType /\ OnceInList /\ OwnedConnected /\ ManagedInUse
              /\ LimitCountsEveryConnection

LEMMA RemovedFromList ==
  ASSUME ConnType, OnceInList, NEW c \in Conn,
         connections' = RemoveFirst(connections, c)
  PROVE  connections' \in Seq(Conn) /\ OnceInList' /\ Owned' = Owned \ {c}
<1> USE DEF ConnType
<1>0. /\ DOMAIN connections = 1 .. Len(connections) /\ Len(connections) \in Nat
      /\ \A s \in Seq(Conn) : DOMAIN s = 1 .. Len(s) /\ Len(s) \in Nat
  OBVIOUS
<1>1. CASE ~\E i \in 1 .. Len(connections) : connections[i] = c
  <2>1. connections' = connections
    BY <1>1 DEF RemoveFirst
  <2>2. c \notin Owned
    BY <1>0, <1>1 DEF Owned
  <2> QED BY <2>1, <2>2 DEF OnceInList, Owned
<1>2. CASE \E i \in 1 .. Len(connections) : connections[i] = c
  <2> DEFINE I == {i \in 1 .. Len(connections) : connections[i] = c}
             at == Min(I)
  <2>1. connections' = RemoveAt(connections, at)
    BY <1>2 DEF RemoveFirst, SelectInSeq
  <2>2. at \in I
    <3>1. I \subseteq Nat /\ I # {}
      BY <1>2
    <3>2. \E n \in I : \A m \in I : n <= m
      <4> HIDE DEF I
      <4> QED BY <3>1, LeastNat
    <3> HIDE DEF I
    <3> QED BY <3>2 DEF Min
  <2>3. at \in 1 .. Len(connections) /\ connections[at] = c
    BY <2>2
  <2> HIDE DEF I, at
  <2> DEFINE rest == RemoveAt(connections, at)
  <2>4. /\ rest \in Seq(Conn)
        /\ \A k \in 1 .. Len(rest) :
             \E j \in 1 .. Len(connections) : /\ rest[k] = connections[j]
                                              /\ j = IF k < at THEN k ELSE k + 1
        /\ \A j \in 1 .. Len(connections) \ {at} :
             \E k \in 1 .. Len(rest) : rest[k] = connections[j]
    BY <2>3, RemoveAtFacts
  <2>5. connections' = rest
    BY <2>1
  <2> HIDE DEF rest
  <2>6. DOMAIN rest = 1 .. Len(rest) /\ Len(rest) \in Nat
    BY <1>0, <2>4
  <2>7. OnceInList'
    <3> SUFFICES ASSUME NEW i \in 1 .. Len(rest), NEW j \in 1 .. Len(rest),
                        rest[i] = rest[j]
                 PROVE  i = j
      BY <2>5, <2>6 DEF OnceInList
    <3>1. PICK m \in 1 .. Len(connections) : /\ rest[i] = connections[m]
                                             /\ m = IF i < at THEN i ELSE i + 1
      BY <2>4
    <3>2. PICK n \in 1 .. Len(connections) : /\ rest[j] = connections[n]
                                             /\ n = IF j < at THEN j ELSE j + 1
      BY <2>4
    <3>3. m = n
      BY <1>0, <3>1, <3>2 DEF OnceInList
    <3> QED BY <2>3, <2>6, <3>1, <3>2, <3>3
  <2>8. Owned' \subseteq Owned \ {c}
    <3> SUFFICES ASSUME NEW k \in 1 .. Len(rest) PROVE rest[k] \in Owned /\ rest[k] # c
      BY <2>5, <2>6 DEF Owned
    <3>1. PICK j \in 1 .. Len(connections) : /\ rest[k] = connections[j]
                                             /\ j = IF k < at THEN k ELSE k + 1
      BY <2>4
    <3>2. j # at
      BY <2>3, <2>6, <3>1
    <3>3. connections[j] # c
      BY <1>0, <2>3, <3>2 DEF OnceInList
    <3> QED BY <1>0, <3>1, <3>3 DEF Owned
  <2>9. Owned \ {c} \subseteq Owned'
    <3> SUFFICES ASSUME NEW j \in 1 .. Len(connections), connections[j] # c
                 PROVE  connections[j] \in Owned'
      BY <1>0 DEF Owned
    <3>1. j # at
      BY <2>3
    <3>2. PICK k \in 1 .. Len(rest) : rest[k] = connections[j]
      BY <2>4, <3>1
    <3> QED BY <2>5, <2>6, <3>2 DEF Owned
  <2> QED BY <2>4, <2>5, <2>7, <2>8, <2>9
<1> QED BY <1>1, <1>2

LEMMA AppendedToList ==
  ASSUME ConnType, OnceInList, NEW c \in Conn, c \notin Owned,
         connections' = Append(connections, c)
  PROVE  connections' \in Seq(Conn) /\ OnceInList' /\ Owned' = Owned \cup {c}
<1>1. /\ DOMAIN connections = 1 .. Len(connections) /\ Len(connections) \in Nat
      /\ connections' \in Seq(Conn) /\ Len(connections') = Len(connections) + 1
      /\ DOMAIN connections' = 1 .. Len(connections) + 1
      /\ \A i \in 1 .. Len(connections) : connections'[i] = connections[i]
      /\ connections'[Len(connections) + 1] = c
  BY DEF ConnType
<1>2. \A i \in 1 .. Len(connections) : connections[i] # c
  BY <1>1 DEF Owned
<1>3. OnceInList'
  BY <1>1, <1>2 DEF OnceInList
<1>4. Owned' = Owned \cup {c}
  BY <1>1 DEF Owned
<1> QED BY <1>1, <1>3, <1>4

LEMMA ListAddedToList ==
  ASSUME ConnType, OnceInList, NEW new, new \subseteq Conn, new \cap Owned = {},
         NEW list \in SetToSeqs(new), connections' = connections \o list
  PROVE  connections' \in Seq(Conn) /\ OnceInList' /\ Owned' \subseteq Owned \cup new
<1>1. Cardinality(new) \in Nat
  BY ConstantsAssumption, FS_Subset, FS_CardinalityType
<1>2. /\ list \in [1 .. Cardinality(new) -> new]
      /\ \A i, j \in 1 .. Cardinality(new) : i # j => list[i] # list[j]
  BY DEF SetToSeqs
<1>3. list \in Seq(Conn) /\ Len(list) = Cardinality(new)
  BY <1>1, <1>2
<1> HIDE DEF SetToSeqs
<1> DEFINE M == Len(connections)
           N == Len(list)
<1>4. /\ DOMAIN connections = 1 .. M /\ M \in Nat /\ N \in Nat
      /\ connections' \in Seq(Conn) /\ Len(connections') = M + N
      /\ DOMAIN connections' = 1 .. M + N
      /\ \A i \in 1 .. M + N :
           connections'[i] = IF i <= M THEN connections[i] ELSE list[i - M]
  <2>1. DOMAIN connections = 1 .. M /\ M \in Nat /\ N \in Nat
    BY <1>3 DEF ConnType
  <2>2. connections' \in Seq(Conn) /\ Len(connections') = M + N
    BY <1>3, ConcatProperties DEF ConnType
  <2>3. \A i \in 1 .. M + N :
          connections'[i] = IF i <= M THEN connections[i] ELSE list[i - M]
    BY <1>3, ConcatProperties DEF ConnType
  <2> QED BY <2>1, <2>2, <2>3
<1>5. \A i \in 1 .. N : list[i] \in new /\ list[i] \notin Owned
  BY <1>2, <1>3
<1> HIDE DEF M, N
<1>6. \A i \in 1 .. M : connections[i] \in Owned
  BY <1>4 DEF Owned
<1>7. \A i \in 1 .. M + N :
        \/ i <= M /\ i \in 1 .. M /\ connections'[i] = connections[i]
        \/ i > M /\ i - M \in 1 .. N /\ connections'[i] = list[i - M]
  BY <1>4
<1>8. OnceInList'
  <2> SUFFICES ASSUME NEW i \in 1 .. M + N, NEW j \in 1 .. M + N,
                      connections'[i] = connections'[j]
               PROVE  i = j
    BY <1>4 DEF OnceInList
  <2>1. CASE i <= M /\ j <= M
    <3>1. /\ i \in DOMAIN connections /\ connections'[i] = connections[i]
          /\ j \in DOMAIN connections /\ connections'[j] = connections[j]
      BY <1>4, <1>7, <2>1
    <3> QED BY <3>1 DEF OnceInList
  <2>2. CASE i > M /\ j > M
    <3>1. i - M = j - M
      <4>1. i - M \in 1 .. N /\ j - M \in 1 .. N /\ list[i - M] = list[j - M]
        BY <1>4, <1>7, <2>2
      <4>2. \A a, b \in 1 .. N : list[a] = list[b] => a = b
        BY <1>2, <1>3 DEF N
      <4> QED BY <4>1, <4>2
    <3> QED BY <1>4, <3>1
  <2>3. CASE i <= M /\ j > M
    <3>1. connections'[i] \in Owned /\ connections'[j] \notin Owned
      BY <1>4, <1>5, <1>6, <1>7, <2>3
    <3> QED BY <3>1
  <2>4. CASE i > M /\ j <= M
    <3>1. connections'[j] \in Owned /\ connections'[i] \notin Owned
      BY <1>4, <1>5, <1>6, <1>7, <2>4
    <3> QED BY <3>1
  <2> QED BY <1>4, <2>1, <2>2, <2>3, <2>4
<1>9. Owned' \subseteq Owned \cup new
  BY <1>4, <1>5, <1>6, <1>7 DEF Owned
<1> QED BY <1>4, <1>8, <1>9

LEMMA PeersUnchanged ==
  ASSUME PeersInv, UNCHANGED <<connections, link, managed>> PROVE PeersInv'
BY DEF PeersInv, ConnType, OnceInList, OwnedConnected, ManagedInUse,
       LimitCountsEveryConnection, Owned

\* Whoever leaves the connection manager makes room, and no more join than have room.
LEMMA LimitKept ==
  ASSUME PeersInv, NEW new \in SUBSET Conn,
         managed' \subseteq managed \/ (managed' = managed \cup new
                                          /\ (Cardinality(new) <= Room \/ new = {}))
  PROVE  Cardinality(managed') <= MaxConnections
<1>1. IsFiniteSet(managed) /\ Cardinality(managed) \in Nat
  BY ConstantsAssumption, FS_Subset, FS_CardinalityType DEF PeersInv, ConnType
<1>2. IsFiniteSet(new) /\ Cardinality(new) \in Nat
  BY ConstantsAssumption, FS_Subset, FS_CardinalityType
<1>3. Cardinality(managed) <= MaxConnections /\ MaxConnections \in Nat
  BY ConstantsAssumption DEF PeersInv, LimitCountsEveryConnection
<1>4. CASE managed' \subseteq managed
  <2>1. Cardinality(managed') <= Cardinality(managed) /\ Cardinality(managed') \in Nat
    BY <1>1, <1>4, FS_Subset, FS_CardinalityType
  <2> QED BY <1>1, <1>3, <2>1
<1>5. CASE managed' = managed \cup new /\ Cardinality(new) <= Room
  <2>1. /\ Cardinality(managed') = Cardinality(managed) + Cardinality(new)
                                     - Cardinality(managed \cap new)
        /\ Cardinality(managed \cap new) \in Nat
    BY <1>1, <1>2, <1>5, FS_Union, FS_Intersection, FS_CardinalityType
  <2> QED BY <1>1, <1>2, <1>3, <1>5, <2>1 DEF Room
<1>6. CASE managed' = managed \cup new /\ new = {}
  BY <1>3, <1>6
<1> QED BY <1>4, <1>5, <1>6

\* removeClient takes the connection out of the list and of the connection manager.
LEMMA RemoveClientKeepsPeers ==
  ASSUME PeersInv, NEW c \in Conn, Aborts(c), RemoveClient(c) PROVE PeersInv'
<1>1. connections' \in Seq(Conn) /\ OnceInList' /\ Owned' = Owned \ {c}
  BY RemovedFromList DEF RemoveClient, PeersInv
<1>2. managed' = managed \ {c}
  BY DEF RemoveClient
<1>3. Cardinality(managed') <= MaxConnections
  BY <1>2, LimitKept
<1>4. link' = [link EXCEPT ![c] = "closed"]
  BY DEF RemoveClient, Linked, PeersInv, ConnType
<1> QED BY <1>1, <1>2, <1>3, <1>4
        DEF PeersInv, ConnType, OwnedConnected, ManagedInUse, Live, LinkState,
            LimitCountsEveryConnection

\* New connections have never been used, and are no more than there is room for.
LEMMA ConnectKeepsPeers ==
  ASSUME PeersInv, NEW st, ConnectToPeers(st) PROVE PeersInv'
<1>1. CASE UNCHANGED peerVars
  BY <1>1, PeersUnchanged DEF peerVars
<1>2. ASSUME NEW new \in SUBSET {c \in Conn : link[c] = "unused"},
             Cardinality(new) <= Room \/ new = {},
             NEW list \in SetToSeqs(new), connections' = connections \o list,
             managed' = managed \cup new,
             Linked(new, "connecting")
      PROVE  PeersInv'
  <2>1. new \subseteq Conn /\ new \cap Owned = {}
    BY DEF PeersInv, OwnedConnected
  <2>2. connections' \in Seq(Conn) /\ OnceInList' /\ Owned' \subseteq Owned \cup new
    BY <1>2, <2>1, ListAddedToList DEF PeersInv
  <2>3. Cardinality(managed') <= MaxConnections
    BY <1>2, <2>1, LimitKept
  <2>4. link' = [c \in Conn |-> IF c \in new THEN "connecting" ELSE link[c]]
    BY <1>2 DEF Linked
  <2> HIDE DEF SetToSeqs
  <2>5. ConnType'
    BY <1>2, <2>1, <2>2, <2>4 DEF PeersInv, ConnType, LinkState
  <2>6. OwnedConnected'
    <3> SUFFICES ASSUME NEW c \in Owned' PROVE link'[c] \in {"connecting", "open", "failed"}
      BY DEF OwnedConnected
    <3>1. c \in Conn /\ (c \in new \/ c \in Owned)
      BY <2>1, <2>2 DEF PeersInv, ConnType, Owned
    <3> QED BY <2>4, <3>1 DEF PeersInv, OwnedConnected
  <2>7. ManagedInUse' /\ LimitCountsEveryConnection'
    BY <1>2, <2>1, <2>3, <2>4
       DEF PeersInv, ConnType, ManagedInUse, Live, LimitCountsEveryConnection
  <2> QED BY <2>2, <2>5, <2>6, <2>7 DEF PeersInv
<1> QED BY <1>1, <1>2 DEF ConnectToPeers

\* The connections that are aborted leave the connection manager, and those that
\* leave it without being aborted were refused.
LEMMA AbortAllKeepsPeers ==
  ASSUME PeersInv, connections' = <<>>, Linked(AbortedAmong(Visited), "closed"),
         managed' \subseteq managed,
         \A c \in managed \ managed' : c \in Visited,
         managed' \cap AbortedAmong(Visited) = {}
  PROVE  PeersInv'
<1>1. Visited \subseteq Owned
  BY VisitedAreOwned DEF PeersInv, ConnType
<1>2. Cardinality(managed') <= MaxConnections
  <2>1. {} \in SUBSET Conn
    OBVIOUS
  <2> QED BY <2>1, LimitKept
<1>3. link' = [c \in Conn |-> IF c \in AbortedAmong(Visited) THEN "closed" ELSE link[c]]
  BY DEF Linked
<1>4. Owned' = {} /\ connections' \in Seq(Conn) /\ OnceInList'
  BY DEF Owned, OnceInList
<1>5. \A c \in Conn : link'[c] \in Live => c \in managed'
  <2> SUFFICES ASSUME NEW c \in Conn, link'[c] \in Live, c \notin managed'
               PROVE  FALSE
    OBVIOUS
  <2>1. link[c] \in Live /\ c \notin AbortedAmong(Visited)
    BY <1>3 DEF Live
  <2>2. c \in Visited /\ c \in Owned
    BY <1>1, <2>1 DEF PeersInv, LimitCountsEveryConnection
  <2>3. link[c] \in {"connecting", "open"}
    BY <2>1, <2>2 DEF PeersInv, OwnedConnected, Live
  <2> QED BY <2>1, <2>2, <2>3 DEF AbortedAmong, Aborts
<1> QED BY <1>2, <1>3, <1>4, <1>5
        DEF PeersInv, ConnType, OwnedConnected, ManagedInUse, LinkState,
            LimitCountsEveryConnection

LEMMA PeersStep == PeersInv /\ [Next]_vars => PeersInv'
<1> SUFFICES ASSUME PeersInv, [Next]_vars PROVE PeersInv'
  OBVIOUS
<1>1. ASSUME NEW c \in Conn, Close(c) PROVE PeersInv'
  BY <1>1, RemoveClientKeepsPeers DEF Close
<1>2. ASSUME NEW c \in Conn, DeferredDelete(c) \/ Established(c) \/ Refused(c)
      PROVE  PeersInv'
  <2>1. PICK to \in LinkState :
          /\ link' = [link EXCEPT ![c] = to]
          /\ \/ to = "deleted" /\ link[c] = "closed"
             \/ to \in {"open", "failed"} /\ link[c] = "connecting"
    BY <1>2 DEF DeferredDelete, Established, Refused, Linked, PeersInv, ConnType,
                LinkState
  <2>2. UNCHANGED <<connections, managed>>
    BY <1>2 DEF DeferredDelete, Established, Refused
  <2>3. Owned' = Owned
    BY <2>2 DEF Owned
  <2> QED BY <2>1, <2>2, <2>3
          DEF PeersInv, ConnType, OnceInList, OwnedConnected, ManagedInUse, Live,
              LimitCountsEveryConnection
<1>3. ASSUME NEW c \in Conn, IncomingConnection(c) PROVE PeersInv'
  <2>1. /\ link[c] = "unused" /\ link' = [link EXCEPT ![c] = "pending"]
        /\ managed' = managed \cup {c} /\ connections' = connections
    BY <1>3 DEF IncomingConnection, Linked, PeersInv, ConnType
  <2>2. Cardinality(managed') <= MaxConnections
    <3>1. Cardinality({c}) = 1 /\ {c} \in SUBSET Conn
      BY FS_Singleton
    <3>2. Room > 0 /\ Room \in Int
      <4>1. Cardinality(managed) \in Nat
        BY ConstantsAssumption, FS_Subset, FS_CardinalityType DEF PeersInv, ConnType
      <4> QED BY <1>3, <4>1, ConstantsAssumption DEF IncomingConnection, Room
    <3>3. Cardinality({c}) <= Room
      BY <3>1, <3>2
    <3> QED BY <2>1, <3>1, <3>3, LimitKept
  <2>3. Owned' = Owned
    BY <2>1 DEF Owned
  <2> QED BY <2>1, <2>2, <2>3
          DEF PeersInv, ConnType, OnceInList, OwnedConnected, ManagedInUse, Live,
              LinkState, LimitCountsEveryConnection
<1>4. ASSUME NEW c \in Conn, ServerRemoveClient(c) PROVE PeersInv'
  <2>1. /\ link[c] = "pending" /\ link' = [link EXCEPT ![c] = "closed"]
        /\ managed' = managed \ {c} /\ connections' = connections
    BY <1>4 DEF ServerRemoveClient, Linked, PeersInv, ConnType
  <2>2. Cardinality(managed') <= MaxConnections
    BY <2>1, LimitKept
  <2>3. Owned' = Owned
    BY <2>1 DEF Owned
  <2> QED BY <2>1, <2>2, <2>3
          DEF PeersInv, ConnType, OnceInList, OwnedConnected, ManagedInUse, Live,
              LinkState, LimitCountsEveryConnection
<1>5. ASSUME NEW c \in Conn, ProcessInfoHash(c) PROVE PeersInv'
  <2>1. /\ link[c] = "pending" /\ link' = [link EXCEPT ![c] = "open"]
        /\ managed' = managed /\ connections' = Append(connections, c)
    BY <1>5 DEF ProcessInfoHash, Linked, PeersInv, ConnType
  <2>2. c \notin Owned
    BY <2>1 DEF PeersInv, OwnedConnected
  <2>3. connections' \in Seq(Conn) /\ OnceInList' /\ Owned' = Owned \cup {c}
    BY <2>1, <2>2, AppendedToList DEF PeersInv
  <2> QED BY <2>1, <2>3
          DEF PeersInv, ConnType, OwnedConnected, ManagedInUse, Live, LinkState,
              LimitCountsEveryConnection
<1>6. ASSUME NEW c \in Conn, BlockReceived(c) PROVE PeersInv'
  BY <1>6, PeersUnchanged DEF BlockReceived, peerVars
<1>7. CASE PeerConnectorTimer \/ Resume
  BY <1>7, ConnectKeepsPeers DEF PeerConnectorTimer, Resume
<1>8. CASE AddToPeerList
  BY <1>8, ConnectKeepsPeers, PeersUnchanged DEF AddToPeerList, peerVars
<1>9. CASE PieceVerified \/ PieceFailed \/ FullVerificationDone \/ Start
  BY <1>9, PeersUnchanged
     DEF PieceVerified, PieceFailed, FullVerificationDone, Start, peerVars
<1>10. CASE UserPauses \/ HandleFileError
  <2>1. Pause
    BY <1>10 DEF UserPauses, HandleFileError
  <2>2. /\ connections' = <<>> /\ Linked(AbortedAmong(Visited), "closed")
        /\ managed' = managed \ AbortedAmong(Visited)
    BY <2>1 DEF Pause
  <2>3. AbortedAmong(Visited) \subseteq Visited
    BY DEF AbortedAmong
  <2> QED BY <2>2, <2>3, AbortAllKeepsPeers
<1>11. CASE Stop
  <2>1. /\ connections' = <<>> /\ Linked(AbortedAmong(Visited), "closed")
        /\ managed' = managed \ Visited
    BY <1>11 DEF Stop
  <2>2. AbortedAmong(Visited) \subseteq Visited
    BY DEF AbortedAmong
  <2> QED BY <2>1, <2>2, AbortAllKeepsPeers
<1>12. CASE UNCHANGED vars
  BY <1>12, PeersUnchanged DEF vars, peerVars
<1> QED BY <1>1, <1>2, <1>3, <1>4, <1>5, <1>6, <1>7, <1>8, <1>9, <1>10, <1>11, <1>12
        DEF Next

LEMMA PeersInit == Init => PeersInv
<1> SUFFICES ASSUME Init PROVE PeersInv
  OBVIOUS
<1>1. connections = <<>> /\ link = [c \in Conn |-> "unused"] /\ managed = {}
  BY DEF Init
<1>2. Cardinality(managed) <= MaxConnections
  BY <1>1, FS_EmptySet, ConstantsAssumption
<1> QED BY <1>1, <1>2
        DEF PeersInv, ConnType, OnceInList, OwnedConnected, ManagedInUse, Live,
            LinkState, LimitCountsEveryConnection, Owned

\* ConnectionManager's limit holds of all the connections there are: whoever is
\* connected, or tries to be, is counted, also those that an abort loop overlooks.
THEOREM EveryConnectionCounts == Spec => []LimitCountsEveryConnection
<1>1. PeersInv => LimitCountsEveryConnection
  BY DEF PeersInv
<1> QED BY <1>1, PeersInit, PeersStep, PTL DEF Spec

\* Neither the torrent nor the connection manager keeps a pointer to a connection
\* that removeClient() has handed to deleteLater().
THEOREM NoPointerDangles == Spec => []NoDanglingPointer
<1>1. PeersInv => NoDanglingPointer
  BY DEF PeersInv, OwnedConnected, ManagedInUse, NoDanglingPointer, Live
<1> QED BY <1>1, PeersInit, PeersStep, PTL DEF Spec
=============================================================================
