--------------------------- MODULE TrackerProofs ---------------------------
(***************************************************************************)
(* Proofs about Tracker, for any number of trackers and of tries: its      *)
(* types, the time-outs of the connecting client, what stopped() means,    *)
(* and that the client implements AnnounceProtocol.                        *)
(***************************************************************************)
EXTENDS Tracker, TLAPS

-----------------------------------------------------------------------------
(* Lemmas about the requests *)

\* The answers that may still come stay answers.
LEMMA SentType ==
  ASSUME answers \subseteq Answers,
         NEW kind \in {"Connect", "Announce"}, NEW later
  PROVE  Sent(kind, later) \subseteq Answers
BY DEF Sent, Answers

\* An announce clears one flag, and leaves m_lastTrackerRequest alone.
LEMMA FlagsAfterAnnounce ==
  ASSUME NEW f \in SUBSET Flags
  PROVE  /\ AfterAnnounce(f) \in SUBSET f
         /\ "lastTrackerRequest" \in AfterAnnounce(f) <=> "lastTrackerRequest" \in f
BY Zenon DEF AfterAnnounce, Flags

\* The event of a stopping client that has announced itself before is 1.
LEMMA EventOfStop ==
  ASSUME NEW f \in SUBSET Flags
  PROVE  /\ Event(f) \in {1, 2}
         /\ "lastTrackerRequest" \in f /\ "firstTrackerRequest" \notin f => Event(f) = 1
BY DEF Event, Flags

\* Asking for the list, by whatever event, starts the timer and ends in a request that fits
\* the state of the socket.
LEMMA FetchFacts ==
  ASSUME TypeOK, RequestsNeedSocket, NEW it \in Trackers, NEW later \in BOOLEAN,
         FetchPeerList(it, later)
  PROVE  /\ lastAction' \in {"ConnectToHost", "Connect"}
         /\ lastAction' = "Connect" <=> socket' = "connected"
         /\ socket' \in {"connecting", "connected"}
         /\ fetchTimer' = TRUE
         /\ host' \in Trackers
         /\ answers' \subseteq Answers
<1> USE DEF TypeOK
<1>1. CASE socket = "connected"
  <2>1. answers' = Sent("Connect", later)
    BY <1>1 DEF FetchPeerList, ConnectRequest
  <2>2. answers' \subseteq Answers
    BY <2>1, SentType
  <2> QED
    BY <1>1, <2>2 DEF FetchPeerList, ConnectRequest, socketVars
<1>2. CASE socket # "connected"
  BY <1>2 DEF FetchPeerList
<1> QED
  BY <1>1, <1>2

\* An announce, made once or twice, is remembered after stop().
LEMMA AnnounceFacts ==
  ASSUME TypeOK, NEW later \in BOOLEAN, NEW twice \in BOOLEAN,
         AnnounceRequest(later, twice)
  PROVE  /\ lastAction' = "Announce"
         /\ answers' \subseteq Answers
         /\ flags' \subseteq flags
         /\ Stopping' <=> Stopping
         /\ sinceStop' \subseteq {1, 2}
         /\ sinceStop \subseteq sinceStop'
         /\ Stopping /\ "firstTrackerRequest" \notin flags => 1 \in sinceStop'
<1>1. flags \in SUBSET Flags /\ answers \subseteq Answers /\ sinceStop \subseteq {1, 2}
  BY DEF TypeOK
<1>2. answers' \subseteq Answers
  BY <1>1, SentType DEF AnnounceRequest
<1> DEFINE f == AfterAnnounce(flags)
           events == {Event(flags)} \cup IF twice THEN {Event(f)} ELSE {}
<1>3. /\ f \in SUBSET flags
      /\ "lastTrackerRequest" \in f <=> "lastTrackerRequest" \in flags
      /\ Event(flags) \in {1, 2}
      /\ Stopping /\ "firstTrackerRequest" \notin flags => Event(flags) = 1
  BY <1>1, FlagsAfterAnnounce, EventOfStop DEF Stopping
<1>4. f \in SUBSET Flags
  BY <1>1, <1>3
<1>5. /\ AfterAnnounce(f) \in SUBSET f
      /\ "lastTrackerRequest" \in AfterAnnounce(f) <=> "lastTrackerRequest" \in f
      /\ Event(f) \in {1, 2}
  BY <1>4, FlagsAfterAnnounce, EventOfStop
<1>6. /\ flags' = IF twice THEN AfterAnnounce(f) ELSE f
      /\ sinceStop' = IF Stopping THEN sinceStop \cup events ELSE sinceStop
      /\ lastAction' = "Announce"
  BY DEF AnnounceRequest
<1>7. flags' \subseteq flags /\ (Stopping' <=> Stopping)
  BY <1>3, <1>5, <1>6 DEF Stopping
<1>8. events \subseteq {1, 2} /\ Event(flags) \in events
  BY <1>3, <1>5
<1> HIDE DEF f, events
<1> QED
  BY <1>1, <1>2, <1>3, <1>6, <1>7, <1>8

-----------------------------------------------------------------------------
(* Requests and their time-outs *)

RequestInv == TypeOK /\ ConnectingIsTimed /\ RequestsNeedSocket

\* Whatever asks for the list keeps the invariant.
LEMMA FetchKeeps ==
  ASSUME RequestInv, NEW it \in Trackers, NEW later \in BOOLEAN,
         FetchPeerList(it, later),
         started' \in {"no", "queued", "yes"}, announceIt' \in Trackers,
         tryNum' \in 0 .. MaxTryNum, intervalTimer' = intervalTimer,
         flags' \subseteq Flags, complete' \in BOOLEAN, seeding' \in BOOLEAN,
         out' = out, sinceStop' = sinceStop, early' \in BOOLEAN
  PROVE  RequestInv'
<1>1. /\ lastAction' \in {"ConnectToHost", "Connect"}
      /\ lastAction' = "Connect" <=> socket' = "connected"
      /\ socket' \in {"connecting", "connected"}
      /\ fetchTimer' = TRUE
      /\ host' \in Trackers
      /\ answers' \subseteq Answers
  BY FetchFacts DEF RequestInv
<1> QED
  BY <1>1 DEF RequestInv, TypeOK, ConnectingIsTimed, RequestsNeedSocket

\* An announce over a connected socket keeps the invariant.
LEMMA AnnouncedKeeps ==
  ASSUME RequestInv, NEW later \in BOOLEAN, NEW twice \in BOOLEAN,
         AnnounceRequest(later, twice),
         socket = "connected", socket' = socket, host' = host, started' = started,
         announceIt' = announceIt, complete' = complete, seeding' = seeding,
         early' = early,
         tryNum' \in 0 .. MaxTryNum, fetchTimer' \in BOOLEAN,
         intervalTimer' \in BOOLEAN, out' \in {"none", "list", "ended"}
  PROVE  RequestInv'
<1>1. /\ lastAction' = "Announce" /\ answers' \subseteq Answers
      /\ flags' \subseteq flags /\ sinceStop' \subseteq {1, 2}
  BY AnnounceFacts, Zenon DEF RequestInv
<1>2. flags' \subseteq Flags
  BY <1>1 DEF RequestInv, TypeOK
<1>3. TypeOK'
  BY <1>1, <1>2, Zenon DEF RequestInv, TypeOK
<1>4. ConnectingIsTimed' /\ RequestsNeedSocket'
  BY <1>1 DEF ConnectingIsTimed, RequestsNeedSocket
<1> QED
  BY <1>3, <1>4, Zenon DEF RequestInv

\* An answer finds the socket connected, and leaves the client with the timer running or
\* with an announce that was answered.
LEMMA DeliverKeeps ==
  ASSUME RequestInv, NEW a \in Answers, Deliver(a)
  PROVE  RequestInv'
<1> USE DEF RequestInv
<1>0. {0, 1, 2} \subseteq 0 .. MaxTryNum
  BY ConstantsAssumption
<1>1. /\ started' = started /\ socket' = socket /\ host' = host
      /\ announceIt' = announceIt /\ complete' = complete /\ seeding' = seeding
      /\ early' = early
      /\ socket = "connected"
  BY DEF Deliver, socketVars, torrentVars
<1>2. CASE ConnectResponse(a)
  <2>1. /\ tryNum' \in 0 .. MaxTryNum /\ lastAction = "Connect"
        /\ intervalTimer' = intervalTimer /\ out' = out
    BY <1>0, <1>2 DEF ConnectResponse
  <2>2. ASSUME NEW later \in BOOLEAN, fetchTimer' = TRUE, AnnounceRequest(later, FALSE)
        PROVE  RequestInv'
    <3>1. /\ fetchTimer' \in BOOLEAN /\ intervalTimer' \in BOOLEAN
          /\ out' \in {"none", "list", "ended"}
      BY <2>1, <2>2, Zenon DEF TypeOK
    <3> QED
      BY <1>1, <2>1, <2>2, <3>1, AnnouncedKeeps, Zenon
  <2>3. CASE UNCHANGED <<lastAction, answers, flags, sinceStop, fetchTimer>>
    <3>1. /\ lastAction' = lastAction /\ answers' = answers /\ flags' = flags
          /\ sinceStop' = sinceStop /\ fetchTimer' = fetchTimer
      BY <2>3
    <3>2. TypeOK'
      BY <1>1, <2>1, <3>1, Zenon DEF TypeOK
    <3>3. ConnectingIsTimed' /\ RequestsNeedSocket'
      BY <1>1, <3>1, Zenon DEF ConnectingIsTimed, RequestsNeedSocket
    <3> QED
      BY <3>2, <3>3, Zenon
  <2> QED
    BY <1>2, <2>2, <2>3 DEF ConnectResponse
<1>3. CASE StopResponse
  <2>1. /\ tryNum' \in 0 .. MaxTryNum /\ out' = "ended" /\ lastAction' = lastAction
        /\ answers' = answers /\ flags' = flags /\ sinceStop' = sinceStop
        /\ fetchTimer' = fetchTimer /\ intervalTimer' = intervalTimer
    BY <1>0, <1>3 DEF StopResponse, timerVars
  <2> QED
    BY <1>1, <2>1, Zenon DEF TypeOK, ConnectingIsTimed, RequestsNeedSocket
<1>4. CASE AnnounceResponse(a)
  <2>1. /\ lastAction = "Announce" /\ intervalTimer' \in BOOLEAN
        /\ fetchTimer' = FALSE /\ out' = "list"
    BY <1>4 DEF AnnounceResponse, TypeOK
  <2>2. ASSUME NEW later \in BOOLEAN, NEW twice \in BOOLEAN,
               AnnounceRequest(later, twice), tryNum' \in {1, 2}
        PROVE  RequestInv'
    <3>1. tryNum' \in 0 .. MaxTryNum
      BY <1>0, <2>2
    <3> QED
      BY <1>1, <2>1, <2>2, <3>1, AnnouncedKeeps, Zenon DEF TypeOK
  <2>3. CASE tryNum' = 0 /\ UNCHANGED <<lastAction, answers, flags, sinceStop>>
    <3>1. /\ tryNum' \in 0 .. MaxTryNum /\ lastAction' = lastAction
          /\ answers' = answers /\ flags' = flags /\ sinceStop' = sinceStop
      BY <1>0, <2>3
    <3> QED
      BY <1>1, <2>1, <3>1, Zenon DEF TypeOK, ConnectingIsTimed, RequestsNeedSocket
  <2>4. PICK later \in BOOLEAN :
          LET wrongAction == a.kind # "Announce"
              wrongId == a.id # "last" \/ (wrongAction /\ later)
          IN IF wrongAction \/ wrongId
               THEN /\ AnnounceRequest(later, wrongAction /\ wrongId)
                    /\ tryNum' = IF wrongAction /\ wrongId THEN 2 ELSE 1
               ELSE /\ tryNum' = 0
                    /\ UNCHANGED <<lastAction, answers, flags, sinceStop>>
    BY <1>4, Zenon DEF AnnounceResponse
  <2> DEFINE wrongAction == a.kind # "Announce"
             wrongId == a.id # "last" \/ (wrongAction /\ later)
  <2>5. CASE wrongAction \/ wrongId
    <3>1. (wrongAction /\ wrongId) \in BOOLEAN
      OBVIOUS
    <3>2. AnnounceRequest(later, wrongAction /\ wrongId)
      BY <2>4, <2>5, Zenon
    <3>3. tryNum' = IF wrongAction /\ wrongId THEN 2 ELSE 1
      BY <2>4, <2>5, Zenon
    <3>4. tryNum' \in {1, 2}
      BY <3>3, Zenon
    <3> QED
      BY <2>2, <3>1, <3>2, <3>4, Zenon
  <2>6. CASE ~(wrongAction \/ wrongId)
    BY <2>3, <2>4, <2>6, Zenon
  <2> QED
    BY <2>5, <2>6
<1> QED
  BY <1>2, <1>3, <1>4 DEF Deliver

\* The step of a retry, by what was sent last.
LEMMA RetryKeeps ==
  ASSUME RequestInv, Retry
  PROVE  RequestInv'
<1> USE DEF RequestInv
<1>1. PICK later \in BOOLEAN : SendLastActionRequest(later)
  BY DEF Retry
<1>2. /\ fetchTimer' = TRUE /\ started' = started /\ announceIt' = announceIt
      /\ intervalTimer' = intervalTimer /\ complete' = complete
      /\ seeding' = seeding /\ out' = out /\ early' = early
  BY DEF Retry, torrentVars
<1>3. tryNum' \in 0 .. MaxTryNum
  BY ConstantsAssumption DEF Retry, TypeOK
<1>4. CASE lastAction = "ConnectToHost"
  <2>1. /\ socket' = "connecting" /\ host' = announceIt /\ answers' = {}
        /\ lastAction' = lastAction /\ flags' = flags /\ sinceStop' = sinceStop
    BY <1>1, <1>4 DEF SendLastActionRequest
  <2>2. answers' \subseteq Answers
    BY <2>1 DEF TypeOK
  <2>3. TypeOK'
    BY <1>2, <1>3, <2>1, <2>2, Zenon DEF TypeOK
  <2> QED
    BY <1>2, <1>4, <2>1, <2>3, Zenon DEF ConnectingIsTimed, RequestsNeedSocket
<1>5. CASE lastAction = "Connect"
  <2>1. /\ ConnectRequest(later) /\ socket' = socket /\ host' = host
        /\ flags' = flags /\ sinceStop' = sinceStop
    BY <1>1, <1>5 DEF SendLastActionRequest, socketVars
  <2>2. answers' \subseteq Answers
    BY <2>1, SentType DEF ConnectRequest, TypeOK
  <2>3. lastAction' = lastAction
    BY <1>5, <2>1 DEF ConnectRequest
  <2>4. TypeOK'
    BY <1>2, <1>3, <2>1, <2>2, <2>3, Zenon DEF TypeOK
  <2> QED
    BY <1>2, <1>5, <2>1, <2>3, <2>4, Zenon DEF ConnectingIsTimed, RequestsNeedSocket
<1>6. CASE lastAction = "Announce"
  <2>1. /\ AnnounceRequest(later, FALSE) /\ socket' = socket /\ host' = host
    BY <1>1, <1>6 DEF SendLastActionRequest, socketVars
  <2>2. socket = "connected"
    BY <1>6 DEF RequestsNeedSocket
  <2>3. /\ fetchTimer' \in BOOLEAN /\ intervalTimer' \in BOOLEAN
        /\ out' \in {"none", "list", "ended"}
    BY <1>2, Zenon DEF TypeOK
  <2> QED
    BY <1>2, <1>3, <2>1, <2>2, <2>3, AnnouncedKeeps, Zenon
<1> QED
  BY <1>1, <1>4, <1>5, <1>6 DEF SendLastActionRequest

\* The list of trackers is walked round.
LEMMA FollowingType == ASSUME NEW it \in Trackers PROVE Following(it) \in Trackers
BY ConstantsAssumption DEF Following, Trackers

LEMMA RequestStep == RequestInv /\ [Next]_vars => RequestInv'
<1> SUFFICES ASSUME RequestInv, [Next]_vars PROVE RequestInv'
  OBVIOUS
<1> USE DEF RequestInv
<1>1. CASE Start
  BY <1>1 DEF Start, TypeOK, ConnectingIsTimed, RequestsNeedSocket, socketVars,
              timerVars, history
<1>2. CASE FirstFetch
  BY <1>2, FetchKeeps DEF FirstFetch, TypeOK, torrentVars
<1>3. CASE StartSeeding
  BY <1>3, FetchKeeps DEF StartSeeding, TypeOK, Flags
<1>4. CASE ChangeState
  BY <1>4 DEF ChangeState, TypeOK, ConnectingIsTimed, RequestsNeedSocket, socketVars,
              timerVars, history
<1>5. CASE Stop
  <2>1. PICK later \in BOOLEAN : FetchPeerList(announceIt, later)
    BY <1>5 DEF Stop
  <2>2. flags' \subseteq Flags
    BY <1>5 DEF Stop, TypeOK, Flags
  <2>3. early' \in BOOLEAN /\ seeding' \in BOOLEAN
    <3>1. early' = ("firstTrackerRequest" \in flags) /\ seeding' = FALSE
      BY <1>5 DEF Stop
    <3>2. ("firstTrackerRequest" \in flags) \in BOOLEAN
      OBVIOUS
    <3> QED
      BY <3>1, <3>2
  <2>4. /\ complete' = complete /\ started' = started /\ announceIt' = announceIt
        /\ tryNum' = tryNum /\ intervalTimer' = intervalTimer /\ out' = out
        /\ sinceStop' = sinceStop
    BY <1>5 DEF Stop
  <2> QED
    BY <2>1, <2>2, <2>3, <2>4, FetchKeeps, Zenon DEF TypeOK
<1>6. CASE HostFound
  <2>1. PICK later \in BOOLEAN : ConnectRequest(later)
    BY <1>6 DEF HostFound
  <2>2. answers' \subseteq Answers
    BY <2>1, SentType DEF ConnectRequest, TypeOK
  <2> QED
    BY <1>6, <2>1, <2>2
    DEF HostFound, ConnectRequest, TypeOK, ConnectingIsTimed, RequestsNeedSocket,
        torrentVars
<1>7. CASE HostNotFound
  BY <1>7 DEF HostNotFound, TypeOK, ConnectingIsTimed, RequestsNeedSocket, timerVars,
              torrentVars, history
<1>8. ASSUME NEW a \in Answers, Lose(a) PROVE RequestInv'
  BY <1>8 DEF Lose, TypeOK, ConnectingIsTimed, RequestsNeedSocket, socketVars,
              timerVars, torrentVars, history
<1>9. ASSUME NEW a \in Answers, Deliver(a) PROVE RequestInv'
  BY <1>9, DeliverKeeps
<1>10. CASE IntervalTimeout
  BY <1>10, FetchKeeps DEF IntervalTimeout, TypeOK, torrentVars
<1>11. CASE Retry
  BY <1>11, RetryKeeps
<1>12. CASE NextTracker
  <2>1. PICK later \in BOOLEAN : FetchPeerList(announceIt', later)
    BY <1>12 DEF NextTracker
  <2>2. announceIt' \in Trackers
    BY <1>12, FollowingType DEF NextTracker, TypeOK
  <2>3. tryNum' \in 0 .. MaxTryNum
    BY <1>12, ConstantsAssumption DEF NextTracker, TypeOK
  <2> QED
    BY <1>12, <2>1, <2>2, <2>3, FetchKeeps
    DEF NextTracker, TypeOK, torrentVars
<1>13. CASE UNCHANGED vars
  BY <1>13 DEF vars, TypeOK, ConnectingIsTimed, RequestsNeedSocket, socketVars,
               timerVars, torrentVars, history
<1> QED
  BY <1>1, <1>2, <1>3, <1>4, <1>5, <1>6, <1>7, <1>8, <1>9, <1>10, <1>11, <1>12, <1>13
  DEF Next

LEMMA RequestInit == Init => RequestInv
<1>1. /\ 0 \in Trackers /\ 0 \in 0 .. MaxTryNum
      /\ {"firstTrackerRequest", "firstSeeding"} \subseteq Flags
  BY ConstantsAssumption DEF Trackers, Flags
<1>2. Init => /\ answers \subseteq Answers /\ sinceStop \subseteq {1, 2}
  BY DEF Init
<1>3. Init => TypeOK
  BY <1>1, <1>2, Zenon DEF Init, TypeOK
<1> QED
  BY <1>3 DEF Init, RequestInv, ConnectingIsTimed, RequestsNeedSocket

\* Every variable has its type, for any list of trackers.
THEOREM TypeCorrect == Spec => []TypeOK
<1>1. RequestInv => TypeOK
  BY DEF RequestInv
<1> QED
  BY RequestInit, RequestStep, <1>1, PTL DEF Spec

\* As long as no connection is granted the fetch timer runs: no lost datagram and no answer
\* to an older request stops the retries.
THEOREM ConnectingAlwaysTimed == Spec => []ConnectingIsTimed
<1>1. RequestInv => ConnectingIsTimed
  BY DEF RequestInv
<1> QED
  BY RequestInit, RequestStep, <1>1, PTL DEF Spec

-----------------------------------------------------------------------------
(* What stopped() means *)

\* After stop() nothing sets m_firstTrackerRequest again, so that every announce says 1; the
\* answer to one is the only thing that ends the client.
StopInv ==
  /\ RequestInv
  /\ Stopping /\ ~early => "firstTrackerRequest" \notin flags
  /\ Stopping /\ ~early /\ lastAction = "Announce" => 1 \in sinceStop
  /\ out = "ended" => Stopping /\ (1 \in sinceStop \/ early)

\* Asking for the list with the flags and the history as they were.
LEMMA FetchIsQuiet ==
  ASSUME StopInv, RequestInv', NEW it \in Trackers, NEW later \in BOOLEAN,
         FetchPeerList(it, later), flags' = flags, early' = early, out' = out,
         sinceStop' = sinceStop
  PROVE  StopInv'
<1>1. lastAction' \in {"ConnectToHost", "Connect"}
  BY FetchFacts, Zenon DEF StopInv, RequestInv
<1> QED
  BY <1>1 DEF StopInv, Stopping

\* An answer to an announce makes the client announce itself again, or changes nothing sent.
LEMMA AnnouncesOrNot ==
  ASSUME NEW a \in Answers, AnnounceResponse(a)
  PROVE  \/ \E later, twice \in BOOLEAN : AnnounceRequest(later, twice)
         \/ UNCHANGED <<lastAction, answers, flags, sinceStop>>
<1>1. PICK later \in BOOLEAN :
        LET wrongAction == a.kind # "Announce"
            wrongId == a.id # "last" \/ (wrongAction /\ later)
        IN IF wrongAction \/ wrongId
             THEN AnnounceRequest(later, wrongAction /\ wrongId)
             ELSE UNCHANGED <<lastAction, answers, flags, sinceStop>>
  BY Zenon DEF AnnounceResponse
<1> DEFINE wrongAction == a.kind # "Announce"
           wrongId == a.id # "last" \/ (wrongAction /\ later)
<1>2. (wrongAction /\ wrongId) \in BOOLEAN
  OBVIOUS
<1> QED
  BY <1>1, <1>2, Zenon

\* An announce, whatever it says, keeps the invariant.
LEMMA AnnounceIsTold ==
  ASSUME StopInv, RequestInv', NEW later \in BOOLEAN, NEW twice \in BOOLEAN,
         AnnounceRequest(later, twice), early' = early,
         out' = out \/ (~Stopping /\ out' = "list")
  PROVE  StopInv'
<1>1. /\ flags' \subseteq flags /\ (Stopping' <=> Stopping)
      /\ sinceStop \subseteq sinceStop'
      /\ (Stopping /\ "firstTrackerRequest" \notin flags => 1 \in sinceStop')
  BY AnnounceFacts, Zenon DEF StopInv, RequestInv
<1> QED
  BY <1>1 DEF StopInv

LEMMA StopStep == StopInv /\ [Next]_vars => StopInv'
<1> SUFFICES ASSUME StopInv, [Next]_vars PROVE StopInv'
  OBVIOUS
<1>0. RequestInv /\ RequestInv' /\ announceIt \in Trackers
  BY RequestStep DEF StopInv, RequestInv, TypeOK
<1>1. CASE Start
  BY <1>0, <1>1 DEF Start, StopInv, Stopping, history
<1>2. CASE FirstFetch
  BY <1>0, <1>2, FetchIsQuiet DEF FirstFetch
<1>3. CASE StartSeeding
  <2>1. PICK later \in BOOLEAN : FetchPeerList(announceIt, later)
    BY <1>3 DEF StartSeeding
  <2>2. lastAction' \in {"ConnectToHost", "Connect"}
    BY <1>0, <2>1, FetchFacts, Zenon DEF RequestInv
  <2>3. flags' = flags \cup {"firstSeeding"} /\ early' = early /\ out' = out
        /\ sinceStop' = sinceStop
    BY <1>3 DEF StartSeeding
  <2> QED
    BY <1>0, <2>2, <2>3 DEF StopInv, Stopping
<1>4. CASE ChangeState
  BY <1>0, <1>4 DEF ChangeState, StopInv, Stopping, history
<1>5. CASE Stop
  <2>1. PICK later \in BOOLEAN : FetchPeerList(announceIt, later)
    BY <1>5 DEF Stop
  <2>2. lastAction' \in {"ConnectToHost", "Connect"}
    BY <1>0, <2>1, FetchFacts, Zenon DEF RequestInv
  <2>3. /\ flags' = flags \cup {"lastTrackerRequest"} /\ out' = out /\ ~Stopping
        /\ (early' <=> "firstTrackerRequest" \in flags)
    BY <1>5 DEF Stop
  <2> QED
    BY <1>0, <2>2, <2>3 DEF StopInv, Stopping
<1>6. CASE HostFound
  BY <1>0, <1>6 DEF HostFound, ConnectRequest, StopInv, Stopping
<1>7. CASE HostNotFound
  BY <1>0, <1>7 DEF HostNotFound, StopInv, Stopping, history
<1>8. ASSUME NEW a \in Answers, Lose(a) PROVE StopInv'
  BY <1>0, <1>8 DEF Lose, StopInv, Stopping, history
<1>9. ASSUME NEW a \in Answers, Deliver(a) PROVE StopInv'
  <2>1. early' = early
    BY <1>9 DEF Deliver
  <2>2. CASE ConnectResponse(a)
    <3>1. out' = out
      BY <2>2 DEF ConnectResponse
    <3>2. ASSUME NEW later \in BOOLEAN, AnnounceRequest(later, FALSE) PROVE StopInv'
      BY <1>0, <2>1, <3>1, <3>2, AnnounceIsTold, Zenon
    <3>3. CASE UNCHANGED <<lastAction, answers, flags, sinceStop, fetchTimer>>
      BY <1>0, <2>1, <3>1, <3>3 DEF StopInv, Stopping
    <3> QED
      BY <2>2, <3>2, <3>3 DEF ConnectResponse
  <2>3. CASE StopResponse
    BY <1>0, <2>1, <2>3 DEF StopResponse, StopInv, Stopping
  <2>4. CASE AnnounceResponse(a)
    <3>1. out' = "list" /\ ~Stopping
      BY <2>4 DEF AnnounceResponse
    <3>2. ASSUME NEW later \in BOOLEAN, NEW twice \in BOOLEAN,
                 AnnounceRequest(later, twice)
          PROVE  StopInv'
      BY <1>0, <2>1, <3>1, <3>2, AnnounceIsTold, Zenon
    <3>3. CASE UNCHANGED <<lastAction, answers, flags, sinceStop>>
      BY <1>0, <2>1, <3>1, <3>3 DEF StopInv, Stopping
    <3> QED
      BY <2>4, <3>2, <3>3, AnnouncesOrNot, Zenon
  <2> QED
    BY <1>9, <2>2, <2>3, <2>4 DEF Deliver
<1>10. CASE IntervalTimeout
  BY <1>0, <1>10, FetchIsQuiet DEF IntervalTimeout
<1>11. CASE Retry
  <2>1. PICK later \in BOOLEAN : SendLastActionRequest(later)
    BY <1>11 DEF Retry
  <2>2. out' = out /\ early' = early
    BY <1>11 DEF Retry
  <2>3. CASE lastAction = "Announce" /\ AnnounceRequest(later, FALSE)
    BY <1>0, <2>2, <2>3, AnnounceIsTold, Zenon
  <2>4. CASE lastAction # "Announce" /\ lastAction' = lastAction
             /\ flags' = flags /\ sinceStop' = sinceStop
    BY <1>0, <2>2, <2>4 DEF StopInv, Stopping
  <2> QED
    BY <2>1, <2>3, <2>4 DEF SendLastActionRequest, ConnectRequest
<1>12. CASE NextTracker
  <2>1. PICK later \in BOOLEAN : FetchPeerList(announceIt', later)
    BY <1>12 DEF NextTracker
  <2>2. announceIt' \in Trackers
    BY <1>0 DEF RequestInv, TypeOK
  <2> QED
    BY <1>0, <1>12, <2>1, <2>2, FetchIsQuiet DEF NextTracker
<1>13. CASE UNCHANGED vars
  BY <1>0, <1>13 DEF vars, StopInv, Stopping, history
<1> QED
  BY <1>1, <1>2, <1>3, <1>4, <1>5, <1>6, <1>7, <1>8, <1>9, <1>10, <1>11, <1>12, <1>13
  DEF Next

\* A client that reports stopped() has told a tracker, unless stop() came before its first
\* announce: for any number of trackers, retries and lost or late answers.
THEOREM StopAnnounced == Spec => []StopIsAnnounced
<1>1. Init => StopInv
  BY RequestInit DEF Init, StopInv, Stopping
<1>2. StopInv => StopIsAnnounced
  BY DEF StopInv, StopIsAnnounced
<1> QED
  BY <1>1, <1>2, StopStep, PTL DEF Spec

-----------------------------------------------------------------------------
(* The refinement *)

\* Asking for the list is a Fetch, also where it changes no other flag than those of Started
\* and Completed.
LEMMA FetchRefines ==
  ASSUME RequestInv, NEW it \in Trackers, NEW later \in BOOLEAN,
         FetchPeerList(it, later), Stopping' <=> Stopping, out' = out
  PROVE  Promise!Fetch
<1>1. lastAction' \in {"ConnectToHost", "Connect"}
  BY FetchFacts, Zenon DEF RequestInv
<1> QED
  BY <1>1 DEF Promise!Fetch, Phase, Stopping

\* Every step is a step of the protocol or leaves its state alone.
LEMMA PromiseStep ==
  RequestInv /\ [Next]_vars => [Promise!Next]_(Promise!vars)
<1> SUFFICES ASSUME RequestInv, [Next]_vars
             PROVE  Promise!Next \/ UNCHANGED <<Phase, Stopping, out>>
  BY DEF Promise!vars
<1>0. announceIt \in Trackers
  BY DEF RequestInv, TypeOK
<1>1. CASE Start \/ ChangeState \/ HostNotFound \/ (\E a \in Answers : Lose(a))
           \/ UNCHANGED vars
  BY <1>1 DEF Start, ChangeState, HostNotFound, Lose, vars, history, Phase, Stopping
<1>2. CASE FirstFetch
  BY <1>0, <1>2, FetchRefines DEF FirstFetch, Stopping, Promise!Next
<1>3. CASE StartSeeding
  <2>1. PICK later \in BOOLEAN : FetchPeerList(announceIt, later)
    BY <1>3 DEF StartSeeding
  <2>2. (Stopping' <=> Stopping) /\ out' = out
    BY <1>3 DEF StartSeeding, Stopping
  <2> QED
    BY <1>0, <2>1, <2>2, FetchRefines DEF Promise!Next
<1>4. CASE Stop
  <2>1. PICK later \in BOOLEAN : FetchPeerList(announceIt, later)
    BY <1>4 DEF Stop
  <2>2. lastAction' \in {"ConnectToHost", "Connect"}
    BY <1>0, <2>1, FetchFacts, Zenon DEF RequestInv
  <2>3. Stopping' /\ out' = out
    BY <1>4 DEF Stop, Stopping
  <2> QED
    BY <2>2, <2>3 DEF Phase, Promise!Close, Promise!Next
<1>5. CASE HostFound
  BY <1>5 DEF HostFound, ConnectRequest, Phase, Stopping, RequestInv,
              RequestsNeedSocket, TypeOK, Promise!Fetch, Promise!Next
<1>6. ASSUME NEW a \in Answers, Deliver(a)
      PROVE  Promise!Next \/ UNCHANGED <<Phase, Stopping, out>>
  <2>1. CASE ConnectResponse(a)
    <3>1. out' = out /\ lastAction = "Connect"
      BY <2>1 DEF ConnectResponse
    <3>2. ASSUME NEW later \in BOOLEAN, AnnounceRequest(later, FALSE)
          PROVE  Promise!Grant
      <4>1. lastAction' = "Announce" /\ (Stopping' <=> Stopping)
        BY <3>2, AnnounceFacts, Zenon DEF RequestInv
      <4> QED
        BY <3>1, <4>1 DEF Promise!Grant, Phase
    <3>3. CASE UNCHANGED <<lastAction, answers, flags, sinceStop, fetchTimer>>
      BY <3>1, <3>3 DEF Phase, Stopping
    <3> QED
      BY <2>1, <3>2, <3>3 DEF ConnectResponse, Promise!Next
  <2>2. CASE StopResponse
    BY <2>2 DEF StopResponse, Promise!End, Promise!Next, Phase, Stopping
  <2>3. CASE AnnounceResponse(a)
    <3>1. out' = "list" /\ ~Stopping /\ lastAction = "Announce"
      BY <2>3 DEF AnnounceResponse
    <3>2. lastAction' = "Announce" /\ (Stopping' <=> Stopping)
      <4>1. ASSUME NEW later \in BOOLEAN, NEW twice \in BOOLEAN,
                   AnnounceRequest(later, twice)
            PROVE  lastAction' = "Announce" /\ (Stopping' <=> Stopping)
        BY <4>1, AnnounceFacts, Zenon DEF RequestInv
      <4>2. CASE UNCHANGED <<lastAction, answers, flags, sinceStop>>
        BY <3>1, <4>2 DEF Stopping
      <4> QED
        BY <2>3, <4>1, <4>2, AnnouncesOrNot, Zenon
    <3> QED
      BY <3>1, <3>2 DEF Promise!Answer, Promise!Next, Phase
  <2> QED
    BY <1>6, <2>1, <2>2, <2>3 DEF Deliver
<1>7. CASE IntervalTimeout
  BY <1>0, <1>7, FetchRefines DEF IntervalTimeout, Stopping, Promise!Next
<1>8. CASE Retry
  <2>1. PICK later \in BOOLEAN : SendLastActionRequest(later)
    BY <1>8 DEF Retry
  <2>2. out' = out
    BY <1>8 DEF Retry
  <2>3. CASE lastAction = "Announce" /\ AnnounceRequest(later, FALSE)
    <3>1. lastAction' = "Announce" /\ (Stopping' <=> Stopping)
      BY <2>3, AnnounceFacts, Zenon DEF RequestInv
    <3> QED
      BY <2>2, <2>3, <3>1 DEF Phase
  <2>4. CASE lastAction' = lastAction /\ flags' = flags
    BY <2>2, <2>4 DEF Phase, Stopping
  <2> QED
    BY <2>1, <2>3, <2>4 DEF SendLastActionRequest, ConnectRequest
<1>9. CASE NextTracker
  <2>1. PICK later \in BOOLEAN : FetchPeerList(announceIt', later)
    BY <1>9 DEF NextTracker
  <2>2. announceIt' \in Trackers
    BY <1>0, <1>9, FollowingType DEF NextTracker
  <2>3. (Stopping' <=> Stopping) /\ out' = out
    BY <1>9 DEF NextTracker, Stopping
  <2> QED
    BY <2>1, <2>2, <2>3, FetchRefines DEF Promise!Next
<1> QED
  BY <1>1, <1>2, <1>3, <1>4, <1>5, <1>6, <1>7, <1>8, <1>9 DEF Next

\* The client implements AnnounceProtocol: each list and each stopped() answers an announce
\* that a connection granted since the last fetch, and no list comes after stop().
THEOREM Refinement == Spec => KeepsPromise
<1>1. Init => Promise!Init
  BY DEF Init, Promise!Init, Phase, Stopping
<1> QED
  BY <1>1, RequestInit, RequestStep, PromiseStep, PTL DEF Spec, KeepsPromise, Promise!Spec

=============================================================================
