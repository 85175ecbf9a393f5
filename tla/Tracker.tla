------------------------------ MODULE Tracker ------------------------------
(***************************************************************************)
(* TrackerClient: the UDP tracker protocol of one torrent (connect, then   *)
(* announce), its time-outs and retries, the list of trackers and stop().  *)
(*                                                                         *)
(* Every action is one event of the main thread.  Datagrams to and from    *)
(* the tracker get lost, and answers come late, twice or out of order.     *)
(* A transaction id is the time in seconds: requests of the same second    *)
(* share it.  It is modelled by what it tells apart: whether the id of an  *)
(* answer is that of the last request.  All requests of one event are      *)
(* taken to be of the same second.                                         *)
(***************************************************************************)
EXTENDS Integers

CONSTANTS
  TrackerCount,   \* length of MetaInfo::announceList()
  MaxTryNum       \* m_maxTryNum (3)

ASSUME ConstantsAssumption == /\ TrackerCount \in Nat \ {0}
                              /\ MaxTryNum \in Nat /\ MaxTryNum > 2

VARIABLES
  started,        \* "no", "queued" (the call of fetchPeerList) or "yes"
  lastAction,     \* m_lastAction
  socket,         \* state of m_udpSocket
  host,           \* the tracker that m_udpSocket is, or is being, connected to
  announceIt,     \* m_currentAnnounceIt
  tryNum,         \* m_requestTryNum
  fetchTimer,     \* does m_fetchTimer run?
  intervalTimer,  \* does m_requestIntervalTimer run?
  flags,          \* which of m_firstTrackerRequest ... m_firstSeeding are set
  complete,       \* has the torrent all its pieces?
  seeding,        \* is it in the state Seeding?
  answers,        \* datagrams that the tracker has sent, or may still send
  out,            \* history: the last of peerListUpdated() and stopped()
  sinceStop,      \* history: the announced events since stop()
  early           \* history: was stop() called before the first announce?

timerVars == <<fetchTimer, intervalTimer>>
socketVars == <<socket, host>>
torrentVars == <<complete, seeding>>
history == <<out, sinceStop, early>>
vars == <<started, lastAction, socketVars, announceIt, tryNum, timerVars, flags,
          torrentVars, answers, history>>

Trackers == 0 .. TrackerCount - 1
Answers == [kind : {"Connect", "Announce"}, id : {"last", "earlier"}]
Flags == {"firstTrackerRequest", "lastTrackerRequest", "firstSeeding"}
Stopping == "lastTrackerRequest" \in flags

Init ==
  /\ started = "no"
  /\ lastAction = "Error"
  /\ socket = "unconnected"
  /\ host = 0
  /\ announceIt = 0
  /\ tryNum = 0
  /\ fetchTimer = FALSE
  /\ intervalTimer = FALSE
  /\ flags = {"firstTrackerRequest", "firstSeeding"}
  /\ complete \in BOOLEAN
  /\ seeding = FALSE
  /\ answers = {}
  /\ out = "none"
  /\ sinceStop = {}
  /\ early = FALSE

-----------------------------------------------------------------------------
(* Requests.  later: has the second changed since the last request?         *)

\* A request of the kind is sent, with the time as its id, and may be answered.
Sent(kind, later) ==
  (IF later THEN {[kind |-> a.kind, id |-> "earlier"] : a \in answers} ELSE answers)
    \cup {[kind |-> kind, id |-> "last"]}

\* connectRequest
ConnectRequest(later) ==
  /\ fetchTimer' = TRUE
  /\ lastAction' = "Connect"
  /\ answers' = Sent("Connect", later)

\* Fault: the stop of the client is not considered.
EventNeverStopped(f) ==
  IF seeding /\ "firstSeeding" \in f THEN 1 ELSE 2

\* The event of an announce: 1 stands for Completed and for Stopped, 2 for Started.
Event(f) ==
  IF seeding /\ "firstSeeding" \in f THEN 1
  ELSE IF "firstTrackerRequest" \in f THEN 2
  ELSE IF "lastTrackerRequest" \in f THEN 1
  ELSE 2

\* The flags after that announce.
AfterAnnounce(f) ==
  IF seeding /\ "firstSeeding" \in f THEN f \ {"firstSeeding"}
                                      ELSE f \ {"firstTrackerRequest"}

\* announceRequest, once or twice in a row
AnnounceRequest(later, twice) ==
  LET f == AfterAnnounce(flags)
      events == {Event(flags)} \cup IF twice THEN {Event(f)} ELSE {}
  IN /\ lastAction' = "Announce"
     /\ answers' = Sent("Announce", later)
     /\ flags' = IF twice THEN AfterAnnounce(f) ELSE f
     /\ sinceStop' = IF Stopping THEN sinceStop \cup events ELSE sinceStop

\* fetchPeerList with the tracker `it' as the current one.  A socket that is looking up
\* a host already goes on with it.
FetchPeerList(it, later) ==
  IF socket = "connected"
    THEN ConnectRequest(later) /\ UNCHANGED socketVars
    ELSE /\ lastAction' = "ConnectToHost"
         /\ fetchTimer' = TRUE
         /\ socket' = "connecting"
         /\ host' = IF socket = "connecting" THEN host ELSE it
         /\ UNCHANGED answers

-----------------------------------------------------------------------------
(* The torrent *)

\* start(); a torrent that is complete already is in the state Seeding by now.
Start ==
  /\ started = "no"
  /\ started' = "queued"
  /\ seeding' = complete
  /\ UNCHANGED <<complete, lastAction, socketVars, announceIt, tryNum, timerVars, flags,
                 answers, history>>

\* The queued call of start()
FirstFetch ==
  /\ started = "queued"
  /\ started' = "yes"
  /\ \E later \in BOOLEAN : FetchPeerList(announceIt, later)
  /\ UNCHANGED <<announceIt, tryNum, intervalTimer, flags, torrentVars, out, sinceStop,
                 early>>

\* startSeeding(): the last piece of the torrent is there, also after stop().
StartSeeding ==
  /\ started # "no"
  /\ ~complete
  /\ complete' = TRUE
  /\ seeding' = TRUE
  /\ flags' = flags \cup {"firstSeeding"}
  /\ \E later \in BOOLEAN : FetchPeerList(announceIt, later)
  /\ UNCHANGED <<started, announceIt, tryNum, intervalTimer, out, sinceStop, early>>

\* The torrent leaves the state Seeding (it is paused) or returns to it.
ChangeState ==
  /\ started # "no"
  /\ complete
  /\ ~Stopping
  /\ seeding' = ~seeding
  /\ UNCHANGED <<complete, started, lastAction, socketVars, announceIt, tryNum, timerVars,
                 flags, answers, history>>

\* stop()
Stop ==
  /\ started # "no"
  /\ ~Stopping
  /\ flags' = flags \cup {"lastTrackerRequest"}
  /\ early' = ("firstTrackerRequest" \in flags)
  /\ seeding' = FALSE
  /\ \E later \in BOOLEAN : FetchPeerList(announceIt, later)
  /\ UNCHANGED <<complete, started, announceIt, tryNum, intervalTimer, out, sinceStop>>

-----------------------------------------------------------------------------
(* The network *)

\* The socket is connected: connectRequest().
HostFound ==
  /\ socket = "connecting"
  /\ socket' = "connected"
  /\ \E later \in BOOLEAN : ConnectRequest(later)
  /\ UNCHANGED <<started, host, announceIt, tryNum, intervalTimer, flags, torrentVars, out,
                 sinceStop, early>>

\* The name of the host is not known.
HostNotFound ==
  /\ socket = "connecting"
  /\ socket' = "unconnected"
  /\ UNCHANGED <<started, lastAction, host, announceIt, tryNum, timerVars, flags,
                 torrentVars, answers, history>>

Lose(a) ==
  /\ a \in answers
  /\ answers' = answers \ {a}
  /\ UNCHANGED <<started, lastAction, socketVars, announceIt, tryNum, timerVars, flags,
                 torrentVars, history>>

\* connectResponseHandler: announceRequest() if the answer fits.
ConnectResponse(a) ==
  /\ lastAction = "Connect"
  /\ tryNum' = 0
  /\ IF a = [kind |-> "Connect", id |-> "last"]
       THEN /\ fetchTimer' = TRUE
            /\ \E later \in BOOLEAN : AnnounceRequest(later, FALSE)
       ELSE UNCHANGED <<lastAction, answers, flags, sinceStop, fetchTimer>>
  /\ UNCHANGED <<intervalTimer, out>>

\* announceResponseHandler of a stopping client.
StopResponse ==
  /\ lastAction = "Announce"
  /\ Stopping
  /\ tryNum' = 0
  /\ out' = "ended"
  /\ UNCHANGED <<lastAction, answers, flags, sinceStop, timerVars>>

\* Fault: an answer that comes after stop() is used as any other.
AnnounceResponseAlways(a) ==
  /\ lastAction = "Announce"
  /\ a.id = "last"
  /\ tryNum' = 0
  /\ fetchTimer' = FALSE
  /\ out' = "list"
  /\ UNCHANGED <<intervalTimer, lastAction, answers, flags, sinceStop>>

\* announceResponseHandler.  fetchTimeoutHandler() repeats the announce when the action
\* is wrong, and when the transaction id is wrong (by then); the answer is used all the
\* same, and peerListUpdated() stops the fetch timer.
AnnounceResponse(a) ==
  /\ lastAction = "Announce"
  /\ ~Stopping
  /\ \E later \in BOOLEAN :
       LET wrongAction == a.kind # "Announce"
           wrongId == a.id # "last" \/ (wrongAction /\ later)
       IN IF wrongAction \/ wrongId
            THEN /\ AnnounceRequest(later, wrongAction /\ wrongId)
                 /\ tryNum' = IF wrongAction /\ wrongId THEN 2 ELSE 1
            ELSE /\ tryNum' = 0
                 /\ UNCHANGED <<lastAction, answers, flags, sinceStop>>
  /\ intervalTimer' \in {TRUE, intervalTimer}
  /\ fetchTimer' = FALSE
  /\ out' = "list"

\* responseHandler.  The answer may come again.
Deliver(a) ==
  /\ socket = "connected"
  /\ a \in answers
  /\ ConnectResponse(a) \/ StopResponse \/ AnnounceResponse(a)
  /\ UNCHANGED <<started, socketVars, announceIt, torrentVars, early>>

-----------------------------------------------------------------------------
(* Timers *)

\* m_requestIntervalTimer
IntervalTimeout ==
  /\ intervalTimer
  /\ \E later \in BOOLEAN : FetchPeerList(announceIt, later)
  /\ UNCHANGED <<started, announceIt, tryNum, intervalTimer, flags, torrentVars, out,
                 sinceStop, early>>

\* Fault: a lookup that fails is not begun anew.
SendLastRequestOnly(later) ==
  \/ /\ lastAction = "Connect"
     /\ ConnectRequest(later)
     /\ UNCHANGED <<socketVars, flags, sinceStop>>
  \/ /\ lastAction = "Announce"
     /\ AnnounceRequest(later, FALSE)
     /\ UNCHANGED socketVars

\* sendLastActionRequest: the lookup is begun anew, or the request sent again.
SendLastActionRequest(later) ==
  \/ /\ lastAction = "ConnectToHost"
     /\ socket' = "connecting"
     /\ host' = announceIt
     /\ answers' = {}
     /\ UNCHANGED <<lastAction, flags, sinceStop>>
  \/ /\ lastAction = "Connect"
     /\ ConnectRequest(later)
     /\ UNCHANGED <<socketVars, flags, sinceStop>>
  \/ /\ lastAction = "Announce"
     /\ AnnounceRequest(later, FALSE)
     /\ UNCHANGED socketVars

\* fetchTimeoutHandler, a retry
Retry ==
  /\ fetchTimer
  /\ tryNum + 1 < MaxTryNum
  /\ tryNum' = tryNum + 1
  /\ fetchTimer' = TRUE
  /\ \E later \in BOOLEAN : SendLastActionRequest(later)
  /\ UNCHANGED <<started, announceIt, intervalTimer, torrentVars, out, early>>

\* ++m_currentAnnounceIt; after the last tracker comes the first one again.
Following(it) == (it + 1) % TrackerCount

\* fetchTimeoutHandler, the next tracker of the list.  m_requestTryNum stays, and a
\* connected socket stays with the tracker it has.
NextTracker ==
  /\ fetchTimer
  /\ tryNum + 1 >= MaxTryNum
  /\ tryNum' = IF tryNum < MaxTryNum THEN tryNum + 1 ELSE tryNum  \* the bound
  /\ announceIt' = Following(announceIt)
  /\ \E later \in BOOLEAN : FetchPeerList(announceIt', later)
  /\ UNCHANGED <<started, intervalTimer, flags, torrentVars, out, sinceStop, early>>

-----------------------------------------------------------------------------
Next ==
  \/ Start \/ FirstFetch \/ StartSeeding \/ ChangeState \/ Stop
  \/ HostFound \/ HostNotFound
  \/ \E a \in Answers : Lose(a) \/ Deliver(a)
  \/ IntervalTimeout \/ Retry \/ NextTracker

Spec == Init /\ [][Next]_vars

\* The event loop runs the timers and the queued call.  The tracker can be reached: of
\* ever more lookups one succeeds, of ever more requests one is answered in time.
FairSpec ==
  /\ Spec
  /\ WF_vars(FirstFetch) /\ WF_vars(Retry \/ NextTracker)
  /\ SF_vars(HostFound)
  /\ \A k \in {"Connect", "Announce"} :
       SF_vars(lastAction = k /\ Deliver([kind |-> k, id |-> "last"]))

-----------------------------------------------------------------------------
(* Properties *)

\* Every variable has its type.
TypeOK ==
  /\ started \in {"no", "queued", "yes"}
  /\ lastAction \in {"Error", "ConnectToHost", "Connect", "Announce"}
  /\ socket \in {"unconnected", "connecting", "connected"}
  /\ host \in Trackers
  /\ announceIt \in Trackers
  /\ tryNum \in 0 .. MaxTryNum
  /\ fetchTimer \in BOOLEAN
  /\ intervalTimer \in BOOLEAN
  /\ flags \subseteq Flags
  /\ complete \in BOOLEAN
  /\ seeding \in BOOLEAN
  /\ answers \subseteq Answers
  /\ out \in {"none", "list", "ended"}
  /\ sinceStop \subseteq {1, 2}
  /\ early \in BOOLEAN

\* Until the tracker has granted a connection the fetch timer runs, whatever answers of
\* earlier requests come in and whether the client is being stopped or not: no lost
\* datagram can leave the client without another try.
ConnectingIsTimed == lastAction \in {"ConnectToHost", "Connect"} => fetchTimer

\* The socket waits for the answers of a request only when it is connected.
RequestsNeedSocket ==
  lastAction \in {"Connect", "Announce"} <=> socket = "connected"

\* A client that reports stopped() has told a tracker so (event 1), unless it was
\* stopped before its first announce, which then says Started.
StopIsAnnounced == out = "ended" => 1 \in sinceStop \/ early

\* The torrent gets lists and stopped() in the order that AnnounceProtocol promises.
Phase ==
  CASE lastAction = "Error" -> "off"
    [] lastAction \in {"ConnectToHost", "Connect"} -> "connecting"
    [] lastAction = "Announce" -> "announcing"

Promise == INSTANCE AnnounceProtocol WITH phase <- Phase, closing <- Stopping

KeepsPromise == Promise!Spec

\* A client that has been started tells the torrent something in the end: a list of
\* peers, or that it has stopped.
AnswerArrives == started = "queued" ~> out # "none"

\* stop() ends: with a tracker that answers, stopped() is reported in the end.
StopEnds == Stopping ~> out = "ended"
=============================================================================
