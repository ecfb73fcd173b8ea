------------------------------- MODULE Client -------------------------------
(***************************************************************************)
(* The rider's application: ApiBridge on the GUI thread, TcpWorker on the   *)
(* network thread, the two queues of Qt events between them, one TCP        *)
(* connection at a time and, at its other end, a server that answers        *)
(* requests in any order (the business threads of bike-dispatch).           *)
(*                                                                          *)
(* Every slot runs to completion on its own thread, so a slot is one        *)
(* action.  The delays of the back-off are left out: an armed timer fires   *)
(* at any later moment.  Frames are whole (module Frames cuts them).        *)
(***************************************************************************)
EXTENDS Integers, Sequences, FiniteSets, SequencesExt

CONSTANTS
  Used,         \* the request kinds the user issues, a subset of Requests
  MaxRequests,  \* requests issued in all
  MaxReports,   \* position reports issued in all
  MaxPending,   \* kMaxPendingFrames
  SeqRange,     \* the values of seq_counter_, 2^32 in the code
  MaxIncidents  \* breaks of the connection, dropped answers, malformed frames,
                \* requests too long to encode and restarts, in all

\* protocol.hpp numbers the events; the names here are its enumerators.
Requests == {"MobileRequest", "LoginRequest", "RechargeRequest",
  "AccountBalanceRequest", "ListAccountRecordsRequest", "ListNearbyBikesRequest",
  "ScanUnlockRequest", "EndRideRequest", "ReportDamageRequest",
  "GetRideDetailRequest", "ListRidesRequest"}

ASSUME ClientAssumption ==
  /\ Used \subseteq Requests
  /\ {MaxRequests, MaxReports, MaxPending, MaxIncidents} \subseteq Nat
  /\ SeqRange \in Nat \ {0, 1}

VARIABLES
  seq_counter, in_flight, link_up,        \* ApiBridge: numbering, slots, link
  token, active_ride, settings,           \* ApiBridge: session, QSettings
  to_worker, to_gui,                      \* the queued signals of each thread
  sock, connecting, reconnect_scheduled,  \* TcpWorker
  timers, pending, shutting_down,
  up, server, down,                       \* the connection and the server
  issued, slot, answer,                   \* history: requests and answers
  early,                                  \* history: requests numbered before, and
                                          \* written after, a connection was made
  lost,                                   \* history: requests not encoded, answers
                                          \* dropped by the server
  reports, received,                      \* history: reports made, the last arrived
  incidents, closing                      \* bound; the window is closing

api == <<seq_counter, in_flight, link_up, token, active_ride, settings>>
worker == <<sock, connecting, reconnect_scheduled, timers, pending, shutting_down>>
net == <<up, server, down>>
history == <<issued, slot, answer, early, lost, reports, received>>
bounds == <<incidents, closing>>
vars == <<api, to_worker, to_gui, worker, net, history, bounds>>

Ids == 1..MaxRequests
None == 0
Failed == -1
Earlier == MaxRequests + 1   \* a ride begun in an earlier run of the application
Signal(kind) == [kind |-> kind]
Incident == incidents < MaxIncidents /\ incidents' = incidents + 1
NoConnection == up' = <<>> /\ server' = {} /\ down' = <<>>

\* A process that has just started: ApiBridge's constructor has started the
\* network thread, whose first event is the connection.
Started ==
  [seq_counter |-> 0, in_flight |-> [e \in Used |-> 0], link_up |-> FALSE,
   token |-> FALSE, active_ride |-> None, to_worker |-> <<Signal("connect")>>,
   to_gui |-> <<>>, sock |-> "none", connecting |-> FALSE,
   reconnect_scheduled |-> FALSE, timers |-> 0, pending |-> <<>>,
   shutting_down |-> FALSE]

Init ==
  /\ seq_counter = Started.seq_counter /\ in_flight = Started.in_flight
  /\ link_up = Started.link_up /\ token = Started.token
  /\ active_ride = Started.active_ride /\ settings \in {None, Earlier}
  /\ to_worker = Started.to_worker /\ to_gui = Started.to_gui
  /\ sock = Started.sock /\ connecting = Started.connecting
  /\ reconnect_scheduled = Started.reconnect_scheduled
  /\ timers = Started.timers /\ pending = Started.pending
  /\ shutting_down = Started.shutting_down
  /\ up = <<>> /\ server = {} /\ down = <<>>
  /\ issued = 0 /\ slot = [e \in Used |-> None] /\ early = {} /\ lost = {}
  /\ answer = [i \in Ids |-> None]
  /\ reports = 0 /\ received = 0
  /\ incidents = 0 /\ closing = FALSE

-----------------------------------------------------------------------------
(* ApiBridge, on the GUI thread.                                            *)

\* The counter wraps and skips 0, which stands for no request.
nextSeq == LET s == (seq_counter + 1) % SeqRange IN IF s = 0 THEN 1 ELSE s

\* Two entry points send no token; two take text the interface does not limit.
Anonymous == {"MobileRequest", "LoginRequest"}
FreeText == {"ScanUnlockRequest", "ReportDamageRequest"}

\* One request of a kind at a time; a refused one changes nothing.
beginRequest(e) == in_flight[e] = 0

sendRequest(e) ==
  /\ seq_counter' = nextSeq
  /\ in_flight' = [in_flight EXCEPT ![e] = nextSeq]
  /\ issued' = issued + 1
  /\ slot' = [slot EXCEPT ![e] = issued']
  /\ to_worker' = Append(to_worker,
       [kind |-> "send", eid |-> e, seq |-> nextSeq, id |-> issued',
        allowed |-> e \in Anonymous \/ token])
  /\ early' = IF Signal("connected") \in ToSet(to_gui) THEN early \cup {issued'} ELSE early

\* An entry point of the interface; endRide needs a ride to end.
Request(e) ==
  /\ ~closing /\ issued < MaxRequests
  /\ e = "EndRideRequest" => active_ride # None
  /\ beginRequest(e)
  /\ sendRequest(e)
  /\ UNCHANGED <<link_up, token, active_ride, settings, to_gui, worker, net, answer,
                 lost, reports, received, bounds>>

\* Position reports take no slot and expect no answer.
reportPosition ==
  /\ ~closing /\ reports < MaxReports /\ active_ride # None
  /\ seq_counter' = nextSeq
  /\ reports' = reports + 1
  /\ to_worker' = Append(to_worker,
       [kind |-> "send", eid |-> "RidePositionReport", seq |-> nextSeq,
        id |-> reports', allowed |-> TRUE])
  /\ UNCHANGED <<in_flight, link_up, token, active_ride, settings, to_gui, worker,
                 net, issued, slot, answer, early, lost, received, bounds>>

clearActiveRide ==
  /\ ~closing /\ active_ride # None
  /\ active_ride' = None /\ settings' = None
  /\ UNCHANGED <<seq_counter, in_flight, link_up, token, to_worker, to_gui, worker,
                 net, history, bounds>>

\* The next signal of the network thread.
FromWorker(kind) ==
  /\ ~closing /\ to_gui # <<>> /\ Head(to_gui).kind = kind
  /\ to_gui' = Tail(to_gui)

\* Every request in flight gets its failure signal and frees its slot.
failInFlight ==
  /\ in_flight' = [e \in Used |-> 0]
  /\ answer' = [i \in Ids |->
       IF \E e \in Used : in_flight[e] # 0 /\ slot[e] = i THEN Failed ELSE answer[i]]

\* Mutant: requests in flight are left alone when a connection is made.
onWorkerConnectedSilent ==
  /\ FromWorker("connected")
  /\ seq_counter' = 0
  /\ link_up' = TRUE
  /\ UNCHANGED <<in_flight, answer, token, active_ride, settings, to_worker, worker,
                 net, issued, slot, early, lost, reports, received, bounds>>

onWorkerConnected ==
  /\ FromWorker("connected")
  /\ seq_counter' = 0
  /\ failInFlight
  /\ link_up' = TRUE
  /\ UNCHANGED <<token, active_ride, settings, to_worker, worker, net, issued, slot,
                 early, lost, reports, received, bounds>>

onWorkerDisconnected ==
  /\ FromWorker("disconnected")
  /\ failInFlight
  /\ link_up' = FALSE
  /\ UNCHANGED <<seq_counter, token, active_ride, settings, to_worker, worker, net,
                 issued, slot, early, lost, reports, received, bounds>>

\* Only a response to a request in flight, with its number, is looked at.
Solicited(f) == in_flight[f.eid] # 0 /\ in_flight[f.eid] = f.seq

\* Mutant: the end of a ride is not written to the settings.
handleFrameForgetful(f) ==
  LET did(e) == f.ok /\ f.eid = e IN
  /\ token' = (token \/ did("LoginRequest"))
  /\ active_ride' = CASE did("LoginRequest") -> settings
                      [] did("ScanUnlockRequest") -> f.id
                      [] did("EndRideRequest") -> None
                      [] OTHER -> active_ride
  /\ settings' = IF did("ScanUnlockRequest") THEN f.id ELSE settings

\* What a response changes besides the signal it emits.
handleFrame(f) ==
  LET did(e) == f.ok /\ f.eid = e IN
  /\ token' = (token \/ did("LoginRequest"))
  /\ active_ride' = CASE did("LoginRequest") -> settings
                      [] did("ScanUnlockRequest") -> f.id
                      [] did("EndRideRequest") -> None
                      [] OTHER -> active_ride
  /\ settings' = CASE did("ScanUnlockRequest") -> f.id
                   [] did("EndRideRequest") -> None
                   [] OTHER -> settings

onFrameReady ==
  /\ FromWorker("frame")
  /\ LET f == Head(to_gui).frame IN
       IF Solicited(f)
       THEN /\ in_flight' = [in_flight EXCEPT ![f.eid] = 0]
            /\ answer' = [answer EXCEPT ![slot[f.eid]] = f.id]
            /\ handleFrame(f)
       ELSE UNCHANGED <<in_flight, answer, token, active_ride, settings>>
  /\ UNCHANGED <<seq_counter, link_up, to_worker, worker, net, issued, slot, early,
                 lost, reports, received, bounds>>

\* The destructor posts shutdown to the worker and waits for its thread, which
\* may leave its event loop before or after that event.  Reopening the
\* application starts from the settings.
Destroy ==
  /\ ~closing
  /\ Incident
  /\ closing' = TRUE
  /\ to_worker' = Append(to_worker, Signal("shutdown"))
  /\ UNCHANGED <<api, to_gui, worker, net, history>>

Reopen ==
  /\ closing
  /\ closing' = FALSE
  /\ seq_counter' = Started.seq_counter /\ in_flight' = Started.in_flight
  /\ link_up' = Started.link_up /\ token' = Started.token
  /\ active_ride' = Started.active_ride
  /\ to_worker' = Started.to_worker /\ to_gui' = Started.to_gui
  /\ sock' = Started.sock /\ connecting' = Started.connecting
  /\ reconnect_scheduled' = Started.reconnect_scheduled
  /\ timers' = Started.timers /\ pending' = Started.pending
  /\ shutting_down' = Started.shutting_down
  /\ NoConnection
  /\ UNCHANGED <<settings, issued, slot, answer, early, lost, reports, received,
                 incidents>>

-----------------------------------------------------------------------------
(* TcpWorker, on the network thread.                                        *)

FromGui(kind) ==
  /\ to_worker # <<>> /\ Head(to_worker).kind = kind
  /\ to_worker' = Tail(to_worker)

emit(signals) == to_gui' = to_gui \o signals

connectToServer ==
  /\ FromGui("connect")
  /\ IF shutting_down \/ connecting \/ sock \in {"Connecting", "Connected"}
     THEN UNCHANGED <<sock, connecting>>
     ELSE sock' = "Connecting" /\ connecting' = TRUE
  /\ UNCHANGED <<api, to_gui, reconnect_scheduled, timers, pending, shutting_down,
                 net, history, bounds>>

\* Mutant: requests wait for the next connection like reports.
KeptAll(f) ==
  Append(IF Len(pending) >= MaxPending THEN Tail(pending) ELSE pending, f)

\* A frame handed over with no connection: a report waits, the oldest one making
\* room; a request is dropped.
Kept(f) ==
  IF f.eid # "RidePositionReport" THEN pending
  ELSE Append(IF Len(pending) >= MaxPending THEN Tail(pending) ELSE pending, f)

\* A request whose payload encode refuses goes no further; nobody is told which.
EncodeFails(f) ==
  /\ f.eid \in FreeText /\ Incident
  /\ lost' = lost \cup {f.id}
  /\ UNCHANGED <<up, pending>>

Encoded(f) ==
  /\ IF sock = "Connected"
     THEN /\ up' = Append(up, f)
          /\ UNCHANGED pending
     ELSE pending' = Kept(f) /\ UNCHANGED up
  /\ UNCHANGED <<lost, incidents>>

sendFrame ==
  /\ FromGui("send")
  /\ EncodeFails(Head(to_worker)) \/ Encoded(Head(to_worker))
  /\ UNCHANGED <<api, to_gui, sock, connecting, reconnect_scheduled, timers,
                 shutting_down, server, down, issued, slot, answer, early,
                 reports, received, closing>>

\* Mutant: the list is emptied from its end.
flushPendingNewestFirst == up' = up \o Reverse(pending) /\ pending' = <<>>

\* The pending reports go out first, in order, and are forgotten.
flushPending == up' = up \o pending /\ pending' = <<>>

onConnected ==
  /\ sock = "Connecting"
  /\ sock' = "Connected" /\ connecting' = FALSE
  /\ flushPending
  /\ early' = early \cup {f.id : f \in {g \in ToSet(to_worker) : g.kind = "send" /\ g.eid \in Used}}
  /\ emit(<<Signal("connected")>>)
  /\ UNCHANGED <<api, to_worker, reconnect_scheduled, timers, shutting_down, server,
                 down, issued, slot, answer, lost, reports, received,
                 bounds>>

\* calls invocations of scheduleReconnect in one slot: only the first of them,
\* and only with no timer in flight, arms one.
scheduleReconnect(calls) ==
  IF shutting_down \/ reconnect_scheduled
  THEN UNCHANGED <<reconnect_scheduled, timers>>
  ELSE reconnect_scheduled' = TRUE /\ timers' = timers + 1

\* Mutant: reconnecting is left to onDisconnected.
connectFailedQuiet ==
  /\ sock = "Connecting"
  /\ sock' = "Unconnected"
  /\ UNCHANGED <<api, to_worker, to_gui, connecting, reconnect_scheduled, timers,
                 pending, shutting_down, net, history, bounds>>

\* connectToHost failed: Qt reports an error and never emits disconnected.
connectFailed ==
  /\ sock = "Connecting"
  /\ sock' = "Unconnected"
  /\ IF connecting /\ ~shutting_down
     THEN connecting' = FALSE /\ scheduleReconnect(1)
     ELSE UNCHANGED <<connecting, reconnect_scheduled, timers>>
  /\ UNCHANGED <<api, to_worker, to_gui, pending, shutting_down, net, history, bounds>>

reconnectTimer ==
  /\ timers > 0
  /\ timers' = timers - 1
  /\ reconnect_scheduled' = FALSE
  /\ IF shutting_down THEN UNCHANGED <<sock, connecting>>
     ELSE /\ connecting' = TRUE
          /\ sock' = IF sock = "Connected" THEN sock ELSE "Connecting"
  /\ UNCHANGED <<api, to_worker, to_gui, pending, shutting_down, net, history, bounds>>

onDisconnected ==
  /\ sock = "Connected"
  /\ sock' = "Unconnected" /\ connecting' = FALSE
  /\ emit(<<Signal("disconnected")>>)
  /\ scheduleReconnect(1)
  /\ NoConnection
  /\ UNCHANGED <<api, to_worker, pending, shutting_down, history, closing>>

onReadyRead ==
  /\ sock = "Connected" /\ down # <<>>
  /\ emit(<<[kind |-> "frame", frame |-> Head(down)]>>)
  /\ down' = Tail(down)
  /\ UNCHANGED <<api, to_worker, worker, up, server, history, bounds>>

\* A malformed frame: dropSocket disconnects, which runs onDisconnected, and then
\* onReadyRead calls onDisconnected itself.
onBadFrame ==
  /\ sock = "Connected"
  /\ Incident
  /\ sock' = "none" /\ connecting' = FALSE
  /\ emit(<<Signal("disconnected"), Signal("disconnected")>>)
  /\ scheduleReconnect(2)
  /\ NoConnection
  /\ UNCHANGED <<api, to_worker, pending, shutting_down, history, closing>>

shutdown ==
  /\ FromGui("shutdown")
  /\ shutting_down' = TRUE
  /\ pending' = <<>>
  /\ sock' = "none"
  /\ IF sock = "Connected"
     THEN connecting' = FALSE /\ emit(<<Signal("disconnected")>>)
     ELSE UNCHANGED <<connecting, to_gui>>
  /\ NoConnection
  /\ UNCHANGED <<api, reconnect_scheduled, timers, history, bounds>>

-----------------------------------------------------------------------------
(* The server, external to the client: it takes frames in order and answers  *)
(* requests in any order.  It may drop an answer (a full response ring).    *)

Arrive ==
  /\ sock = "Connected" /\ up # <<>>
  /\ up' = Tail(up)
  /\ IF Head(up).eid = "RidePositionReport"
     THEN received' = Head(up).id /\ UNCHANGED server
     ELSE server' = server \cup {Head(up)} /\ UNCHANGED received
  /\ UNCHANGED <<api, to_worker, to_gui, worker, down, issued, slot, answer,
                 early, lost, reports, bounds>>

Answer(f) ==
  /\ server' = server \ {f}
  /\ \E ok \in {FALSE, f.allowed} :
       down' = Append(down, [eid |-> f.eid, seq |-> f.seq, id |-> f.id, ok |-> ok])
  /\ UNCHANGED <<api, to_worker, to_gui, worker, up, history, bounds>>

DropAnswer(f) ==
  /\ Incident
  /\ server' = server \ {f}
  /\ lost' = lost \cup {f.id}
  /\ UNCHANGED <<api, to_worker, to_gui, worker, up, down, issued, slot, answer, early,
                 reports, received, closing>>

\* The connection ends: the network, a stop of the server or its idle sweep.
Cut == Incident /\ onDisconnected

-----------------------------------------------------------------------------
Gui ==
  \/ onWorkerConnected \/ onWorkerDisconnected \/ onFrameReady
Worker ==
  \/ connectToServer \/ sendFrame \/ shutdown \/ onReadyRead \/ reconnectTimer
User ==
  \/ \E e \in Used : Request(e)
  \/ reportPosition \/ clearActiveRide \/ Destroy
Network ==
  \/ onConnected \/ connectFailed \/ onBadFrame \/ Cut \/ Arrive
  \/ \E f \in server : Answer(f) \/ DropAnswer(f)

Next == Gui \/ Worker \/ User \/ Network \/ Reopen

Spec == Init /\ [][Next]_vars

\* Event loops run, timers fire, a reachable server is connected to if it is
\* tried again and again, and the server deals with what has arrived.  Nothing
\* is assumed of the user, nor that a connection ever ends.
FairSpec ==
  /\ Spec
  /\ WF_vars(Gui) /\ WF_vars(Reopen)
  /\ WF_vars(connectToServer \/ sendFrame \/ shutdown)
  /\ WF_vars(onReadyRead) /\ WF_vars(reconnectTimer) /\ SF_vars(onConnected)
  /\ WF_vars(connectFailed \/ onConnected)
  /\ WF_vars(Arrive) /\ WF_vars(\E f \in server : Answer(f))

-----------------------------------------------------------------------------
(* Properties.                                                              *)

Frames == [kind : {"send"}, eid : Used \cup {"RidePositionReport"}, seq : 1..SeqRange - 1,
           id : Nat \ {0}, allowed : BOOLEAN]
Replies == [eid : Used, seq : 1..SeqRange - 1, id : Ids, ok : BOOLEAN]

\* The types of the state: what ApiBridge, TcpWorker and the queues may hold.
TypeOK ==
  /\ seq_counter \in 0..SeqRange - 1 /\ in_flight \in [Used -> 0..SeqRange - 1] /\ link_up \in BOOLEAN
  /\ token \in BOOLEAN /\ {active_ride, settings} \subseteq 0..Earlier
  /\ \A i \in DOMAIN to_worker :
       to_worker[i] \in Frames \cup {Signal("connect"), Signal("shutdown")}
  /\ \A i \in DOMAIN to_gui :
       to_gui[i] \in {Signal("connected"), Signal("disconnected")}
                     \cup [kind : {"frame"}, frame : Replies]
  /\ sock \in {"none", "Unconnected", "Connecting", "Connected"}
  /\ {connecting, reconnect_scheduled, shutting_down, closing} \subseteq BOOLEAN
  /\ timers \in Nat /\ Len(pending) <= MaxPending
  /\ ToSet(pending) \cup ToSet(up) \cup server \subseteq Frames
  /\ ToSet(down) \subseteq Replies
  /\ answer \in [Ids -> Failed..MaxRequests] /\ early \cup lost \subseteq Ids

\* A response is matched by kind and number only.  It answers another request
\* than its own only when that one was numbered for one connection and written on
\* the next, in the window between the socket's connection and onWorkerConnected:
\* no request is kept across a disconnection.
OnlyEarlyMisanswers ==
  \A i \in Ids : answer[i] > 0 => answer[i] = i \/ answer[i] \in early

\* There is never more than one reconnect timer in flight, and the flag says so,
\* though a connection is given up along several paths (two of them in one slot
\* after a malformed frame).
OneReconnectTimer == timers = IF reconnect_scheduled THEN 1 ELSE 0

\* A client that is not shutting down is never lost: it is connected, it is
\* connecting with an outcome to come, or a timer is armed.
NeverLost ==
  \/ shutting_down \/ sock \in {"Connecting", "Connected"} \/ timers > 0
  \/ Signal("connect") \in ToSet(to_worker)

\* Once the worker has handled shutdown nothing opens a socket again, an armed
\* timer included.
NoReconnectAfterShutdown == shutting_down => sock = "none"

\* A client always has a way back to the server, only one, and none once it
\* shuts down, whatever errors and disconnections report to scheduleReconnect.
ReconnectsOnce == OneReconnectTimer /\ NeverLost /\ NoReconnectAfterShutdown

\* Position reports reach the server at most once and in the order they were
\* made, through the pending list, its overflow and reconnections.
ReportsInOrder ==
  [][Arrive /\ Head(up).eid = "RidePositionReport" => Head(up).id > received]_vars

\* link_up follows the socket: with no link signal on its way the two agree.
LinkSignals == {i \in DOMAIN to_gui : to_gui[i].kind # "frame"}
LinkUpAgrees ==
  LinkSignals = {} /\ ~shutting_down => link_up = (sock = "Connected")

\* A logged-in user's current ride is the one in the settings, so a restart of the
\* application finds it again.
RideRemembered == token => active_ride = settings

\* What ApiBridge tells the views agrees with the socket and with the settings.
BridgeAgrees == LinkUpAgrees /\ RideRemembered

\* Every request ends, answered or reported as failed, unless its frame could
\* not be encoded or the server dropped its answer.  A disconnection ends even
\* those: the failure signals of onWorkerDisconnected and onWorkerConnected free
\* every slot.
Waiting(i) == \E e \in Used : slot[e] = i /\ in_flight[e] # 0
NoStuckRequest ==
  /\ \A i \in Ids : Waiting(i) ~> ~Waiting(i) \/ i \in lost
  /\ sock # "Connected" ~> \A i \in Ids : ~Waiting(i)

-----------------------------------------------------------------------------
(* Refuted: api_bridge.cpp:270, a request still in flight when a connection   *)
(* is reported cannot be answered any more.  It can, when it was written on   *)
(* that very connection; the number it carries is then given out again.       *)
(* api_bridge.cpp:279, the flags of the views are reset and no button is      *)
(* stuck: with the connection up, a request that was lost keeps its slot.     *)

\* Every answer handed to a request is the answer to that request.
AnswersOwnRequest == \A i \in Ids : answer[i] > 0 => answer[i] = i

\* Every request ends, whatever becomes of its frame and its answer.
EveryRequestEnds == \A i \in Ids : Waiting(i) ~> ~Waiting(i)
=============================================================================
