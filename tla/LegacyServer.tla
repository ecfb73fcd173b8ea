---------------------------- MODULE LegacyServer ----------------------------
(***************************************************************************)
(* The first server (legacy/): one thread runs the network callbacks and    *)
(* then sends the answers that are ready, in a loop; the pool's threads     *)
(* handle requests for a code and for a log-in.  A session reads one        *)
(* request, header then message, and reads no other until it was answered.  *)
(*                                                                         *)
(* A request is HeaderLen + MessageLen units on the wire, and a unit is     *)
(* named by its request and its place.  The event of request k of session   *)
(* s is <<s, k>>.  parseEvent builds only events UserEventHandler subscribed *)
(* to, so the branch that answers with ExitRspEv is never taken.            *)
(*                                                                         *)
(* The answer to a session that was freed meanwhile is written through a    *)
(* dangling pointer: what follows is undefined, and the model stops there   *)
(* (broken).                                                                *)
(***************************************************************************)
EXTENDS LegacyPool, Functions

CONSTANTS
  Session,      \* connections, numbered in the order of their acceptance
  MaxRequests,  \* requests sent on all of them
  Code,         \* the values code_gen returns
  MaxIncidents  \* database calls that fail, connections that end or time out

HeaderLen == 2
MessageLen == 1

ASSUME LegacyServerAssumption ==
  /\ Task = Session \X (1..MaxRequests) /\ Session \subseteq Nat
  /\ {MaxRequests, MaxIncidents} \subseteq Nat /\ Code \subseteq Nat \ {0}

VARIABLES
  cs,        \* ConnectSession: life, session_stat, the header and message units
             \* read, and the input buffer of its bufferevent
  sent,      \* requests the client has sent on the session
  coming,    \* their units still on the way
  responses, \* response_events: the event answered and the answer
  replies,   \* answers written to the client
  m2c,       \* the code issued last, 0 when there is none
  users,     \* rows of userinfo for the mobile
  job,       \* per thread: where it is in the handler, and its answer
  draining,  \* the main thread is in handleAllResponseEvent
  broken, refused, errors,
  dropped    \* history: events thread_task_post refused

servervars == <<cs, sent, coming, responses, replies, m2c, users, job, draining,
                broken, refused, errors, dropped>>

Fresh == [life |-> "open", stat |-> "request", header |-> <<>>, message |-> <<>>, input |-> <<>>]

Idle == [step |-> "start", answer |-> "none"]

\* Requests: for a code, to log in with one, and two that end the session (a
\* header with a wrong identifier or length, a message that does not parse).
Request == {[kind |-> k, icode |-> 0] : k \in {"code", "header", "garbage"}}
             \cup {[kind |-> "login", icode |-> c] : c \in Code}

ServerInit ==
  /\ thread_pool_init
  /\ cs = [s \in Session |-> [Fresh EXCEPT !.life = "none"]]
  /\ sent = [s \in Session |-> <<>>] /\ coming = [s \in Session |-> <<>>]
  /\ responses = <<>> /\ replies = [s \in Session |-> <<>>]
  /\ m2c = 0 /\ users = 0 /\ job = [w \in Thread |-> Idle] /\ draining = FALSE
  /\ broken = FALSE /\ refused = 0 /\ errors = 0 /\ dropped = {}

\* session_init and the rest of the accept callback.
listener_cb(s) ==
  /\ ~draining /\ cs[s].life = "none" /\ (\A q \in Session : q < s => cs[q].life # "none")
  /\ cs' = [cs EXCEPT ![s] = Fresh]
  /\ UNCHANGED <<poolvars, sent, coming, responses, replies, m2c, users, job, draining,
                 broken, refused, errors, dropped>>

SumOf(f) == FoldFunction(LAMBDA q, n : Len(q) + n, 0, f)

\* The client sends a request, whether or not its last one was answered.
Send(s) == \E r \in Request :
  /\ cs[s].life = "open" /\ SumOf(sent) < MaxRequests
  /\ sent' = [sent EXCEPT ![s] = Append(@, r)]
  /\ coming' = [coming EXCEPT ![s] =
       @ \o [j \in 1..(HeaderLen + MessageLen) |-> <<Len(sent'[s]), j>>]]
  /\ UNCHANGED <<poolvars, cs, responses, replies, m2c, users, job, draining,
                 broken, refused, errors, dropped>>

Freed(c) == [c EXCEPT !.life = "freed", !.header = <<>>, !.message = <<>>, !.input = <<>>]

Least(a, b) == IF a < b THEN a ELSE b

\* bufferevent_read of what is missing of n units, appended to what field f holds.
ReadInto(c, f, n) ==
  LET k == Least(n - Len(c[f]), Len(c.input))
  IN  [c EXCEPT ![f] = @ \o SubSeq(c.input, 1, k), !.input = SubSeq(@, k + 1, Len(@))]

KindOf(s, c) == sent[s][c.header[1][1]].kind

\* MS_READ_HEADER: read on, and when the header is complete test its identifier
\* and the message's length.
ReadHeader(s, c) ==
  LET r == ReadInto(c, "header", HeaderLen)
  IN  IF Len(r.header) = HeaderLen /\ KindOf(s, r) = "header" THEN Freed(r) ELSE r

ReadMessage(c) ==
  IF c.life = "open" /\ Len(c.header) = HeaderLen THEN ReadInto(c, "message", MessageLen) ELSE c

ReadyAlways(c) == TRUE

\* A session reads only while it is in SS_REQUEST.
Ready(c) == c.stat = "request"

\* DispatchMsgService::enqueue, whose result handle_request ignores.
enqueue(e) == Post(e) /\ dropped' = IF Full THEN dropped \cup {e} ELSE dropped

\* The session after the callback read what it could, and whether its message is whole.
AfterRead(s, c) == IF Ready(c) THEN ReadMessage(ReadHeader(s, c)) ELSE c

\* An event, for the two requests the server knows.
parseEvent(kind) == kind \in {"code", "login"}

\* n units arrive, and the read callback runs on all that is buffered.
handle_request(s) == \E n \in 1..Len(coming[s]) :
  LET c == AfterRead(s, [cs[s] EXCEPT !.input = @ \o SubSeq(coming[s], 1, n)])
      whole == c.life = "open" /\ Ready(cs[s]) /\ Len(c.message) = MessageLen
  IN  /\ ~draining /\ cs[s].life = "open"
      /\ coming' = [coming EXCEPT ![s] = SubSeq(@, n + 1, Len(@))]
      /\ IF whole /\ parseEvent(KindOf(s, c))
         THEN /\ cs' = [cs EXCEPT ![s] = [c EXCEPT !.stat = "response", !.message = <<>>]]
              /\ enqueue(<<s, c.header[1][1]>>)
         ELSE /\ cs' = [cs EXCEPT ![s] = IF whole THEN Freed(c) ELSE c]
              /\ UNCHANGED <<poolvars, dropped>>
      /\ UNCHANGED <<sent, responses, replies, m2c, users, job, draining, broken, refused, errors>>

\* Timeout of 30 s, end of file or error: the session is freed, whatever still
\* points to it.
handle_error(s) ==
  /\ ~draining /\ cs[s].life = "open" /\ refused + errors < MaxIncidents /\ errors' = errors + 1
  /\ cs' = [cs EXCEPT ![s] = Freed(@)]
  /\ coming' = [coming EXCEPT ![s] = <<>>]
  /\ UNCHANGED <<poolvars, sent, responses, replies, m2c, users, job, draining,
                 broken, refused, dropped>>

\* UserEventHandler::handle picks the handler by the event's identifier.
handle(w, kind, step) ==
  /\ thr[w] = "run" /\ job[w].step = step
  /\ sent[task[w][1]][task[w][2]].kind = kind

To(w, step, answer) == job' = [job EXCEPT ![w] = [step |-> step, answer |-> answer]]

handle_mobile_code_req(w) == \E c \in Code :
  /\ handle(w, "code", "start") /\ m2c' = c /\ To(w, "push", "code")
  /\ UNCHANGED <<poolvars, cs, sent, coming, responses, replies, users, draining,
                 broken, refused, errors, dropped>>

\* The code is compared under the lock; the rest runs without it.
handle_login_req(w) ==
  /\ handle(w, "login", "start")
  /\ IF sent[task[w][1]][task[w][2]].icode = m2c THEN To(w, "exist", "none")
                                                 ELSE To(w, "push", "invalid")
  /\ UNCHANGED <<poolvars, cs, sent, coming, responses, replies, m2c, users, draining,
                 broken, refused, errors, dropped>>

\* The database refuses a statement.
Execute_fails == refused + errors < MaxIncidents /\ refused' = refused + 1

\* MysqlConnection::init fails.
init_fails(w) ==
  /\ handle(w, "login", "exist") /\ Execute_fails
  /\ To(w, "push", "failed")
  /\ UNCHANGED <<poolvars, cs, sent, coming, responses, replies, m2c, users, draining,
                 broken, errors, dropped>>

\* A refused query is taken for a mobile without a row.
exist(w) ==
  /\ handle(w, "login", "exist")
  /\ \/ To(w, IF users > 0 THEN "push" ELSE "insert", IF users > 0 THEN "success" ELSE "none")
          /\ UNCHANGED refused
     \/ Execute_fails /\ To(w, "insert", "none")
  /\ UNCHANGED <<poolvars, cs, sent, coming, responses, replies, m2c, users, draining,
                 broken, errors, dropped>>

\* The table's index on mobile is not unique: a second row is accepted.
insert(w) ==
  /\ handle(w, "login", "insert")
  /\ \/ users' = users + 1 /\ To(w, "push", "success") /\ UNCHANGED refused
     \/ Execute_fails /\ To(w, "push", "failed") /\ UNCHANGED users
  /\ UNCHANGED <<poolvars, cs, sent, coming, responses, replies, m2c, draining,
                 broken, errors, dropped>>

svcSilent(w) ==
  /\ thr[w] = "run" /\ job[w].step = "push" /\ HandlerDone(w) /\ job' = [job EXCEPT ![w] = Idle]
  /\ UNCHANGED <<cs, sent, coming, responses, replies, m2c, users, draining, broken, refused, errors, dropped>>

\* The end of svc: the answer joins response_events and the task is freed.
svc(w) ==
  /\ thr[w] = "run" /\ job[w].step = "push" /\ HandlerDone(w)
  /\ responses' = Append(responses, [event |-> task[w], answer |-> job[w].answer])
  /\ job' = [job EXCEPT ![w] = Idle]
  /\ UNCHANGED <<cs, sent, coming, replies, m2c, users, draining, broken, refused, errors, dropped>>

session_reset(c) == [c EXCEPT !.stat = "request", !.header = <<>>, !.message = <<>>]

\* The frame of an answer carries its event identifier.
AssembleHB(r) ==
  [event |-> r.event, answer |-> r.answer,
   eid |-> IF r.answer = "code" THEN "GET_MOBILE_CODE_RSP" ELSE "LOGIN_RSP"]

send_response_message(s, frame) ==
  /\ replies' = [replies EXCEPT ![s] = Append(@, frame)]
  /\ cs' = [cs EXCEPT ![s] = session_reset(@)]

\* network_event_dispatch turns from the callbacks to the answers (with none it
\* comes back at once and changes nothing).
network_event_dispatch ==
  /\ ~draining /\ responses # <<>> /\ draining' = TRUE
  /\ UNCHANGED <<poolvars, cs, sent, coming, responses, replies, m2c, users, job,
                 broken, refused, errors, dropped>>

\* One turn of the loop: the answer is framed and sent, and the session reset; an empty queue ends the loop.
handleAllResponseEvent ==
  /\ draining
  /\ IF responses = <<>> THEN draining' = FALSE /\ UNCHANGED <<cs, responses, replies, broken>>
     ELSE LET s == Head(responses).event[1] IN
          /\ responses' = Tail(responses) /\ UNCHANGED draining
          /\ IF cs[s].life = "freed" THEN broken' = TRUE /\ UNCHANGED <<cs, replies>>
             ELSE send_response_message(s, AssembleHB(Head(responses))) /\ UNCHANGED broken
  /\ UNCHANGED <<poolvars, sent, coming, m2c, users, job, refused, errors, dropped>>

Handler(w) == handle_mobile_code_req(w) \/ handle_login_req(w) \/ exist(w) \/ insert(w) \/ svc(w)

Cycle(w) == Worker(w) /\ UNCHANGED servervars

Main == network_event_dispatch \/ handleAllResponseEvent

ServerNext ==
  /\ ~broken
  /\ \/ \E s \in Session : listener_cb(s) \/ Send(s) \/ handle_request(s) \/ handle_error(s)
     \/ \E w \in Thread : Cycle(w) \/ Handler(w) \/ init_fails(w)
     \/ Main

\* The scheduler runs every thread, and the main loop never ends.
ServerFairness ==
  /\ WF_<<poolvars, servervars>>(~broken /\ Main)
  /\ \A w \in Thread : WF_<<poolvars, servervars>>(~broken /\ (Cycle(w) \/ Handler(w)))

ServerTypeOK ==
  /\ \A s \in Session : cs[s].life \in {"none", "open", "freed"} /\ cs[s].stat \in {"request", "response"}
  /\ m2c \in Code \cup {0} /\ users \in Nat /\ dropped \subseteq Task
  /\ \A w \in Thread : job[w].step \in {"start", "exist", "insert", "push"}

-----------------------------------------------------------------------------

\* The answers on a connection are those of its requests, one each, in the
\* order in which they were sent, also when the client does not wait for them.
AnswersInOrder ==
  \A s \in Session : \A k \in DOMAIN replies[s] :
    LET r == replies[s][k] IN
    /\ r.event = <<s, k>>
    /\ r.eid = IF sent[s][k].kind = "code" THEN "GET_MOBILE_CODE_RSP" ELSE "LOGIN_RSP"

\* However the bytes were cut up on their way, a session's header holds the
\* first units of one request and its message the units that follow them, and
\* neither runs over its buffer.
ReadsAligned ==
  \A s \in Session : LET c == cs[s] IN
    /\ Len(c.header) <= HeaderLen /\ Len(c.message) <= MessageLen
    /\ \A j \in DOMAIN c.header : c.header[j] = <<c.header[1][1], j>>
    /\ \A j \in DOMAIN c.message : c.message[j] = <<c.header[1][1], HeaderLen + j>>

\* A session's reads and answers keep in step with the requests of its client.
SessionInStep == AnswersInOrder /\ ReadsAligned

\* A request that was read whole is answered, unless its task was refused or
\* the session ends.
RequestAnswered ==
  \A s \in Session :
    (cs[s].stat = "response" /\ cs[s].life = "open") ~>
      \/ cs[s].stat = "request" \/ cs[s].life = "freed" \/ broken
      \/ \E e \in dropped : e[1] = s

\* No answer is written through a freed session: handle_error would have to
\* wait for the event of the session.  It does not, and this does not hold.
NoLateAnswer == ~broken
=============================================================================
