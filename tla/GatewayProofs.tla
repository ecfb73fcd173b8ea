--------------------------- MODULE GatewayProofs ---------------------------
(***************************************************************************)
(* For any number of connections, workers and refused submissions, and any *)
(* size of the receive buffer and of the backlog: the account of           *)
(* operations is exact, and a batch owns its connection.                   *)
(*                                                                         *)
(* The two invariants are inductive only together. That a recv is armed    *)
(* once (OpsInv) needs that a batch on its way back belongs to a Parsing   *)
(* connection, which has no recv in flight (BatchInv).                     *)
(*                                                                         *)
(* The invariants about the data are defined here as well; their proofs    *)
(* are in GatewayDeliveryProofs.                                           *)
(***************************************************************************)
EXTENDS Gateway, TLAPS

States == {"unborn", "active", "parsing", "closing", "gone"}
Connection == [state : States, recv_op : BOOLEAN, send_op : BOOLEAN, pending_ops : Int,
               rx : Nat, send_q : Seq(Nat), partial : BOOLEAN]
Item == [kind : {"respond", "rearm", "close"}, conn : Conn, data : Nat]
Batch == [conn : Conn, halves : Nat]
Kinds == {"recv", "send"}

\* The types the argument needs: of the connections and of what goes through the
\* queues and the workers.
ConnTypes ==
  /\ conn \in [Conn -> Connection] /\ next_conn_id \in Nat \ {0}
  /\ ops \subseteq Kinds \X Conn

QueueTypes ==
  /\ items \in Seq(Item) /\ outbox \in Seq(Item) /\ posted \in Seq(Batch)
  /\ work \in [Worker -> Job \cup {NoBatch}]
  /\ owed \subseteq Conn \X Nat /\ rsp \in Seq(Conn \X Nat)
  /\ received \in [Conn -> Nat] /\ handled \in [Conn -> Nat]
  /\ delivered \in [Conn -> Seq(Nat)]

\* The account of Connection k is consistent: an erased one has no operation, and
\* there is something to send while a send is in flight.
Sound(k) ==
  /\ k.pending_ops = Bit(k.recv_op) + Bit(k.send_op)
  /\ k.state \in {"unborn", "gone"} => ~k.recv_op /\ ~k.send_op
  /\ k.send_op => k.send_q # << >>

\* It is right when the kernel has its recv (r) and its send (s).
Accounted(k, r, s) == Sound(k) /\ (k.recv_op <=> r) /\ (k.send_op <=> s)

AccountOf(c) == Accounted(conn[c], <<"recv", c>> \in ops, <<"send", c>> \in ops)

\* The account is exact until the engine exits, which it does with no item left;
\* ids that were not given out have no connection.
OpsInv ==
  /\ ConnTypes /\ QueueTypes
  /\ loop # "exited" => \A c \in Conn : AccountOf(c)
  /\ loop = "exited" => items = << >>
  /\ \A c \in Conn : next_conn_id <= c => conn[c].state = "unborn"

\* The places of the batches of c: with the pool, with a worker, on the way back.
PostedOf(c) == {i \in 1 .. Len(posted) : posted[i].conn = c}
WorkOf(c) == {w \in Worker : work[w] # NoBatch /\ work[w].conn = c /\ ~work[w].finished}
BackIn(s, c) == {i \in 1 .. Len(s) : s[i].conn = c /\ s[i].kind # "respond"}

AtMostOne(S) == \A x, y \in S : x = y
NoneOf(c) ==
  PostedOf(c) = {} /\ WorkOf(c) = {} /\ BackIn(outbox, c) = {} /\ BackIn(items, c) = {}

OneBatch(c) ==
  /\ AtMostOne(PostedOf(c)) /\ AtMostOne(WorkOf(c))
  /\ AtMostOne(BackIn(outbox, c)) /\ AtMostOne(BackIn(items, c))
  /\ PostedOf(c) # {} => WorkOf(c) = {} /\ BackIn(outbox, c) = {} /\ BackIn(items, c) = {}
  /\ WorkOf(c) # {} => BackIn(outbox, c) = {} /\ BackIn(items, c) = {}
  /\ BackIn(outbox, c) # {} => BackIn(items, c) = {}

\* A worker that has reported the end of its batch has only the eventfd to write.
ReportsLast(w) == work[w] # NoBatch /\ work[w].finished => work[w].signal

\* A connection has its recv in flight, or one batch.
Owns(c) ==
  /\ OneBatch(c)
  /\ conn[c].state = "active" => conn[c].recv_op /\ NoneOf(c)
  /\ conn[c].state = "parsing" => ~conn[c].recv_op /\ ~NoneOf(c)
  /\ conn[c].state = "unborn" => NoneOf(c)

BatchInv == (\A w \in Worker : ReportsLast(w)) /\ \A c \in Conn : Owns(c)

\* What was received on c is what was dispatched and n half frames more.
Rest(c, n) == received[c] = 2 * handled[c] + n
RestIn(s, c) == \A i \in BackIn(s, c) : s[i].kind = "rearm" => Rest(c, s[i].data)

\* The rest is in the Connection, or in the batch wherever it is; an id that was not
\* given out has received nothing.
StreamOf(c) ==
  /\ conn[c].state = "active" => Rest(c, conn[c].rx)
  /\ conn[c].state = "unborn" => Rest(c, 0)
  /\ \A i \in PostedOf(c) : Rest(c, posted[i].halves)
  /\ \A w \in WorkOf(c) : Rest(c, 2 * work[w].frames + work[w].left)
  /\ RestIn(outbox, c) /\ RestIn(items, c)

StreamInv == \A c \in Conn : StreamOf(c)

\* The replies of c in a queue of items, and the numbers of a sequence.
RepliesIn(s, c) == {i \in 1 .. Len(s) : s[i].conn = c /\ s[i].kind = "respond"}
RepliesOf(s, c) == {s[i].data : i \in RepliesIn(s, c)}
Numbers(s) == {s[i] : i \in 1 .. Len(s)}

Ascending(s) == \A i, j \in 1 .. Len(s) : i < j => s[i] < s[j]
AscendingIn(s, c) == \A i, j \in RepliesIn(s, c) : i < j => s[i].data < s[j].data
Before(S, T) == \A x \in S, y \in T : x < y

\* Each stage of the way (sent, queued, taken from the outbox, in the outbox) is in
\* order and before the next one, and of the first n frames.
InOrder(d, q, t, o, c, n) ==
  /\ Ascending(d) /\ Ascending(q) /\ AscendingIn(t, c) /\ AscendingIn(o, c)
  /\ Before(Numbers(d), Numbers(q)) /\ Before(Numbers(d), RepliesOf(t, c))
  /\ Before(Numbers(d), RepliesOf(o, c)) /\ Before(Numbers(q), RepliesOf(t, c))
  /\ Before(Numbers(q), RepliesOf(o, c)) /\ Before(RepliesOf(t, c), RepliesOf(o, c))
  /\ \A x \in Numbers(d) \cup Numbers(q) \cup RepliesOf(t, c) \cup RepliesOf(o, c) : x <= n

OrderOf(c) == InOrder(delivered[c], conn[c].send_q, items, outbox, c, handled[c])

OrderInv == ~RingMode => owed = {} /\ rsp = << >> /\ \A c \in Conn : OrderOf(c)

-----------------------------------------------------------------------------
(* The account of operations.                                              *)

\* No connection has been accepted.
LEMMA OpsInitially == Init => OpsInv
<1> SUFFICES ASSUME Init PROVE OpsInv
  OBVIOUS
<1>1. \A c \in Conn : AccountOf(c)
  BY DEF Init, AccountOf, Accounted, Sound, Unborn, Bit
<1>2. QED
  BY <1>1 DEF Init, OpsInv, Unborn, ConnTypes, QueueTypes, Connection, States

\* Operations of other connections than c stay as they are.
OnlyOps(c) ==
  /\ ops' \subseteq Kinds \X Conn
  /\ \A d \in Conn \ {c}, kind \in Kinds : <<kind, d>> \in ops' <=> <<kind, d>> \in ops

\* The step makes k of Connection c and keeps its account.
ConnStep(c, k) ==
  /\ k \in Connection /\ conn[c].state # "unborn"
  /\ conn' = [conn EXCEPT ![c] = k]
  /\ OnlyOps(c)
  /\ Accounted(k, <<"recv", c>> \in ops', <<"send", c>> \in ops')

\* It closes the Connection, or leaves it as it is but for its replies.
Ended(c, k) == k.state \in {"closing", "gone"} /\ k.send_q \in {conn[c].send_q, << >>}
Lives(c, k) ==
  k.state = conn[c].state /\ (k.recv_op <=> conn[c].recv_op) /\ k.rx = conn[c].rx

\* A step that changes one connection keeps the accounts of all.
LEMMA OneConn ==
  ASSUME OpsInv, NEW c \in Conn, NEW k, ConnStep(c, k),
         next_conn_id' = next_conn_id, loop' = loop, QueueTypes', loop # "exited"
  PROVE  OpsInv'
<1>1. ASSUME loop' # "exited", NEW d \in Conn PROVE AccountOf(d)'
  BY <1>1 DEF AccountOf, ConnStep, OpsInv, ConnTypes, OnlyOps, Kinds, Accounted
<1>2. QED
  BY <1>1 DEF OpsInv, ConnTypes, ConnStep, OnlyOps

\* maybe_finalize erases a Connection only when its account is empty.
LEMMA FinalizeShape ==
  ASSUME NEW k \in Connection, k.state = "closing", Sound(k)
  PROVE  /\ maybe_finalize(k) \in Connection
         /\ maybe_finalize(k).state \in {"closing", "gone"}
         /\ maybe_finalize(k).send_q \in {k.send_q, << >>}
         /\ Sound(maybe_finalize(k))
         /\ maybe_finalize(k).recv_op <=> k.recv_op
         /\ maybe_finalize(k).send_op <=> k.send_op
<1>1. CASE k.pending_ops # 0
  BY <1>1 DEF maybe_finalize
<1>2. CASE k.pending_ops = 0
  <2>1. maybe_finalize(k) = [state |-> "gone", recv_op |-> FALSE, send_op |-> FALSE,
                             pending_ops |-> 0, rx |-> 0, send_q |-> << >>,
                             partial |-> FALSE]
    BY Zenon, <1>2 DEF maybe_finalize, Unborn
  <2>2. QED
    BY <2>1, <1>2 DEF Connection, States, Sound, Bit
<1>3. QED
  BY <1>1, <1>2

\* close_conn touches c only, which is closing or erased after it, and keeps the
\* account it is given.
LEMMA CloseShape ==
  ASSUME OpsInv, NEW c \in Conn, NEW k \in Connection, NEW mine \in SUBSET OpsOf(c),
         close_conn(c, k, mine), k.send_q = conn[c].send_q, k.state = conn[c].state,
         k.state \notin {"unborn", "gone"},
         Accounted(k, <<"recv", c>> \in mine, <<"send", c>> \in mine)
  PROVE  \E e : ConnStep(c, e) /\ Ended(c, e)
<1> DEFINE x == [k EXCEPT !.state = "closing"]
<1> DEFINE e == maybe_finalize(x)
<1>1. x \in Connection /\ x.state = "closing" /\ x.send_q = k.send_q
  BY DEF Connection, States
<1>2. conn' = [conn EXCEPT ![c] = e]
  BY DEF close_conn
<1>3. Sound(x) /\ (x.recv_op <=> k.recv_op) /\ (x.send_op <=> k.send_op)
  BY DEF Accounted, Sound, Connection
<1>4. /\ e \in Connection /\ e.state \in {"closing", "gone"} /\ e.send_q \in {k.send_q, << >>}
      /\ Sound(e) /\ (e.recv_op <=> k.recv_op) /\ (e.send_op <=> k.send_op)
  <2> HIDE DEF x
  <2>1. QED
    BY <1>1, <1>3, FinalizeShape
<1>5. Accounted(e, <<"recv", c>> \in ops', <<"send", c>> \in ops')
  <2> HIDE DEF e
  <2>1. QED
    BY <1>4 DEF Accounted, Kinds, OpsOf, close_conn
<1>6. QED
  <2> HIDE DEF e
  <2>1. QED
    BY Zenon, <1>2, <1>5, <1>4 DEF ConnStep, Ended, OnlyOps, OpsOf, OpsInv, ConnTypes,
       Kinds, close_conn

\* A step that leaves the connections and their operations alone.
LEMMA SameConns ==
  ASSUME OpsInv, UNCHANGED <<conn, next_conn_id, ops>>, QueueTypes',
         loop' = "exited" <=> loop = "exited", items' = items \/ loop # "exited"
  PROVE  OpsInv'
  BY DEF OpsInv, ConnTypes, AccountOf

\* submit_recv and submit_send on a Connection.
LEMMA WithShape ==
  ASSUME NEW k \in Connection
  PROVE  /\ WithRecv(k) \in Connection /\ WithSend(k) \in Connection
         /\ WithRecv(k).state = k.state /\ WithSend(k).state = k.state
         /\ WithRecv(k).rx = k.rx /\ WithSend(k).rx = k.rx
         /\ WithRecv(k).send_q = k.send_q /\ WithSend(k).send_q = k.send_q
         /\ WithRecv(k).recv_op /\ (WithRecv(k).send_op <=> k.send_op)
         /\ WithSend(k).send_op /\ (WithSend(k).recv_op <=> k.recv_op)
         /\ WithRecv(k).pending_ops = k.pending_ops + 1
         /\ WithSend(k).pending_ops = k.pending_ops + 1
<1> DEFINE n == k.pending_ops + 1
<1>1. n \in Int
  BY DEF Connection
<1>2. /\ WithRecv(k) = [k EXCEPT !.recv_op = TRUE, !.pending_ops = n]
      /\ WithSend(k) = [k EXCEPT !.send_op = TRUE, !.pending_ops = n]
  BY DEF WithRecv, WithSend
<1> HIDE DEF n
<1>3. /\ WithRecv(k) \in Connection /\ WithRecv(k).state = k.state /\ WithRecv(k).rx = k.rx
      /\ WithRecv(k).send_q = k.send_q /\ WithRecv(k).recv_op
      /\ (WithRecv(k).send_op <=> k.send_op) /\ WithRecv(k).pending_ops = n
  BY Zenon, <1>1, <1>2 DEF Connection
<1>4. /\ WithSend(k) \in Connection /\ WithSend(k).state = k.state /\ WithSend(k).rx = k.rx
      /\ WithSend(k).send_q = k.send_q /\ WithSend(k).send_op
      /\ (WithSend(k).recv_op <=> k.recv_op) /\ WithSend(k).pending_ops = n
  BY Zenon, <1>1, <1>2 DEF Connection
<1>5. QED
  BY <1>3, <1>4 DEF n

\* The bookkeeping at the head of complete_recv and complete_send.
LEMMA AfterShape ==
  ASSUME NEW c, conn[c] \in Connection
  PROVE  /\ AfterRecv(c) \in Connection /\ AfterSend(c) \in Connection
         /\ AfterRecv(c).state = conn[c].state /\ AfterSend(c).state = conn[c].state
         /\ AfterRecv(c).rx = conn[c].rx /\ AfterSend(c).rx = conn[c].rx
         /\ AfterRecv(c).send_q = conn[c].send_q /\ AfterSend(c).send_q = conn[c].send_q
         /\ ~AfterRecv(c).recv_op /\ (AfterRecv(c).send_op <=> conn[c].send_op)
         /\ ~AfterSend(c).send_op /\ (AfterSend(c).recv_op <=> conn[c].recv_op)
         /\ AfterRecv(c).pending_ops = conn[c].pending_ops - 1
         /\ AfterSend(c).pending_ops = conn[c].pending_ops - 1
<1> DEFINE n == conn[c].pending_ops - 1
           k == conn[c]
<1>1. n \in Int
  BY DEF Connection
<1>2. /\ AfterRecv(c) = [k EXCEPT !.recv_op = FALSE, !.pending_ops = n]
      /\ AfterSend(c) = [k EXCEPT !.send_op = FALSE, !.pending_ops = n]
  BY DEF AfterRecv, AfterSend
<1>3. k \in Connection
  OBVIOUS
<1> HIDE DEF n, k
<1>4. /\ AfterRecv(c) \in Connection /\ AfterRecv(c).state = k.state /\ AfterRecv(c).rx = k.rx
      /\ AfterRecv(c).send_q = k.send_q /\ ~AfterRecv(c).recv_op
      /\ (AfterRecv(c).send_op <=> k.send_op) /\ AfterRecv(c).pending_ops = n
  BY Zenon, <1>1, <1>2, <1>3 DEF Connection
<1>5. QED
  BY Zenon, <1>4, <1>1, <1>2, <1>3 DEF n, k, Connection

\* An operation that completes is taken from the account.
LEMMA CompletedAccount ==
  ASSUME OpsInv, loop # "exited", NEW c \in Conn
  PROVE  /\ conn[c] \in Connection
         /\ <<"recv", c>> \in ops =>
              /\ Accounted(AfterRecv(c), FALSE, <<"send", c>> \in ops)
              /\ conn[c].state \notin {"unborn", "gone"}
         /\ <<"send", c>> \in ops =>
              /\ Accounted(AfterSend(c), <<"recv", c>> \in ops, FALSE)
              /\ conn[c].state \notin {"unborn", "gone"}
  BY AfterShape DEF Accounted, Sound, Bit, OpsInv, ConnTypes, AccountOf

\* The operations of c, all of them or all but one.
LEMMA OpsOfShape ==
  ASSUME OpsInv, NEW c \in Conn
  PROVE  /\ \A kind \in Kinds : <<kind, c>> \in OpsOf(c) <=> <<kind, c>> \in ops
         /\ OpsOf(c) \subseteq {<<"recv", c>>, <<"send", c>>}
BY DEF OpsInv, ConnTypes, OpsOf, Kinds

\* A recv or a send fails, and the connection is closed.
LEMMA RecvFailsShape ==
  ASSUME OpsInv, NEW c \in Conn, RecvFails(c)
  PROVE  \E e : ConnStep(c, e) /\ Ended(c, e)
<1> DEFINE mine == OpsOf(c) \ {<<"recv", c>>}
<1>1. <<"recv", c>> \in ops /\ close_conn(c, AfterRecv(c), mine) /\ loop # "exited"
  BY DEF RecvFails, Harvesting
<1>2. (<<"recv", c>> \in mine <=> FALSE) /\ (<<"send", c>> \in mine <=> <<"send", c>> \in ops)
  BY Zenon, OpsOfShape DEF Kinds
<1>3. Accounted(AfterRecv(c), <<"recv", c>> \in mine, <<"send", c>> \in mine)
  BY <1>1, <1>2, CompletedAccount DEF Accounted
<1>4. mine \in SUBSET OpsOf(c)
  OBVIOUS
<1> HIDE DEF mine
<1>5. QED
  BY Zenon, <1>1, <1>3, <1>4, CompletedAccount, AfterShape, CloseShape

LEMMA SendFailsShape ==
  ASSUME OpsInv, NEW c \in Conn, SendFails(c)
  PROVE  \E e : ConnStep(c, e) /\ Ended(c, e)
<1> DEFINE mine == OpsOf(c) \ {<<"send", c>>}
<1>1. <<"send", c>> \in ops /\ close_conn(c, AfterSend(c), mine) /\ loop # "exited"
  BY DEF SendFails, Harvesting
<1>2. (<<"send", c>> \in mine <=> FALSE) /\ (<<"recv", c>> \in mine <=> <<"recv", c>> \in ops)
  BY Zenon, OpsOfShape DEF Kinds
<1>3. Accounted(AfterSend(c), <<"recv", c>> \in mine, <<"send", c>> \in mine)
  BY <1>1, <1>2, CompletedAccount DEF Accounted
<1>4. mine \in SUBSET OpsOf(c)
  OBVIOUS
<1> HIDE DEF mine
<1>5. QED
  BY Zenon, <1>1, <1>3, <1>4, CompletedAccount, AfterShape, CloseShape

\* An open connection is closed with all its operations in flight.
LEMMA CloseOpen ==
  ASSUME OpsInv, loop # "exited", NEW c \in Conn, Open(c), close_conn(c, conn[c], OpsOf(c))
  PROVE  \E e : ConnStep(c, e) /\ Ended(c, e)
<1>1. Accounted(conn[c], <<"recv", c>> \in OpsOf(c), <<"send", c>> \in OpsOf(c))
  BY OpsOfShape DEF Accounted, Kinds, OpsInv, ConnTypes, AccountOf
<1>2. QED
  BY <1>1, CloseShape DEF OpsInv, ConnTypes, AccountOf, Open

\* A completion for a connection that is closing already.
LEMMA CompleteClosingShape ==
  ASSUME OpsInv, NEW c \in Conn,
         \/ CompleteClosing(c, "recv", AfterRecv(c))
         \/ CompleteClosing(c, "send", AfterSend(c))
  PROVE  \E e : ConnStep(c, e) /\ Ended(c, e)
<1>1. loop # "exited" /\ conn[c].state = "closing"
  BY DEF CompleteClosing, Harvesting
<1>2. CASE CompleteClosing(c, "recv", AfterRecv(c))
  <2> DEFINE e == maybe_finalize(AfterRecv(c))
  <2>1. /\ <<"recv", c>> \in ops /\ ops' = ops \ {<<"recv", c>>}
        /\ conn' = [conn EXCEPT ![c] = e]
    BY <1>2 DEF CompleteClosing
  <2>2. OnlyOps(c)
    BY <2>1 DEF OnlyOps, OpsInv, ConnTypes
  <2>3. Accounted(AfterRecv(c), FALSE, <<"send", c>> \in ops)
    BY Zenon, <1>1, <2>1, CompletedAccount
  <2>4. e \in Connection /\ Ended(c, e) /\ Accounted(e, FALSE, <<"send", c>> \in ops)
    BY <1>1, <2>3, AfterShape, FinalizeShape DEF Ended, Accounted, OpsInv, ConnTypes
  <2> HIDE DEF e
  <2>5. QED
    BY Zenon, <1>1, <2>1, <2>2, <2>4 DEF ConnStep, Accounted
<1>3. CASE CompleteClosing(c, "send", AfterSend(c))
  <2> DEFINE e == maybe_finalize(AfterSend(c))
  <2>1. /\ <<"send", c>> \in ops /\ ops' = ops \ {<<"send", c>>}
        /\ conn' = [conn EXCEPT ![c] = e]
    BY <1>3 DEF CompleteClosing
  <2>2. OnlyOps(c)
    BY <2>1 DEF OnlyOps, OpsInv, ConnTypes
  <2>3. Accounted(AfterSend(c), <<"recv", c>> \in ops, FALSE)
    BY Zenon, <1>1, <2>1, CompletedAccount
  <2>4. e \in Connection /\ Ended(c, e) /\ Accounted(e, <<"recv", c>> \in ops, FALSE)
    BY <1>1, <2>3, AfterShape, FinalizeShape DEF Ended, Accounted, OpsInv, ConnTypes
  <2> HIDE DEF e
  <2>5. QED
    BY Zenon, <1>1, <2>1, <2>2, <2>4 DEF ConnStep, Accounted
<1>4. QED
  BY <1>2, <1>3

\* Data arrives: the connection is parsing, with nothing kept and no recv.
LEMMA RecvDataShape ==
  ASSUME OpsInv, NEW c \in Conn, RecvData(c)
  PROVE  \E e : /\ ConnStep(c, e)
                /\ e.state = "parsing" /\ ~e.recv_op /\ e.send_q = conn[c].send_q
                /\ conn[c].state \in {"active", "parsing"} /\ conn[c].recv_op
<1> DEFINE a == AfterRecv(c)
           e == [a EXCEPT !.state = "parsing", !.rx = 0]
<1>1. /\ <<"recv", c>> \in ops /\ ops' = ops \ {<<"recv", c>>} /\ loop # "exited"
      /\ conn' = [conn EXCEPT ![c] = e] /\ conn[c].state # "closing"
  BY DEF RecvData, Harvesting
<1>2. conn[c] \in Connection /\ Accounted(a, FALSE, <<"send", c>> \in ops)
      /\ conn[c].state \notin {"unborn", "gone"}
  BY Zenon, <1>1, CompletedAccount
<1>3. a \in Connection /\ a.state = conn[c].state /\ a.send_q = conn[c].send_q
  BY <1>2, AfterShape
<1>4. conn[c].recv_op /\ conn[c].state \in {"active", "parsing"}
  BY <1>1, <1>2 DEF OpsInv, AccountOf, Accounted, Connection, States
<1> HIDE DEF a
<1>5. /\ e \in Connection /\ e.state = "parsing" /\ e.send_q = a.send_q
      /\ (e.recv_op <=> a.recv_op) /\ (e.send_op <=> a.send_op)
      /\ e.pending_ops = a.pending_ops
  BY Zenon, <1>3 DEF Connection, States
<1> HIDE DEF e
<1>6. OnlyOps(c)
  BY <1>1 DEF OnlyOps, OpsInv, ConnTypes
<1>7. QED
  BY Zenon, <1>1, <1>2, <1>3, <1>4, <1>5, <1>6 DEF ConnStep, Accounted, Sound, Bit

\* The head of the send queue was written, or a part of it.
LEMMA SentShape ==
  ASSUME OpsInv, NEW c \in Conn, Sent(c)
  PROVE  \E e : /\ ConnStep(c, e) /\ Lives(c, e)
                /\ conn[c].send_q \in Seq(Nat) /\ conn[c].send_q # << >>
                /\ \/ e.send_q = conn[c].send_q /\ delivered' = delivered
                   \/ /\ e.send_q = Tail(conn[c].send_q)
                      /\ delivered' = [delivered EXCEPT
                                         ![c] = Append(@, Head(conn[c].send_q))]
<1> DEFINE a == AfterSend(c)
           q == conn[c].send_q
<1>1. <<"send", c>> \in ops /\ loop # "exited"
  BY DEF Sent, Harvesting
<1>2. /\ conn[c] \in Connection /\ Accounted(a, <<"recv", c>> \in ops, FALSE)
      /\ conn[c].state \notin {"unborn", "gone"}
  BY Zenon, <1>1, CompletedAccount
<1>3. /\ a \in Connection /\ a.state = conn[c].state /\ a.send_q = q /\ a.rx = conn[c].rx
      /\ (a.recv_op <=> conn[c].recv_op)
  BY <1>2, AfterShape
<1>4. q \in Seq(Nat) /\ q # << >>
  BY <1>1, <1>2 DEF OpsInv, AccountOf, Accounted, Sound, Connection
<1>5. PICK whole \in BOOLEAN, ok \in BOOLEAN :
         /\ delivered' = IF whole THEN [delivered EXCEPT ![c] = Append(@, Head(q))] ELSE delivered
         /\ LET k == send_pop(a, whole)
            IN  IF k.send_q # << >> /\ ok
                THEN conn' = [conn EXCEPT ![c] = WithSend(k)] /\ ops' = ops
                ELSE conn' = [conn EXCEPT ![c] = k] /\ ops' = ops \ {<<"send", c>>}
  BY DEF Sent
<1> DEFINE k == send_pop(a, whole)
<1>6. /\ k \in Connection /\ k.state = a.state /\ k.rx = a.rx /\ k.pending_ops = a.pending_ops
      /\ (k.recv_op <=> a.recv_op) /\ (k.send_op <=> a.send_op)
      /\ k.send_q = IF whole THEN Tail(q) ELSE q
  <2> HIDE DEF a, q
  <2>1. Tail(q) \in Seq(Nat)
    BY <1>4
  <2>2. CASE whole
    BY Zenon, <1>3, <2>1, <2>2 DEF send_pop, Connection
  <2>3. CASE ~whole
    BY Zenon, <1>3, <2>3 DEF send_pop, Connection
  <2>4. QED
    BY <2>2, <2>3
<1>7. Accounted(k, <<"recv", c>> \in ops, FALSE)
  <2> HIDE DEF k, a
  <2>1. QED
    BY <1>2, <1>3, <1>6 DEF Accounted, Sound, Bit
<1>8. \/ k.send_q # << >> /\ conn' = [conn EXCEPT ![c] = WithSend(k)] /\ ops' = ops
      \/ conn' = [conn EXCEPT ![c] = k] /\ ops' = ops \ {<<"send", c>>}
  BY <1>5
<1>9. delivered' = IF whole THEN [delivered EXCEPT ![c] = Append(@, Head(q))] ELSE delivered
  BY <1>5
<1> HIDE DEF k, a
<1>10. CASE k.send_q # << >> /\ conn' = [conn EXCEPT ![c] = WithSend(k)] /\ ops' = ops
  <2>1. /\ WithSend(k) \in Connection /\ WithSend(k).state = k.state
        /\ WithSend(k).rx = k.rx /\ WithSend(k).send_q = k.send_q
        /\ WithSend(k).send_op /\ (WithSend(k).recv_op <=> k.recv_op)
        /\ WithSend(k).pending_ops = k.pending_ops + 1
    BY <1>6, WithShape
  <2>2. Accounted(WithSend(k), <<"recv", c>> \in ops', <<"send", c>> \in ops')
    BY <1>1, <1>2, <1>3, <1>6, <1>7, <1>10, <2>1 DEF Accounted, Sound, Bit
  <2>3. ConnStep(c, WithSend(k)) /\ Lives(c, WithSend(k))
    BY <1>2, <1>3, <1>6, <1>8, <1>10, <2>1, <2>2 DEF ConnStep, Lives, OnlyOps, OpsInv,
       ConnTypes
  <2>4. QED
    BY <1>4, <1>6, <1>9, <2>1, <2>3
<1>11. CASE conn' = [conn EXCEPT ![c] = k] /\ ops' = ops \ {<<"send", c>>}
  <2>1. ConnStep(c, k) /\ Lives(c, k)
    BY <1>2, <1>3, <1>6, <1>8, <1>11, <1>7 DEF ConnStep, Lives, OnlyOps, OpsInv,
       ConnTypes, Accounted
  <2>2. QED
    BY <1>4, <1>6, <1>9, <2>1
<1>12. QED
  BY <1>8, <1>10, <1>11

\* A reply joins the send queue of an open connection, or the backlog is full and
\* the connection is closed.
LEMMA PushShape ==
  ASSUME OpsInv, loop # "exited", NEW c \in Conn, NEW f \in Nat, Open(c), push_response(c, f)
  PROVE  \E e : /\ ConnStep(c, e)
                /\ \/ Ended(c, e)
                   \/ Lives(c, e) /\ e.send_q = Append(conn[c].send_q, f)
<1> DEFINE q == Append(conn[c].send_q, f)
           k == [conn[c] EXCEPT !.send_q = q]
<1>1. /\ conn[c] \in Connection /\ conn[c].state \notin {"unborn", "gone"}
      /\ Accounted(conn[c], <<"recv", c>> \in ops, <<"send", c>> \in ops)
  BY DEF OpsInv, ConnTypes, AccountOf, Open
<1>2. q \in Seq(Nat) /\ q # << >>
  <2>1. \A s \in Seq(Nat) : Append(s, f) \in Seq(Nat) /\ Append(s, f) # << >>
    OBVIOUS
  <2>2. QED
    BY Zenon, <2>1, <1>1 DEF Connection
<1>3. \/ close_conn(c, conn[c], OpsOf(c))
      \/ /\ ~conn[c].send_op /\ conn' = [conn EXCEPT ![c] = WithSend(k)]
         /\ ops' = ops \cup {<<"send", c>>}
      \/ conn' = [conn EXCEPT ![c] = k] /\ ops' = ops
  BY Zenon DEF push_response
<1> HIDE DEF q
<1>4. /\ k \in Connection /\ k.state = conn[c].state /\ k.rx = conn[c].rx
      /\ k.pending_ops = conn[c].pending_ops /\ k.send_q = q
      /\ (k.recv_op <=> conn[c].recv_op) /\ (k.send_op <=> conn[c].send_op)
  BY Zenon, <1>1, <1>2 DEF Connection
<1> HIDE DEF k
<1>5. Accounted(k, <<"recv", c>> \in ops, <<"send", c>> \in ops)
  BY <1>1, <1>2, <1>4 DEF Accounted, Sound, Bit
<1>6. CASE close_conn(c, conn[c], OpsOf(c))
  BY <1>6, CloseOpen
<1>7. CASE /\ ~conn[c].send_op /\ conn' = [conn EXCEPT ![c] = WithSend(k)]
           /\ ops' = ops \cup {<<"send", c>>}
  <2>1. OnlyOps(c)
    BY <1>7 DEF OnlyOps, OpsInv, ConnTypes, Kinds
  <2>2. ConnStep(c, WithSend(k)) /\ Lives(c, WithSend(k)) /\ WithSend(k).send_q = q
    BY <1>1, <1>4, <1>7, WithShape, <1>2, <1>5, <2>1 DEF ConnStep, Lives, Accounted,
       Sound, Bit
  <2>3. QED
    BY <2>2 DEF q
<1>8. CASE conn' = [conn EXCEPT ![c] = k] /\ ops' = ops
  BY Zenon, <1>1, <1>4, <1>5, <1>8 DEF OnlyOps, OpsInv, ConnTypes, ConnStep, Lives, q
<1>9. QED
  BY <1>3, <1>6, <1>7, <1>8

\* The batch of a connection comes back, and recv is submitted again, or the
\* connection is closed.  That no recv is in flight is BatchInv's.
LEMMA RearmShape ==
  ASSUME OpsInv, NEW c \in Conn, RearmRecv, c = Head(items).conn, ~conn[c].recv_op,
         loop # "exited", Head(items).data \in Nat
  PROVE  \E e : /\ ConnStep(c, e)
                /\ \/ Ended(c, e)
                   \/ /\ e.state = "active" /\ e.recv_op /\ e.rx = Head(items).data
                      /\ e.send_q = conn[c].send_q
<1> DEFINE n == Head(items).data
           k == [conn[c] EXCEPT !.rx = n, !.state = "active"]
           x == [k EXCEPT !.state = "closing"]
<1>1. /\ conn[c] \in Connection /\ conn[c].state \notin {"unborn", "gone"}
      /\ Accounted(conn[c], <<"recv", c>> \in ops, <<"send", c>> \in ops)
  BY DEF OpsInv, ConnTypes, AccountOf, Open, RearmRecv
<1>2. \/ close_conn(c, conn[c], OpsOf(c))
      \/ conn' = [conn EXCEPT ![c] = WithRecv(k)] /\ ops' = ops \cup {<<"recv", c>>}
      \/ conn' = [conn EXCEPT ![c] = maybe_finalize(x)] /\ ops' = ops
  BY DEF RearmRecv
<1>3. n \in Nat
  OBVIOUS
<1> HIDE DEF n
<1>4. /\ k \in Connection /\ k.state = "active" /\ k.rx = n
      /\ k.pending_ops = conn[c].pending_ops /\ k.send_q = conn[c].send_q
      /\ (k.recv_op <=> conn[c].recv_op) /\ (k.send_op <=> conn[c].send_op)
  BY Zenon, <1>1, <1>3 DEF Connection, States
<1> HIDE DEF k
<1>5. CASE close_conn(c, conn[c], OpsOf(c))
  BY <1>5, CloseOpen DEF RearmRecv
<1>6. CASE conn' = [conn EXCEPT ![c] = WithRecv(k)] /\ ops' = ops \cup {<<"recv", c>>}
  <2>1. ConnStep(c, WithRecv(k))
    BY <1>1, <1>6, WithShape, <1>4 DEF ConnStep, Accounted, Sound, Bit, OnlyOps, OpsInv,
       ConnTypes, Kinds
  <2>2. QED
    BY <1>4, WithShape, <2>1 DEF n
<1>7. CASE conn' = [conn EXCEPT ![c] = maybe_finalize(x)] /\ ops' = ops
  <2>1. /\ x \in Connection /\ x.state = "closing" /\ x.send_q = conn[c].send_q
        /\ x.pending_ops = k.pending_ops
        /\ (x.recv_op <=> k.recv_op) /\ (x.send_op <=> k.send_op)
    BY <1>4 DEF Connection, States
  <2> HIDE DEF x
  <2>2. Accounted(x, <<"recv", c>> \in ops, <<"send", c>> \in ops)
    BY <1>4, <1>1, <2>1 DEF Accounted, Sound, Bit
  <2> DEFINE e == maybe_finalize(x)
  <2>3. e \in Connection /\ Ended(c, e) /\ Accounted(e, <<"recv", c>> \in ops, <<"send", c>> \in ops)
    BY <2>1, <2>2, FinalizeShape DEF Ended, Accounted
  <2> HIDE DEF e
  <2>4. QED
    BY Zenon, <2>3, <1>1, <1>7 DEF ConnStep, e, OnlyOps, OpsInv, ConnTypes
<1>8. QED
  BY <1>2, <1>5, <1>6, <1>7

\* The steps that end a connection and touch no queue.
LEMMA EndingKeeps ==
  ASSUME OpsInv, NEW c \in Conn,
         \/ CompleteClosing(c, "recv", AfterRecv(c)) \/ RecvFails(c)
         \/ CompleteClosing(c, "send", AfterSend(c)) \/ SendFails(c)
         \/ SweepIdle(c) \/ ReapClose(c)
  PROVE  /\ OpsInv' /\ loop # "exited"
         /\ \E e : ConnStep(c, e) /\ Ended(c, e)
         /\ UNCHANGED <<next_conn_id, loop, items, outbox, posted, work, owed, rsp, received,
                        handled, delivered>>
<1>1. /\ UNCHANGED <<next_conn_id, loop, items, outbox, posted, work, owed, rsp, received,
                     handled, delivered>>
      /\ loop # "exited"
  BY DEF RecvFails, SendFails, Harvesting, workerVars, CompleteClosing, loopVars,
     SweepIdle, ReapClose
<1>2. QueueTypes'
  BY <1>1 DEF OpsInv, QueueTypes
<1>3. QED
  BY <1>1, CloseOpen, CompleteClosingShape, RecvFailsShape, SendFailsShape, <1>2,
     OneConn DEF SweepIdle, ReapClose

\* Data goes to the pool as one batch.
LEMMA RecvDataKeeps ==
  ASSUME OpsInv, NEW c \in Conn, RecvData(c)
  PROVE  OpsInv'
<1>1. /\ UNCHANGED <<next_conn_id, loop, items, outbox, work, owed, rsp, handled, delivered>>
      /\ loop # "exited"
  BY DEF RecvData, Harvesting, loopVars
<1>2. PICK n \in 1 .. MaxRecv :
         /\ received' = [received EXCEPT ![c] = @ + n]
         /\ posted' = Append(posted, [conn |-> c, halves |-> conn[c].rx + n])
  BY Zenon DEF RecvData
<1>3. conn[c].rx + n \in Nat /\ received[c] + n \in Nat
  BY BoundsAssumption DEF OpsInv, ConnTypes, QueueTypes, Connection
<1>4. posted' \in Seq(Batch) /\ received' \in [Conn -> Nat]
  BY <1>2, <1>3 DEF OpsInv, QueueTypes, Batch
<1>5. QueueTypes'
  BY <1>1, <1>4 DEF OpsInv, QueueTypes
<1>6. QED
  BY <1>1, <1>5, RecvDataShape, OneConn

\* A reply goes out.
LEMMA SentKeeps ==
  ASSUME OpsInv, NEW c \in Conn, Sent(c)
  PROVE  OpsInv'
<1>1. /\ UNCHANGED <<next_conn_id, loop, items, outbox, posted, work, owed, rsp, received, handled>>
      /\ loop # "exited"
  BY DEF Sent, Harvesting, workerVars
<1>2. delivered' \in [Conn -> Seq(Nat)]
  <2>1. delivered \in [Conn -> Seq(Nat)]
    BY DEF OpsInv, QueueTypes
  <2>2. Append(delivered[c], Head(conn[c].send_q)) \in Seq(Nat)
    BY <2>1, SentShape
  <2>3. QED
    BY Zenon, <2>1, <2>2, SentShape
<1>3. QED
  BY Zenon, <1>1, <1>2, SentShape, OneConn DEF OpsInv, QueueTypes

\* What every item of the outbox leaves alone, and its own form.
LEMMA ItemShape ==
  ASSUME OpsInv, NEW kind, NextItem(kind)
  PROVE  /\ items # << >> /\ Head(items) \in Item /\ items' = Tail(items)
         /\ Head(items) = items[1] /\ Head(items).kind = kind
         /\ loop # "exited" /\ QueueTypes'
         /\ UNCHANGED <<next_conn_id, loop, outbox, posted, work, owed, rsp, received, handled,
                        delivered>>
  BY DEF OpsInv, QueueTypes, NextItem, workerVars

\* The connection of a batch that comes back has no recv in flight.
LEMMA RearmedIdle ==
  ASSUME OpsInv, BatchInv, RearmRecv
  PROVE  /\ Head(items).conn \in Conn /\ Head(items).data \in Nat
         /\ conn[Head(items).conn].state = "parsing" /\ ~conn[Head(items).conn].recv_op
         /\ 1 \in BackIn(items, Head(items).conn)
<1> DEFINE c == Head(items).conn
<1>1. items # << >> /\ Head(items) \in Item /\ Head(items) = items[1] /\ Head(items).kind = "rearm"
  BY ItemShape DEF RearmRecv
<1>2. 1 \in BackIn(items, c)
  BY <1>1 DEF OpsInv, QueueTypes, BackIn
<1>3. QED
  BY <1>1, <1>2 DEF BatchInv, Owns, Item, Open, RearmRecv, NoneOf

\* An item of the outbox.
LEMMA ItemKeeps ==
  ASSUME OpsInv, BatchInv, DispatchItem
  PROVE  OpsInv'
<1> DEFINE c == Head(items).conn
<1>1. CASE DropItem
  BY <1>1, ItemShape, SameConns DEF DropItem
<1>2. CASE Respond
  BY <1>2, ItemShape, OneConn, PushShape DEF Respond, Item
<1>3. CASE RearmRecv
  <2>1. NextItem("rearm")
    BY <1>3 DEF RearmRecv
  <2>2. PICK e : ConnStep(c, e)
    BY <1>3, <2>1, ItemShape, RearmedIdle, RearmShape
  <2>3. QED
    BY <1>3, <2>1, <2>2, ItemShape, RearmedIdle, OneConn
<1>4. CASE CloseItem
  BY <1>4, CloseOpen, ItemShape, OneConn DEF CloseItem, Item
<1>5. QED
  BY <1>1, <1>2, <1>3, <1>4 DEF DispatchItem

\* A slot of the response ring.
LEMMA ResponseKeeps ==
  ASSUME OpsInv, Response
  PROVE  /\ OpsInv' /\ rsp # << >> /\ loop # "exited"
         /\ UNCHANGED <<next_conn_id, loop, items, outbox, posted, work, owed, received, handled,
                        delivered>>
         /\ \/ UNCHANGED <<conn, ops>>
            \/ \E c \in Conn : \E e : ConnStep(c, e) /\ (Ended(c, e) \/ Lives(c, e))
<1> DEFINE c == Head(rsp)[1]
<1>1. /\ UNCHANGED <<next_conn_id, loop, items, outbox, posted, work, owed, received, handled,
                     delivered>>
      /\ rsp # << >> /\ rsp' = Tail(rsp) /\ loop # "exited"
      /\ \/ Open(c) /\ push_response(c, Head(rsp)[2])
         \/ UNCHANGED <<conn, ops>>
  BY DEF Response, Harvesting, workerVars
<1>2. rsp \in Seq(Conn \X Nat)
  BY DEF OpsInv, QueueTypes
<1>3. Head(rsp) \in Conn \X Nat /\ Tail(rsp) \in Seq(Conn \X Nat)
  BY <1>1, <1>2
<1>4. QueueTypes'
  BY Zenon, <1>1, <1>3 DEF OpsInv, QueueTypes
<1>5. CASE UNCHANGED <<conn, ops>>
  BY <1>1, <1>4, <1>5, SameConns
<1>6. CASE Open(c) /\ push_response(c, Head(rsp)[2])
  BY <1>1, <1>4, <1>3, <1>6, OneConn, PushShape
<1>7. QED
  BY <1>1, <1>5, <1>6

\* An empty Connection in a state of its own.
LEMMA UnbornShape ==
  ASSUME NEW st \in States
  PROVE  \A x : x = [Unborn EXCEPT !.state = st] =>
           /\ x \in Connection /\ x.state = st /\ ~x.recv_op /\ ~x.send_op
           /\ x.pending_ops = 0 /\ x.rx = 0 /\ x.send_q = << >>
<1> DEFINE r == [state |-> st, recv_op |-> FALSE, send_op |-> FALSE, pending_ops |-> 0,
                 rx |-> 0, send_q |-> << >>, partial |-> FALSE]
<1>1. /\ r \in Connection /\ r.state = st /\ ~r.recv_op /\ ~r.send_op
      /\ r.pending_ops = 0 /\ r.rx = 0 /\ r.send_q = << >>
  BY DEF Connection
<1>2. ASSUME NEW x, x = [Unborn EXCEPT !.state = st] PROVE x = r
  BY Zenon, <1>2 DEF Unborn
<1> HIDE DEF r
<1>3. QED
  BY Zenon, <1>1, <1>2

\* A connection is accepted under the next id, and its first recv is submitted or
\* it is given up.
LEMMA AcceptedKeeps ==
  ASSUME OpsInv, Accepted
  PROVE  /\ OpsInv' /\ next_conn_id \in Conn /\ loop # "exited"
         /\ conn[next_conn_id].state = "unborn"
         /\ UNCHANGED <<items, outbox, posted, work, owed, rsp, received, handled, delivered>>
         /\ \E e \in Connection :
              /\ conn' = [conn EXCEPT ![next_conn_id] = e]
              /\ e.state = "gone" \/ (e.state = "active" /\ e.recv_op)
              /\ e.rx = 0 /\ e.send_q = << >>
<1> DEFINE c == next_conn_id
           born == [Unborn EXCEPT !.state = "active"]
           gone == [Unborn EXCEPT !.state = "gone"]
<1>1. /\ UNCHANGED <<items, outbox, posted, work, owed, rsp, received, handled, delivered, loop>>
      /\ loop # "exited" /\ c <= MaxConns /\ next_conn_id' = c + 1
  BY DEF Accepted, Harvesting, workerVars
<1>2. c \in Conn
  BY <1>1, BoundsAssumption DEF OpsInv, ConnTypes, Conn
<1>3. conn[c].state = "unborn"
  BY <1>2 DEF OpsInv, Conn
<1>4. QueueTypes'
  BY <1>1 DEF OpsInv, QueueTypes
<1>5. <<"recv", c>> \notin ops /\ <<"send", c>> \notin ops
  BY <1>1, <1>2, <1>3 DEF OpsInv, AccountOf, Accounted, Sound
<1>6. PICK first \in BOOLEAN :
         /\ conn' = [conn EXCEPT ![c] = IF first THEN WithRecv(born) ELSE gone]
         /\ ops' = IF first THEN ops \cup {<<"recv", c>>} ELSE ops
  BY Zenon DEF Accepted
<1>7. /\ born \in Connection /\ born.state = "active" /\ ~born.send_op
      /\ born.pending_ops = 0 /\ born.rx = 0 /\ born.send_q = << >>
  BY Zenon, UnbornShape DEF States
<1>8. /\ gone \in Connection /\ gone.state = "gone" /\ ~gone.send_op /\ ~gone.recv_op
      /\ gone.pending_ops = 0 /\ gone.rx = 0 /\ gone.send_q = << >>
  BY Zenon, UnbornShape DEF States
<1> HIDE DEF born, gone
<1>9. /\ WithRecv(born) \in Connection /\ WithRecv(born).state = "active"
      /\ WithRecv(born).rx = 0 /\ WithRecv(born).send_q = << >>
      /\ WithRecv(born).recv_op /\ ~WithRecv(born).send_op
      /\ WithRecv(born).pending_ops = 1
  BY <1>7, WithShape
<1> DEFINE e == IF first THEN WithRecv(born) ELSE gone
<1>10. /\ e \in Connection /\ (e.state = "gone" \/ (e.state = "active" /\ e.recv_op))
       /\ e.rx = 0 /\ e.send_q = << >> /\ e.state # "unborn"
  BY <1>8, <1>9
<1>11. OnlyOps(c)
  BY <1>2, <1>6 DEF OnlyOps, OpsInv, ConnTypes, Kinds
<1>12. Accounted(e, <<"recv", c>> \in ops', <<"send", c>> \in ops')
  BY <1>5, <1>6, <1>8, <1>9 DEF Accounted, Sound, Bit
<1>13. conn' = [conn EXCEPT ![c] = e]
  BY <1>6
<1> HIDE DEF e
<1>14. ASSUME NEW d \in Conn PROVE AccountOf(d)'
  BY <1>1, <1>11, <1>12, <1>2, <1>10, <1>13 DEF AccountOf, OnlyOps, Kinds, OpsInv,
     Accounted, ConnTypes
<1>15. OpsInv'
  BY <1>1, <1>4, <1>11, <1>2, <1>10, <1>13, <1>14 DEF OpsInv, ConnTypes, OnlyOps, Conn
<1>16. QED
  BY Zenon, <1>1, <1>2, <1>3, <1>10, <1>13, <1>15

\* The engine exits; what was closing is erased with it.
LEMMA ExitKeeps ==
  ASSUME OpsInv, Exit
  PROVE  /\ OpsInv'
         /\ UNCHANGED <<items, outbox, posted, work, owed, rsp, received, handled, delivered>>
         /\ \A c \in Conn :
              /\ conn'[c].state \in {"unborn", "gone"}
              /\ conn'[c].state = "unborn" => conn[c].state = "unborn"
              /\ conn'[c].send_q \in {conn[c].send_q, << >>}
<1> DEFINE gone == [Unborn EXCEPT !.state = "gone"]
<1>1. /\ UNCHANGED <<items, outbox, posted, work, owed, rsp, received, handled, delivered,
                     ops, next_conn_id>>
      /\ items = << >> /\ loop' = "exited"
      /\ \A c \in Conn : ~Open(c)
      /\ conn' = [c \in Conn |-> IF Alive(c) THEN gone ELSE conn[c]]
  BY DEF Exit, Harvesting, workerVars, kernelVars
<1>2. gone \in Connection /\ gone.state = "gone" /\ gone.send_q = << >>
  BY Zenon, UnbornShape DEF States
<1> HIDE DEF gone
<1>3. ConnTypes' /\ QueueTypes'
  BY <1>1, <1>2 DEF OpsInv, ConnTypes, QueueTypes
<1>4. ASSUME NEW c \in Conn
      PROVE  /\ conn'[c].state \in {"unborn", "gone"}
             /\ conn'[c].state = "unborn" <=> conn[c].state = "unborn"
             /\ conn'[c].send_q \in {conn[c].send_q, << >>}
  BY <1>1, <1>2 DEF OpsInv, ConnTypes, Connection, Alive, States
<1>5. QED
  BY <1>1, <1>4, <1>3 DEF OpsInv

\* The steps of the main thread that move nothing.
LEMMA QuietKeeps ==
  ASSUME OpsInv,
         \/ AcceptRefused \/ AcceptFails \/ EventfdRead
         \/ RequestStop \/ BeginDrain \/ LeaveLoop \/ WaitFails
  PROVE  /\ OpsInv'
         /\ UNCHANGED <<conn, items, outbox, posted, work, owed, rsp, received, handled, delivered>>
<1>1. /\ UNCHANGED <<conn, items, outbox, posted, work, owed, rsp, received, handled, delivered,
                     ops, next_conn_id>>
      /\ loop' = "exited" <=> loop = "exited"
  <2>1. CASE AcceptRefused \/ AcceptFails \/ EventfdRead
    BY <2>1 DEF AcceptRefused, AcceptFails, EventfdRead, workerVars, loopVars
  <2>2. CASE RequestStop \/ BeginDrain
    BY <2>2 DEF RequestStop, BeginDrain, workerVars, kernelVars
  <2>3. CASE LeaveLoop \/ WaitFails
    BY <2>3 DEF LeaveLoop, WaitFails, workerVars, kernelVars
  <2>4. QED
    BY <2>1, <2>2, <2>3
<1>2. QueueTypes'
  BY <1>1 DEF OpsInv, QueueTypes
<1>3. QED
  BY <1>1, <1>2, SameConns

\* The main thread takes the outbox.
LEMMA WakeupKeeps ==
  ASSUME OpsInv, Wakeup
  PROVE  /\ OpsInv' /\ items = << >> /\ items' = outbox /\ outbox' = << >>
         /\ UNCHANGED <<conn, posted, work, owed, rsp, received, handled, delivered>>
<1>1. QueueTypes'
  BY DEF OpsInv, QueueTypes, Wakeup, Harvesting, workerVars
<1>2. QED
  BY <1>1, SameConns DEF Wakeup, Harvesting, workerVars

\* The workers and the dispatch process leave the main thread's state alone.
LEMMA WorkerTypes ==
  ASSUME OpsInv, NEW w \in Worker, WorkerStep(w)
  PROVE  /\ QueueTypes'
         /\ UNCHANGED <<conn, next_conn_id, ops, loop, items, rsp, received, delivered>>
<1>1. UNCHANGED <<conn, next_conn_id, ops, loop, items, rsp, received, delivered>>
  <2>1. CASE TakeBatch(w) \/ HandleFrame(w)
    BY Zenon, <2>1 DEF TakeBatch, HandleFrame, mainVars, kernelVars, loopVars
  <2>2. CASE HandleRefused(w) \/ FinishBatch(w) \/ Signal(w)
    BY Zenon, <2>2 DEF HandleRefused, FinishBatch, Signal, mainVars, kernelVars,
       loopVars
  <2>3. QED
    BY <2>1, <2>2 DEF WorkerStep
<1>2. /\ outbox \in Seq(Item) /\ posted \in Seq(Batch) /\ work \in [Worker -> Job \cup {NoBatch}]
      /\ handled \in [Conn -> Nat] /\ owed \subseteq Conn \X Nat
  BY DEF OpsInv, QueueTypes
<1> DEFINE j == work[w]
<1>3. j # NoBatch => j \in Job /\ j.conn \in Conn /\ j.frames \in Nat /\ j.left \in Nat
  BY <1>2 DEF Job
<1>4. ASSUME NEW kind \in {"respond", "rearm", "close"}, NEW data \in Nat,
             NEW finished \in BOOLEAN, NEW left \in Nat, j # NoBatch,
             Push(w, kind, data, finished, left)
      PROVE  outbox' \in Seq(Item) /\ work' \in [Worker -> Job \cup {NoBatch}]
  <2>1. [j EXCEPT !.signal = TRUE, !.finished = finished, !.frames = left] \in Job
    BY Zenon, <1>3, <1>4 DEF Job
  <2>2. QED
    BY <1>2, <1>4, <1>3, <2>1 DEF Push, Item
<1>5. outbox' \in Seq(Item) /\ posted' \in Seq(Batch) /\ work' \in [Worker -> Job \cup {NoBatch}]
      /\ handled' \in [Conn -> Nat] /\ owed' \subseteq Conn \X Nat
  <2>1. CASE TakeBatch(w)
    <3> DEFINE n == Head(posted).halves
               b == [conn |-> Head(posted).conn, frames |-> n \div 2, left |-> n % 2,
                     signal |-> FALSE, finished |-> FALSE]
    <3>1. /\ posted # << >> /\ posted' = Tail(posted) /\ work' = [work EXCEPT ![w] = b]
          /\ UNCHANGED <<outbox, owed, handled>>
      BY <2>1 DEF TakeBatch
    <3>2. Head(posted) \in Batch /\ Tail(posted) \in Seq(Batch)
      BY <1>2, <3>1
    <3>3. Head(posted).conn \in Conn /\ n \in Nat
      BY <3>2 DEF Batch
    <3>4. n \div 2 \in Nat /\ n % 2 \in Nat
      BY <3>3
    <3>5. b \in Job
      BY <3>3, <3>4 DEF Job
    <3> HIDE DEF b
    <3>6. QED
      BY <1>2, <3>1, <3>2, <3>5
  <2>2. CASE HandleFrame(w)
    <3> DEFINE f == handled[j.conn] + 1
    <3>1. /\ j # NoBatch /\ j.frames > 0 /\ handled' = [handled EXCEPT ![j.conn] = f]
          /\ posted' = posted
          /\ \/ Push(w, "respond", f, FALSE, j.frames - 1) /\ UNCHANGED owed
             \/ /\ owed' = owed \cup {<<j.conn, f>>} /\ work' = [work EXCEPT ![w].frames = @ - 1]
                /\ UNCHANGED outbox
             \/ work' = [work EXCEPT ![w].frames = @ - 1] /\ UNCHANGED <<outbox, owed>>
      BY Zenon, <2>2 DEF HandleFrame, Busy
    <3>2. f \in Nat /\ j.frames - 1 \in Nat
      BY <1>2, <1>3, <3>1
    <3>3. handled' \in [Conn -> Nat]
      BY Zenon, <1>2, <3>1, <3>2
    <3>4. [j EXCEPT !.frames = j.frames - 1] \in Job
      <4> DEFINE m == j.frames - 1
      <4> HIDE DEF m
      <4>1. QED
        BY <1>3, <3>1, <3>2 DEF m, Job
    <3>5. CASE Push(w, "respond", f, FALSE, j.frames - 1) /\ UNCHANGED owed
      BY Zenon, <1>2, <1>4, <3>1, <3>2, <3>3, <3>5
    <3>6. CASE work' = [work EXCEPT ![w].frames = @ - 1] /\ outbox' = outbox
      <4>1. owed' \subseteq Conn \X Nat
        <5>1. owed' = owed \/ owed' = owed \cup {<<j.conn, f>>}
          BY Zenon, <3>1
        <5>2. <<j.conn, f>> \in Conn \X Nat
          BY <1>3, <3>1, <3>2
        <5> HIDE DEF f
        <5>3. QED
          BY <1>2, <5>1, <5>2
      <4>2. QED
        BY <1>2, <3>1, <3>3, <3>6, <3>4, <4>1
    <3>7. QED
      BY Zenon, <3>1, <3>5, <3>6
  <2>3. CASE HandleRefused(w) \/ FinishBatch(w)
    <3>1. /\ j # NoBatch /\ UNCHANGED <<posted, owed, handled>>
          /\ Push(w, "close", 0, TRUE, 0) \/ Push(w, "rearm", j.left, TRUE, 0)
      BY Zenon, <2>3 DEF HandleRefused, FinishBatch, Busy
    <3>2. QED
      BY Zenon, <1>2, <1>3, <1>4, <3>1
  <2>4. CASE Signal(w)
    BY Zenon, <1>2, <1>3, <2>4 DEF Signal, Job
  <2>5. QED
    BY <2>1, <2>2, <2>3, <2>4 DEF WorkerStep
<1>6. QED
  BY <1>1, <1>5 DEF OpsInv, QueueTypes

\* Every step keeps the account, given that a batch owns its connection.
LEMMA OpsStep ==
  ASSUME OpsInv, BatchInv, [Next]_vars
  PROVE  OpsInv'
<1>1. ASSUME NEW w \in Worker, WorkerStep(w) PROVE OpsInv'
  BY <1>1, WorkerTypes, SameConns
<1>2. CASE DispatchReplies
  <2>1. PICK x \in owed : owed' = owed \ {x} /\ (rsp' = Append(rsp, x) \/ rsp' = rsp)
    BY <1>2 DEF DispatchReplies
  <2>2. UNCHANGED <<conn, next_conn_id, ops, loop, items, outbox, posted, work, handled, received,
                    delivered>>
    BY <1>2 DEF DispatchReplies, kernelVars, loopVars
  <2>3. rsp' \in Seq(Conn \X Nat) /\ owed' \subseteq Conn \X Nat
    <3> DEFINE S == Conn \X Nat
    <3> HIDE DEF S
    <3>1. owed \subseteq S /\ rsp \in Seq(S)
      BY DEF S, OpsInv, QueueTypes
    <3>2. rsp' \in Seq(S) /\ owed' \subseteq S
      BY <2>1, <3>1
    <3>3. QED
      BY <3>2 DEF S
  <2>4. QueueTypes'
    BY <2>2, <2>3 DEF OpsInv, QueueTypes
  <2>5. QED
    BY <2>2, <2>4, SameConns
<1>3. ASSUME NEW c \in Conn, CompleteRecv(c) \/ CompleteSend(c) \/ SweepIdle(c) \/ ReapClose(c)
      PROVE  OpsInv'
  BY <1>3, EndingKeeps, RecvDataKeeps, SentKeeps DEF CompleteRecv, CompleteSend
<1>4. CASE UNCHANGED vars
  <2>1. UNCHANGED <<conn, next_conn_id, ops, loop>> /\ QueueTypes' /\ items' = items
    BY <1>4 DEF OpsInv, QueueTypes, vars, kernelVars, workerVars, loopVars
  <2>2. QED
    BY <2>1, SameConns
<1>5. QED
  BY <1>1, <1>2, <1>3, <1>4, QuietKeeps, AcceptedKeeps, WakeupKeeps, ItemKeeps,
     ResponseKeeps, ExitKeeps DEF Next

-----------------------------------------------------------------------------
(* The way of a batch.                                                     *)

\* As many places as before, as far as none and at most one go.
Kin(T, S) == (T = {} <=> S = {}) /\ (AtMostOne(S) => AtMostOne(T))

Alike(c) ==
  /\ Kin(PostedOf(c)', PostedOf(c)) /\ Kin(WorkOf(c)', WorkOf(c))
  /\ Kin(BackIn(outbox, c)', BackIn(outbox, c)) /\ Kin(BackIn(items, c)', BackIn(items, c))

\* No connection of an unborn id has a batch, and there is none at the start.
LEMMA BatchInitially == Init => BatchInv
<1> SUFFICES ASSUME Init PROVE BatchInv
  OBVIOUS
<1>1. ASSUME NEW c \in Conn PROVE NoneOf(c)
  BY DEF Init, NoneOf, PostedOf, WorkOf, BackIn
<1>2. ASSUME NEW c \in Conn PROVE OneBatch(c)
  BY <1>1 DEF NoneOf, OneBatch, AtMostOne
<1>3. QED
  BY <1>1, <1>2 DEF BatchInv, Owns, ReportsLast, Init, Unborn

\* A step that keeps the batches of c, and its state or closes it.
LEMMA AlikeKeeps ==
  ASSUME NEW c, Owns(c), Alike(c),
         \/ conn'[c].state \in {"closing", "gone"}
         \/ conn'[c].state = conn[c].state /\ (conn'[c].recv_op <=> conn[c].recv_op)
         \/ conn[c].state = "unborn" /\ conn'[c].state = "active" /\ conn'[c].recv_op
  PROVE  Owns(c)'
  BY DEF Owns, Alike, Kin, NoneOf, OneBatch

\* Nothing moves.
LEMMA StillAlike ==
  ASSUME UNCHANGED <<items, outbox, posted, work>>, NEW c
  PROVE  Alike(c)
BY DEF Alike, Kin, PostedOf, WorkOf, BackIn

\* The batch of c is taken out of its last place.
LEMMA GoneKeeps ==
  ASSUME NEW c, NoneOf(c)', conn'[c].state # "parsing",
         conn'[c].state = "active" => conn'[c].recv_op
  PROVE  Owns(c)'
BY DEF Owns, OneBatch, NoneOf, AtMostOne

\* What dequeuing does to positions.
Shift(S) == {i \in Nat \ {0} : i + 1 \in S}

LEMMA ShiftKin ==
  ASSUME NEW S \in SUBSET (Nat \ {0}), 1 \notin S
  PROVE  Kin(Shift(S), S)
<1>1. ASSUME NEW i \in S PROVE i - 1 \in Shift(S)
  BY DEF Shift
<1>2. ASSUME NEW i \in Shift(S) PROVE i + 1 \in S
  BY DEF Shift
<1>3. AtMostOne(S) => AtMostOne(Shift(S))
  BY <1>2 DEF AtMostOne, Shift
<1>4. QED
  BY Zenon, <1>1, <1>2, <1>3 DEF Kin

LEMMA ShiftOut ==
  ASSUME NEW S \in SUBSET (Nat \ {0}), 1 \in S, AtMostOne(S)
  PROVE  Shift(S) = {}
BY DEF Shift, AtMostOne

LEMMA PostedTail ==
  ASSUME OpsInv, posted # << >>, posted' = Tail(posted), NEW c
  PROVE  /\ PostedOf(c)' = Shift(PostedOf(c)) /\ PostedOf(c) \in SUBSET (Nat \ {0})
         /\ 1 \in PostedOf(c) <=> Head(posted).conn = c
<1>1. posted \in Seq(Batch) /\ Len(posted) \in Nat \ {0}
  BY DEF OpsInv, QueueTypes
<1>2. QED
  BY <1>1 DEF PostedOf, Shift

LEMMA BackTail ==
  ASSUME NEW s \in Seq(Item), s # << >>, NEW c
  PROVE  /\ BackIn(Tail(s), c) = Shift(BackIn(s, c)) /\ BackIn(s, c) \in SUBSET (Nat \ {0})
         /\ 1 \in BackIn(s, c) <=> Head(s).conn = c /\ Head(s).kind # "respond"
  BY DEF BackIn, Shift

LEMMA BackAppend ==
  ASSUME NEW s \in Seq(Item), NEW x \in Item, NEW c
  PROVE  /\ x.conn = c /\ x.kind # "respond" =>
              BackIn(Append(s, x), c) = BackIn(s, c) \cup {Len(s) + 1}
         /\ x.conn # c \/ x.kind = "respond" => BackIn(Append(s, x), c) = BackIn(s, c)
  BY DEF BackIn

\* A new batch, for a connection whose recv has completed.
LEMMA RecvDataOwns ==
  ASSUME OpsInv, BatchInv, NEW c \in Conn, RecvData(c)
  PROVE  BatchInv'
<1>1. UNCHANGED <<items, outbox, work>>
  BY DEF RecvData
<1>2. PICK b \in Batch : b.conn = c /\ posted' = Append(posted, b)
  <2>1. PICK n \in 1 .. MaxRecv : posted' = Append(posted, [conn |-> c, halves |-> conn[c].rx + n])
    BY DEF RecvData
  <2>2. conn[c].rx + n \in Nat
    BY BoundsAssumption DEF OpsInv, ConnTypes, Connection
  <2>3. QED
    BY <2>1, <2>2 DEF Batch
<1>3. PICK e : /\ ConnStep(c, e) /\ e.state = "parsing" /\ ~e.recv_op
               /\ conn[c].state \in {"active", "parsing"} /\ conn[c].recv_op
  BY RecvDataShape
<1>4. PostedOf(c)' = PostedOf(c) \cup {Len(posted) + 1}
  BY <1>2 DEF PostedOf, OpsInv, QueueTypes
<1>5. \A d \in Conn \ {c} : PostedOf(d)' = PostedOf(d)
  BY <1>2 DEF PostedOf, OpsInv, QueueTypes
<1>6. Owns(c)'
  <2>1. /\ PostedOf(c)' = {Len(posted) + 1}
        /\ WorkOf(c)' = {} /\ BackIn(outbox, c)' = {} /\ BackIn(items, c)' = {}
    BY <1>1, <1>3, <1>4 DEF NoneOf, WorkOf, BackIn, BatchInv, Owns
  <2>2. QED
    BY <1>3, <2>1 DEF Owns, OneBatch, NoneOf, AtMostOne, OpsInv, ConnTypes, ConnStep
<1>7. ASSUME NEW d \in Conn \ {c} PROVE Owns(d)'
  <2>1. Alike(d)
    BY <1>1, <1>5 DEF Alike, Kin, WorkOf, BackIn
  <2>2. QED
    BY <1>3, <2>1, AlikeKeeps DEF BatchInv, OpsInv, ConnTypes, ConnStep
<1>8. QED
  BY <1>1, <1>6, <1>7 DEF BatchInv, ReportsLast

\* A step that moves no batch and keeps, closes or accepts one connection.
LEMMA StillOwns ==
  ASSUME BatchInv, UNCHANGED <<items, outbox, posted, work>>,
         \A c \in Conn :
           \/ conn'[c].state \in {"closing", "gone"}
           \/ conn'[c].state = conn[c].state /\ (conn'[c].recv_op <=> conn[c].recv_op)
           \/ conn[c].state = "unborn" /\ conn'[c].state = "active" /\ conn'[c].recv_op
  PROVE  BatchInv'
<1>1. ASSUME NEW c \in Conn PROVE Owns(c)'
  BY StillAlike, AlikeKeeps DEF BatchInv
<1>2. QED
  BY <1>1 DEF BatchInv, ReportsLast

\* What a step on one connection leaves of the others, and of that one.
LEMMA StepOnOne ==
  ASSUME OpsInv, NEW c \in Conn, NEW e, ConnStep(c, e)
  PROVE  conn'[c] = e /\ \A d \in Conn \ {c} : conn'[d] = conn[d]
BY DEF OpsInv, ConnTypes, ConnStep

\* A worker takes a batch.
LEMMA TakeOwns ==
  ASSUME OpsInv, BatchInv, NEW w \in Worker, TakeBatch(w)
  PROVE  BatchInv'
<1>1. /\ posted # << >> /\ posted' = Tail(posted) /\ work[w] = NoBatch
      /\ UNCHANGED <<conn, items, outbox>>
  BY DEF TakeBatch, mainVars
<1>2. PICK c \in Conn : c = Head(posted).conn /\ Head(posted) \in Batch
  <2>1. Head(posted) \in Batch
    BY <1>1 DEF OpsInv, QueueTypes
  <2>2. QED
    BY <2>1 DEF Batch
<1>3. /\ \A v \in Worker \ {w} : work'[v] = work[v]
      /\ work'[w] \in Job /\ work'[w].conn = c /\ ~work'[w].finished
  <2> DEFINE b == [conn |-> c, frames |-> Head(posted).halves \div 2,
                   left |-> Head(posted).halves % 2, signal |-> FALSE, finished |-> FALSE]
  <2>1. work' = [work EXCEPT ![w] = b] /\ work \in [Worker -> Job \cup {NoBatch}]
    BY <1>2 DEF TakeBatch, OpsInv, QueueTypes
  <2>2. work'[w] = b /\ \A v \in Worker \ {w} : work'[v] = work[v]
    BY <2>1
  <2>3. Head(posted).halves \div 2 \in Nat /\ Head(posted).halves % 2 \in Nat
    BY <1>2 DEF Batch
  <2>4. b \in Job
    BY <1>2, <2>3 DEF Job
  <2>5. QED
    BY <1>2, <2>2, <2>4
<1>4. work'[w] # NoBatch
  BY <1>3, NoBatchAssumption
<1>5. WorkOf(c)' = WorkOf(c) \cup {w} /\ \A d \in Conn \ {c} : WorkOf(d)' = WorkOf(d)
  BY <1>1, <1>3, <1>4 DEF WorkOf
<1>6. Owns(c)'
  <2>1. 1 \in PostedOf(c)
    BY <1>1, <1>2, PostedTail
  <2>2. OneBatch(c)
    BY <1>2 DEF BatchInv, Owns
  <2>3. /\ PostedOf(c)' = {}
        /\ WorkOf(c)' = {w} /\ BackIn(outbox, c)' = {} /\ BackIn(items, c)' = {}
    BY <1>1, <1>5, <2>1, <2>2, PostedTail, ShiftOut DEF OneBatch, BackIn
  <2>4. OneBatch(c)' /\ ~NoneOf(c)'
    BY <2>3 DEF OneBatch, NoneOf, AtMostOne
  <2>5. ~NoneOf(c)
    BY <2>1 DEF NoneOf
  <2>6. QED
    BY <1>1, <1>2, <2>4, <2>5 DEF BatchInv, Owns
<1>7. ASSUME NEW d \in Conn \ {c} PROVE Owns(d)'
  <2>1. Kin(PostedOf(d)', PostedOf(d))
    BY <1>1, <1>2, PostedTail, ShiftKin
  <2>2. Alike(d)
    BY <1>1, <1>5, <2>1 DEF Alike, Kin, BackIn
  <2>3. QED
    BY <1>1, <2>2, AlikeKeeps DEF BatchInv
<1>8. ASSUME NEW v \in Worker PROVE ReportsLast(v)'
  BY <1>3 DEF BatchInv, ReportsLast
<1>9. QED
  BY <1>6, <1>7, <1>8 DEF BatchInv

\* A worker's batch changes, and what it pushed is not the end of the batch.
LEMMA WorkingOwns ==
  ASSUME OpsInv, BatchInv, NEW w \in Worker, UNCHANGED <<conn, items, posted>>,
         \A v \in Worker \ {w} : work'[v] = work[v],
         ReportsLast(w)',
         \A c \in Conn : BackIn(outbox, c)' = BackIn(outbox, c),
         \A c \in Conn : w \in WorkOf(c)' <=> w \in WorkOf(c)
  PROVE  BatchInv'
<1>1. ASSUME NEW c \in Conn PROVE Owns(c)'
  <2>1. WorkOf(c)' = WorkOf(c)
    BY DEF WorkOf
  <2>2. Alike(c)
    BY Zenon, <2>1 DEF Alike, Kin, PostedOf, BackIn
  <2>3. QED
    BY <2>2, AlikeKeeps DEF BatchInv
<1>2. ASSUME NEW v \in Worker PROVE ReportsLast(v)'
  BY DEF BatchInv, ReportsLast
<1>3. QED
  BY <1>1, <1>2 DEF BatchInv

\* outbox_.push, as a step on the outbox and on the batch of w.
Pushed(w, kind, data, left) ==
  /\ work[w] \in Job /\ work'[w] \in Job /\ work'[w] # NoBatch
  /\ work'[w].conn = work[w].conn /\ work'[w].signal
  /\ work'[w].frames = left /\ work'[w].left = work[w].left
  /\ \A v \in Worker \ {w} : work'[v] = work[v]
  /\ \E x \in Item : /\ x.kind = kind /\ x.conn = work[w].conn /\ x.data = data
                     /\ outbox' = Append(outbox, x)

\* A reply does not end the batch, and what ends it is said to.
LEMMA PushReply ==
  ASSUME OpsInv, NEW w \in Worker, work[w] # NoBatch,
         NEW kind \in {"respond", "rearm", "close"}, NEW data \in Nat, NEW left \in Nat,
         Push(w, kind, data, FALSE, left)
  PROVE  Pushed(w, kind, data, left) /\ ~work'[w].finished
<1> DEFINE j == work[w]
           y == [kind |-> kind, conn |-> j.conn, data |-> data]
<1>1. work \in [Worker -> Job \cup {NoBatch}] /\ j \in Job /\ j.conn \in Conn
  BY DEF OpsInv, QueueTypes, Job
<1>2. work' = [work EXCEPT ![w] = [j EXCEPT !.signal = TRUE, !.finished = FALSE, !.frames = left]]
  BY Zenon, <1>1 DEF Push
<1>3. /\ work'[w] = [j EXCEPT !.signal = TRUE, !.finished = FALSE, !.frames = left]
      /\ \A v \in Worker \ {w} : work'[v] = work[v]
  BY <1>1, <1>2
<1>4. /\ work'[w] \in Job /\ work'[w].conn = j.conn /\ work'[w].signal /\ ~work'[w].finished
      /\ work'[w].frames = left /\ work'[w].left = j.left
  BY Zenon, <1>1, <1>3 DEF Job
<1>5. y \in Item /\ y.kind = kind /\ y.conn = j.conn /\ y.data = data
  BY <1>1 DEF Item
<1>6. outbox' = Append(outbox, y)
  BY DEF Push
<1> HIDE DEF y
<1>7. QED
  BY <1>1, <1>3, <1>4, <1>5, <1>6, NoBatchAssumption DEF Pushed

LEMMA PushEnd ==
  ASSUME OpsInv, NEW w \in Worker, work[w] # NoBatch,
         NEW kind \in {"respond", "rearm", "close"}, NEW data \in Nat, NEW left \in Nat,
         Push(w, kind, data, TRUE, left)
  PROVE  Pushed(w, kind, data, left) /\ work'[w].finished
<1> DEFINE j == work[w]
           y == [kind |-> kind, conn |-> j.conn, data |-> data]
<1>1. work \in [Worker -> Job \cup {NoBatch}] /\ j \in Job /\ j.conn \in Conn
  BY DEF OpsInv, QueueTypes, Job
<1>2. work' = [work EXCEPT ![w] = [j EXCEPT !.signal = TRUE, !.finished = TRUE, !.frames = left]]
  BY Zenon, <1>1 DEF Push
<1>3. /\ work'[w] = [j EXCEPT !.signal = TRUE, !.finished = TRUE, !.frames = left]
      /\ \A v \in Worker \ {w} : work'[v] = work[v]
  BY <1>1, <1>2
<1>4. /\ work'[w] \in Job /\ work'[w].conn = j.conn /\ work'[w].signal /\ work'[w].finished
      /\ work'[w].frames = left /\ work'[w].left = j.left
  BY Zenon, <1>1, <1>3 DEF Job
<1>5. y \in Item /\ y.kind = kind /\ y.conn = j.conn /\ y.data = data
  BY <1>1 DEF Item
<1>6. outbox' = Append(outbox, y)
  BY DEF Push
<1> HIDE DEF y
<1>7. QED
  BY <1>1, <1>3, <1>4, <1>5, <1>6, NoBatchAssumption DEF Pushed

\* A frame is counted off the batch of w.
LEMMA CountOff ==
  ASSUME OpsInv, NEW w \in Worker, work[w] # NoBatch, work[w].frames > 0,
         work' = [work EXCEPT ![w].frames = @ - 1]
  PROVE  /\ work[w] \in Job /\ work'[w] \in Job /\ work'[w] # NoBatch
         /\ work'[w].conn = work[w].conn /\ (work'[w].signal <=> work[w].signal)
         /\ (work'[w].finished <=> work[w].finished) /\ work'[w].frames = work[w].frames - 1
         /\ work'[w].left = work[w].left
         /\ \A v \in Worker \ {w} : work'[v] = work[v]
<1> DEFINE j == work[w]
           n == j.frames - 1
<1>1. work \in [Worker -> Job \cup {NoBatch}] /\ j \in Job /\ n \in Nat
  BY DEF OpsInv, QueueTypes, Job
<1>2. work' = [work EXCEPT ![w] = [j EXCEPT !.frames = n]]
  BY <1>1
<1> HIDE DEF n
<1>3. QED
  BY <1>1, <1>2, NoBatchAssumption DEF n, Job

\* A worker handles a frame.
LEMMA HandleOwns ==
  ASSUME OpsInv, BatchInv, NEW w \in Worker, HandleFrame(w)
  PROVE  BatchInv'
<1> DEFINE f == handled[work[w].conn] + 1
<1>1. /\ work[w] # NoBatch /\ ~work[w].signal /\ work[w].frames > 0
      /\ UNCHANGED <<conn, items, posted>>
      /\ \/ Push(w, "respond", f, FALSE, work[w].frames - 1)
         \/ outbox' = outbox /\ work' = [work EXCEPT ![w].frames = @ - 1]
  BY Zenon DEF HandleFrame, Busy, mainVars
<1>2. work[w] \in Job /\ f \in Nat /\ work[w].frames - 1 \in Nat
  <2>1. work[w] \in Job /\ handled \in [Conn -> Nat]
    BY <1>1 DEF OpsInv, QueueTypes
  <2>2. QED
    BY <1>1, <2>1 DEF Job
<1>3. ~work[w].finished
  BY <1>1 DEF BatchInv, ReportsLast
<1> HIDE DEF f
<1>4. CASE Push(w, "respond", f, FALSE, work[w].frames - 1)
  <2>1. /\ work'[w] # NoBatch /\ work'[w].conn = work[w].conn /\ ~work'[w].finished
        /\ \A v \in Worker \ {w} : work'[v] = work[v]
        /\ \E x \in Item : x.kind = "respond" /\ outbox' = Append(outbox, x)
    <3>1. Pushed(w, "respond", f, work[w].frames - 1) /\ ~work'[w].finished
      BY Zenon, <1>1, <1>2, <1>4, PushReply
    <3>2. QED
      BY <3>1 DEF Pushed
  <2>2. \A c \in Conn : BackIn(outbox, c)' = BackIn(outbox, c)
    BY <2>1, BackAppend DEF OpsInv, QueueTypes, BackIn
  <2>3. QED
    BY <1>1, <2>1, <2>2, <1>3, WorkingOwns DEF ReportsLast, WorkOf
<1>5. CASE outbox' = outbox /\ work' = [work EXCEPT ![w].frames = @ - 1]
  <2>1. /\ work'[w] # NoBatch /\ work'[w].conn = work[w].conn /\ ~work'[w].finished
        /\ \A v \in Worker \ {w} : work'[v] = work[v]
    BY Zenon, <1>1, <1>3, <1>5, CountOff
  <2>2. QED
    BY <1>1, <2>1, <1>5, <1>3, WorkingOwns DEF ReportsLast, BackIn, WorkOf
<1>6. QED
  BY Zenon, <1>1, <1>4, <1>5

\* A worker reports the end of its batch.
LEMMA ReportOwns ==
  ASSUME OpsInv, BatchInv, NEW w \in Worker, HandleRefused(w) \/ FinishBatch(w)
  PROVE  BatchInv'
<1>1. /\ work[w] # NoBatch /\ ~work[w].signal /\ UNCHANGED <<conn, items, posted>>
      /\ Push(w, "close", 0, TRUE, 0) \/ Push(w, "rearm", work[w].left, TRUE, 0)
  BY Zenon DEF HandleRefused, FinishBatch, Busy, mainVars
<1>2. work[w] \in Job /\ work[w].left \in Nat /\ ~work[w].finished
  BY <1>1 DEF OpsInv, QueueTypes, Job, BatchInv, ReportsLast
<1>3. PICK c \in Conn : c = work[w].conn
  BY <1>2 DEF Job
<1>4. /\ work'[w] # NoBatch /\ work'[w].finished /\ work'[w].signal
      /\ \A v \in Worker \ {w} : work'[v] = work[v]
      /\ \E x \in Item : x.kind # "respond" /\ x.conn = c /\ outbox' = Append(outbox, x)
  <2>1. CASE Push(w, "close", 0, TRUE, 0)
    <3>1. Pushed(w, "close", 0, 0) /\ work'[w].finished
      BY Zenon, <1>1, <2>1, PushEnd
    <3>2. QED
      BY <1>3, <3>1 DEF Pushed
  <2>2. CASE Push(w, "rearm", work[w].left, TRUE, 0)
    <3>1. Pushed(w, "rearm", work[w].left, 0) /\ work'[w].finished
      BY Zenon, <1>1, <1>2, <2>2, PushEnd
    <3>2. QED
      BY <1>3, <3>1 DEF Pushed
  <2>3. QED
    BY Zenon, <1>1, <2>1, <2>2
<1>5. /\ BackIn(outbox, c)' = BackIn(outbox, c) \cup {Len(outbox) + 1}
      /\ \A d \in Conn \ {c} : BackIn(outbox, d)' = BackIn(outbox, d)
  <2>1. PICK x \in Item : x.kind # "respond" /\ x.conn = c /\ outbox' = Append(outbox, x)
    BY <1>4
  <2>2. outbox \in Seq(Item)
    BY DEF OpsInv, QueueTypes
  <2>3. /\ BackIn(Append(outbox, x), c) = BackIn(outbox, c) \cup {Len(outbox) + 1}
        /\ \A d \in Conn \ {c} : BackIn(Append(outbox, x), d) = BackIn(outbox, d)
    BY <2>1, <2>2, BackAppend
  <2>4. QED
    BY <2>1, <2>3 DEF BackIn
<1>6. w \in WorkOf(c)
  BY <1>1, <1>2, <1>3 DEF WorkOf
<1>7. WorkOf(c)' = WorkOf(c) \ {w} /\ \A d \in Conn \ {c} : WorkOf(d)' = WorkOf(d)
  BY <1>3, <1>4 DEF WorkOf
<1>8. Owns(c)'
  <2>1. OneBatch(c)
    BY DEF BatchInv, Owns
  <2>2. PostedOf(c) = {} /\ BackIn(outbox, c) = {} /\ BackIn(items, c) = {} /\ WorkOf(c) = {w}
    BY <1>6, <2>1 DEF OneBatch, AtMostOne
  <2>3. /\ PostedOf(c)' = {} /\ BackIn(items, c)' = {}
        /\ BackIn(outbox, c)' = {Len(outbox) + 1} /\ WorkOf(c)' = {}
    BY <1>1, <1>5, <1>7, <2>2 DEF PostedOf, BackIn
  <2>4. OneBatch(c)' /\ ~NoneOf(c)'
    BY <2>3 DEF OneBatch, NoneOf, AtMostOne
  <2>5. ~NoneOf(c)
    BY <1>6 DEF NoneOf
  <2>6. QED
    BY <1>1, <2>4, <2>5 DEF BatchInv, Owns
<1>9. ASSUME NEW d \in Conn \ {c} PROVE Owns(d)'
  <2>1. Alike(d)
    BY Zenon, <1>1, <1>5, <1>7 DEF Alike, Kin, PostedOf, BackIn
  <2>2. QED
    BY <1>1, <2>1, AlikeKeeps DEF BatchInv
<1>10. ASSUME NEW v \in Worker PROVE ReportsLast(v)'
  BY <1>4 DEF BatchInv, ReportsLast
<1>11. QED
  BY <1>8, <1>9, <1>10 DEF BatchInv

\* A worker writes the eventfd.
LEMMA SignalOwns ==
  ASSUME OpsInv, BatchInv, NEW w \in Worker, Signal(w)
  PROVE  BatchInv'
<1> DEFINE j == work[w]
<1>1. /\ j # NoBatch /\ UNCHANGED <<conn, items, outbox, posted>>
      /\ work \in [Worker -> Job \cup {NoBatch}]
      /\ work' = [work EXCEPT ![w] = IF j.finished THEN NoBatch ELSE [j EXCEPT !.signal = FALSE]]
  BY DEF Signal, mainVars, OpsInv, QueueTypes
<1>2. j \in Job /\ \A v \in Worker \ {w} : work'[v] = work[v]
  BY <1>1
<1>3. /\ j.finished => work'[w] = NoBatch
      /\ ~j.finished => /\ work'[w] \in Job /\ work'[w].conn = j.conn /\ ~work'[w].finished
  BY Zenon, <1>1, <1>2 DEF Job
<1>4. ReportsLast(w)' /\ \A c \in Conn : w \in WorkOf(c)' <=> w \in WorkOf(c)
  BY Zenon, <1>1, <1>3, NoBatchAssumption DEF ReportsLast, WorkOf
<1>5. QED
  BY <1>1, <1>2, <1>4, WorkingOwns DEF BackIn

\* The main thread takes the outbox.
LEMMA WakeupOwns ==
  ASSUME OpsInv, BatchInv, Wakeup
  PROVE  BatchInv'
<1>1. items = << >> /\ items' = outbox /\ outbox' = << >> /\ UNCHANGED <<conn, posted, work>>
  BY WakeupKeeps
<1>2. ASSUME NEW c \in Conn PROVE Owns(c)'
  <2>1. /\ BackIn(items, c)' = BackIn(outbox, c) /\ BackIn(items, c) = {}
        /\ BackIn(outbox, c)' = {} /\ PostedOf(c)' = PostedOf(c) /\ WorkOf(c)' = WorkOf(c)
    BY <1>1 DEF BackIn, PostedOf, WorkOf
  <2>2. (NoneOf(c)' <=> NoneOf(c)) /\ (OneBatch(c) => OneBatch(c)')
    BY <2>1 DEF NoneOf, OneBatch, AtMostOne
  <2>3. QED
    BY <1>1, <2>2 DEF BatchInv, Owns
<1>3. QED
  BY <1>1, <1>2 DEF BatchInv, ReportsLast

\* An item leaves the places of the batches, unless it brings one back.
LEMMA ItemPlaces ==
  ASSUME OpsInv, BatchInv, NEW kind, NextItem(kind), NEW c \in Conn
  PROVE  /\ kind = "respond" \/ Head(items).conn # c => Alike(c)
         /\ kind # "respond" /\ Head(items).conn = c => NoneOf(c)' /\ ~NoneOf(c)
<1>1. items \in Seq(Item)
  BY DEF OpsInv, QueueTypes
<1>2. /\ BackIn(Tail(items), c) = Shift(BackIn(items, c)) /\ BackIn(items, c) \in SUBSET (Nat \ {0})
      /\ 1 \in BackIn(items, c) <=> Head(items).conn = c /\ kind # "respond"
  BY ItemShape, <1>1, BackTail
<1>3. /\ BackIn(items, c)' = Shift(BackIn(items, c))
      /\ PostedOf(c)' = PostedOf(c) /\ WorkOf(c)' = WorkOf(c)
      /\ BackIn(outbox, c)' = BackIn(outbox, c)
  BY ItemShape, <1>2 DEF BackIn, PostedOf, WorkOf
<1>4. CASE kind = "respond" \/ Head(items).conn # c
  BY <1>2, <1>3, <1>4, ShiftKin DEF Alike, Kin
<1>5. CASE kind # "respond" /\ Head(items).conn = c
  BY <1>2, <1>3, <1>5, ShiftOut DEF BatchInv, Owns, OneBatch, NoneOf
<1>6. QED
  BY <1>4, <1>5

\* An item is dispatched: its connection is the only one that changes.
LEMMA ItemOwns ==
  ASSUME OpsInv, BatchInv, DispatchItem
  PROVE  BatchInv'
<1> DEFINE Fine(c) ==
      \/ conn'[c].state \in {"closing", "gone"}
      \/ conn'[c].state = conn[c].state /\ (conn'[c].recv_op <=> conn[c].recv_op)
<1>1. PICK kind \in {"respond", "rearm", "close"} : NextItem(kind)
  BY DEF DispatchItem, DropItem, Respond, RearmRecv, CloseItem
<1>2. Head(items) \in Item /\ Head(items).kind = kind /\ UNCHANGED work /\ loop # "exited"
  BY <1>1, ItemShape
<1>3. PICK c \in Conn : c = Head(items).conn
  BY <1>2 DEF Item
<1>4. /\ \A d \in Conn \ {c} : conn'[d] = conn[d]
      /\ kind = "respond" => Fine(c)
      /\ kind # "respond" => conn'[c].state # "parsing" /\ (conn'[c].state = "active" => conn'[c].recv_op)
  <2>1. CASE DropItem
    <3>1. conn' = conn /\ ~Open(c)
      BY <1>3, <2>1 DEF DropItem
    <3>2. QED
      BY <3>1 DEF Open
  <2>2. CASE Respond
    <3>1. kind = "respond" /\ Open(c) /\ push_response(c, Head(items).data)
      BY <1>2, <1>3, <2>2 DEF Respond, NextItem
    <3>2. Head(items).data \in Nat
      BY <1>2 DEF Item
    <3>3. PICK e : ConnStep(c, e) /\ (Ended(c, e) \/ Lives(c, e))
      BY <1>2, <3>1, <3>2, PushShape
    <3>4. conn'[c] = e /\ \A d \in Conn \ {c} : conn'[d] = conn[d]
      BY <3>3, StepOnOne
    <3>5. QED
      BY <3>1, <3>3, <3>4 DEF Ended, Lives
  <2>3. CASE RearmRecv
    <3>1. kind = "rearm"
      BY <1>2, <2>3 DEF RearmRecv, NextItem
    <3>2. ~conn[c].recv_op /\ Head(items).data \in Nat
      BY <1>3, <2>3, RearmedIdle
    <3>3. PICK e : ConnStep(c, e) /\ (Ended(c, e) \/ (e.state = "active" /\ e.recv_op))
      BY <1>2, <1>3, <2>3, <3>2, RearmShape
    <3>4. conn'[c] = e /\ \A d \in Conn \ {c} : conn'[d] = conn[d]
      BY <3>3, StepOnOne
    <3>5. QED
      BY <3>1, <3>3, <3>4 DEF Ended
  <2>4. CASE CloseItem
    <3>1. kind = "close" /\ Open(c) /\ close_conn(c, conn[c], OpsOf(c))
      BY <1>2, <1>3, <2>4 DEF CloseItem, NextItem
    <3>2. PICK e : ConnStep(c, e) /\ Ended(c, e)
      BY <1>2, <3>1, CloseOpen
    <3>3. conn'[c] = e /\ \A d \in Conn \ {c} : conn'[d] = conn[d]
      BY <3>2, StepOnOne
    <3>4. QED
      BY <3>1, <3>2, <3>3 DEF Ended
  <2>5. QED
    BY <2>1, <2>2, <2>3, <2>4 DEF DispatchItem
<1>5. ASSUME NEW d \in Conn \ {c} PROVE Owns(d)'
  BY <1>1, <1>3, <1>4, ItemPlaces, AlikeKeeps DEF BatchInv
<1>6. Owns(c)'
  <2>1. CASE kind = "respond"
    BY <1>1, <1>4, <2>1, ItemPlaces, AlikeKeeps DEF BatchInv
  <2>2. CASE kind # "respond"
    BY <1>1, <1>3, <1>4, <2>2, ItemPlaces, GoneKeeps
  <2>3. QED
    BY <2>1, <2>2
<1>7. QED
  BY <1>2, <1>5, <1>6 DEF BatchInv, ReportsLast

\* A step on one connection that moves no batch.
LEMMA OneOwns ==
  ASSUME OpsInv, BatchInv, UNCHANGED <<items, outbox, posted, work>>,
         NEW c \in Conn, NEW e, ConnStep(c, e), Ended(c, e) \/ Lives(c, e)
  PROVE  BatchInv'
  BY StepOnOne, StillOwns DEF Ended, Lives

\* Every step keeps the batches of each connection.
LEMMA BatchStep ==
  ASSUME OpsInv, BatchInv, [Next]_vars
  PROVE  BatchInv'
<1>1. ASSUME NEW w \in Worker, WorkerStep(w) PROVE BatchInv'
  BY <1>1, TakeOwns, HandleOwns, ReportOwns, SignalOwns DEF WorkerStep
<1>2. ASSUME NEW c \in Conn, CompleteRecv(c) \/ CompleteSend(c) \/ SweepIdle(c) \/ ReapClose(c)
      PROVE  BatchInv'
  <2>1. CASE RecvData(c)
    BY <2>1, RecvDataOwns
  <2>2. CASE Sent(c)
    <3>1. UNCHANGED <<items, outbox, posted, work>>
      BY <2>2 DEF Sent, workerVars
    <3>2. QED
      BY <2>2, <3>1, SentShape, OneOwns
  <2>3. CASE ~RecvData(c) /\ ~Sent(c)
    BY <1>2, <2>3, EndingKeeps, OneOwns DEF CompleteRecv, CompleteSend
  <2>4. QED
    BY <2>1, <2>2, <2>3
<1>3. CASE Accepted
  BY <1>3, AcceptedKeeps, StillOwns DEF OpsInv, ConnTypes
<1>4. CASE Response
  BY <1>4, OneOwns, ResponseKeeps, StillOwns
<1>5. CASE Exit
  BY <1>5, ExitKeeps, StillAlike DEF Alike, Kin, NoneOf, OneBatch, BatchInv, Owns,
     ReportsLast
<1>6. CASE DispatchReplies \/ UNCHANGED vars
  BY <1>6, StillOwns DEF DispatchReplies, vars, workerVars
<1>7. CASE \/ AcceptRefused \/ AcceptFails \/ EventfdRead
           \/ RequestStop \/ BeginDrain \/ LeaveLoop \/ WaitFails
  BY <1>7, QuietKeeps, StillOwns
<1>8. QED
  BY <1>1, <1>2, <1>3, <1>4, <1>5, <1>6, <1>7, WakeupOwns, ItemOwns DEF Next

-----------------------------------------------------------------------------
(* What the two invariants say of the code.                                *)

LEMMA OpsGiveAccount == ASSUME OpsInv PROVE OpsAccounted
<1> SUFFICES ASSUME loop # "exited", NEW c \in Conn
             PROVE  /\ conn[c].recv_op <=> <<"recv", c>> \in ops
                    /\ conn[c].send_op <=> <<"send", c>> \in ops
                    /\ conn[c].pending_ops = Bit(<<"recv", c>> \in ops) + Bit(<<"send", c>> \in ops)
                    /\ ~Alive(c) => OpsOf(c) = {}
  BY Zenon DEF OpsAccounted
<1>1. /\ conn[c] \in Connection /\ Sound(conn[c])
      /\ conn[c].recv_op <=> <<"recv", c>> \in ops
      /\ conn[c].send_op <=> <<"send", c>> \in ops
  BY DEF OpsInv, ConnTypes, AccountOf, Accounted
<1>2. ASSUME ~Alive(c) PROVE OpsOf(c) = {}
  <2>1. conn[c].state \in {"unborn", "gone"}
    BY <1>1, <1>2 DEF Alive, States, Connection
  <2>2. QED
    BY <1>1, <2>1, OpsOfShape DEF Sound, Kinds
<1>3. QED
  BY <1>1, <1>2 DEF Sound, Bit

LEMMA BatchGivesOwner == ASSUME BatchInv PROVE BatchOwnsConn
<1> SUFFICES ASSUME NEW c \in Conn
             PROVE  /\ conn[c].state = "active" => conn[c].recv_op /\ Batches(c) = {}
                    /\ conn[c].state = "parsing" => ~conn[c].recv_op /\ Batches(c) # {}
                    /\ \A p, q \in Batches(c) : p = q
  BY DEF BatchOwnsConn
<1>1. Batches(c) = {"posted"} \X PostedOf(c) \cup {"working"} \X WorkOf(c)
                     \cup {"outbox"} \X BackIn(outbox, c) \cup {"items"} \X BackIn(items, c)
  BY DEF Batches, Positions, PostedOf, WorkOf, BackIn
<1>2. Owns(c)
  BY DEF BatchInv
<1> HIDE DEF PostedOf, WorkOf, BackIn
<1>3. Batches(c) = {} <=> NoneOf(c)
  <2>1. /\ \A x \in PostedOf(c) : <<"posted", x>> \in Batches(c)
        /\ \A x \in WorkOf(c) : <<"working", x>> \in Batches(c)
        /\ \A x \in BackIn(outbox, c) : <<"outbox", x>> \in Batches(c)
        /\ \A x \in BackIn(items, c) : <<"items", x>> \in Batches(c)
    BY <1>1
  <2>2. ASSUME NEW place, NEW S, S = {} PROVE {place} \X S = {}
    BY <2>2
  <2>3. CASE NoneOf(c)
    BY <1>1, <2>2, <2>3 DEF NoneOf
  <2>4. CASE ~NoneOf(c)
    BY Zenon, <2>1, <2>4 DEF NoneOf
  <2>5. QED
    BY <2>3, <2>4
<1>4. ASSUME NEW p \in Batches(c), NEW q \in Batches(c) PROVE p = q
  <2>1. ASSUME NEW b \in Batches(c)
        PROVE  \/ \E x \in PostedOf(c) : b = <<"posted", x>>
               \/ \E x \in WorkOf(c) : b = <<"working", x>>
               \/ \E x \in BackIn(outbox, c) : b = <<"outbox", x>>
               \/ \E x \in BackIn(items, c) : b = <<"items", x>>
    BY <1>1
  <2>2. QED
    BY Zenon, <1>2, <2>1 DEF Owns, OneBatch, AtMostOne
<1>5. QED
  BY <1>2, <1>3, <1>4 DEF Owns

\* The account of operations is exact: pending_ops, recv_op and send_op of every
\* Connection describe what the kernel has for it, for any number of connections
\* and workers (submit_recv, submit_send, close_conn, maybe_finalize).
THEOREM OpsAlwaysAccounted == Spec => []OpsAccounted
<1>1. Init => OpsInv /\ BatchInv
  BY OpsInitially, BatchInitially
<1>2. OpsInv /\ BatchInv /\ [Next]_vars => OpsInv' /\ BatchInv'
  BY OpsStep, BatchStep
<1>3. OpsInv => OpsAccounted
  BY OpsGiveAccount
<1>4. QED
  BY <1>1, <1>2, <1>3, PTL DEF Spec

\* A batch owns its connection: a Connection has its recv in flight and no batch, or
\* one batch and no recv (complete_recv, worker_batch, drain_outbox).
THEOREM BatchAlwaysOwnsConn == Spec => []BatchOwnsConn
<1>1. Init => OpsInv /\ BatchInv
  BY OpsInitially, BatchInitially
<1>2. OpsInv /\ BatchInv /\ [Next]_vars => OpsInv' /\ BatchInv'
  BY OpsStep, BatchStep
<1>3. BatchInv => BatchOwnsConn
  BY BatchGivesOwner
<1>4. QED
  BY <1>1, <1>2, <1>3, PTL DEF Spec

=============================================================================
