------------------------------- MODULE Gateway -------------------------------
(***************************************************************************)
(* The io_uring engine of the gateway: the main thread that handles        *)
(* completions and owns every Connection, the workers that cut and         *)
(* dispatch the frames of one batch, the outbox with its eventfd between   *)
(* them, and the drain and reap of a shutdown.                             *)
(*                                                                         *)
(* A step of the main thread is the handling of one completion, of one     *)
(* outbox item or of one response slot.  A byte stream is counted in       *)
(* halves of frames, so a batch may end with half a frame.  Deadlines may  *)
(* pass at any moment once they are set.  An operation's result is chosen  *)
(* when its completion is handled.                                         *)
(***************************************************************************)
EXTENDS Integers, Sequences, FiniteSets

CONSTANTS MaxConns,    \* bound: connections accepted in a run
          MaxHalves,   \* bound: half frames a client sends
          MaxRecv,     \* half frames that fit the receive buffer
          Backlog,     \* [uring].send_backlog_limit, in frames
          Worker,      \* the worker threads
          FailLimit,   \* accept failures in a row before it is left alone
          MaxSqFails,  \* bound: how often the submission queue is exhausted
          RingMode,    \* replies come through the response ring
          NoBatch      \* what an idle worker holds

ASSUME BoundsAssumption ==
    /\ MaxConns \in Nat \ {0} /\ MaxHalves \in Nat /\ MaxRecv \in Nat \ {0}
    /\ Backlog \in Nat \ {0} /\ FailLimit \in Nat \ {0} /\ MaxSqFails \in Nat
ASSUME ModeAssumption == RingMode \in BOOLEAN

Conn == 1 .. MaxConns

\* The batch of a worker: the frames still to handle, the half frame left over,
\* an eventfd to write, and whether the end of the batch was reported.
Job == [conn : Conn, frames : Nat, left : Nat, signal : BOOLEAN, finished : BOOLEAN]

ASSUME NoBatchAssumption == NoBatch \notin Job

VARIABLES
    conn,        \* the Connections, by conn_id
    next_conn_id,
    ops,         \* recv and send operations the kernel has: <<kind, conn_id>>
    cancelled,   \* those of them that a cancel was submitted for
    acceptOp,    \* an accept is in flight
    wakeOp,      \* the read of the outbox's eventfd: "armed", "done" or "off"
    efd,         \* the eventfd's counter is not zero
    accept_fail_streak,
    stopping, draining, accepting,
    loop,        \* "run" in the main loop, "reap" after it, "exited"
    items,       \* what drain_outbox took and has not dispatched
    outbox,      \* OutboxQueue::q_
    posted,      \* batches in the worker pool's queue
    work,        \* the batch of each worker
    owed,        \* requests in the hands of the dispatch process
    rsp,         \* the response ring
    received,    \* half frames received from each client
    handled,     \* frames dispatched for each connection
    delivered,   \* replies sent in full to each client
    sqFails

kernelVars == <<ops, cancelled, acceptOp, wakeOp, accept_fail_streak>>
workerVars == <<posted, work, owed, handled>>
loopVars == <<stopping, draining, accepting, loop, sqFails>>
vars == <<conn, next_conn_id, kernelVars, efd, loopVars, items, outbox, workerVars,
          rsp, received, delivered>>

Unborn == [state |-> "unborn", recv_op |-> FALSE, send_op |-> FALSE, pending_ops |-> 0,
           rx |-> 0, send_q |-> << >>, partial |-> FALSE]

Open(c) == conn[c].state \in {"active", "parsing"}
Alive(c) == conn[c].state \in {"active", "parsing", "closing"}
Live == {c \in Conn : Alive(c)}

Init ==
    /\ conn = [c \in Conn |-> Unborn]
    /\ next_conn_id = 1
    /\ ops = {} /\ cancelled = {}
    /\ acceptOp = TRUE
    /\ wakeOp = "armed"
    /\ efd = FALSE
    /\ accept_fail_streak = 0
    /\ stopping = FALSE /\ draining = FALSE /\ accepting = TRUE
    /\ loop = "run"
    /\ items = << >> /\ outbox = << >> /\ posted = << >>
    /\ work = [w \in Worker |-> NoBatch]
    /\ owed = {}
    /\ rsp = << >>
    /\ received = [c \in Conn |-> 0]
    /\ handled = [c \in Conn |-> 0]
    /\ delivered = [c \in Conn |-> << >>]
    /\ sqFails = 0
-----------------------------------------------------------------------------
(***************************************************************************)
(* Submission.  get_sqe fails when the queue is exhausted, and the engine  *)
(* starts to drain; ok is a sequence of the outcomes of a step's calls.    *)
(***************************************************************************)
Failures(ok) == Cardinality({i \in 1 .. Len(ok) : ~ok[i]})

get_sqe(ok) ==
    /\ sqFails + Failures(ok) <= MaxSqFails
    /\ sqFails' = sqFails + Failures(ok)
    /\ draining' = (draining \/ Failures(ok) > 0)

\* submit_recv and submit_send on the Connection: the account follows the SQE.
WithRecv(k) == [k EXCEPT !.recv_op = TRUE, !.pending_ops = @ + 1]
WithSend(k) == [k EXCEPT !.send_op = TRUE, !.pending_ops = @ + 1]

OpsOf(c) == {o \in ops : o[2] = c}

\* Seeded fault: the Connection is erased while operations are in flight.
maybe_finalize_Early(k) ==
    IF k.state = "closing" THEN [Unborn EXCEPT !.state = "gone"] ELSE k

\* maybe_finalize: the Connection is erased once no operation is in flight.
maybe_finalize(k) ==
    IF k.state = "closing" /\ k.pending_ops = 0
    THEN [Unborn EXCEPT !.state = "gone"]
    ELSE k

\* Seeded fault: the erasing is left to completions alone.
close_conn_NoFinalize(c, k, mine) ==
    /\ conn' = [conn EXCEPT ![c] = [k EXCEPT !.state = "closing"]]
    /\ \E missed \in SUBSET mine :
          /\ cancelled' = (cancelled \ {o \in ops : o[2] = c}) \cup (mine \ missed)
          /\ get_sqe([i \in 1 .. Cardinality(missed) |-> FALSE])
    /\ ops' = (ops \ {o \in ops : o[2] = c}) \cup mine

(* close_conn on Connection c, whose other changes in this step are in k   *)
(* and whose operations in flight are mine.  A cancel whose SQE is refused *)
(* is not submitted.                                                       *)
close_conn(c, k, mine) ==
    /\ conn' = [conn EXCEPT ![c] =
                  maybe_finalize([k EXCEPT !.state = "closing"])]
    /\ \E missed \in SUBSET mine :
          /\ cancelled' = (cancelled \ {o \in ops : o[2] = c}) \cup (mine \ missed)
          /\ get_sqe([i \in 1 .. Cardinality(missed) |-> FALSE])
    /\ ops' = (ops \ {o \in ops : o[2] = c}) \cup mine

\* The main thread is in harvest, with no outbox item left to dispatch.
Harvesting == loop \in {"run", "reap"} /\ items = << >>

-----------------------------------------------------------------------------
(***************************************************************************)
(* Completions.                                                            *)
(***************************************************************************)
AcceptRefused ==
    /\ Harvesting /\ acceptOp /\ ~accepting
    /\ acceptOp' = FALSE
    /\ UNCHANGED <<conn, next_conn_id, ops, cancelled, wakeOp, accept_fail_streak, efd, loopVars,
                   items, outbox, workerVars, rsp, received, delivered>>

\* An interrupted accept (EINTR) is not counted as a failure.
AcceptFails ==
    /\ Harvesting /\ acceptOp /\ accepting
    /\ \E n \in {0, 1}, ok \in BOOLEAN :
          IF accept_fail_streak + n >= FailLimit
          THEN /\ accept_fail_streak' = 0
               /\ acceptOp' = FALSE
               /\ get_sqe(<< >>)
          ELSE /\ accept_fail_streak' = accept_fail_streak + n
               /\ acceptOp' = ok
               /\ get_sqe(<<ok>>)
    /\ UNCHANGED <<conn, next_conn_id, ops, cancelled, wakeOp, efd, stopping, accepting, loop,
                   items, outbox, workerVars, rsp, received, delivered>>

Accepted ==
    /\ Harvesting /\ acceptOp /\ accepting
    /\ next_conn_id <= MaxConns
    /\ accept_fail_streak' = 0
    /\ next_conn_id' = next_conn_id + 1
    /\ \E first, again \in BOOLEAN :
          /\ get_sqe(<<first, again>>)
          /\ conn' = [conn EXCEPT ![next_conn_id] =
                        IF first THEN WithRecv([Unborn EXCEPT !.state = "active"])
                                 ELSE [Unborn EXCEPT !.state = "gone"]]
          /\ ops' = IF first THEN ops \cup {<<"recv", next_conn_id>>} ELSE ops
          /\ acceptOp' = again
    /\ UNCHANGED <<cancelled, wakeOp, efd, stopping, accepting, loop, items, outbox, workerVars,
                   rsp, received, delivered>>

\* The bookkeeping at the head of complete_recv.
AfterRecv(c) == [conn[c] EXCEPT !.recv_op = FALSE, !.pending_ops = @ - 1]

\* A completion for a Connection that is already closing.
CompleteClosing(c, kind, k) ==
    /\ <<kind, c>> \in ops
    /\ Harvesting
    /\ conn[c].state = "closing"
    /\ conn' = [conn EXCEPT ![c] = maybe_finalize(k)]
    /\ ops' = ops \ {<<kind, c>>}
    /\ cancelled' = cancelled \ {<<kind, c>>}
    /\ UNCHANGED <<next_conn_id, acceptOp, wakeOp, accept_fail_streak, efd, loopVars, items,
                   outbox, workerVars, rsp, received, delivered>>

\* recv failed, or the client closed the connection.
RecvFails(c) ==
    /\ <<"recv", c>> \in ops
    /\ Harvesting
    /\ conn[c].state # "closing"
    /\ close_conn(c, AfterRecv(c), OpsOf(c) \ {<<"recv", c>>})
    /\ UNCHANGED <<next_conn_id, acceptOp, wakeOp, accept_fail_streak, efd, stopping, accepting,
                   loop, items, outbox, workerVars, rsp, received, delivered>>

\* Seeded fault: the next recv is submitted while the batch is with a worker.
RecvData_KeepsReading(c) ==
    /\ <<"recv", c>> \in ops
    /\ Harvesting
    /\ conn[c].state # "closing"
    /\ \E n \in 1 .. MaxRecv :
          /\ received[c] + n <= MaxHalves
          /\ received' = [received EXCEPT ![c] = @ + n]
          /\ posted' = Append(posted, [conn |-> c, halves |-> conn[c].rx + n])
    /\ conn' = [conn EXCEPT ![c] = [@ EXCEPT !.state = "parsing", !.rx = 0]]
    /\ UNCHANGED <<next_conn_id, kernelVars, efd, loopVars, items, outbox, work, owed, handled,
                   rsp, delivered>>

(* Everything received goes to a worker; no recv is submitted until the    *)
(* batch comes back.  The overflow check of the code cannot fail: half a   *)
(* frame and one receive buffer are below its limit.                       *)
RecvData(c) ==
    /\ <<"recv", c>> \in ops
    /\ Harvesting
    /\ conn[c].state # "closing"
    /\ \E n \in 1 .. MaxRecv :
          /\ received[c] + n <= MaxHalves
          /\ received' = [received EXCEPT ![c] = @ + n]
          /\ posted' = Append(posted, [conn |-> c, halves |-> conn[c].rx + n])
    /\ conn' = [conn EXCEPT ![c] = [AfterRecv(c) EXCEPT !.state = "parsing", !.rx = 0]]
    /\ ops' = ops \ {<<"recv", c>>}
    /\ UNCHANGED <<next_conn_id, cancelled, acceptOp, wakeOp, accept_fail_streak, efd, loopVars,
                   items, outbox, work, owed, handled, rsp, delivered>>

AfterSend(c) == [conn[c] EXCEPT !.send_op = FALSE, !.pending_ops = @ - 1]

SendFails(c) ==
    /\ <<"send", c>> \in ops
    /\ Harvesting
    /\ conn[c].state # "closing"
    /\ close_conn(c, AfterSend(c), OpsOf(c) \ {<<"send", c>>})
    /\ UNCHANGED <<next_conn_id, acceptOp, wakeOp, accept_fail_streak, efd, stopping, accepting,
                   loop, items, outbox, workerVars, rsp, received, delivered>>

\* Seeded fault: a head that was sent in two parts stays in the queue.
send_pop_KeepsHead(k, whole) ==
    IF whole /\ ~k.partial THEN [k EXCEPT !.send_q = Tail(@)] ELSE [k EXCEPT !.partial = ~@]

\* send_pop with what was written: the head of the queue, or a part of it.
send_pop(k, whole) ==
    IF whole THEN [k EXCEPT !.send_q = Tail(@), !.partial = FALSE] ELSE [k EXCEPT !.partial = TRUE]

Sent(c) ==
    /\ <<"send", c>> \in ops
    /\ Harvesting
    /\ conn[c].state # "closing"
    /\ \E whole, ok \in BOOLEAN :
          /\ whole \/ ~conn[c].partial
          /\ delivered' = IF whole THEN [delivered EXCEPT ![c] = Append(@, Head(conn[c].send_q))]
                                   ELSE delivered
          /\ LET k == send_pop(AfterSend(c), whole)
             IN  IF k.send_q # << >> /\ ok
                 THEN conn' = [conn EXCEPT ![c] = WithSend(k)] /\ ops' = ops
                 ELSE conn' = [conn EXCEPT ![c] = k] /\ ops' = ops \ {<<"send", c>>}
          /\ get_sqe(IF whole /\ Len(conn[c].send_q) = 1 THEN << >> ELSE <<ok>>)
    /\ UNCHANGED <<next_conn_id, cancelled, acceptOp, wakeOp, accept_fail_streak, efd, stopping,
                   accepting, loop, items, outbox, workerVars, rsp, received>>

\* The kernel finishes the read of the eventfd and resets its counter.
EventfdRead ==
    /\ wakeOp = "armed" /\ efd
    /\ wakeOp' = "done"
    /\ efd' = FALSE
    /\ UNCHANGED <<conn, next_conn_id, ops, cancelled, acceptOp, accept_fail_streak, loopVars,
                   items, outbox, workerVars, rsp, received, delivered>>

\* complete_wakeup: arm the read again, then take the whole outbox.
Wakeup ==
    /\ Harvesting /\ wakeOp = "done"
    /\ \E ok \in BOOLEAN : get_sqe(<<ok>>) /\ wakeOp' = IF ok THEN "armed" ELSE "off"
    /\ items' = outbox
    /\ outbox' = << >>
    /\ UNCHANGED <<conn, next_conn_id, ops, cancelled, acceptOp, accept_fail_streak, efd,
                   stopping, accepting, loop, workerVars, rsp, received, delivered>>

-----------------------------------------------------------------------------
(***************************************************************************)
(* Replies and the rest of drain_outbox.                                   *)
(***************************************************************************)
\* push_response for an open Connection.
push_response(c, f) ==
    LET k == [conn[c] EXCEPT !.send_q = Append(@, f)]
    IN  IF Len(conn[c].send_q) >= Backlog
        THEN close_conn(c, conn[c], OpsOf(c))
        ELSE /\ \E ok \in BOOLEAN :
                   IF ~conn[c].send_op /\ ok
                   THEN /\ conn' = [conn EXCEPT ![c] = WithSend(k)]
                        /\ ops' = ops \cup {<<"send", c>>}
                        /\ get_sqe(<<ok>>)
                   ELSE /\ conn' = [conn EXCEPT ![c] = k]
                        /\ ops' = ops
                        /\ get_sqe(IF conn[c].send_op THEN << >> ELSE <<ok>>)
             /\ UNCHANGED cancelled

\* The next item, and what every item leaves alone.
NextItem(kind) ==
    /\ items # << >>
    /\ Head(items).kind = kind
    /\ items' = Tail(items)
    /\ UNCHANGED <<next_conn_id, acceptOp, wakeOp, accept_fail_streak, efd, stopping, accepting,
                   loop, outbox, workerVars, rsp, received, delivered>>

\* The connection is closed or closing: the item is dropped.
DropItem ==
    /\ \E kind \in {"respond", "rearm", "close"} : NextItem(kind)
    /\ ~Open(Head(items).conn)
    /\ UNCHANGED <<conn, ops, cancelled, sqFails, draining>>

Respond ==
    /\ NextItem("respond")
    /\ Open(Head(items).conn)
    /\ push_response(Head(items).conn, Head(items).data)

\* Seeded fault: the half frame is not put back.
RearmRecv_DropsTail ==
    /\ NextItem("rearm")
    /\ Open(Head(items).conn)
    /\ LET c == Head(items).conn
       IN  IF draining
           THEN close_conn(c, conn[c], OpsOf(c))
           ELSE /\ conn' = [conn EXCEPT ![c] = WithRecv([@ EXCEPT !.state = "active"])]
                /\ ops' = ops \cup {<<"recv", c>>}
                /\ UNCHANGED <<cancelled, sqFails, draining>>

(* RearmRecv while the engine drains closes the connection.  Otherwise the *)
(* half frame goes back and recv is submitted; when its SQE is refused the *)
(* connection is closed, and a cancel may be refused as well.  (The code   *)
(* also checks that the state is Parsing; BatchOwnsConn says that it is.)  *)
RearmRecv ==
    /\ NextItem("rearm")
    /\ Open(Head(items).conn)
    /\ LET c == Head(items).conn
           k == [conn[c] EXCEPT !.rx = Head(items).data, !.state = "active"]
       IN  \/ /\ draining
              /\ close_conn(c, conn[c], OpsOf(c))
           \/ /\ ~draining
              /\ conn' = [conn EXCEPT ![c] = WithRecv(k)]
              /\ ops' = ops \cup {<<"recv", c>>}
              /\ UNCHANGED <<cancelled, sqFails, draining>>
           \/ /\ ~draining
              /\ conn' = [conn EXCEPT ![c] = maybe_finalize([k EXCEPT !.state = "closing"])]
              /\ \E missed \in SUBSET OpsOf(c) :
                    /\ cancelled' = cancelled \cup (OpsOf(c) \ missed)
                    /\ get_sqe([i \in 1 .. 1 + Cardinality(missed) |-> FALSE])
              /\ ops' = ops

CloseItem ==
    /\ NextItem("close")
    /\ Open(Head(items).conn)
    /\ close_conn(Head(items).conn, conn[Head(items).conn], OpsOf(Head(items).conn))

\* drain_response_ring, one slot.
Response ==
    /\ Harvesting /\ rsp # << >>
    /\ rsp' = Tail(rsp)
    /\ IF Open(Head(rsp)[1])
       THEN push_response(Head(rsp)[1], Head(rsp)[2])
       ELSE UNCHANGED <<conn, ops, cancelled, sqFails, draining>>
    /\ UNCHANGED <<next_conn_id, acceptOp, wakeOp, accept_fail_streak, efd, stopping, accepting,
                   loop, items, outbox, workerVars, received, delivered>>

-----------------------------------------------------------------------------
(***************************************************************************)
(* The main loop around harvest, and the reap after it.                    *)
(***************************************************************************)
SweepIdle(c) ==
    /\ Harvesting /\ loop = "run" /\ ~draining
    /\ Open(c)
    /\ close_conn(c, conn[c], OpsOf(c))
    /\ UNCHANGED <<next_conn_id, acceptOp, wakeOp, accept_fail_streak, efd, stopping, accepting,
                   loop, items, outbox, workerVars, rsp, received, delivered>>

RequestStop ==
    /\ ~stopping
    /\ stopping' = TRUE
    /\ UNCHANGED <<conn, next_conn_id, kernelVars, efd, draining, accepting, loop, sqFails, items,
                   outbox, workerVars, rsp, received, delivered>>

BeginDrain ==
    /\ Harvesting /\ loop = "run"
    /\ stopping /\ ~draining
    /\ draining' = TRUE
    /\ accepting' = FALSE
    /\ UNCHANGED <<conn, next_conn_id, kernelVars, efd, stopping, loop, sqFails, items, outbox,
                   workerVars, rsp, received, delivered>>

\* Seeded fault: the drain has no deadline.
LeaveLoop_NoDeadline ==
    /\ Harvesting /\ loop = "run" /\ draining
    /\ Live = {}
    /\ loop' = "reap"
    /\ UNCHANGED <<conn, next_conn_id, kernelVars, efd, stopping, draining, accepting, sqFails,
                   items, outbox, workerVars, rsp, received, delivered>>

\* drain_complete: no connection is left, or the deadline has passed.
LeaveLoop ==
    /\ Harvesting /\ loop = "run" /\ draining
    /\ loop' = "reap"
    /\ UNCHANGED <<conn, next_conn_id, kernelVars, efd, stopping, draining, accepting, sqFails,
                   items, outbox, workerVars, rsp, received, delivered>>

\* The wait for completions fails for good: the loop is left without a drain.
WaitFails ==
    /\ Harvesting /\ loop = "run"
    /\ loop' = "reap"
    /\ UNCHANGED <<conn, next_conn_id, kernelVars, efd, stopping, draining, accepting, sqFails,
                   items, outbox, workerVars, rsp, received, delivered>>

ReapClose(c) ==
    /\ Harvesting /\ loop = "reap"
    /\ Open(c)
    /\ close_conn(c, conn[c], OpsOf(c))
    /\ UNCHANGED <<next_conn_id, acceptOp, wakeOp, accept_fail_streak, efd, stopping, accepting,
                   loop, items, outbox, workerVars, rsp, received, delivered>>

\* No connection is left, or they were closed, the reap limit has passed and
\* conns_ is cleared with what it holds.
Exit ==
    /\ Harvesting /\ loop = "reap"
    /\ \A c \in Conn : ~Open(c)
    /\ loop' = "exited"
    /\ conn' = [c \in Conn |-> IF Alive(c) THEN [Unborn EXCEPT !.state = "gone"]
                                           ELSE conn[c]]
    /\ UNCHANGED <<next_conn_id, kernelVars, efd, stopping, draining, accepting, sqFails, items,
                   outbox, workerVars, rsp, received, delivered>>

-----------------------------------------------------------------------------
(***************************************************************************)
(* The workers: worker_batch.                                              *)
(***************************************************************************)
mainVars == <<conn, next_conn_id, kernelVars, loopVars, items, rsp, received, delivered>>

\* A worker takes the oldest batch and cuts it: frames, and half a frame.
TakeBatch(w) ==
    /\ work[w] = NoBatch
    /\ posted # << >>
    /\ posted' = Tail(posted)
    /\ work' = [work EXCEPT ![w] = [conn |-> Head(posted).conn,
                                    frames |-> Head(posted).halves \div 2,
                                    left |-> Head(posted).halves % 2,
                                    signal |-> FALSE, finished |-> FALSE]]
    /\ UNCHANGED <<mainVars, efd, outbox, owed, handled>>

\* A worker that has a frame to dispatch, or the end of its batch to report.
Busy(w) == work[w] # NoBatch /\ ~work[w].signal

\* outbox_.push up to the write of the eventfd.
Push(w, kind, data, finished, left) ==
    /\ outbox' = Append(outbox, [kind |-> kind, conn |-> work[w].conn, data |-> data])
    /\ work' = [work EXCEPT ![w].signal = TRUE, ![w].finished = finished, ![w].frames = left]

(* One frame: handle returns a reply (inprocess), passes the request on    *)
(* (ring mode), or there is none to send: one way, or the handler threw.   *)
HandleFrame(w) ==
    /\ Busy(w) /\ work[w].frames > 0
    /\ LET c == work[w].conn
           f == handled[c] + 1
       IN  /\ handled' = [handled EXCEPT ![c] = f]
           /\ \/ /\ ~RingMode
                 /\ Push(w, "respond", f, FALSE, work[w].frames - 1)
                 /\ UNCHANGED owed
              \/ /\ RingMode
                 /\ owed' = owed \cup {<<c, f>>}
                 /\ work' = [work EXCEPT ![w].frames = @ - 1]
                 /\ UNCHANGED outbox
              \/ /\ work' = [work EXCEPT ![w].frames = @ - 1]
                 /\ UNCHANGED <<outbox, owed>>
    /\ UNCHANGED <<mainVars, efd, posted>>

\* The request ring is full or the request malformed: the batch is given up.
HandleRefused(w) ==
    /\ RingMode
    /\ Busy(w) /\ work[w].frames > 0
    /\ Push(w, "close", 0, TRUE, 0)
    /\ UNCHANGED <<mainVars, efd, posted, owed, handled>>

\* The end of the batch: RearmRecv with the half frame, or Close for bad bytes.
FinishBatch(w) ==
    /\ Busy(w) /\ work[w].frames = 0
    /\ \/ Push(w, "rearm", work[w].left, TRUE, 0)
       \/ Push(w, "close", 0, TRUE, 0)
    /\ UNCHANGED <<mainVars, efd, posted, owed, handled>>

\* The write of the eventfd in WorkerOutbox::push.
Signal(w) ==
    /\ work[w] # NoBatch /\ work[w].signal
    /\ efd' = TRUE
    /\ work' = [work EXCEPT ![w] = IF @.finished THEN NoBatch ELSE [@ EXCEPT !.signal = FALSE]]
    /\ UNCHANGED <<mainVars, outbox, posted, owed, handled>>

\* The dispatch process answers a request, in any order, or never will.
DispatchReplies ==
    /\ \E x \in owed :
          /\ owed' = owed \ {x}
          /\ rsp' = Append(rsp, x) \/ rsp' = rsp
    /\ UNCHANGED <<conn, next_conn_id, kernelVars, efd, loopVars, items, outbox, posted, work,
                   handled, received, delivered>>

-----------------------------------------------------------------------------
CompleteRecv(c) == CompleteClosing(c, "recv", AfterRecv(c)) \/ RecvFails(c) \/ RecvData(c)

CompleteSend(c) == CompleteClosing(c, "send", AfterSend(c)) \/ SendFails(c) \/ Sent(c)

DispatchItem == DropItem \/ Respond \/ RearmRecv \/ CloseItem

WorkerStep(w) ==
    TakeBatch(w) \/ HandleFrame(w) \/ HandleRefused(w) \/ FinishBatch(w) \/ Signal(w)

Next ==
    \/ AcceptRefused \/ AcceptFails \/ Accepted
    \/ \E c \in Conn : CompleteRecv(c) \/ CompleteSend(c) \/ SweepIdle(c) \/ ReapClose(c)
    \/ EventfdRead \/ Wakeup \/ DispatchItem \/ Response
    \/ RequestStop \/ BeginDrain \/ LeaveLoop \/ WaitFails \/ Exit
    \/ \E w \in Worker : WorkerStep(w)
    \/ DispatchReplies

Spec == Init /\ [][Next]_vars

(* The main thread handles every completion that the kernel has, a         *)
(* cancelled operation completes, workers run, deadlines pass.  Nothing is *)
(* assumed of clients or of the dispatch process.                          *)
Fairness ==
    /\ \A c \in Conn : /\ WF_vars(CompleteClosing(c, "recv", AfterRecv(c)) /\ <<"recv", c>> \in cancelled)
                       /\ WF_vars(CompleteClosing(c, "send", AfterSend(c)) /\ <<"send", c>> \in cancelled)
                       /\ WF_vars(ReapClose(c))
    /\ WF_vars(EventfdRead) /\ WF_vars(Wakeup) /\ WF_vars(DispatchItem) /\ WF_vars(Response)
    /\ WF_vars(BeginDrain) /\ WF_vars(LeaveLoop) /\ WF_vars(Exit)
    /\ \A w \in Worker : WF_vars(WorkerStep(w))

FairSpec == Spec /\ Fairness

-----------------------------------------------------------------------------
(***************************************************************************)
(* Properties.                                                             *)
(***************************************************************************)
\* The state has its type; at most one recv and one send are in flight.
TypeOK ==
    /\ \A c \in Conn : /\ conn[c].state \in {"unborn", "active", "parsing", "closing", "gone"}
                       /\ conn[c].pending_ops \in 0 .. 2
                       /\ conn[c].rx \in 0 .. 1
                       /\ Len(conn[c].send_q) <= Backlog
    /\ next_conn_id \in 1 .. MaxConns + 1
    /\ ops \subseteq {"recv", "send"} \X Conn
    /\ cancelled \subseteq ops
    /\ wakeOp \in {"armed", "done", "off"}
    /\ accept_fail_streak \in 0 .. FailLimit - 1
    /\ {acceptOp, efd, stopping, draining, accepting} \subseteq BOOLEAN
    /\ loop \in {"run", "reap", "exited"}

Bit(b) == IF b THEN 1 ELSE 0

(* While the engine runs, pending_ops, recv_op and send_op of a Connection *)
(* describe exactly the operations the kernel has for it, and the kernel   *)
(* has none for a Connection that was erased: a completion never finds its *)
(* Connection freed, also when submissions fail (submit_recv, submit_send, *)
(* close_conn, maybe_finalize).                                            *)
OpsAccounted ==
    loop # "exited" =>
        \A c \in Conn :
            /\ conn[c].recv_op <=> <<"recv", c>> \in ops
            /\ conn[c].send_op <=> <<"send", c>> \in ops
            /\ conn[c].pending_ops = Bit(<<"recv", c>> \in ops) + Bit(<<"send", c>> \in ops)
            /\ ~Alive(c) => OpsOf(c) = {}

Positions(s, P(_)) == {i \in 1 .. Len(s) : P(s[i])}

\* Where the batches of c are: with the workers or on their way back.
Batches(c) ==
    LET back(it) == it.conn = c /\ it.kind # "respond"
    IN  {"posted"} \X Positions(posted, LAMBDA b : b.conn = c)
          \cup {"working"} \X {w \in Worker : /\ work[w] # NoBatch
                                             /\ work[w].conn = c /\ ~work[w].finished}
          \cup {"outbox"} \X Positions(outbox, back)
          \cup {"items"} \X Positions(items, back)

(* At any time a Connection either has its recv in flight and no batch, or *)
(* one batch and no recv; a closed one has at most the batch it left       *)
(* behind.  So no two workers ever have the same connection, and none is   *)
(* forgotten in Parsing (complete_recv, worker_batch, drain_outbox).       *)
BatchOwnsConn ==
    \A c \in Conn :
        /\ conn[c].state = "active" => conn[c].recv_op /\ Batches(c) = {}
        /\ conn[c].state = "parsing" => ~conn[c].recv_op /\ Batches(c) # {}
        /\ \A p, q \in Batches(c) : p = q

(* No part of a client's byte stream is lost or handled twice: while recv  *)
(* is in flight, what was received is what was dispatched plus the half    *)
(* frame that was put back (rx_take, cut_frames, rx_feed).                 *)
StreamConserved ==
    \A c \in Conn : conn[c].state = "active" => received[c] = 2 * handled[c] + conn[c].rx

\* What was sent to the client of c and what is on its way to it, with the items
\* of other connections, the oldest first.
Replies(c) ==
    LET s == delivered[c] \o conn[c].send_q
    IN  [i \in 1 .. Len(s) |-> [kind |-> "respond", conn |-> c, data |-> s[i]]]
          \o items \o outbox

(* In inprocess mode the replies of a connection are sent in the order of  *)
(* its requests and none twice, through two workers, the outbox, partial   *)
(* writes and refused submissions.                                         *)
RepliesInOrder ==
    ~RingMode => \A c \in Conn :
        LET s == Replies(c)
            mine(it) == it.conn = c /\ it.kind = "respond"
        IN  \A i, j \in Positions(s, mine) : i < j => s[i].data < s[j].data

(* A Connection does not stay in Parsing: its batch comes back through the *)
(* outbox, and the eventfd is never left unread with an item in the queue. *)
ParsingEnds == \A c \in Conn : conn[c].state = "parsing" ~> conn[c].state # "parsing"

(* A Connection that is closing is erased: its cancelled operations        *)
(* complete, and one without operations is erased at once.                 *)
ClosingEnds == \A c \in Conn : conn[c].state = "closing" ~> conn[c].state = "gone"

(* No Connection stays in a state that only the engine can end.            *)
TransientEnds == ParsingEnds /\ ClosingEnds

\* A stop request ends the engine.
StopEnds == stopping ~> loop = "exited"

-----------------------------------------------------------------------------
(***************************************************************************)
(* What comments and documents say and the code does not do.               *)
(***************************************************************************)
\* After repeated failures the accept is armed again within a tick.
AcceptComesBack ==
    (~acceptOp /\ accepting) ~> (acceptOp \/ ~accepting \/ loop # "run")

\* A Connection is freed only after the kernel has given up its operations.
FreedAfterOps == \A c \in Conn : ~Alive(c) => OpsOf(c) = {}

\* No request of c is still to be answered.
NothingOwed(c) ==
    /\ \A x \in owed : x[1] # c
    /\ \A i \in 1 .. Len(rsp) : rsp[i][1] # c
    /\ conn[c].send_q = << >>

\* A drain closes a connection when its requests in flight have been answered:
\* RearmRecv is the step that closes it.
DrainAnswersFirst ==
    [][(items # << >> /\ Head(items).kind = "rearm" /\ items' = Tail(items)
           /\ draining /\ Open(Head(items).conn)) => NothingOwed(Head(items).conn)]_vars
=============================================================================
