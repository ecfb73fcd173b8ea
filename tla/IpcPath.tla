------------------------------ MODULE IpcPath ------------------------------
(***************************************************************************)
(* The way of a request from a gateway worker to a handler and of its      *)
(* reply back to the gateway (ring mode): RingSink::handle in the gateway's*)
(* workers, RingSource::wait_pop, the business pool, flush_replies and the *)
(* reader loop of dispatch_main.cpp, and the gateway's drain_response_ring.*)
(*                                                                         *)
(* The rings are bounded queues here; SpscRing shows that they are.  A slot*)
(* stays occupied until its batch is released.  A notification FIFO is     *)
(* reduced to whether it is readable.  Time is not measured: poll may      *)
(* return at the end of its slice, the gateway's wait after its second,    *)
(* and the deadline of a full response ring may pass, at any moment.       *)
(***************************************************************************)
EXTENDS Integers, Sequences, FiniteSets

CONSTANTS Rings,      \* request rings, one per gateway worker thread
          ReqSlots,   \* slots of a request ring
          RspSlots,   \* slots of the response ring
          MaxBatch,   \* largest batch a consumer takes
          SpinTries,  \* [ipc].spin_tries
          BizThreads, \* threads of the business pool
          Request,    \* requests that clients send
          Conn,       \* client connections
          ConnOf,     \* the connection a request arrived on
          NoRequest   \* what an idle worker holds

ASSUME RingsAssumption == Rings \in Nat \ {0}
ASSUME SlotsAssumption == ReqSlots \in Nat \ {0} /\ RspSlots \in Nat \ {0}
ASSUME BatchAssumption == MaxBatch \in Nat \ {0}
ASSUME SpinAssumption == SpinTries \in Nat
ASSUME PoolAssumption == BizThreads \in Nat \ {0}
ASSUME ConnAssumption == ConnOf \in [Request -> Conn]
ASSUME NoRequestAssumption == NoRequest \notin Request

Worker == 1 .. Rings

VARIABLES
  fate,         \* what became of each request
  wpc, wreq,    \* a worker's place in RingSink::handle, and its request
  was_empty,    \* the worker's sample of its ring
  reqRing,      \* the request rings
  reqNotify,    \* the request FIFO is readable
  rpc,          \* the reader's place in its loop
  slice,        \* the poll slice it chose
  ring,         \* the ring pop_once is at
  batch, got,   \* the batch it took there, and the callbacks made
  total,        \* whether this pop_once took anything
  spins,        \* spins made; SpinTries + 1 once the slice is over
  inflight,     \* inflight_replies
  bizq,         \* the pool's queue
  executing,    \* tasks in router.dispatch
  returning,    \* tasks past their push, before the decrement
  replies,      \* the ReplyQueue
  items,        \* what flush_replies drained and has not written
  staged,       \* replies reserved in the response ring, not published
  rspWasEmpty,  \* flush_replies' sample of the response ring
  rspRing,      \* the response ring
  rspNotify,    \* the response FIFO is readable
  gpc,          \* the gateway's main thread
  gbatch, ggot, \* its batch of the response ring
  closed,       \* connections closed so far
  stopping      \* g_stopping

workerVars == <<wpc, wreq, was_empty>>
popVars == <<ring, batch, got, total, spins>>
bizVars == <<inflight, bizq, executing, returning>>
flushVars == <<items, staged, rspWasEmpty>>
gatewayVars == <<gpc, gbatch, ggot>>
vars == <<fate, workerVars, reqRing, reqNotify, rpc, slice, popVars, bizVars,
          replies, flushVars, rspRing, rspNotify, gatewayVars, closed, stopping>>

Least(a, b) == IF a <= b THEN a ELSE b
Elements(s) == {s[i] : i \in 1 .. Len(s)}
Drop(s, n) == SubSeq(s, n + 1, Len(s))

Init ==
  /\ fate = [r \in Request |-> "unsent"]
  /\ wpc = [w \in Worker |-> "idle"]
  /\ wreq = [w \in Worker |-> NoRequest]
  /\ was_empty = [w \in Worker |-> FALSE]
  /\ reqRing = [w \in Worker |-> << >>]
  /\ reqNotify = FALSE
  /\ rpc = "top"
  /\ slice = "long"
  /\ ring = 1 /\ batch = 0 /\ got = 0 /\ total = FALSE /\ spins = 0
  /\ inflight = 0
  /\ bizq = << >>
  /\ executing = {}
  /\ returning = {}
  /\ replies = << >>
  /\ items = << >>
  /\ staged = << >>
  /\ rspWasEmpty = FALSE
  /\ rspRing = << >>
  /\ rspNotify = FALSE
  /\ gpc = "wait" /\ gbatch = 0 /\ ggot = 0
  /\ closed = {}
  /\ stopping = FALSE
-----------------------------------------------------------------------------
(***************************************************************************)
(* A gateway worker: RingSink::handle.                                     *)
(***************************************************************************)

\* Up to and including the sample of prod.empty().
StartHandle(w, r) ==
  /\ wpc[w] = "idle"
  /\ fate[r] = "unsent"
  /\ fate' = [fate EXCEPT ![r] = "pending"]
  /\ wpc' = [wpc EXCEPT ![w] = "write"]
  /\ wreq' = [wreq EXCEPT ![w] = r]
  /\ was_empty' = [was_empty EXCEPT ![w] = reqRing[w] = << >>]
  /\ UNCHANGED <<reqRing, reqNotify, rpc, slice, popVars, bizVars, replies,
                 flushVars, rspRing, rspNotify, gatewayVars, closed, stopping>>

\* begin_write, fill and publish(1).
WriteRequest(w) ==
  /\ wpc[w] = "write"
  /\ Len(reqRing[w]) < ReqSlots
  /\ reqRing' = [reqRing EXCEPT ![w] = Append(@, wreq[w])]
  /\ wpc' = [wpc EXCEPT ![w] = "notify"]
  /\ wreq' = [wreq EXCEPT ![w] = NoRequest]
  /\ UNCHANGED <<fate, was_empty, reqNotify, rpc, slice, popVars, bizVars,
                 replies, flushVars, rspRing, rspNotify, gatewayVars, closed,
                 stopping>>

\* begin_write finds the ring full: SinkOverload, nothing is written.
Overload(w) ==
  /\ wpc[w] = "write"
  /\ Len(reqRing[w]) = ReqSlots
  /\ fate' = [fate EXCEPT ![wreq[w]] = "refused"]
  /\ wpc' = [wpc EXCEPT ![w] = "idle"]
  /\ wreq' = [wreq EXCEPT ![w] = NoRequest]
  /\ was_empty' = [was_empty EXCEPT ![w] = FALSE]
  /\ UNCHANGED <<reqRing, reqNotify, rpc, slice, popVars, bizVars,
                 replies, flushVars, rspRing, rspNotify, gatewayVars, closed,
                 stopping>>

\* write1, only when the ring was seen empty before the write.
NotifyReader(w) ==
  /\ wpc[w] = "notify"
  /\ reqNotify' = (reqNotify \/ was_empty[w])
  /\ wpc' = [wpc EXCEPT ![w] = "idle"]
  /\ was_empty' = [was_empty EXCEPT ![w] = FALSE]
  /\ UNCHANGED <<fate, wreq, reqRing, rpc, slice, popVars, bizVars,
                 replies, flushVars, rspRing, rspNotify, gatewayVars, closed,
                 stopping>>
-----------------------------------------------------------------------------
(***************************************************************************)
(* The reader: the loop's head and RingSource::wait_pop.                   *)
(***************************************************************************)

\* pop_once starts at the first ring.
StartPop ==
  /\ rpc' = "pop"
  /\ ring' = 1
  /\ total' = FALSE

\* wait_pop returns; its locals and the slice go out of scope.
ReturnToLoop ==
  /\ rpc' = "flush"
  /\ slice' = "long"
  /\ ring' = 1
  /\ total' = FALSE
  /\ spins' = 0

\* The loop's condition and the load of inflight_replies; size() is not read
\* when there are replies in flight.
SampleInflight ==
  /\ rpc = "top"
  /\ \/ /\ stopping
        /\ rpc' = "exited"
        /\ UNCHANGED <<slice, ring, total, spins>>
     \/ /\ ~stopping
        /\ inflight > 0
        /\ slice' = "short"
        /\ StartPop
        /\ spins' = 0
     \/ /\ ~stopping
        /\ inflight = 0
        /\ rpc' = "size"
        /\ UNCHANGED <<slice, ring, total, spins>>
  /\ UNCHANGED <<fate, workerVars, reqRing, reqNotify, batch, got, bizVars,
                 replies, flushVars, rspRing, rspNotify, gatewayVars, closed,
                 stopping>>

\* Seeded fault: the slice is chosen without looking at the reply queue.
SampleReplies_NoSize ==
  /\ rpc = "size"
  /\ slice' = "long"
  /\ StartPop
  /\ spins' = 0
  /\ UNCHANGED <<fate, workerVars, reqRing, reqNotify, batch, got, bizVars,
                 replies, flushVars, rspRing, rspNotify, gatewayVars, closed,
                 stopping>>

\* The call of replies.size(), and with it the slice.
SampleReplies ==
  /\ rpc = "size"
  /\ slice' = IF replies # << >> THEN "short" ELSE "long"
  /\ StartPop
  /\ spins' = 0
  /\ UNCHANGED <<fate, workerVars, reqRing, reqNotify, batch, got, bizVars,
                 replies, flushVars, rspRing, rspNotify, gatewayVars, closed,
                 stopping>>

\* pop_batch on the current ring.  It may return less than there is: a batch
\* ends at the end of the slot array.
PopBatch ==
  /\ rpc = "pop"
  /\ ring <= Rings
  /\ batch = 0
  /\ \E n \in 1 .. Least(Len(reqRing[ring]), MaxBatch) : batch' = n
  /\ got' = 0
  /\ UNCHANGED <<fate, workerVars, reqRing, reqNotify, rpc, slice, ring, total,
                 spins, bizVars, replies, flushVars, rspRing, rspNotify,
                 gatewayVars, closed, stopping>>

\* The callback on one slot of the batch: count it in and post it.
Callback ==
  /\ rpc = "pop"
  /\ got < batch
  /\ inflight' = inflight + 1
  /\ bizq' = Append(bizq, reqRing[ring][got + 1])
  /\ got' = got + 1
  /\ UNCHANGED <<fate, workerVars, reqRing, reqNotify, rpc, slice, ring, batch,
                 total, spins, executing, returning, replies, flushVars,
                 rspRing, rspNotify, gatewayVars, closed, stopping>>

\* The callback's error paths: no memory for the payload, or biz.post throws
\* and the count is taken back.
CallbackFails ==
  /\ rpc = "pop"
  /\ got < batch
  /\ fate' = [fate EXCEPT ![reqRing[ring][got + 1]] = "failed"]
  /\ got' = got + 1
  /\ UNCHANGED <<workerVars, reqRing, reqNotify, rpc, slice, ring, batch, total,
                 spins, bizVars, replies, flushVars, rspRing, rspNotify,
                 gatewayVars, closed, stopping>>

\* release(n) after the last callback of the batch.
Release ==
  /\ rpc = "pop"
  /\ batch > 0
  /\ got = batch
  /\ reqRing' = [reqRing EXCEPT ![ring] = Drop(@, batch)]
  /\ batch' = 0
  /\ got' = 0
  /\ total' = TRUE
  /\ UNCHANGED <<fate, workerVars, reqNotify, rpc, slice, ring, spins, bizVars,
                 replies, flushVars, rspRing, rspNotify, gatewayVars, closed,
                 stopping>>

\* The ring is empty: on to the next one.
NextRing ==
  /\ rpc = "pop"
  /\ ring <= Rings
  /\ batch = 0
  /\ reqRing[ring] = << >>
  /\ ring' = ring + 1
  /\ UNCHANGED <<fate, workerVars, reqRing, reqNotify, rpc, slice, batch, got,
                 total, spins, bizVars, replies, flushVars, rspRing, rspNotify,
                 gatewayVars, closed, stopping>>

\* The end of pop_once: flush if it took something or was the one after the
\* slice; otherwise spin, and poll when the spins are used up.
PopDone ==
  /\ rpc = "pop"
  /\ ring > Rings
  /\ \/ /\ total \/ spins > SpinTries
        /\ ReturnToLoop
     \/ /\ ~total /\ spins < SpinTries
        /\ StartPop
        /\ spins' = spins + 1
        /\ UNCHANGED slice
     \/ /\ ~total /\ spins = SpinTries
        /\ rpc' = "poll"
        /\ UNCHANGED <<slice, ring, total, spins>>
  /\ UNCHANGED <<fate, workerVars, reqRing, reqNotify, batch, got,
                 bizVars, replies, flushVars, rspRing, rspNotify, gatewayVars,
                 closed, stopping>>

\* Seeded fault: poll without a timeout.
PollReturns_NoTimeout ==
  /\ rpc = "poll"
  /\ reqNotify \/ stopping
  /\ reqNotify' = FALSE
  /\ \/ /\ stopping
        /\ ReturnToLoop
     \/ /\ ~stopping
        /\ StartPop
        /\ spins' = SpinTries + 1
        /\ UNCHANGED slice
  /\ UNCHANGED <<fate, workerVars, reqRing, batch, got, bizVars, replies,
                 flushVars, rspRing, rspNotify, gatewayVars, closed, stopping>>

\* poll returns, on a notification, on the stop event or at the end of the
\* slice; the FIFO is drained and, unless stopping, the rings are read again.
PollReturns ==
  /\ rpc = "poll"
  /\ reqNotify' = FALSE
  /\ \/ /\ stopping
        /\ ReturnToLoop
     \/ /\ ~stopping
        /\ StartPop
        /\ spins' = SpinTries + 1
        /\ UNCHANGED slice
  /\ UNCHANGED <<fate, workerVars, reqRing, batch, got, bizVars, replies,
                 flushVars, rspRing, rspNotify, gatewayVars, closed, stopping>>
-----------------------------------------------------------------------------
(***************************************************************************)
(* The business pool: the task posted by the callback.                     *)
(***************************************************************************)

\* A free thread takes the oldest task and enters router.dispatch.
TakeTask ==
  /\ bizq # << >>
  /\ Cardinality(executing \cup returning) < BizThreads
  /\ executing' = executing \cup {Head(bizq)}
  /\ bizq' = Tail(bizq)
  /\ UNCHANGED <<fate, workerVars, reqRing, reqNotify, rpc, slice, popVars,
                 inflight, returning, replies, flushVars, rspRing, rspNotify,
                 gatewayVars, closed, stopping>>

\* The handler returned a frame: push it.
PushReply(r) ==
  /\ r \in executing
  /\ replies' = Append(replies, r)
  /\ executing' = executing \ {r}
  /\ returning' = returning \cup {r}
  /\ UNCHANGED <<fate, workerVars, reqRing, reqNotify, rpc, slice, popVars,
                 inflight, bizq, flushVars, rspRing, rspNotify, gatewayVars,
                 closed, stopping>>

\* There is no frame to push: the request is one-way, or the handler threw.
NoReply(r) ==
  /\ r \in executing
  /\ fate' = [fate EXCEPT ![r] = "silent"]
  /\ executing' = executing \ {r}
  /\ returning' = returning \cup {r}
  /\ UNCHANGED <<workerVars, reqRing, reqNotify, rpc, slice, popVars, inflight,
                 bizq, replies, flushVars, rspRing, rspNotify, gatewayVars,
                 closed, stopping>>

\* Seeded fault: a task without a reply leaks its count.
ReturnQuota_Leaks(r) ==
  /\ r \in returning
  /\ returning' = returning \ {r}
  /\ inflight' = IF fate[r] = "silent" THEN inflight ELSE inflight - 1
  /\ UNCHANGED <<fate, workerVars, reqRing, reqNotify, rpc, slice, popVars, bizq,
                 executing, replies, flushVars, rspRing, rspNotify, gatewayVars,
                 closed, stopping>>

\* Every way out of the task ends in the decrement of inflight_replies.
ReturnQuota(r) ==
  /\ r \in returning
  /\ returning' = returning \ {r}
  /\ inflight' = inflight - 1
  /\ UNCHANGED <<fate, workerVars, reqRing, reqNotify, rpc, slice, popVars, bizq,
                 executing, replies, flushVars, rspRing, rspNotify, gatewayVars,
                 closed, stopping>>
-----------------------------------------------------------------------------
(***************************************************************************)
(* The reader: flush_replies.                                              *)
(***************************************************************************)

\* Seeded fault: the queue is copied instead of emptied.
DrainReplies_Copies ==
  /\ rpc = "flush"
  /\ items' = replies
  /\ rpc' = IF replies = << >> THEN "top" ELSE "sample"
  /\ UNCHANGED <<fate, workerVars, reqRing, reqNotify, slice, popVars, bizVars,
                 replies, staged, rspWasEmpty, rspRing, rspNotify, gatewayVars,
                 closed, stopping>>

\* ReplyQueue::drain; with nothing to flush the loop starts over.
DrainReplies ==
  /\ rpc = "flush"
  /\ items' = replies
  /\ replies' = << >>
  /\ rpc' = IF replies = << >> THEN "top" ELSE "sample"
  /\ UNCHANGED <<fate, workerVars, reqRing, reqNotify, slice, popVars, bizVars,
                 staged, rspWasEmpty, rspRing, rspNotify, gatewayVars, closed,
                 stopping>>

SampleRspRing ==
  /\ rpc = "sample"
  /\ rspWasEmpty' = (rspRing = << >>)
  /\ rpc' = "reply"
  /\ UNCHANGED <<fate, workerVars, reqRing, reqNotify, slice, popVars, bizVars,
                 replies, items, staged, rspRing, rspNotify, gatewayVars,
                 closed, stopping>>

RspFull == Len(rspRing) + Len(staged) = RspSlots

\* begin_write and fill, once round the loop.
WriteReply ==
  /\ rpc = "reply"
  /\ items # << >>
  /\ ~RspFull
  /\ staged' = Append(staged, Head(items))
  /\ items' = Tail(items)
  /\ UNCHANGED <<fate, workerVars, reqRing, reqNotify, rpc, slice, popVars,
                 bizVars, replies, rspWasEmpty, rspRing, rspNotify, gatewayVars,
                 closed, stopping>>

\* The ring is full: publish what is staged and try again.
PublishWhenFull ==
  /\ rpc = "reply"
  /\ items # << >>
  /\ RspFull
  /\ staged # << >>
  /\ rspRing' = rspRing \o staged
  /\ staged' = << >>
  /\ UNCHANGED <<fate, workerVars, reqRing, reqNotify, rpc, slice, popVars,
                 bizVars, replies, items, rspWasEmpty, rspNotify, gatewayVars,
                 closed, stopping>>

\* The ring is full and the deadline has passed, or the process is stopping:
\* publish what is staged and drop the rest.
DropReplies ==
  /\ rpc = "reply"
  /\ items # << >>
  /\ RspFull
  /\ rspRing' = rspRing \o staged
  /\ staged' = << >>
  /\ fate' = [r \in Request |->
                IF r \in Elements(items) THEN "dropped" ELSE fate[r]]
  /\ items' = << >>
  /\ UNCHANGED <<workerVars, reqRing, reqNotify, rpc, slice, popVars, bizVars,
                 replies, rspWasEmpty, rspNotify, gatewayVars, closed, stopping>>

\* The publish after the loop.
PublishReplies ==
  /\ rpc = "reply"
  /\ items = << >>
  /\ rspRing' = rspRing \o staged
  /\ staged' = << >>
  /\ rpc' = "rspnotify"
  /\ UNCHANGED <<fate, workerVars, reqRing, reqNotify, slice, popVars, bizVars,
                 replies, items, rspWasEmpty, rspNotify, gatewayVars, closed,
                 stopping>>

NotifyGateway ==
  /\ rpc = "rspnotify"
  /\ rspNotify' = (rspNotify \/ rspWasEmpty)
  /\ rspWasEmpty' = FALSE
  /\ rpc' = "top"
  /\ UNCHANGED <<fate, workerVars, reqRing, reqNotify, slice, popVars, bizVars,
                 replies, items, staged, rspRing, gatewayVars, closed, stopping>>
-----------------------------------------------------------------------------
(***************************************************************************)
(* The gateway's main thread: drain_response_ring, on a notification or    *)
(* after a second.                                                         *)
(***************************************************************************)

GatewayTurn ==
  /\ gpc = "wait"
  /\ gpc' = "drain"
  /\ rspNotify' = FALSE
  /\ UNCHANGED <<fate, workerVars, reqRing, reqNotify, rpc, slice, popVars,
                 bizVars, replies, flushVars, rspRing, gbatch, ggot, closed,
                 stopping>>

GatewayPop ==
  /\ gpc = "drain"
  /\ gbatch = 0
  /\ \E n \in 1 .. Least(Len(rspRing), MaxBatch) : gbatch' = n
  /\ UNCHANGED <<fate, workerVars, reqRing, reqNotify, rpc, slice, popVars,
                 bizVars, replies, flushVars, rspRing, rspNotify, gpc, ggot,
                 closed, stopping>>

\* A reply goes to its connection's send queue, or nowhere if that is closed.
DeliverReply ==
  /\ gpc = "drain"
  /\ ggot < gbatch
  /\ LET r == rspRing[ggot + 1]
     IN  fate' = [fate EXCEPT ![r] =
                   IF ConnOf[r] \in closed THEN "closed" ELSE "delivered"]
  /\ ggot' = ggot + 1
  /\ UNCHANGED <<workerVars, reqRing, reqNotify, rpc, slice, popVars, bizVars,
                 replies, flushVars, rspRing, rspNotify, gpc, gbatch, closed,
                 stopping>>

GatewayRelease ==
  /\ gpc = "drain"
  /\ gbatch > 0
  /\ ggot = gbatch
  /\ rspRing' = Drop(rspRing, gbatch)
  /\ gbatch' = 0
  /\ ggot' = 0
  /\ UNCHANGED <<fate, workerVars, reqRing, reqNotify, rpc, slice, popVars,
                 bizVars, replies, flushVars, rspNotify, gpc, closed, stopping>>

GatewayDone ==
  /\ gpc = "drain"
  /\ gbatch = 0
  /\ rspRing = << >>
  /\ gpc' = "wait"
  /\ UNCHANGED <<fate, workerVars, reqRing, reqNotify, rpc, slice, popVars,
                 bizVars, replies, flushVars, rspRing, rspNotify, gbatch, ggot,
                 closed, stopping>>
-----------------------------------------------------------------------------
\* A connection is closed, for whatever reason, between two CQEs.
CloseConn(c) ==
  /\ gpc = "wait"
  /\ c \notin closed
  /\ closed' = closed \cup {c}
  /\ UNCHANGED <<fate, workerVars, reqRing, reqNotify, rpc, slice, popVars,
                 bizVars, replies, flushVars, rspRing, rspNotify, gatewayVars,
                 stopping>>

\* on_term: the flag, and the event that wakes the reader's poll.
Stop ==
  /\ ~stopping
  /\ stopping' = TRUE
  /\ UNCHANGED <<fate, workerVars, reqRing, reqNotify, rpc, slice, popVars,
                 bizVars, replies, flushVars, rspRing, rspNotify, gatewayVars,
                 closed>>

WorkerStep(w) == WriteRequest(w) \/ Overload(w) \/ NotifyReader(w)

ReaderStep ==
  \/ SampleInflight \/ SampleReplies
  \/ PopBatch \/ Callback \/ Release \/ NextRing \/ PopDone \/ PollReturns
  \/ DrainReplies \/ SampleRspRing \/ WriteReply \/ PublishWhenFull
  \/ PublishReplies \/ NotifyGateway

ReaderError == CallbackFails \/ DropReplies

GatewayStep ==
  \/ GatewayTurn \/ GatewayPop \/ DeliverReply \/ GatewayRelease
  \/ GatewayDone

TaskStep(r) == PushReply(r) \/ NoReply(r) \/ ReturnQuota(r)

Next ==
  \/ \E w \in Worker, r \in Request : StartHandle(w, r)
  \/ \E w \in Worker : WorkerStep(w)
  \/ ReaderStep
  \/ ReaderError
  \/ TakeTask
  \/ \E r \in Request : TaskStep(r)
  \/ GatewayStep
  \/ \E c \in Conn : CloseConn(c)
  \/ Stop

Spec == Init /\ [][Next]_vars

\* Threads that can run do run, and handlers return.  Nothing is assumed of
\* clients, of errors or of the stop signal.
Fairness ==
  /\ \A w \in Worker : WF_vars(WorkerStep(w))
  /\ WF_vars(ReaderStep)
  /\ WF_vars(TakeTask)
  /\ \A r \in Request : WF_vars(TaskStep(r))
  /\ WF_vars(GatewayStep)

FairSpec == Spec /\ Fairness
-----------------------------------------------------------------------------
(***************************************************************************)
(* Properties.                                                             *)
(***************************************************************************)

\* Every variable has its type; the spin count and the ring index stay in bounds.
TypeOK ==
  /\ fate \in [Request -> {"unsent", "pending", "refused", "failed", "silent",
                           "dropped", "closed", "delivered"}]
  /\ wpc \in [Worker -> {"idle", "write", "notify"}]
  /\ wreq \in [Worker -> Request \cup {NoRequest}]
  /\ was_empty \in [Worker -> BOOLEAN]
  /\ reqRing \in [Worker -> Seq(Request)]
  /\ rpc \in {"top", "size", "pop", "poll", "flush", "sample", "reply",
              "rspnotify", "exited"}
  /\ slice \in {"short", "long"}
  /\ ring \in 1 .. Rings + 1 /\ batch \in Nat /\ got \in Nat
  /\ spins \in 0 .. SpinTries + 1
  /\ inflight \in Nat
  /\ executing \in SUBSET Request /\ returning \in SUBSET Request
  /\ {bizq, replies, items, staged, rspRing} \subseteq Seq(Request)
  /\ {reqNotify, total, rspWasEmpty, rspNotify, stopping} \subseteq BOOLEAN
  /\ gpc \in {"wait", "drain"} /\ gbatch \in Nat /\ ggot \in Nat
  /\ closed \in SUBSET Conn

\* inflight_replies counts exactly the tasks that have not returned their
\* quota: no path of the task or of a failed post leaks a count or returns it
\* twice (dispatch_main.cpp:260-262).
InflightExact ==
  inflight = Len(bizq) + Cardinality(executing) + Cardinality(returning)

\* The reader takes the 200 ms slice only when no task is running and no
\* reply is waiting, so a reply never waits for a long poll: the order of the
\* two samples and of push and decrement matter (dispatch_main.cpp:207-215).
LongPollOnlyWhenIdle ==
  rpc = "poll" /\ slice = "long" =>
    /\ bizq = << >> /\ executing = {}
    /\ replies = << >>

\* Where a request that has no fate yet can be.
At(tag, s, from, r) == {<<tag, i>> : i \in {j \in from + 1 .. Len(s) : s[j] = r}}
Taken(w) == IF rpc = "pop" /\ ring = w THEN got ELSE 0

Places(r) ==
  {<<"worker", w>> : w \in {v \in Worker : wreq[v] = r}}
    \cup UNION {{<<w, p>> : p \in At("request", reqRing[w], Taken(w), r)} : w \in Worker}
    \cup At("task", bizq, 0, r)
    \cup {<<"executing", x>> : x \in executing \cap {r}}
    \cup At("reply", replies, 0, r)
    \cup At("item", items, 0, r)
    \cup At("staged", staged, 0, r)
    \cup At("response", rspRing, ggot, r)

\* A request is in exactly one place until its fate is decided, and nowhere
\* after: it is handled at most once, its reply is delivered at most once,
\* and none is mislaid on the way through six queues and four kinds of thread.
ExactlyOnePlace ==
  \A r \in Request :
    Cardinality(Places(r)) = IF fate[r] = "pending" THEN 1 ELSE 0

\* Every accepted request is answered or its loss is decided, unless dispatch
\* is stopped: whatever notifications the two FIFOs miss, the poll slice and
\* the gateway's one-second wait make up for.
EventuallySettled ==
  \A r \in Request :
    fate[r] = "pending" ~> (fate[r] # "pending" \/ stopping)

\* The design's claim that a blocked reader is always about to be notified.
NoLostNotification ==
  rpc = "poll" /\ (\E w \in Worker : reqRing[w] # << >>) =>
    reqNotify \/ \E w \in Worker : wpc[w] = "notify" /\ was_empty[w]

\* The design's claim that a full response ring never costs a reply.
NoReplyDropped == \A r \in Request : fate[r] # "dropped"
=============================================================================
