----------------------- MODULE GatewayDeliveryProofs ------------------------
(***************************************************************************)
(* For any number of connections and workers, and any backlog: no byte     *)
(* that a client sent is lost or handled twice, and its replies keep their *)
(* order.                                                                  *)
(*                                                                         *)
(* Both invariants follow what was received from one place to the next:    *)
(* from the kernel to the batch, to the outbox, to the items and to the    *)
(* send queue.                                                             *)
(***************************************************************************)
EXTENDS GatewayProofs

-----------------------------------------------------------------------------
(* The byte stream.                                                        *)

LEMMA StreamInitially == Init => StreamInv
<1> SUFFICES ASSUME Init, NEW c \in Conn PROVE StreamOf(c)
  BY DEF StreamInv
<1>1. QED
  BY DEF StreamOf, RestIn, Init, Unborn, Rest, PostedOf, WorkOf, BackIn

\* What of c is in t, other than replies, was in s.
Taken(t, s, c) == \A i \in BackIn(t, c) : \E k \in BackIn(s, c) : t[i] = s[k]

LEMMA TakenTail ==
  ASSUME NEW s \in Seq(Item), s # << >>, NEW c
  PROVE  Taken(Tail(s), s, c)
<1>1. ASSUME NEW i \in BackIn(Tail(s), c) PROVE i + 1 \in BackIn(s, c) /\ Tail(s)[i] = s[i + 1]
  BY DEF BackIn
<1>2. QED
  BY Zenon, <1>1 DEF Taken

LEMMA TakenAppend ==
  ASSUME NEW s \in Seq(Item), NEW x \in Item, NEW c, x.kind = "respond" \/ x.conn # c
  PROVE  Taken(Append(s, x), s, c)
<1>1. BackIn(Append(s, x), c) = BackIn(s, c)
  BY BackAppend
<1>2. ASSUME NEW i \in BackIn(s, c) PROVE Append(s, x)[i] = s[i]
  BY DEF BackIn
<1>3. QED
  BY Zenon, <1>1, <1>2 DEF Taken

\* Nothing of c was received or handled.
SameCounts(c) == received'[c] = received[c] /\ handled'[c] = handled[c]

LEMMA TakenRest ==
  ASSUME NEW c, NEW s, NEW t, RestIn(s, c), Taken(t, s, c), SameCounts(c)
  PROVE  \A i \in BackIn(t, c) : t[i].kind = "rearm" => received'[c] = 2 * handled'[c] + t[i].data
BY DEF RestIn, Rest, Taken, SameCounts

\* A step in which nothing of c is received or handled, and its rest stays where it is
\* or goes to the main thread.
LEMMA StreamStays ==
  ASSUME NEW c, StreamOf(c), SameCounts(c),
         \/ conn'[c].state \in {"closing", "gone"}
         \/ conn'[c].state = conn[c].state /\ conn'[c].rx = conn[c].rx
         \/ conn'[c].state = "active" /\ Rest(c, conn'[c].rx),
         \A i \in PostedOf(c)' : \E k \in PostedOf(c) : posted'[i] = posted[k],
         \A w \in WorkOf(c)' : /\ w \in WorkOf(c) /\ work'[w].frames = work[w].frames
                               /\ work'[w].left = work[w].left,
         Taken(outbox', outbox, c), Taken(items', items, c) \/ Taken(items', outbox, c)
  PROVE  StreamOf(c)'
  BY TakenRest DEF StreamOf, Rest, SameCounts, RestIn, BackIn

LEMMA TakenSame == ASSUME NEW s, NEW c PROVE Taken(s, s, c)
BY DEF Taken

\* A batch is posted: the half frame that was left, and what was received.
LEMMA RecvDataStream ==
  ASSUME OpsInv, BatchInv, StreamInv, NEW c \in Conn, RecvData(c)
  PROVE  StreamInv'
<1>1. UNCHANGED <<items, outbox, work, handled>>
  BY DEF RecvData
<1>2. PICK n \in 1 .. MaxRecv :
         /\ received' = [received EXCEPT ![c] = @ + n]
         /\ posted' = Append(posted, [conn |-> c, halves |-> conn[c].rx + n])
  BY Zenon DEF RecvData
<1>3. PICK e : /\ ConnStep(c, e) /\ e.state = "parsing"
               /\ conn[c].state \in {"active", "parsing"} /\ conn[c].recv_op
  BY RecvDataShape
<1>4. conn'[c] = e /\ \A d \in Conn \ {c} : conn'[d] = conn[d]
  BY <1>3, StepOnOne
<1>5. conn[c].state = "active" /\ NoneOf(c)
  BY <1>3 DEF BatchInv, Owns
<1>6. /\ received \in [Conn -> Nat] /\ conn[c].rx \in Nat /\ n \in Nat
      /\ posted \in Seq(Batch) /\ handled[c] \in Nat
  BY BoundsAssumption DEF OpsInv, QueueTypes, ConnTypes, Connection
<1>7. received'[c] = received[c] + n /\ \A d \in Conn \ {c} : received'[d] = received[d]
  BY <1>2, <1>6
<1> DEFINE b == [conn |-> c, halves |-> conn[c].rx + n]
<1>8. b.conn = c /\ b.halves = conn[c].rx + n
  OBVIOUS
<1>9. posted' = Append(posted, b) /\ b \in Batch
  BY <1>2, <1>6 DEF Batch
<1> HIDE DEF b
<1>10. /\ Len(posted) \in Nat /\ Len(posted') = Len(posted) + 1
       /\ \A i \in 1 .. Len(posted) : posted'[i] = posted[i]
       /\ posted'[Len(posted) + 1] = b
  BY <1>6, <1>9
<1>11. StreamOf(c)'
  <2>1. Rest(c, conn[c].rx)
    BY <1>5 DEF StreamInv, StreamOf
  <2>2. received'[c] = 2 * handled'[c] + b.halves
    BY <1>1, <1>6, <1>7, <1>8, <2>1 DEF Rest
  <2>3. /\ PostedOf(c)' \subseteq {Len(posted) + 1} /\ WorkOf(c)' = {}
        /\ BackIn(outbox, c)' = {} /\ BackIn(items, c)' = {}
    BY <1>1, <1>5, <1>10 DEF NoneOf, WorkOf, BackIn, PostedOf
  <2>4. QED
    BY <1>3, <1>4, <2>3, <1>10, <2>2 DEF StreamOf, RestIn, Rest
<1>12. ASSUME NEW d \in Conn \ {c} PROVE StreamOf(d)'
  <2>1. \A i \in PostedOf(d)' : \E k \in PostedOf(d) : posted'[i] = posted[k]
    BY <1>8, <1>10 DEF PostedOf
  <2>2. SameCounts(d) /\ StreamOf(d)
    BY <1>1, <1>7 DEF SameCounts, StreamInv
  <2>3. WorkOf(d)' = WorkOf(d)
    BY <1>1 DEF WorkOf
  <2>4. Taken(outbox', outbox, d) /\ Taken(items', items, d)
    BY <1>1, TakenSame
  <2>5. QED
    BY <1>1, <1>4, <2>1, <2>2, <2>3, <2>4, StreamStays
<1>13. QED
  BY <1>11, <1>12 DEF StreamInv

\* A worker cuts its batch.
LEMMA TakeStream ==
  ASSUME OpsInv, BatchInv, StreamInv, NEW w \in Worker, TakeBatch(w)
  PROVE  StreamInv'
<1>1. /\ posted # << >> /\ posted' = Tail(posted) /\ work[w] = NoBatch
      /\ UNCHANGED <<conn, items, outbox, received, handled>>
  BY DEF TakeBatch, mainVars
<1>2. /\ Head(posted) \in Batch /\ Head(posted) = posted[1] /\ Len(posted') = Len(posted) - 1
      /\ \A i \in 1 .. Len(posted') : posted'[i] = posted[i + 1]
  BY <1>1 DEF OpsInv, QueueTypes
<1>3. PICK c \in Conn : c = Head(posted).conn
  BY <1>2 DEF Batch
<1>4. PICK n \in Nat : n = Head(posted).halves
  BY <1>2 DEF Batch
<1>5. /\ \A v \in Worker \ {w} : work'[v] = work[v]
      /\ work'[w].conn = c /\ work'[w].frames = n \div 2 /\ work'[w].left = n % 2
  BY <1>3, <1>4 DEF TakeBatch, OpsInv, QueueTypes
<1>6. ASSUME NEW d \in Conn PROVE \A i \in PostedOf(d)' : \E k \in PostedOf(d) : posted'[i] = posted[k]
  <2>1. ASSUME NEW i \in PostedOf(d)' PROVE i + 1 \in PostedOf(d) /\ posted'[i] = posted[i + 1]
    BY <1>1, <1>2, <2>1 DEF PostedOf, OpsInv, QueueTypes
  <2>2. QED
    BY <2>1
<1>7. ASSUME NEW d \in Conn
      PROVE  Taken(outbox', outbox, d) /\ Taken(items', items, d) /\ SameCounts(d) /\ StreamOf(d)
  BY <1>1, TakenSame DEF SameCounts, StreamInv
<1>8. ASSUME NEW d \in Conn \ {c} PROVE StreamOf(d)'
  <2>1. \A v \in WorkOf(d)' : /\ v \in WorkOf(d) /\ work'[v].frames = work[v].frames
                              /\ work'[v].left = work[v].left
    BY <1>5 DEF WorkOf
  <2>2. QED
    BY Zenon, <1>1, <1>6, <1>7, <2>1, StreamStays
<1>9. StreamOf(c)'
  <2>1. 1 \in PostedOf(c)
    BY <1>1, <1>3, PostedTail
  <2>2. WorkOf(c) = {} /\ PostedOf(c)' = {} /\ BackIn(outbox, c) = {} /\ BackIn(items, c) = {}
        /\ ~NoneOf(c)
    <3>1. OneBatch(c)
      BY DEF BatchInv, Owns
    <3>2. QED
      BY <1>1, <2>1, <3>1, PostedTail, ShiftOut DEF OneBatch, NoneOf
  <2>3. Rest(c, n)
    BY <1>2, <1>4, <1>7, <2>1 DEF StreamOf
  <2>4. WorkOf(c)' \subseteq {w}
    BY <1>5, <2>2 DEF WorkOf
  <2>5. (\A v \in WorkOf(c) : Rest(c, 2 * work[v].frames + work[v].left))'
    BY <1>1, <1>5, <2>3, <2>4 DEF Rest
  <2>6. QED
    BY <1>1, <2>2, <2>5 DEF StreamOf, RestIn, BatchInv, Owns, BackIn
<1>10. QED
  BY <1>8, <1>9 DEF StreamInv

\* A worker and its batch: what BatchInv says while the batch is with it.
LEMMA WorkerAlone ==
  ASSUME OpsInv, BatchInv, NEW w \in Worker, work[w] # NoBatch, ~work[w].signal
  PROVE  /\ work[w] \in Job /\ work[w].conn \in Conn /\ ~work[w].finished
         /\ \A c \in Conn : c = work[w].conn =>
              /\ WorkOf(c) = {w} /\ PostedOf(c) = {}
              /\ BackIn(outbox, c) = {} /\ BackIn(items, c) = {}
              /\ conn[c].state \notin {"active", "unborn"}
<1>1. work[w] \in Job /\ ~work[w].finished
  BY DEF OpsInv, QueueTypes, BatchInv, ReportsLast
<1>2. ASSUME NEW c \in Conn, c = work[w].conn
      PROVE  /\ WorkOf(c) = {w} /\ PostedOf(c) = {}
             /\ BackIn(outbox, c) = {} /\ BackIn(items, c) = {}
             /\ conn[c].state \notin {"active", "unborn"}
  BY <1>1, <1>2 DEF WorkOf, BatchInv, Owns, NoneOf, OneBatch, AtMostOne
<1>3. QED
  BY <1>1, <1>2 DEF Job

\* A step of worker w that leaves what it holds of other connections than c.
LEMMA OthersStream ==
  ASSUME OpsInv, StreamInv, NEW w \in Worker, NEW c \in Conn, UNCHANGED <<conn, items, posted>>,
         work[w] # NoBatch, work[w].conn = c, work'[w] # NoBatch, work'[w].conn = c,
         \A v \in Worker \ {w} : work'[v] = work[v],
         outbox' = outbox \/ \E x \in Item : x.conn = c /\ outbox' = Append(outbox, x),
         NEW d \in Conn \ {c}, SameCounts(d)
  PROVE  StreamOf(d)'
<1>1. Taken(outbox', outbox, d)
  <2>1. outbox \in Seq(Item)
    BY DEF OpsInv, QueueTypes
  <2>2. QED
    BY Zenon, <2>1, TakenSame, TakenAppend
<1>2. QED
  BY TakenSame, <1>1, StreamStays DEF StreamInv, PostedOf, WorkOf

\* A worker handles a frame: one frame less to handle, one more handled.
LEMMA HandleStream ==
  ASSUME OpsInv, BatchInv, StreamInv, NEW w \in Worker, HandleFrame(w)
  PROVE  StreamInv'
<1> DEFINE f == handled[work[w].conn] + 1
<1>1. /\ work[w] # NoBatch /\ ~work[w].signal /\ work[w].frames > 0
      /\ UNCHANGED <<conn, items, posted, received>>
      /\ handled' = [handled EXCEPT ![work[w].conn] = f]
      /\ \/ Push(w, "respond", f, FALSE, work[w].frames - 1)
         \/ outbox' = outbox /\ work' = [work EXCEPT ![w].frames = @ - 1]
  BY Zenon DEF HandleFrame, Busy, mainVars
<1>2. PICK c \in Conn : c = work[w].conn
  BY <1>1, WorkerAlone
<1>3. /\ work[w] \in Job /\ WorkOf(c) = {w} /\ PostedOf(c) = {} /\ BackIn(outbox, c) = {}
      /\ BackIn(items, c) = {} /\ conn[c].state \notin {"active", "unborn"}
  BY <1>1, <1>2, WorkerAlone
<1>4. /\ handled \in [Conn -> Nat] /\ f \in Nat /\ work[w].frames - 1 \in Nat
      /\ work[w].left \in Nat /\ received[c] \in Nat
  <2>1. handled \in [Conn -> Nat] /\ received \in [Conn -> Nat]
    BY DEF OpsInv, QueueTypes
  <2>2. QED
    BY <1>1, <1>2, <1>3, <2>1 DEF Job
<1>5. handled'[c] = handled[c] + 1 /\ \A d \in Conn \ {c} : handled'[d] = handled[d]
  BY <1>1, <1>2, <1>4
<1> HIDE DEF f
<1>6. /\ work'[w] # NoBatch /\ work'[w].conn = c /\ work'[w].frames = work[w].frames - 1
      /\ work'[w].left = work[w].left /\ \A v \in Worker \ {w} : work'[v] = work[v]
      /\ \/ outbox' = outbox
         \/ \E x \in Item : x.conn = c /\ x.kind = "respond" /\ outbox' = Append(outbox, x)
  <2>1. CASE Push(w, "respond", f, FALSE, work[w].frames - 1)
    <3>1. Pushed(w, "respond", f, work[w].frames - 1)
      BY Zenon, <1>1, <1>4, <2>1, PushReply
    <3>2. QED
      BY <1>2, <3>1 DEF Pushed
  <2>2. CASE outbox' = outbox /\ work' = [work EXCEPT ![w].frames = @ - 1]
    BY Zenon, <1>1, <1>2, <2>2, CountOff
  <2>3. QED
    BY Zenon, <1>1, <2>1, <2>2
<1>7. ASSUME NEW d \in Conn \ {c} PROVE StreamOf(d)'
  BY <1>1, <1>2, <1>5, <1>6, OthersStream DEF SameCounts
<1>8. StreamOf(c)'
  <2>1. received'[c] = 2 * handled'[c] + (2 * work'[w].frames + work'[w].left)
    <3>1. /\ received[c] = 2 * handled[c] + (2 * work[w].frames + work[w].left)
          /\ received'[c] = received[c] /\ work'[w].frames = work[w].frames - 1
          /\ work'[w].left = work[w].left /\ handled'[c] = handled[c] + 1
      BY <1>1, <1>5, <1>6, <1>3 DEF Rest, StreamInv, StreamOf
    <3>2. QED
      BY <1>3, <1>4, <3>1 DEF Job
  <2>2. BackIn(outbox', c) = {}
    <3>1. CASE outbox' = outbox
      BY <1>3, <3>1
    <3>2. CASE outbox' # outbox
      <4>1. PICK x \in Item : x.kind = "respond" /\ outbox' = Append(outbox, x)
        BY <1>6, <3>2
      <4>2. QED
        BY <1>3, <4>1, BackAppend DEF OpsInv, QueueTypes
    <3>3. QED
      BY <3>1, <3>2
  <2>3. BackIn(outbox, c)' = {} /\ BackIn(items, c)' = {} /\ PostedOf(c)' = {}
    BY <1>1, <1>3, <2>2 DEF BackIn, PostedOf
  <2>4. QED
    BY <1>1, <1>3, <2>1, <1>6, <2>3 DEF StreamOf, RestIn, Rest, WorkOf
<1>9. QED
  BY <1>7, <1>8 DEF StreamInv

\* The end of a batch: the half frame goes back with RearmRecv.
LEMMA ReportStream ==
  ASSUME OpsInv, BatchInv, StreamInv, NEW w \in Worker, HandleRefused(w) \/ FinishBatch(w)
  PROVE  StreamInv'
<1>1. /\ work[w] # NoBatch /\ ~work[w].signal /\ UNCHANGED <<conn, items, posted, received, handled>>
      /\ \/ Push(w, "close", 0, TRUE, 0)
         \/ work[w].frames = 0 /\ Push(w, "rearm", work[w].left, TRUE, 0)
  BY Zenon DEF HandleRefused, FinishBatch, Busy, mainVars
<1>2. PICK c \in Conn : c = work[w].conn
  BY <1>1, WorkerAlone
<1>3. /\ work[w] \in Job /\ WorkOf(c) = {w} /\ PostedOf(c) = {} /\ BackIn(outbox, c) = {}
      /\ BackIn(items, c) = {} /\ conn[c].state \notin {"active", "unborn"}
  BY <1>1, <1>2, WorkerAlone
<1>4. /\ work'[w] # NoBatch /\ work'[w].conn = c /\ work'[w].finished
      /\ \A v \in Worker \ {w} : work'[v] = work[v]
      /\ \E x \in Item : /\ x.conn = c /\ outbox' = Append(outbox, x)
                         /\ x.kind = "rearm" => Rest(c, x.data)
  <2>1. CASE Push(w, "close", 0, TRUE, 0)
    <3>1. Pushed(w, "close", 0, 0) /\ work'[w].finished
      BY Zenon, <1>1, <2>1, PushEnd
    <3>2. QED
      BY <1>2, <3>1 DEF Pushed
  <2>2. CASE work[w].frames = 0 /\ Push(w, "rearm", work[w].left, TRUE, 0)
    <3>1. Pushed(w, "rearm", work[w].left, 0) /\ work'[w].finished
      <4>1. work[w] # NoBatch /\ work[w].left \in Nat /\ 0 \in Nat
        BY <1>1, <1>3 DEF Job, StreamInv, StreamOf
      <4>2. Push(w, "rearm", work[w].left, TRUE, 0)
        BY Zenon, <2>2
      <4>3. QED
        BY Zenon, <4>1, <4>2, PushEnd
    <3>2. QED
      BY <1>2, <3>1, <1>3, <2>2 DEF Pushed, Job, StreamInv, StreamOf
  <2>3. QED
    BY Zenon, <1>1, <2>1, <2>2
<1>5. ASSUME NEW d \in Conn \ {c} PROVE StreamOf(d)'
  BY <1>1, <1>2, <1>4, OthersStream DEF SameCounts
<1>6. StreamOf(c)'
  <2>1. PICK x \in Item : /\ x.conn = c /\ outbox' = Append(outbox, x)
                          /\ x.kind = "rearm" => Rest(c, x.data)
    BY <1>4
  <2>2. outbox \in Seq(Item)
    BY DEF OpsInv, QueueTypes
  <2>3. BackIn(outbox', c) \subseteq {Len(outbox) + 1} /\ outbox'[Len(outbox) + 1] = x
    <3>1. BackIn(Append(outbox, x), c) \subseteq BackIn(outbox, c) \cup {Len(outbox) + 1}
      BY <2>2, BackAppend
    <3>2. QED
      BY <1>3, <2>1, <3>1, <2>2
  <2>4. RestIn(outbox, c)'
    BY <1>1, <2>1, <2>3 DEF Rest, RestIn, BackIn
  <2>5. WorkOf(c)' = {}
    BY <1>3, <1>4 DEF WorkOf
  <2>6. QED
    BY <1>1, <1>3, <2>4, <2>5 DEF StreamOf, RestIn, BackIn, PostedOf
<1>7. QED
  BY <1>5, <1>6 DEF StreamInv

\* The eventfd is written.
LEMMA SignalStream ==
  ASSUME OpsInv, BatchInv, StreamInv, NEW w \in Worker, Signal(w)
  PROVE  StreamInv'
<1> DEFINE j == work[w]
<1>1. /\ j # NoBatch /\ UNCHANGED <<conn, items, outbox, posted, received, handled>>
      /\ work \in [Worker -> Job \cup {NoBatch}]
      /\ work' = [work EXCEPT ![w] = IF j.finished THEN NoBatch ELSE [j EXCEPT !.signal = FALSE]]
  BY DEF Signal, mainVars, OpsInv, QueueTypes
<1>2. ASSUME NEW c \in Conn PROVE StreamOf(c)'
  BY <1>1, StreamStays, TakenSame DEF PostedOf, StreamInv, SameCounts, WorkOf, Job
<1>3. QED
  BY <1>2 DEF StreamInv

\* The main thread takes the outbox.
LEMMA WakeupStream ==
  ASSUME OpsInv, StreamInv, Wakeup
  PROVE  StreamInv'
<1>1. ASSUME NEW c \in Conn PROVE StreamOf(c)'
  BY WakeupKeeps, StreamStays, TakenSame DEF PostedOf, WorkOf, StreamInv, SameCounts,
     BackIn, Taken
<1>2. QED
  BY <1>1 DEF StreamInv

\* An item is dispatched: RearmRecv puts the half frame back.
LEMMA ItemStream ==
  ASSUME OpsInv, BatchInv, StreamInv, DispatchItem
  PROVE  StreamInv'
<1>1. PICK kind \in {"respond", "rearm", "close"} : NextItem(kind)
  BY DEF DispatchItem, DropItem, Respond, RearmRecv, CloseItem
<1>2. /\ items # << >> /\ Head(items) \in Item /\ Head(items).kind = kind /\ items' = Tail(items)
      /\ Head(items) = items[1] /\ loop # "exited"
      /\ UNCHANGED <<outbox, posted, work, received, handled>>
  BY <1>1, ItemShape
<1>3. PICK c \in Conn : c = Head(items).conn
  BY <1>2 DEF Item
<1>4. /\ \A d \in Conn \ {c} : conn'[d] = conn[d]
      /\ \/ conn'[c].state \in {"closing", "gone"}
         \/ conn'[c].state = conn[c].state /\ conn'[c].rx = conn[c].rx
         \/ conn'[c].state = "active" /\ Rest(c, conn'[c].rx)
  <2>1. CASE DropItem
    BY <2>1 DEF DropItem
  <2>2. CASE Respond
    <3>1. PICK e : ConnStep(c, e) /\ (Ended(c, e) \/ Lives(c, e))
      BY <1>2, <1>3, <2>2, PushShape DEF Respond, Item
    <3>2. QED
      BY <3>1, StepOnOne DEF Ended, Lives
  <2>3. CASE RearmRecv
    <3>1. ~conn[c].recv_op /\ Head(items).data \in Nat /\ 1 \in BackIn(items, c)
      BY <1>3, <2>3, RearmedIdle
    <3>2. Rest(c, Head(items).data)
      BY <1>2, <2>3, <3>1 DEF StreamInv, StreamOf, RestIn, RearmRecv, NextItem
    <3>3. PICK e : ConnStep(c, e)
                   /\ (Ended(c, e) \/ (e.state = "active" /\ e.rx = Head(items).data))
      BY <1>2, <1>3, <2>3, <3>1, RearmShape
    <3>4. CASE Ended(c, e)
      BY <3>3, StepOnOne, <3>4 DEF Ended
    <3>5. CASE e.state = "active" /\ e.rx = Head(items).data
      BY <3>2, <3>3, StepOnOne, <3>5
    <3>6. QED
      BY <3>3, <3>4, <3>5
  <2>4. CASE CloseItem
    <3>1. PICK e : ConnStep(c, e) /\ Ended(c, e)
      BY <1>2, <1>3, <2>4, CloseOpen DEF CloseItem
    <3>2. QED
      BY <3>1, StepOnOne DEF Ended
  <2>5. QED
    BY <2>1, <2>2, <2>3, <2>4 DEF DispatchItem
<1>5. ASSUME NEW d \in Conn PROVE StreamOf(d)'
  <2>1. Taken(items', items, d) /\ Taken(outbox', outbox, d)
    BY <1>2, TakenTail, TakenSame DEF OpsInv, QueueTypes
  <2>2. QED
    BY <1>2, <1>4, <2>1, StreamStays DEF PostedOf, WorkOf, StreamInv, SameCounts
<1>6. QED
  BY <1>5 DEF StreamInv

\* Steps that neither move a batch nor receive or handle anything.
LEMMA StillStream ==
  ASSUME StreamInv, UNCHANGED <<items, outbox, posted, work, received, handled>>,
         \A c \in Conn :
           \/ conn'[c].state \in {"closing", "gone"}
           \/ conn'[c].state = conn[c].state /\ conn'[c].rx = conn[c].rx
           \/ conn'[c].state = "active" /\ Rest(c, conn'[c].rx)
  PROVE  StreamInv'
<1>1. ASSUME NEW c \in Conn PROVE StreamOf(c)'
  BY StreamStays, TakenSame DEF PostedOf, WorkOf, StreamInv, SameCounts
<1>2. QED
  BY <1>1 DEF StreamInv

LEMMA OneStream ==
  ASSUME OpsInv, StreamInv, UNCHANGED <<items, outbox, posted, work, received, handled>>,
         NEW c \in Conn, NEW e, ConnStep(c, e), Ended(c, e) \/ Lives(c, e)
  PROVE  StreamInv'
  BY StepOnOne, StillStream DEF Ended, Lives

\* Every step keeps the stream.
LEMMA StreamStep ==
  ASSUME OpsInv, BatchInv, StreamInv, [Next]_vars
  PROVE  StreamInv'
<1>1. ASSUME NEW w \in Worker, WorkerStep(w) PROVE StreamInv'
  BY <1>1, TakeStream, HandleStream, ReportStream, SignalStream DEF WorkerStep
<1>2. ASSUME NEW c \in Conn, CompleteRecv(c) \/ CompleteSend(c) \/ SweepIdle(c) \/ ReapClose(c)
      PROVE  StreamInv'
  <2>1. CASE RecvData(c)
    BY <2>1, RecvDataStream
  <2>2. CASE Sent(c)
    <3>1. UNCHANGED <<items, outbox, posted, work, received, handled>>
      BY <2>2 DEF Sent, workerVars
    <3>2. QED
      BY <2>2, <3>1, SentShape, OneStream
  <2>3. CASE ~RecvData(c) /\ ~Sent(c)
    BY <1>2, <2>3, EndingKeeps, OneStream DEF CompleteRecv, CompleteSend
  <2>4. QED
    BY <2>1, <2>2, <2>3
<1>3. CASE Accepted
  <2>1. PICK e \in Connection : /\ conn' = [conn EXCEPT ![next_conn_id] = e]
                                /\ e.state \in {"gone", "active"} /\ e.rx = 0
    BY <1>3, AcceptedKeeps
  <2>2. next_conn_id \in Conn /\ conn[next_conn_id].state = "unborn"
        /\ UNCHANGED <<items, outbox, posted, work, received, handled>>
    BY <1>3, AcceptedKeeps
  <2>3. conn \in [Conn -> Connection]
    BY DEF OpsInv, ConnTypes
  <2>4. PICK c \in Conn : c = next_conn_id
    BY <2>2
  <2>5. Rest(c, 0) /\ conn'[c] = e /\ \A d \in Conn \ {c} : conn'[d] = conn[d]
    BY <2>1, <2>2, <2>3, <2>4 DEF StreamInv, StreamOf
  <2>6. QED
    BY <2>1, <2>2, <2>5, StillStream
<1>4. CASE Response
  BY <1>4, OneStream, ResponseKeeps, StillStream
<1>5. CASE Exit
  BY <1>5, ExitKeeps, StillStream, UnbornShape DEF States, Exit
<1>6. CASE DispatchReplies \/ UNCHANGED vars
  BY <1>6, StillStream DEF DispatchReplies, vars, workerVars
<1>7. CASE \/ AcceptRefused \/ AcceptFails \/ EventfdRead
           \/ RequestStop \/ BeginDrain \/ LeaveLoop \/ WaitFails
  BY <1>7, QuietKeeps, StillStream
<1>8. QED
  BY <1>1, <1>2, <1>3, <1>4, <1>5, <1>6, <1>7, WakeupStream, ItemStream DEF Next

\* No part of a client's byte stream is lost or handled twice, for any size of the
\* receive buffer and any number of workers (rx_take, cut_frames, rx_feed).
THEOREM StreamAlwaysConserved == Spec => []StreamConserved
<1>1. Init => OpsInv /\ BatchInv /\ StreamInv
  BY OpsInitially, BatchInitially, StreamInitially
<1>2. OpsInv /\ BatchInv /\ StreamInv /\ [Next]_vars => OpsInv' /\ BatchInv' /\ StreamInv'
  BY OpsStep, BatchStep, StreamStep
<1>3. StreamInv => StreamConserved
  BY DEF StreamInv, StreamOf, StreamConserved, Rest
<1>4. QED
  BY <1>1, <1>2, <1>3, PTL DEF Spec

-----------------------------------------------------------------------------
-----------------------------------------------------------------------------
(* The order of the replies.                                               *)

LEMMA OrderEmpty ==
  ASSUME NEW c
  PROVE  /\ Numbers(<< >>) = {} /\ Ascending(<< >>)
         /\ RepliesOf(<< >>, c) = {} /\ AscendingIn(<< >>, c)
<1>1. 1 .. Len(<< >>) = {}
  OBVIOUS
<1>2. RepliesIn(<< >>, c) = {}
  BY <1>1 DEF RepliesIn
<1>3. QED
  BY <1>1, <1>2 DEF Numbers, Ascending, RepliesOf, AscendingIn

\* A number is taken off the front of a queue, or put at its end.
LEMMA NumbersTail ==
  ASSUME NEW s \in Seq(Nat), s # << >>, Ascending(s)
  PROVE  /\ Tail(s) \in Seq(Nat) /\ Ascending(Tail(s)) /\ Numbers(Tail(s)) \subseteq Numbers(s)
         /\ Head(s) \in Numbers(s) /\ Head(s) \in Nat
         /\ \A x \in Numbers(Tail(s)) : Head(s) < x
<1>1. /\ Len(s) \in Nat \ {0} /\ Len(Tail(s)) = Len(s) - 1 /\ Head(s) = s[1] /\ Tail(s) \in Seq(Nat)
      /\ \A i \in 1 .. Len(Tail(s)) : Tail(s)[i] = s[i + 1]
  OBVIOUS
<1>2. ASSUME NEW i \in 1 .. Len(Tail(s))
      PROVE  i + 1 \in 1 .. Len(s) /\ 1 \in 1 .. Len(s) /\ 1 < i + 1 /\ Tail(s)[i] = s[i + 1]
  BY <1>1
<1>3. Ascending(Tail(s))
  <2>1. ASSUME NEW i \in 1 .. Len(Tail(s)), NEW j \in 1 .. Len(Tail(s)), i < j
        PROVE  Tail(s)[i] < Tail(s)[j]
    <3>1. i + 1 < j + 1
      BY <1>1, <2>1
    <3>2. QED
      BY <1>2, <3>1 DEF Ascending
  <2>2. QED
    BY <2>1 DEF Ascending
<1>4. \A x \in Numbers(Tail(s)) : x \in Numbers(s) /\ Head(s) < x
  BY <1>1, <1>2 DEF Numbers, Ascending
<1>5. Head(s) \in Numbers(s) /\ Head(s) \in Nat
  BY <1>1 DEF Numbers
<1>6. QED
  BY <1>1, <1>3, <1>4, <1>5

LEMMA NumbersAppend ==
  ASSUME NEW s \in Seq(Nat), NEW x \in Nat, Ascending(s), \A y \in Numbers(s) : y < x
  PROVE  Ascending(Append(s, x)) /\ Numbers(Append(s, x)) = Numbers(s) \cup {x}
<1>1. /\ Len(s) \in Nat /\ Len(Append(s, x)) = Len(s) + 1 /\ Append(s, x)[Len(s) + 1] = x
      /\ \A i \in 1 .. Len(s) : Append(s, x)[i] = s[i]
  OBVIOUS
<1>2. Numbers(Append(s, x)) = Numbers(s) \cup {x}
  BY <1>1 DEF Numbers
<1>3. ASSUME NEW i \in 1 .. Len(s) + 1, NEW j \in 1 .. Len(s) + 1, i < j
      PROVE  Append(s, x)[i] < Append(s, x)[j]
  <2>1. i \in 1 .. Len(s)
    BY <1>1, <1>3
  <2>2. CASE j = Len(s) + 1
    BY <1>1, <2>1, <2>2 DEF Numbers
  <2>3. CASE j # Len(s) + 1
    BY <1>1, <1>3, <2>1, <2>3 DEF Ascending
  <2>4. QED
    BY <2>2, <2>3
<1>4. QED
  BY <1>1, <1>2, <1>3 DEF Ascending

\* The same of items.
LEMMA RepliesTail ==
  ASSUME NEW s \in Seq(Item), s # << >>, NEW c, AscendingIn(s, c)
  PROVE  /\ AscendingIn(Tail(s), c) /\ RepliesOf(Tail(s), c) \subseteq RepliesOf(s, c)
         /\ Head(s).conn = c /\ Head(s).kind = "respond" =>
              /\ Head(s).data \in RepliesOf(s, c)
              /\ \A x \in RepliesOf(Tail(s), c) : Head(s).data < x
<1>1. ASSUME NEW i \in RepliesIn(Tail(s), c)
      PROVE  i \in Nat /\ i + 1 \in RepliesIn(s, c) /\ 1 < i + 1 /\ Tail(s)[i] = s[i + 1]
  BY DEF RepliesIn
<1>2. AscendingIn(Tail(s), c)
  <2>1. ASSUME NEW i \in RepliesIn(Tail(s), c), NEW j \in RepliesIn(Tail(s), c), i < j
        PROVE  Tail(s)[i].data < Tail(s)[j].data
    <3>1. i + 1 < j + 1
      BY <1>1, <2>1
    <3>2. QED
      BY Zenon, <1>1, <3>1 DEF AscendingIn
  <2>2. QED
    BY Zenon, <2>1 DEF AscendingIn
<1>3. RepliesOf(Tail(s), c) \subseteq RepliesOf(s, c)
  BY Zenon, <1>1 DEF RepliesOf
<1>4. ASSUME Head(s).conn = c, Head(s).kind = "respond"
      PROVE  /\ Head(s).data \in RepliesOf(s, c)
             /\ \A x \in RepliesOf(Tail(s), c) : Head(s).data < x
  BY <1>1, <1>4 DEF RepliesIn, RepliesOf, AscendingIn
<1>5. QED
  BY <1>2, <1>3, <1>4

LEMMA RepliesAppend ==
  ASSUME NEW s \in Seq(Item), NEW x \in Item, NEW c, AscendingIn(s, c)
  PROVE  /\ x.conn # c \/ x.kind # "respond" =>
              AscendingIn(Append(s, x), c) /\ RepliesOf(Append(s, x), c) = RepliesOf(s, c)
         /\ (\A y \in RepliesOf(s, c) : y < x.data) =>
              /\ AscendingIn(Append(s, x), c)
              /\ RepliesOf(Append(s, x), c) \subseteq RepliesOf(s, c) \cup {x.data}
<1> DEFINE a == Append(s, x)
<1>1. /\ Len(s) \in Nat /\ Len(a) = Len(s) + 1 /\ a[Len(s) + 1] = x
      /\ \A i \in 1 .. Len(s) : a[i] = s[i]
  OBVIOUS
<1> HIDE DEF a
<1>2. /\ RepliesIn(a, c) \subseteq RepliesIn(s, c) \cup {Len(s) + 1}
      /\ RepliesIn(s, c) \subseteq RepliesIn(a, c)
      /\ x.conn # c \/ x.kind # "respond" => RepliesIn(a, c) = RepliesIn(s, c)
  BY <1>1 DEF RepliesIn
<1>3. \A i \in RepliesIn(s, c) : a[i] = s[i] /\ i \in 1 .. Len(s)
  BY <1>1 DEF RepliesIn
<1>4. ASSUME x.conn # c \/ x.kind # "respond"
      PROVE  AscendingIn(a, c) /\ RepliesOf(a, c) = RepliesOf(s, c)
  BY <1>2, <1>3, <1>4 DEF AscendingIn, RepliesOf
<1>5. ASSUME \A y \in RepliesOf(s, c) : y < x.data
      PROVE  AscendingIn(a, c) /\ RepliesOf(a, c) \subseteq RepliesOf(s, c) \cup {x.data}
  <2>1. \A i \in RepliesIn(s, c) : s[i].data < x.data
    BY <1>5 DEF RepliesOf
  <2>2. ASSUME NEW i \in RepliesIn(a, c), NEW j \in RepliesIn(a, c), i < j
        PROVE  a[i].data < a[j].data
    <3>1. i \in RepliesIn(s, c)
      BY <1>1, <1>2, <1>3, <2>2
    <3>2. CASE j = Len(s) + 1
      BY Zenon, <1>1, <1>3, <2>1, <3>1, <3>2
    <3>3. CASE j \in RepliesIn(s, c)
      BY <1>3, <2>2, <3>1, <3>3 DEF AscendingIn
    <3>4. QED
      BY <1>2, <3>2, <3>3
  <2>3. RepliesOf(a, c) \subseteq RepliesOf(s, c) \cup {x.data}
    BY <1>1, <1>2, <1>3 DEF RepliesOf
  <2>4. QED
    BY <2>2, <2>3 DEF AscendingIn
<1>6. QED
  BY <1>4, <1>5 DEF a

\* Numbers and the data of items are naturals.
LEMMA NumbersNat ==
  /\ \A s \in Seq(Nat) : Numbers(s) \subseteq Nat
  /\ \A c : \A s \in Seq(Item) : RepliesOf(s, c) \subseteq Nat
<1>1. ASSUME NEW s \in Seq(Item), NEW c, NEW i \in RepliesIn(s, c) PROVE s[i].data \in Nat
  <2>1. s[i] \in Item
    BY DEF RepliesIn
  <2>2. QED
    BY <2>1 DEF Item
<1>2. QED
  BY <1>1 DEF RepliesOf, Numbers

\* The queue of a connection is dropped, or an item is.
LEMMA OrderFewer ==
  ASSUME NEW d \in Seq(Nat), NEW q \in Seq(Nat), NEW t \in Seq(Item), NEW o \in Seq(Item),
         NEW c, NEW n \in Nat, InOrder(d, q, t, o, c, n)
  PROVE  InOrder(d, << >>, t, o, c, n) /\ (t # << >> => InOrder(d, q, Tail(t), o, c, n))
<1>1. InOrder(d, << >>, t, o, c, n)
  BY OrderEmpty DEF InOrder, Before
<1>2. ASSUME t # << >> PROVE InOrder(d, q, Tail(t), o, c, n)
  <2>1. AscendingIn(Tail(t), c) /\ RepliesOf(Tail(t), c) \subseteq RepliesOf(t, c)
    BY <1>2, RepliesTail DEF InOrder
  <2>2. QED
    BY <2>1 DEF InOrder, Before
<1>3. QED
  BY <1>1, <1>2

\* The head of the queue is sent.
LEMMA OrderSent ==
  ASSUME NEW d \in Seq(Nat), NEW q \in Seq(Nat), NEW t \in Seq(Item), NEW o \in Seq(Item),
         NEW c, NEW n \in Nat, InOrder(d, q, t, o, c, n), q # << >>
  PROVE  InOrder(Append(d, Head(q)), Tail(q), t, o, c, n)
<1>1. /\ Ascending(Tail(q)) /\ Numbers(Tail(q)) \subseteq Numbers(q) /\ Head(q) \in Numbers(q)
      /\ Head(q) \in Nat /\ \A x \in Numbers(Tail(q)) : Head(q) < x
  BY NumbersTail DEF InOrder
<1>2. /\ Ascending(Append(d, Head(q)))
      /\ Numbers(Append(d, Head(q))) = Numbers(d) \cup {Head(q)}
  BY Zenon, <1>1, NumbersAppend DEF InOrder, Before
<1>3. QED
  BY Zenon, <1>1, <1>2 DEF InOrder, Before

\* The first item is a reply of c, and is put into its queue.
LEMMA OrderQueued ==
  ASSUME NEW d \in Seq(Nat), NEW q \in Seq(Nat), NEW t \in Seq(Item), NEW o \in Seq(Item),
         NEW c, NEW n \in Nat, InOrder(d, q, t, o, c, n),
         t # << >>, Head(t).conn = c, Head(t).kind = "respond", Head(t).data \in Nat
  PROVE  InOrder(d, Append(q, Head(t).data), Tail(t), o, c, n)
<1> DEFINE x == Head(t).data
<1>1. /\ AscendingIn(Tail(t), c) /\ RepliesOf(Tail(t), c) \subseteq RepliesOf(t, c)
      /\ x \in RepliesOf(t, c) /\ \A y \in RepliesOf(Tail(t), c) : x < y
  BY RepliesTail DEF InOrder
<1>2. Ascending(Append(q, x)) /\ Numbers(Append(q, x)) = Numbers(q) \cup {x}
  BY Zenon, <1>1, NumbersAppend DEF InOrder, Before
<1>3. QED
  BY Zenon, <1>1, <1>2 DEF InOrder, Before

\* The outbox is taken.
LEMMA OrderTaken ==
  ASSUME NEW d \in Seq(Nat), NEW q \in Seq(Nat), NEW t \in Seq(Item), NEW o \in Seq(Item),
         NEW c, NEW n \in Nat, InOrder(d, q, t, o, c, n), t = << >>
  PROVE  InOrder(d, q, o, << >>, c, n)
  BY OrderEmpty DEF InOrder, Before

\* A frame is handled, and its reply or another item is put into the outbox.
LEMMA OrderPushed ==
  ASSUME NEW d \in Seq(Nat), NEW q \in Seq(Nat), NEW t \in Seq(Item), NEW o \in Seq(Item),
         NEW c, NEW n \in Nat, InOrder(d, q, t, o, c, n)
  PROVE  /\ InOrder(d, q, t, o, c, n + 1)
         /\ \A x \in Item : x.conn # c \/ x.kind # "respond" => InOrder(d, q, t, Append(o, x), c, n)
         /\ \A x \in Item : x.data = n + 1 => InOrder(d, q, t, Append(o, x), c, n + 1)
<1> DEFINE all == Numbers(d) \cup Numbers(q) \cup RepliesOf(t, c) \cup RepliesOf(o, c)
<1>1. \A x \in all : x \in Nat /\ x <= n
  BY NumbersNat DEF InOrder
<1>2. \A x \in all : x <= n + 1 /\ x < n + 1
  BY <1>1
<1>3. InOrder(d, q, t, o, c, n + 1)
  BY <1>2 DEF InOrder
<1>4. ASSUME NEW x \in Item, x.conn # c \/ x.kind # "respond" PROVE InOrder(d, q, t, Append(o, x), c, n)
  <2>1. AscendingIn(Append(o, x), c) /\ RepliesOf(Append(o, x), c) = RepliesOf(o, c)
    BY <1>4, RepliesAppend DEF InOrder
  <2>2. QED
    BY <2>1 DEF InOrder
<1>5. ASSUME NEW x \in Item, x.data = n + 1 PROVE InOrder(d, q, t, Append(o, x), c, n + 1)
  <2>1. AscendingIn(Append(o, x), c) /\ RepliesOf(Append(o, x), c) \subseteq RepliesOf(o, c) \cup {n + 1}
    <3>1. AscendingIn(o, c) /\ \A y \in RepliesOf(o, c) : y < x.data
      BY <1>2, <1>5 DEF InOrder
    <3>2. QED
      BY <1>5, <3>1, RepliesAppend
  <2>2. n + 1 <= n + 1
    OBVIOUS
  <2>3. QED
    BY <1>2, <2>1, <2>2 DEF InOrder, Before
<1>6. QED
  BY <1>3, <1>4, <1>5

LEMMA OrderTypes ==
  ASSUME OpsInv, NEW c \in Conn
  PROVE  /\ delivered[c] \in Seq(Nat) /\ conn[c].send_q \in Seq(Nat) /\ items \in Seq(Item)
         /\ outbox \in Seq(Item) /\ handled[c] \in Nat
BY DEF OpsInv, ConnTypes, QueueTypes, Connection

LEMMA OrderInitially == Init => OrderInv
<1> SUFFICES ASSUME Init, NEW c \in Conn PROVE OrderOf(c)
  BY Zenon DEF OrderInv, Init
<1>1. /\ delivered[c] = << >> /\ conn[c].send_q = << >> /\ items = << >> /\ outbox = << >>
  BY DEF Init, Unborn
<1>2. QED
  BY <1>1, OrderEmpty DEF OrderOf, InOrder, Before

\* A step that moves no reply, but may drop the queue of a connection.
LEMMA OrderStill ==
  ASSUME OpsInv, OrderInv, UNCHANGED <<items, outbox, handled, delivered, owed, rsp>>,
         \A c \in Conn : conn'[c].send_q \in {conn[c].send_q, << >>}
  PROVE  OrderInv'
<1> SUFFICES ASSUME ~RingMode, NEW c \in Conn PROVE OrderOf(c)'
  BY DEF OrderInv
<1>1. InOrder(delivered[c], conn[c].send_q, items, outbox, c, handled[c])
  BY DEF OrderInv, OrderOf
<1>2. InOrder(delivered[c], << >>, items, outbox, c, handled[c])
  BY <1>1, OrderTypes, OrderFewer
<1>3. QED
  BY <1>1, <1>2 DEF OrderOf

\* A reply is sent to its client.
LEMMA SentOrder ==
  ASSUME OpsInv, OrderInv, NEW c \in Conn, Sent(c)
  PROVE  OrderInv'
<1>1. UNCHANGED <<items, outbox, handled, owed, rsp>>
  BY DEF Sent, workerVars
<1>2. PICK e : /\ ConnStep(c, e) /\ conn[c].send_q # << >>
               /\ \/ e.send_q = conn[c].send_q /\ delivered' = delivered
                  \/ /\ e.send_q = Tail(conn[c].send_q)
                     /\ delivered' = [delivered EXCEPT ![c] = Append(@, Head(conn[c].send_q))]
  BY SentShape
<1>3. conn'[c] = e /\ \A d \in Conn \ {c} : conn'[d] = conn[d]
  BY <1>2, StepOnOne
<1>4. CASE e.send_q = conn[c].send_q /\ delivered' = delivered
  BY <1>1, <1>3, <1>4, OrderStill
<1>5. CASE /\ e.send_q = Tail(conn[c].send_q)
           /\ delivered' = [delivered EXCEPT ![c] = Append(@, Head(conn[c].send_q))]
  <2>1. SUFFICES ASSUME ~RingMode, NEW d \in Conn PROVE OrderOf(d)'
    BY <1>1 DEF OrderInv
  <2>2. InOrder(delivered[d], conn[d].send_q, items, outbox, d, handled[d])
    BY <2>1 DEF OrderInv, OrderOf
  <2>3. delivered \in [Conn -> Seq(Nat)]
    BY DEF OpsInv, QueueTypes
  <2>4. CASE d = c
    <3>1. delivered'[c] = Append(delivered[c], Head(conn[c].send_q))
      BY <1>5, <2>3
    <3>2. InOrder(Append(delivered[c], Head(conn[c].send_q)), Tail(conn[c].send_q), items, outbox,
                  c, handled[c])
      BY <1>2, <2>2, <2>4, OrderTypes, OrderSent
    <3>3. QED
      BY <1>1, <1>3, <1>5, <2>4, <3>1, <3>2 DEF OrderOf
  <2>5. CASE d # c
    BY <1>1, <1>3, <1>5, <2>2, <2>3, <2>5 DEF OrderOf
  <2>6. QED
    BY <2>4, <2>5
<1>6. QED
  BY <1>2, <1>4, <1>5

\* The main thread takes the outbox.
LEMMA WakeupOrder ==
  ASSUME OpsInv, OrderInv, Wakeup
  PROVE  OrderInv'
<1>1. /\ items = << >> /\ items' = outbox /\ outbox' = << >>
      /\ UNCHANGED <<conn, owed, rsp, handled, delivered>>
  BY WakeupKeeps
<1> SUFFICES ASSUME ~RingMode, NEW c \in Conn PROVE OrderOf(c)'
  BY <1>1 DEF OrderInv
<1>2. InOrder(delivered[c], conn[c].send_q, items, outbox, c, handled[c])
  BY DEF OrderInv, OrderOf
<1>3. InOrder(delivered[c], conn[c].send_q, outbox, << >>, c, handled[c])
  BY Zenon, <1>1, <1>2, OrderTypes, OrderTaken
<1>4. QED
  BY <1>1, <1>3 DEF OrderOf

\* An item is dispatched.
LEMMA ItemOrder ==
  ASSUME OpsInv, BatchInv, OrderInv, DispatchItem
  PROVE  OrderInv'
<1>1. PICK kind \in {"respond", "rearm", "close"} : NextItem(kind)
  BY DEF DispatchItem, DropItem, Respond, RearmRecv, CloseItem
<1>2. /\ items # << >> /\ Head(items) \in Item /\ Head(items).kind = kind /\ items' = Tail(items)
      /\ loop # "exited" /\ UNCHANGED <<outbox, owed, rsp, handled, delivered>>
  BY <1>1, ItemShape
<1>3. PICK c \in Conn : c = Head(items).conn
  BY <1>2 DEF Item
<1>4. Head(items).data \in Nat
  BY <1>2 DEF Item
<1>5. /\ \A d \in Conn \ {c} : conn'[d] = conn[d]
      /\ \/ conn'[c].send_q \in {conn[c].send_q, << >>}
         \/ kind = "respond" /\ conn'[c].send_q = Append(conn[c].send_q, Head(items).data)
  <2>1. CASE DropItem
    BY <2>1 DEF DropItem
  <2>2. CASE Respond
    <3>1. kind = "respond" /\ Open(c) /\ push_response(c, Head(items).data)
      BY <1>2, <1>3, <2>2 DEF Respond, NextItem
    <3>2. PICK e : /\ ConnStep(c, e)
                   /\ Ended(c, e) \/ e.send_q = Append(conn[c].send_q, Head(items).data)
      BY <1>2, <1>4, <3>1, PushShape
    <3>3. QED
      BY <3>1, <3>2, StepOnOne DEF Ended
  <2>3. CASE RearmRecv
    <3>1. ~conn[c].recv_op
      BY <1>3, <2>3, RearmedIdle
    <3>2. PICK e : ConnStep(c, e) /\ (Ended(c, e) \/ e.send_q = conn[c].send_q)
      BY <1>2, <1>3, <1>4, <2>3, <3>1, RearmShape
    <3>3. QED
      BY <3>2, StepOnOne DEF Ended
  <2>4. CASE CloseItem
    <3>1. PICK e : ConnStep(c, e) /\ Ended(c, e)
      BY <1>2, <1>3, <2>4, CloseOpen DEF CloseItem
    <3>2. QED
      BY <3>1, StepOnOne DEF Ended
  <2>5. QED
    BY <2>1, <2>2, <2>3, <2>4 DEF DispatchItem
<1> SUFFICES ASSUME ~RingMode, NEW d \in Conn PROVE OrderOf(d)'
  BY <1>2 DEF OrderInv
<1>6. InOrder(delivered[d], conn[d].send_q, items, outbox, d, handled[d])
  BY DEF OrderInv, OrderOf
<1>7. /\ InOrder(delivered[d], conn[d].send_q, Tail(items), outbox, d, handled[d])
      /\ InOrder(delivered[d], << >>, Tail(items), outbox, d, handled[d])
  <2>1. InOrder(delivered[d], << >>, items, outbox, d, handled[d])
    BY <1>6, OrderTypes, OrderFewer
  <2>2. << >> \in Seq(Nat)
    OBVIOUS
  <2>3. QED
    BY Zenon, <1>2, <1>6, <2>1, <2>2, OrderTypes, OrderFewer
<1>8. CASE conn'[d].send_q \in {conn[d].send_q, << >>}
  BY <1>2, <1>7, <1>8 DEF OrderOf
<1>9. CASE /\ d = c /\ kind = "respond"
           /\ conn'[c].send_q = Append(conn[c].send_q, Head(items).data)
  <2>1. InOrder(delivered[c], Append(conn[c].send_q, Head(items).data), Tail(items), outbox, c,
                handled[c])
    BY Zenon, <1>2, <1>3, <1>4, <1>6, <1>9, OrderTypes, OrderQueued
  <2>2. QED
    BY <1>2, <1>9, <2>1 DEF OrderOf
<1>10. QED
  BY <1>5, <1>8, <1>9

\* A worker handles a frame, and pushes its reply if there is one.
LEMMA HandleOrder ==
  ASSUME OpsInv, OrderInv, NEW w \in Worker, HandleFrame(w)
  PROVE  OrderInv'
<1> SUFFICES ASSUME ~RingMode PROVE OrderInv'
  BY DEF OrderInv
<1> DEFINE f == handled[work[w].conn] + 1
<1>1. /\ work[w] # NoBatch /\ work[w].frames > 0
      /\ UNCHANGED <<conn, items, rsp, delivered, owed>>
      /\ handled' = [handled EXCEPT ![work[w].conn] = f]
      /\ outbox' = outbox \/ Push(w, "respond", f, FALSE, work[w].frames - 1)
  BY Zenon DEF HandleFrame, Busy, mainVars
<1>2. work[w] \in Job
  BY <1>1 DEF OpsInv, QueueTypes
<1>3. PICK c \in Conn : c = work[w].conn
  BY <1>2 DEF Job
<1>4. handled \in [Conn -> Nat] /\ f \in Nat /\ f = handled[c] + 1 /\ work[w].frames - 1 \in Nat
  <2>1. handled \in [Conn -> Nat]
    BY DEF OpsInv, QueueTypes
  <2>2. QED
    BY <1>1, <1>2, <1>3, <2>1 DEF Job
<1>5. handled'[c] = handled[c] + 1 /\ \A d \in Conn \ {c} : handled'[d] = handled[d]
  BY <1>1, <1>3, <1>4
<1> HIDE DEF f
<1>6. \/ outbox' = outbox
      \/ \E x \in Item : x.conn = c /\ x.data = f /\ outbox' = Append(outbox, x)
  <2>1. CASE Push(w, "respond", f, FALSE, work[w].frames - 1)
    <3>1. Pushed(w, "respond", f, work[w].frames - 1)
      BY Zenon, <1>1, <1>4, <2>1, PushReply
    <3>2. QED
      BY <1>3, <3>1 DEF Pushed
  <2>2. QED
    BY Zenon, <1>1, <2>1
<1>7. ASSUME NEW d \in Conn PROVE OrderOf(d)'
  <2>1. InOrder(delivered[d], conn[d].send_q, items, outbox, d, handled[d])
    BY DEF OrderInv, OrderOf
  <2>2. /\ InOrder(delivered[d], conn[d].send_q, items, outbox, d, handled[d] + 1)
        /\ \A x \in Item : x.conn # d =>
             InOrder(delivered[d], conn[d].send_q, items, Append(outbox, x), d, handled[d])
        /\ \A x \in Item : x.data = handled[d] + 1 =>
             InOrder(delivered[d], conn[d].send_q, items, Append(outbox, x), d, handled[d] + 1)
    BY <2>1, OrderTypes, OrderPushed
  <2>3. InOrder(delivered[d], conn[d].send_q, items, outbox', d, handled'[d])
    <3>1. CASE d = c
      BY Zenon, <1>4, <1>5, <1>6, <2>2, <3>1
    <3>2. CASE d # c
      BY Zenon, <1>5, <1>6, <2>1, <2>2, <3>2
    <3>3. QED
      BY <3>1, <3>2
  <2>4. QED
    BY <1>1, <2>3 DEF OrderOf
<1>8. QED
  BY <1>1, <1>7 DEF OrderInv

\* A worker ends its batch.
LEMMA ReportOrder ==
  ASSUME OpsInv, OrderInv, NEW w \in Worker, HandleRefused(w) \/ FinishBatch(w)
  PROVE  OrderInv'
<1> SUFFICES ASSUME ~RingMode PROVE OrderInv'
  BY DEF OrderInv
<1>1. /\ work[w] # NoBatch /\ UNCHANGED <<conn, items, rsp, delivered, owed, handled>>
      /\ Push(w, "close", 0, TRUE, 0) \/ Push(w, "rearm", work[w].left, TRUE, 0)
  BY Zenon DEF HandleRefused, FinishBatch, Busy, mainVars
<1>2. work[w].left \in Nat
  BY <1>1 DEF OpsInv, QueueTypes, Job
<1>3. \E x \in Item : x.kind # "respond" /\ outbox' = Append(outbox, x)
  <2>1. CASE Push(w, "close", 0, TRUE, 0)
    <3>1. Pushed(w, "close", 0, 0)
      BY Zenon, <1>1, <2>1, PushEnd
    <3>2. QED
      BY <3>1 DEF Pushed
  <2>2. CASE Push(w, "rearm", work[w].left, TRUE, 0)
    <3>1. Pushed(w, "rearm", work[w].left, 0)
      BY Zenon, <1>1, <1>2, <2>2, PushEnd
    <3>2. QED
      BY <3>1 DEF Pushed
  <2>3. QED
    BY Zenon, <1>1, <2>1, <2>2
<1>4. ASSUME NEW d \in Conn PROVE OrderOf(d)'
  <2>1. InOrder(delivered[d], conn[d].send_q, items, outbox, d, handled[d])
    BY DEF OrderInv, OrderOf
  <2>2. InOrder(delivered[d], conn[d].send_q, items, outbox', d, handled[d])
    BY <1>3, <2>1, OrderTypes, OrderPushed
  <2>3. QED
    BY <1>1, <2>2 DEF OrderOf
<1>5. QED
  BY <1>1, <1>4 DEF OrderInv

\* Every step keeps the order of the replies.
LEMMA OrderStep ==
  ASSUME OpsInv, BatchInv, OrderInv, [Next]_vars
  PROVE  OrderInv'
<1> SUFFICES ASSUME ~RingMode PROVE OrderInv'
  BY DEF OrderInv
<1>1. ASSUME NEW w \in Worker, WorkerStep(w) PROVE OrderInv'
  BY <1>1, HandleOrder, OrderStill, ReportOrder DEF TakeBatch, Signal, mainVars,
     WorkerStep
<1>2. ASSUME NEW c \in Conn, CompleteRecv(c) \/ CompleteSend(c) \/ SweepIdle(c) \/ ReapClose(c)
      PROVE  OrderInv'
  <2>1. CASE RecvData(c)
    <3>1. UNCHANGED <<items, outbox, handled, delivered, owed, rsp>>
      BY <2>1 DEF RecvData
    <3>2. PICK e : ConnStep(c, e) /\ e.send_q = conn[c].send_q
      BY <2>1, RecvDataShape
    <3>3. QED
      BY <3>1, <3>2, StepOnOne, OrderStill
  <2>2. CASE Sent(c)
    BY <2>2, SentOrder
  <2>3. CASE ~RecvData(c) /\ ~Sent(c)
    <3>1. /\ UNCHANGED <<items, outbox, handled, delivered, owed, rsp>>
          /\ \E e : ConnStep(c, e) /\ Ended(c, e)
      BY <1>2, <2>3, EndingKeeps DEF CompleteRecv, CompleteSend
    <3>2. PICK e : ConnStep(c, e) /\ Ended(c, e)
      BY <3>1
    <3>3. QED
      BY <3>1, <3>2, StepOnOne, OrderStill DEF Ended
  <2>4. QED
    BY <2>1, <2>2, <2>3
<1>3. CASE Accepted
  BY <1>3, AcceptedKeeps, OrderStill DEF OpsInv, ConnTypes
<1>4. CASE Exit
  BY <1>4, ExitKeeps, OrderStill
<1>5. CASE UNCHANGED vars
  BY <1>5, OrderStill DEF vars, workerVars
<1>6. CASE \/ AcceptRefused \/ AcceptFails \/ EventfdRead
           \/ RequestStop \/ BeginDrain \/ LeaveLoop \/ WaitFails
  BY <1>6, QuietKeeps, OrderStill
<1>7. ~Response /\ ~DispatchReplies
  BY DEF OrderInv, Response, DispatchReplies
<1>8. QED
  BY <1>1, <1>2, <1>3, <1>4, <1>5, <1>6, <1>7, WakeupOrder, ItemOrder DEF Next

\* Two sequences in order, the first before the second.
LEMMA NumbersConcat ==
  ASSUME NEW a \in Seq(Nat), NEW b \in Seq(Nat), Ascending(a), Ascending(b),
         Before(Numbers(a), Numbers(b))
  PROVE  Ascending(a \o b) /\ Numbers(a \o b) \subseteq Numbers(a) \cup Numbers(b)
<1>1. /\ Len(a) \in Nat /\ Len(b) \in Nat /\ Len(a \o b) = Len(a) + Len(b)
      /\ \A i \in 1 .. Len(a \o b) : (a \o b)[i] = IF i <= Len(a) THEN a[i] ELSE b[i - Len(a)]
  OBVIOUS
<1> DEFINE s == a \o b
<1>2. ASSUME NEW i \in 1 .. Len(s)
      PROVE  /\ i <= Len(a) => i \in 1 .. Len(a) /\ s[i] = a[i]
             /\ ~(i <= Len(a)) => i - Len(a) \in 1 .. Len(b) /\ s[i] = b[i - Len(a)]
  BY <1>1
<1> HIDE DEF s
<1>3. ASSUME NEW i \in 1 .. Len(s), NEW j \in 1 .. Len(s), i < j PROVE s[i] < s[j]
  <2>1. CASE j <= Len(a)
    BY <1>1, <1>2, <1>3, <2>1 DEF s, Ascending
  <2>2. CASE i <= Len(a) /\ ~(j <= Len(a))
    BY Zenon, <1>2, <2>2 DEF Before, Numbers
  <2>3. CASE ~(i <= Len(a))
    <3>1. ~(j <= Len(a)) /\ i - Len(a) < j - Len(a)
      BY <1>1, <1>3, <2>3 DEF s
    <3>2. QED
      BY Zenon, <1>2, <2>3, <3>1 DEF Ascending
  <2>4. QED
    BY <2>1, <2>2, <2>3
<1>4. Numbers(s) \subseteq Numbers(a) \cup Numbers(b)
  BY Zenon, <1>2 DEF Numbers
<1>5. QED
  BY <1>3, <1>4 DEF Ascending, s

\* The same of items.
LEMMA RepliesConcat ==
  ASSUME NEW a \in Seq(Item), NEW b \in Seq(Item), NEW c, AscendingIn(a, c), AscendingIn(b, c),
         Before(RepliesOf(a, c), RepliesOf(b, c))
  PROVE  /\ AscendingIn(a \o b, c)
         /\ RepliesOf(a \o b, c) \subseteq RepliesOf(a, c) \cup RepliesOf(b, c)
<1>1. /\ Len(a) \in Nat /\ Len(b) \in Nat /\ Len(a \o b) = Len(a) + Len(b)
      /\ \A i \in 1 .. Len(a \o b) : (a \o b)[i] = IF i <= Len(a) THEN a[i] ELSE b[i - Len(a)]
  OBVIOUS
<1> DEFINE s == a \o b
<1>2. ASSUME NEW i \in 1 .. Len(s)
      PROVE  /\ i <= Len(a) => i \in 1 .. Len(a) /\ s[i] = a[i]
             /\ ~(i <= Len(a)) => i - Len(a) \in 1 .. Len(b) /\ s[i] = b[i - Len(a)]
  BY <1>1
<1> HIDE DEF s
<1>3. ASSUME NEW i \in RepliesIn(s, c)
      PROVE  /\ i \in 1 .. Len(s)
             /\ i <= Len(a) => i \in RepliesIn(a, c) /\ s[i] = a[i]
             /\ ~(i <= Len(a)) => i - Len(a) \in RepliesIn(b, c) /\ s[i] = b[i - Len(a)]
  BY <1>2 DEF RepliesIn
<1>4. ASSUME NEW i \in RepliesIn(s, c), NEW j \in RepliesIn(s, c), i < j
      PROVE  s[i].data < s[j].data
  <2>1. CASE j <= Len(a)
    <3>1. i <= Len(a)
      BY <1>1, <1>3, <1>4, <2>1 DEF s
    <3>2. QED
      BY <1>3, <1>4, <2>1, <3>1 DEF AscendingIn
  <2>2. CASE i <= Len(a) /\ ~(j <= Len(a))
    BY Zenon, <1>3, <2>2 DEF Before, RepliesOf
  <2>3. CASE ~(i <= Len(a))
    <3>1. ~(j <= Len(a)) /\ i - Len(a) < j - Len(a)
      BY <1>1, <1>3, <1>4, <2>3 DEF s
    <3>2. QED
      BY <1>3, <2>3, <3>1 DEF AscendingIn
  <2>4. QED
    BY <2>1, <2>2, <2>3
<1>5. RepliesOf(s, c) \subseteq RepliesOf(a, c) \cup RepliesOf(b, c)
  BY <1>3 DEF RepliesOf
<1>6. QED
  BY Zenon, <1>4, <1>5 DEF AscendingIn, s

LEMMA OrderGivesReplies == ASSUME OpsInv, OrderInv PROVE RepliesInOrder
<1> SUFFICES ASSUME ~RingMode, NEW c \in Conn PROVE AscendingIn(Replies(c), c)
  BY DEF RepliesInOrder, Positions, AscendingIn, RepliesIn
<1> DEFINE d == delivered[c]
           q == conn[c].send_q
           s == d \o q
           r == [i \in 1 .. Len(s) |-> [kind |-> "respond", conn |-> c, data |-> s[i]]]
<1>1. /\ d \in Seq(Nat) /\ q \in Seq(Nat) /\ items \in Seq(Item) /\ outbox \in Seq(Item)
      /\ handled[c] \in Nat
  BY OrderTypes
<1>2. InOrder(d, q, items, outbox, c, handled[c])
  BY DEF OrderInv, OrderOf
<1>3. Replies(c) = (r \o items) \o outbox
  BY DEF Replies
<1> HIDE DEF d, q
<1>4. s \in Seq(Nat) /\ Ascending(s) /\ Numbers(s) \subseteq Numbers(d) \cup Numbers(q)
  BY <1>1, <1>2, NumbersConcat DEF InOrder
<1> HIDE DEF s
<1>5. /\ r \in Seq(Item) /\ Len(r) = Len(s) /\ Len(s) \in Nat
      /\ \A i \in 1 .. Len(s) : r[i].data = s[i]
  <2>1. Len(s) \in Nat /\ \A i \in 1 .. Len(s) : s[i] \in Nat
    BY <1>4
  <2>2. ASSUME NEW i \in 1 .. Len(s) PROVE [kind |-> "respond", conn |-> c, data |-> s[i]] \in Item
    BY <2>1 DEF Item
  <2>3. QED
    BY <2>1, <2>2
<1> HIDE DEF r
<1>6. AscendingIn(r, c) /\ RepliesOf(r, c) \subseteq Numbers(s)
  <2>1. RepliesIn(r, c) \subseteq 1 .. Len(s)
    BY <1>5 DEF RepliesIn
  <2>2. QED
    BY <1>4, <1>5, <2>1 DEF AscendingIn, Ascending, RepliesOf, Numbers
<1>7. /\ Before(RepliesOf(r, c), RepliesOf(items, c)) /\ Before(RepliesOf(r, c), RepliesOf(outbox, c))
      /\ Before(RepliesOf(items, c), RepliesOf(outbox, c))
      /\ AscendingIn(items, c) /\ AscendingIn(outbox, c)
  BY <1>2, <1>4, <1>6 DEF InOrder, Before
<1>8. /\ AscendingIn(r \o items, c) /\ r \o items \in Seq(Item)
      /\ RepliesOf(r \o items, c) \subseteq RepliesOf(r, c) \cup RepliesOf(items, c)
  <2>1. r \in Seq(Item) /\ items \in Seq(Item)
    BY <1>1, <1>5
  <2>2. AscendingIn(r, c) /\ AscendingIn(items, c) /\ Before(RepliesOf(r, c), RepliesOf(items, c))
    BY <1>6, <1>7
  <2>3. QED
    BY <2>1, <2>2, RepliesConcat
<1>9. Before(RepliesOf(r \o items, c), RepliesOf(outbox, c))
  BY <1>7, <1>8 DEF Before
<1>10. AscendingIn((r \o items) \o outbox, c)
  <2> DEFINE ri == r \o items
  <2> HIDE DEF ri
  <2>1. ri \in Seq(Item) /\ AscendingIn(ri, c) /\ Before(RepliesOf(ri, c), RepliesOf(outbox, c))
    BY <1>8, <1>9 DEF ri
  <2>2. AscendingIn(ri \o outbox, c)
    BY <1>1, <1>7, <2>1, RepliesConcat
  <2>3. QED
    BY <2>2 DEF ri
<1>11. QED
  BY <1>3, <1>10

\* In inprocess mode the replies of a connection are sent in the order of its requests
\* and none twice, for any number of workers and any backlog limit (worker_batch,
\* drain_outbox, push_response, complete_send).
THEOREM RepliesAlwaysInOrder == Spec => []RepliesInOrder
<1>1. Init => OpsInv /\ BatchInv /\ OrderInv
  BY OpsInitially, BatchInitially, OrderInitially
<1>2. OpsInv /\ BatchInv /\ OrderInv /\ [Next]_vars => OpsInv' /\ BatchInv' /\ OrderInv'
  BY OpsStep, BatchStep, OrderStep
<1>3. OpsInv /\ OrderInv => RepliesInOrder
  BY OrderGivesReplies
<1>4. QED
  BY <1>1, <1>2, <1>3, PTL DEF Spec

=============================================================================
