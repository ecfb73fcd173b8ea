--------------------------- MODULE IpcPathProofs ----------------------------
(***************************************************************************)
(* For any number of rings, slots, threads and requests, the counter of    *)
(* replies in flight is exact, and the reader polls for its long slice     *)
(* only when there is nothing to reply to.                                 *)
(***************************************************************************)
EXTENDS IpcPath, FiniteSetTheorems, TLAPS

Fates == {"unsent", "pending", "refused", "failed", "silent", "dropped", "closed", "delivered"}

\* The types the argument needs; requests need not be finitely many, tasks are.
Types ==
  /\ fate \in [Request -> Fates]
  /\ wpc \in [Worker -> {"idle", "write", "notify"}]
  /\ wreq \in [Worker -> Request \cup {NoRequest}]
  /\ \A w \in Worker : wpc[w] = "write" => wreq[w] \in Request
  /\ reqRing \in [Worker -> Seq(Request)]
  /\ inflight \in Int
  /\ bizq \in Seq(Request)
  /\ executing \in SUBSET Request /\ IsFiniteSet(executing)
  /\ returning \in SUBSET Request /\ IsFiniteSet(returning)

\* A batch is taken only in pop_once, from the ring it is at, and the callbacks
\* stay within it.
PopShape ==
  /\ ring \in 1 .. Rings + 1 /\ batch \in Nat /\ got \in Nat
  /\ got <= batch
  /\ rpc # "pop" \/ Rings < ring => batch = 0
  /\ ring <= Rings => batch <= Len(reqRing[ring])

\* Where a request is before its task has returned: with a worker, in a ring
\* and not called back yet, or among the tasks.
Held(r) == \E w \in Worker : wreq[w] = r
Ringed(r) ==
  \E w \in Worker : \E i \in Taken(w) + 1 .. Len(reqRing[w]) : reqRing[w][i] = r
Tasked(r) == (\E i \in 1 .. Len(bizq) : bizq[i] = r) \/ r \in executing \/ r \in returning

HeldOnce == \A v, w \in Worker : wreq[v] = wreq[w] /\ wreq[v] \in Request => v = w
RingedOnce ==
  \A v, w \in Worker :
    \A i \in Taken(v) + 1 .. Len(reqRing[v]), j \in Taken(w) + 1 .. Len(reqRing[w]) :
      reqRing[v][i] = reqRing[w][j] => v = w /\ i = j
TaskedOnce ==
  /\ \A i, j \in 1 .. Len(bizq) : bizq[i] = bizq[j] => i = j
  /\ \A i \in 1 .. Len(bizq) : bizq[i] \notin executing /\ bizq[i] \notin returning
  /\ executing \cap returning = {}

\* A request goes through the three places in order and is in one at a time.
Apart ==
  \A r \in Request :
    /\ fate[r] = "unsent" => ~Held(r) /\ ~Ringed(r) /\ ~Tasked(r)
    /\ Held(r) => ~Ringed(r) /\ ~Tasked(r)
    /\ Ringed(r) => ~Tasked(r)

\* The inductive invariant: a task that could be among the others twice would be
\* counted once by the sets and twice by the counter.
PathInv == Types /\ PopShape /\ HeldOnce /\ RingedOnce /\ TaskedOnce /\ Apart /\ InflightExact

\* Nobody has sent a request.
LEMMA PathInitially == Init => PathInv
<1> SUFFICES ASSUME Init PROVE PathInv
  OBVIOUS
<1>1. IsFiniteSet({}) /\ Cardinality({}) = 0
  BY FS_EmptySet
<1>2. Types
  BY <1>1 DEF Init, Types, Fates
<1>3. PopShape
  BY RingsAssumption DEF Init, PopShape, Worker
<1>4. \A r \in Request : ~Held(r)
  BY NoRequestAssumption DEF Init, Held
<1>5. \A w \in Worker : Taken(w) = 0 /\ Len(reqRing[w]) = 0
  BY DEF Init, Taken
<1>6. \A r \in Request : ~Ringed(r)
  BY <1>5 DEF Ringed
<1>7. \A r \in Request : ~Tasked(r)
  BY DEF Init, Tasked
<1>8. HeldOnce /\ RingedOnce /\ TaskedOnce
  BY <1>5, NoRequestAssumption DEF Init, HeldOnce, RingedOnce, TaskedOnce
<1>9. InflightExact
  BY <1>1 DEF Init, InflightExact
<1>10. QED
  BY <1>2, <1>3, <1>4, <1>6, <1>7, <1>8, <1>9 DEF PathInv, Apart

\* What the callbacks have taken of a ring is a prefix of it.
LEMMA TakenWithin ==
  ASSUME PathInv, NEW w \in Worker
  PROVE  Taken(w) \in Nat /\ Taken(w) <= Len(reqRing[w]) /\ Len(reqRing[w]) \in Nat
BY DEF PathInv, Types, PopShape, Taken, Worker

\* A step that leaves the rings and what is taken of them alone.
LEMMA SameRings ==
  ASSUME reqRing' = reqRing, \A w \in Worker : Taken(w)' = Taken(w)
  PROVE  (\A r \in Request : Ringed(r)' <=> Ringed(r)) /\ (RingedOnce => RingedOnce')
<1>1. \A r \in Request : Ringed(r)' <=> Ringed(r)
  BY DEF Ringed
<1>2. RingedOnce => RingedOnce'
  BY DEF RingedOnce
<1>3. QED
  BY <1>1, <1>2

\* A step that moves no request: requests may get a fate, the reader may turn to
\* another ring while it has no batch.
LEMMA SamePlaces ==
  ASSUME PathInv, UNCHANGED <<wreq, reqRing, inflight, bizq, executing, returning>>,
         fate' \in [Request -> Fates],
         \A r \in Request : fate'[r] = "unsent" => fate[r] = "unsent",
         wpc' \in [Worker -> {"idle", "write", "notify"}],
         \A w \in Worker : wpc'[w] = "write" => wpc[w] = "write",
         \A w \in Worker : Taken(w)' = Taken(w),
         PopShape'
  PROVE  PathInv'
<1>1. Types'
  BY DEF PathInv, Types
<1>2. (\A r \in Request : Ringed(r)' <=> Ringed(r)) /\ RingedOnce'
  BY SameRings DEF PathInv
<1>3. \A r \in Request : (Held(r)' <=> Held(r)) /\ (Tasked(r)' <=> Tasked(r))
  BY DEF Held, Tasked
<1>4. HeldOnce' /\ TaskedOnce' /\ InflightExact'
  BY DEF PathInv, HeldOnce, TaskedOnce, InflightExact
<1>5. Apart'
  BY <1>2, <1>3 DEF PathInv, Apart
<1>6. QED
  BY <1>1, <1>2, <1>4, <1>5 DEF PathInv

\* A step of the reader, or of another thread, outside pop_once.
LEMMA OutsidePop ==
  ASSUME PathInv, UNCHANGED <<workerVars, reqRing, bizVars, popVars>>,
         fate' \in [Request -> Fates],
         \A r \in Request : fate'[r] = "unsent" => fate[r] = "unsent",
         rpc' = rpc \/ (rpc # "pop" /\ rpc' # "pop")
  PROVE  PathInv'
<1>1. \A w \in Worker : Taken(w)' = Taken(w)
  BY DEF Taken, PathInv, PopShape, popVars
<1>2. PopShape'
  BY DEF PathInv, PopShape, popVars
<1>3. QED
  BY <1>1, <1>2, SamePlaces DEF PathInv, Types, workerVars, bizVars

\* The reader turns to a ring, or leaves pop_once, without a batch.
LEMMA ReaderTurns ==
  ASSUME PathInv, UNCHANGED <<fate, workerVars, reqRing, bizVars, got>>, got = 0,
         PopShape'
  PROVE  PathInv'
<1>1. \A w \in Worker : Taken(w)' = Taken(w)
  BY DEF Taken
<1>2. QED
  BY <1>1, SamePlaces DEF PathInv, Types, workerVars, bizVars

\* A worker takes up a request nobody has sent before.
LEMMA StartKeeps ==
  ASSUME PathInv, NEW w \in Worker, NEW q \in Request, StartHandle(w, q)
  PROVE  PathInv'
<1> USE DEF StartHandle
<1>1. ~Held(q) /\ ~Ringed(q) /\ ~Tasked(q)
  BY DEF PathInv, Apart
<1>2. Types'
  BY DEF PathInv, Types, Fates, bizVars
<1>3. \A v \in Worker : Taken(v)' = Taken(v)
  BY DEF Taken, popVars
<1>4. (\A r \in Request : Ringed(r)' <=> Ringed(r)) /\ RingedOnce'
  BY <1>3, SameRings DEF PathInv
<1>5. \A r \in Request : (Held(r)' => Held(r) \/ r = q) /\ (Tasked(r)' <=> Tasked(r))
  BY DEF PathInv, Types, Held, Tasked, bizVars
<1>6. HeldOnce'
  BY <1>1 DEF PathInv, Types, HeldOnce, Held
<1>7. PopShape' /\ TaskedOnce' /\ InflightExact'
  BY DEF PathInv, PopShape, TaskedOnce, InflightExact, popVars, bizVars
<1>8. Apart'
  BY <1>1, <1>4, <1>5 DEF PathInv, Types, Apart
<1>9. QED
  BY <1>2, <1>4, <1>6, <1>7, <1>8 DEF PathInv

\* Overload and the notification: a worker lets go of its request, or has none.
LEMMA LetGoKeeps ==
  ASSUME PathInv, NEW w \in Worker, Overload(w) \/ NotifyReader(w)
  PROVE  PathInv'
<1>1. \A v \in Worker : Taken(v)' = Taken(v)
  BY DEF Overload, NotifyReader, Taken, popVars
<1>2. reqRing' = reqRing /\ UNCHANGED bizVars /\ UNCHANGED popVars /\ rpc' = rpc
  BY DEF Overload, NotifyReader
<1>3. Types'
  <2>1. /\ fate' = fate \/ fate' = [fate EXCEPT ![wreq[w]] = "refused"]
        /\ wpc' = [wpc EXCEPT ![w] = "idle"]
        /\ wreq' = wreq \/ wreq' = [wreq EXCEPT ![w] = NoRequest]
    BY Zenon DEF Overload, NotifyReader
  <2>2. fate' \in [Request -> Fates]
    BY <2>1, Zenon DEF PathInv, Types, Fates
  <2>3. wpc' \in [Worker -> {"idle", "write", "notify"}] /\ \A v \in Worker : wpc'[v] = "write" => v # w
    BY <2>1 DEF PathInv, Types
  <2>4. wreq' \in [Worker -> Request \cup {NoRequest}] /\ \A v \in Worker \ {w} : wreq'[v] = wreq[v]
    BY <2>1 DEF PathInv, Types
  <2>5. \A v \in Worker : wpc'[v] = "write" => wreq'[v] \in Request
    BY <2>1, <2>3, <2>4 DEF PathInv, Types
  <2>6. QED
    BY <1>2, <2>2, <2>3, <2>4, <2>5 DEF PathInv, Types, bizVars
<1>4. (\A r \in Request : Ringed(r)' <=> Ringed(r)) /\ RingedOnce'
  BY <1>1, <1>2, SameRings DEF PathInv
<1>5. \A r \in Request : (Held(r)' => Held(r)) /\ (Tasked(r)' <=> Tasked(r))
  BY <1>2, NoRequestAssumption DEF Overload, NotifyReader, PathInv, Types, Held, Tasked, bizVars
<1>6. HeldOnce'
  <2>1. \A v \in Worker : wreq'[v] = wreq[v] \/ wreq'[v] \notin Request
    BY NoRequestAssumption DEF Overload, NotifyReader, PathInv, Types
  <2>2. HeldOnce
    BY DEF PathInv
  <2>3. QED
    BY <2>1, <2>2 DEF HeldOnce
<1>7. PopShape' /\ TaskedOnce' /\ InflightExact'
  BY <1>2 DEF PathInv, PopShape, TaskedOnce, InflightExact, popVars, bizVars
<1>8. \A r \in Request : fate'[r] = "unsent" => fate[r] = "unsent"
  BY DEF Overload, NotifyReader, PathInv, Types
<1>9. Apart'
  BY <1>4, <1>5, <1>8 DEF PathInv, Apart
<1>10. QED
  BY <1>3, <1>4, <1>6, <1>7, <1>9 DEF PathInv

\* A request goes from its worker to the end of the worker's ring.
LEMMA WriteKeeps ==
  ASSUME PathInv, NEW w \in Worker, WriteRequest(w)
  PROVE  PathInv'
<1> DEFINE q == wreq[w]
<1> USE DEF WriteRequest
<1>1. q \in Request /\ Held(q) /\ ~Ringed(q) /\ ~Tasked(q)
  BY DEF PathInv, Types, Apart, Held
<1>2. Types'
  BY <1>1 DEF PathInv, Types, bizVars
<1>3. \A v \in Worker : Taken(v)' = Taken(v)
  BY DEF Taken, popVars
<1>4. /\ reqRing'[w] = Append(reqRing[w], q) /\ Len(reqRing'[w]) = Len(reqRing[w]) + 1
      /\ \A i \in 1 .. Len(reqRing[w]) : reqRing'[w][i] = reqRing[w][i]
      /\ reqRing'[w][Len(reqRing[w]) + 1] = q
      /\ \A v \in Worker \ {w} : reqRing'[v] = reqRing[v]
  <2>1. reqRing[w] \in Seq(Request)
    BY DEF PathInv, Types
  <2>2. reqRing'[w] = Append(reqRing[w], q) /\ \A v \in Worker \ {w} : reqRing'[v] = reqRing[v]
    BY DEF PathInv, Types
  <2> HIDE DEF WriteRequest, q
  <2>3. QED
    BY <1>1, <2>1, <2>2
<1>5. \A v \in Worker : Taken(v) \in Nat /\ Taken(v) <= Len(reqRing[v]) /\ Len(reqRing[v]) \in Nat
  BY TakenWithin
<1>6. \A r \in Request : Ringed(r)' => Ringed(r) \/ r = q
  BY <1>3, <1>4, <1>5 DEF Ringed
<1>7. \A v \in Worker : \A i \in Taken(v) + 1 .. Len(reqRing[v]) : reqRing[v][i] # q
  BY <1>1 DEF Ringed
<1>8. RingedOnce'
  <2> SUFFICES ASSUME NEW u \in Worker, NEW v \in Worker,
                      NEW i \in (Taken(u) + 1 .. Len(reqRing[u]))',
                      NEW j \in (Taken(v) + 1 .. Len(reqRing[v]))',
                      reqRing'[u][i] = reqRing'[v][j]
               PROVE  u = v /\ i = j
    BY Zenon DEF RingedOnce
  <2>1. ASSUME NEW x \in Worker, NEW k \in (Taken(x) + 1 .. Len(reqRing[x]))'
        PROVE  \/ k \in Taken(x) + 1 .. Len(reqRing[x]) /\ reqRing'[x][k] = reqRing[x][k]
               \/ x = w /\ k = Len(reqRing[w]) + 1 /\ reqRing'[x][k] = q
    <3>1. k \in Int /\ Taken(x) + 1 <= k /\ k <= Len(reqRing'[x])
      BY <1>3, <1>4, <1>5
    <3>2. CASE x = w
      BY <1>4, <1>5, <3>1, <3>2
    <3>3. CASE x # w
      BY <1>4, <1>5, <3>1, <3>3
    <3>4. QED
      BY <3>2, <3>3, Zenon
  <2>2. QED
    <3>1. \/ i \in Taken(u) + 1 .. Len(reqRing[u]) /\ reqRing'[u][i] = reqRing[u][i]
          \/ u = w /\ i = Len(reqRing[w]) + 1 /\ reqRing'[u][i] = q
      BY <2>1, Zenon
    <3>2. \/ j \in Taken(v) + 1 .. Len(reqRing[v]) /\ reqRing'[v][j] = reqRing[v][j]
          \/ v = w /\ j = Len(reqRing[w]) + 1 /\ reqRing'[v][j] = q
      BY <2>1, Zenon
    <3>3. RingedOnce
      BY DEF PathInv
    <3> HIDE DEF WriteRequest, q
    <3>4. CASE i \in Taken(u) + 1 .. Len(reqRing[u]) /\ reqRing'[u][i] = reqRing[u][i]
      <4>1. j \in Taken(v) + 1 .. Len(reqRing[v]) /\ reqRing'[v][j] = reqRing[v][j]
        BY <1>7, <3>2, <3>4
      <4>2. reqRing[u][i] = reqRing[v][j]
        BY <3>4, <4>1, Zenon
      <4>3. QED
        BY <3>3, <3>4, <4>1, <4>2 DEF RingedOnce
    <3>5. CASE u = w /\ i = Len(reqRing[w]) + 1 /\ reqRing'[u][i] = q
      BY <1>7, <3>2, <3>5
    <3>6. QED
      BY <3>1, <3>4, <3>5
<1>9. \A r \in Request : (Held(r)' => Held(r) /\ r # q) /\ (Tasked(r)' <=> Tasked(r))
  BY <1>1, NoRequestAssumption DEF PathInv, Types, Held, HeldOnce, Tasked, bizVars
<1>10. HeldOnce'
  BY NoRequestAssumption DEF PathInv, Types, HeldOnce
<1>11. PopShape'
  BY <1>4 DEF PathInv, Types, PopShape, popVars, Worker
<1>12. TaskedOnce' /\ InflightExact'
  BY DEF PathInv, TaskedOnce, InflightExact, bizVars
<1>13. fate[q] # "unsent"
  BY <1>1 DEF PathInv, Apart
<1>14. Apart'
  BY <1>1, <1>6, <1>9, <1>13 DEF PathInv, Apart
<1>15. QED
  BY <1>2, <1>8, <1>10, <1>11, <1>12, <1>14 DEF PathInv

\* A callback, failed or not, takes one request from the front of the rest of
\* the ring.
LEMMA CallbackTakes ==
  ASSUME PathInv, rpc = "pop", got < batch, got' = got + 1, UNCHANGED <<rpc, ring, batch, reqRing>>
  PROVE  /\ PopShape' /\ RingedOnce' /\ reqRing[ring][got + 1] \in Request
         /\ Ringed(reqRing[ring][got + 1])
         /\ \A r \in Request : Ringed(r)' => Ringed(r) /\ r # reqRing[ring][got + 1]
<1> DEFINE q == reqRing[ring][got + 1]
<1>1. /\ ring \in Worker /\ got \in Nat /\ batch \in Nat /\ batch <= Len(reqRing[ring])
      /\ Len(reqRing[ring]) \in Nat
  BY RingsAssumption DEF PathInv, PopShape, Types, Worker
<1>2. q \in Request
  BY <1>1 DEF PathInv, Types
<1>3. Taken(ring) = got /\ Taken(ring)' = got + 1
  BY DEF Taken
<1>4. \A w \in Worker \ {ring} : Taken(w) = 0 /\ Taken(w)' = 0
  BY DEF Taken
<1>5. \A w \in Worker : Taken(w)' + 1 .. Len(reqRing[w]) \subseteq Taken(w) + 1 .. Len(reqRing[w])
  <2> SUFFICES ASSUME NEW w \in Worker
               PROVE  Taken(w)' + 1 .. Len(reqRing[w]) \subseteq Taken(w) + 1 .. Len(reqRing[w])
    OBVIOUS
  <2>1. CASE w = ring
    BY <1>1, <1>3, <2>1
  <2>2. CASE w # ring
    BY <1>4, <2>2
  <2>3. QED
    BY <2>1, <2>2
<1>6. RingedOnce /\ RingedOnce'
  BY <1>5 DEF PathInv, RingedOnce
<1>7. got + 1 \in Taken(ring) + 1 .. Len(reqRing[ring])
  BY <1>1, <1>3
<1>8. Ringed(q)
  BY <1>1, <1>7 DEF Ringed
<1>9. got + 1 \notin Taken(ring)' + 1 .. Len(reqRing[ring])
  BY <1>1, <1>3
<1>10. ASSUME NEW r \in Request, Ringed(r)' PROVE Ringed(r) /\ r # q
  <2>1. PICK w \in Worker : \E k \in Taken(w)' + 1 .. Len(reqRing[w]) : reqRing[w][k] = r
    BY <1>10 DEF Ringed
  <2>2. PICK k \in Taken(w)' + 1 .. Len(reqRing[w]) : reqRing[w][k] = r
    BY <2>1
  <2>3. k \in Taken(w) + 1 .. Len(reqRing[w])
    BY <1>5, <2>2
  <2>4. Ringed(r)
    BY <2>2, <2>3 DEF Ringed
  <2>5. r # q
    BY <1>1, <1>6, <1>7, <1>9, <2>2, <2>3 DEF RingedOnce
  <2>6. QED
    BY <2>4, <2>5
<1>11. PopShape'
  BY <1>1 DEF PathInv, PopShape
<1>12. QED
  BY <1>2, <1>6, <1>8, <1>10, <1>11

\* The callback makes a task of the request and counts it.
LEMMA CallbackKeeps ==
  ASSUME PathInv, Callback
  PROVE  PathInv'
<1> DEFINE q == reqRing[ring][got + 1]
<1>1. /\ PopShape' /\ RingedOnce' /\ q \in Request /\ Ringed(q)
      /\ \A r \in Request : Ringed(r)' => Ringed(r) /\ r # q
  BY CallbackTakes DEF Callback
<1>2. ~Tasked(q) /\ fate[q] # "unsent" /\ ~Held(q)
  BY <1>1 DEF PathInv, Apart
<1> HIDE DEF q
<1>3. /\ bizq' = Append(bizq, q) /\ inflight' = inflight + 1
      /\ UNCHANGED <<fate, wpc, wreq, reqRing, executing, returning>>
  BY DEF Callback, workerVars, q
<1>4. Types'
  BY <1>1, <1>3 DEF PathInv, Types
<1>5. /\ Len(bizq') = Len(bizq) + 1 /\ Len(bizq) \in Nat /\ bizq'[Len(bizq) + 1] = q
      /\ \A i \in 1 .. Len(bizq) : bizq'[i] = bizq[i]
  BY <1>1, <1>3 DEF PathInv, Types
<1>6. TaskedOnce'
  <2>1. TaskedOnce /\ q \notin executing /\ q \notin returning /\ \A i \in 1 .. Len(bizq) : bizq[i] # q
    BY <1>2 DEF PathInv, Tasked
  <2>2. \A i \in 1 .. Len(bizq') :
           (i \in 1 .. Len(bizq) /\ bizq'[i] = bizq[i]) \/ (i = Len(bizq) + 1 /\ bizq'[i] = q)
    <3>1. \A i \in 1 .. Len(bizq') : i \in 1 .. Len(bizq) \/ i = Len(bizq) + 1
      BY <1>5
    <3>2. QED
      BY <1>5, <3>1
  <2>3. QED
    BY <1>3, <2>1, <2>2 DEF TaskedOnce
<1>7. \A r \in Request : (Tasked(r)' => Tasked(r) \/ r = q) /\ (Held(r)' <=> Held(r))
  BY <1>3, <1>5 DEF Tasked, Held
<1>8. HeldOnce' /\ Apart'
  BY <1>1, <1>2, <1>3, <1>7 DEF PathInv, HeldOnce, Apart
<1>9. Cardinality(executing) \in Nat /\ Cardinality(returning) \in Nat
  BY FS_CardinalityType DEF PathInv, Types
<1>10. InflightExact'
  <2>1. inflight = Len(bizq) + Cardinality(executing) + Cardinality(returning)
    BY DEF PathInv, InflightExact
  <2>2. QED
    BY <1>3, <1>5, <1>9, <2>1 DEF InflightExact
<1>11. QED
  BY <1>1, <1>4, <1>6, <1>8, <1>10 DEF PathInv

\* A callback that fails leaves no task and no count.
LEMMA FailedKeeps ==
  ASSUME PathInv, CallbackFails
  PROVE  PathInv'
<1>1. PopShape' /\ RingedOnce' /\ \A r \in Request : Ringed(r)' => Ringed(r)
  BY CallbackTakes DEF CallbackFails
<1>2. UNCHANGED <<wpc, wreq, reqRing, inflight, bizq, executing, returning>>
  BY DEF CallbackFails, workerVars, bizVars
<1>3. Types' /\ \A r \in Request : fate'[r] = "unsent" => fate[r] = "unsent"
  BY <1>2, Zenon DEF CallbackFails, PathInv, Types, Fates
<1>4. \A r \in Request : (Held(r)' <=> Held(r)) /\ (Tasked(r)' <=> Tasked(r))
  BY <1>2 DEF Held, Tasked
<1>5. HeldOnce' /\ TaskedOnce' /\ InflightExact'
  BY <1>2 DEF PathInv, HeldOnce, TaskedOnce, InflightExact
<1>6. Apart'
  BY <1>1, <1>3, <1>4 DEF PathInv, Apart
<1>7. QED
  BY <1>1, <1>3, <1>5, <1>6 DEF PathInv

\* The release drops what the callbacks have taken.
LEMMA ReleaseKeeps ==
  ASSUME PathInv, Release
  PROVE  PathInv'
<1> DEFINE n == batch
<1>1. /\ ring \in Worker /\ got = n /\ n \in Nat /\ n <= Len(reqRing[ring])
      /\ Len(reqRing[ring]) \in Nat /\ reqRing[ring] \in Seq(Request)
  BY RingsAssumption DEF Release, PathInv, PopShape, Types, Worker
<1>2. /\ reqRing' = [reqRing EXCEPT ![ring] = Drop(reqRing[ring], n)]
      /\ UNCHANGED <<fate, wpc, wreq, inflight, bizq, executing, returning, ring, rpc>>
      /\ batch' = 0 /\ got' = 0 /\ rpc = "pop"
  BY DEF Release, workerVars, bizVars
<1> HIDE DEF n
<1>3. /\ reqRing'[ring] \in Seq(Request) /\ Len(reqRing'[ring]) = Len(reqRing[ring]) - n
      /\ \A i \in 1 .. Len(reqRing[ring]) - n : reqRing'[ring][i] = reqRing[ring][i + n]
      /\ \A w \in Worker \ {ring} : reqRing'[w] = reqRing[w]
  BY <1>1, <1>2 DEF Drop, PathInv, Types
<1>4. Taken(ring) = n /\ \A w \in Worker \ {ring} : Taken(w) = 0
  BY <1>1, <1>2 DEF Taken
<1>5. \A w \in Worker : Taken(w)' = 0
  BY <1>2 DEF Taken
<1> DEFINE s(w) == IF w = ring THEN n ELSE 0
<1>6. ASSUME NEW w \in Worker, NEW i \in (Taken(w) + 1 .. Len(reqRing[w]))'
      PROVE  /\ i \in Int /\ i + s(w) \in Taken(w) + 1 .. Len(reqRing[w])
             /\ reqRing'[w][i] = reqRing[w][i + s(w)]
  <2>0. i \in 1 .. Len(reqRing'[w])
    BY <1>5
  <2>1. CASE w = ring
    BY <1>1, <1>3, <1>4, <2>0, <2>1
  <2>2. CASE w # ring
    <3>1. Len(reqRing[w]) \in Nat
      BY DEF PathInv, Types
    <3>2. QED
      BY <1>3, <1>4, <2>0, <2>2, <3>1
  <2>3. QED
    BY <2>1, <2>2
<1>7. Types'
  BY <1>1, <1>2, <1>3 DEF PathInv, Types
<1>8. PopShape'
  BY <1>1, <1>2, <1>3 DEF PathInv, PopShape
<1>9. \A r \in Request : Ringed(r)' => Ringed(r)
  <2> SUFFICES ASSUME NEW r \in Request, Ringed(r)' PROVE Ringed(r)
    OBVIOUS
  <2>1. PICK w \in Worker : (\E i \in Taken(w) + 1 .. Len(reqRing[w]) : reqRing[w][i] = r)'
    BY DEF Ringed
  <2>2. PICK i \in (Taken(w) + 1 .. Len(reqRing[w]))' : reqRing'[w][i] = r
    BY <2>1
  <2>3. i + s(w) \in Taken(w) + 1 .. Len(reqRing[w]) /\ reqRing[w][i + s(w)] = r
    BY <1>6, <2>2
  <2>4. QED
    BY <2>3 DEF Ringed
<1>10. RingedOnce'
  <2> SUFFICES ASSUME NEW u \in Worker, NEW v \in Worker,
                      NEW i \in (Taken(u) + 1 .. Len(reqRing[u]))',
                      NEW j \in (Taken(v) + 1 .. Len(reqRing[v]))',
                      reqRing'[u][i] = reqRing'[v][j]
               PROVE  u = v /\ i = j
    BY DEF RingedOnce
  <2>1. /\ i \in Int /\ i + s(u) \in Taken(u) + 1 .. Len(reqRing[u])
        /\ reqRing'[u][i] = reqRing[u][i + s(u)]
    BY <1>6
  <2>2. /\ j \in Int /\ j + s(v) \in Taken(v) + 1 .. Len(reqRing[v])
        /\ reqRing'[v][j] = reqRing[v][j + s(v)]
    BY <1>6
  <2>3. s(u) \in Nat /\ s(v) \in Nat
    BY <1>1
  <2> HIDE DEF s
  <2>4. u = v /\ i + s(u) = j + s(v)
    <3>1. reqRing[u][i + s(u)] = reqRing[v][j + s(v)]
      BY <2>1, <2>2, Zenon
    <3>2. RingedOnce
      BY DEF PathInv
    <3>3. QED
      BY <2>1, <2>2, <3>1, <3>2 DEF RingedOnce
  <2>5. QED
    BY <2>1, <2>2, <2>3, <2>4
<1>11. \A r \in Request : (Held(r)' <=> Held(r)) /\ (Tasked(r)' <=> Tasked(r))
  BY <1>2 DEF Held, Tasked
<1>12. HeldOnce' /\ TaskedOnce' /\ InflightExact'
  BY <1>2 DEF PathInv, HeldOnce, TaskedOnce, InflightExact
<1>13. Apart'
  BY <1>2, <1>9, <1>11 DEF PathInv, Apart
<1>14. QED
  BY <1>7, <1>8, <1>10, <1>12, <1>13 DEF PathInv

\* A step of the business pool that leaves the rings and the workers alone.
LEMMA PoolStep ==
  ASSUME PathInv, UNCHANGED <<workerVars, reqRing, rpc, popVars>>, Types',
         \A r \in Request : fate'[r] = "unsent" => fate[r] = "unsent",
         TaskedOnce', InflightExact', \A r \in Request : Tasked(r)' => Tasked(r)
  PROVE  PathInv'
<1>1. \A w \in Worker : Taken(w)' = Taken(w)
  BY DEF Taken, popVars
<1>2. (\A r \in Request : Ringed(r)' <=> Ringed(r)) /\ RingedOnce'
  BY <1>1, SameRings DEF PathInv
<1>3. \A r \in Request : Held(r)' <=> Held(r)
  BY DEF Held, workerVars
<1>4. HeldOnce' /\ PopShape'
  BY DEF PathInv, HeldOnce, PopShape, workerVars, popVars
<1>5. Apart'
  BY <1>2, <1>3 DEF PathInv, Apart
<1>6. QED
  BY <1>2, <1>4, <1>5 DEF PathInv

\* A thread takes a task that no thread has.
LEMMA TakeKeeps ==
  ASSUME PathInv, TakeTask
  PROVE  PathInv'
<1> DEFINE q == Head(bizq)
<1>1. /\ bizq \in Seq(Request) /\ Len(bizq) \in Nat /\ 1 <= Len(bizq) /\ q = bizq[1]
      /\ q \in Request /\ bizq' = Tail(bizq) /\ bizq' \in Seq(Request)
      /\ Len(bizq') = Len(bizq) - 1 /\ \A i \in 1 .. Len(bizq') : bizq'[i] = bizq[i + 1]
  BY DEF TakeTask, PathInv, Types
<1>2. /\ executing' = executing \cup {q}
      /\ UNCHANGED <<fate, workerVars, reqRing, rpc, popVars, inflight, returning>>
  BY DEF TakeTask
<1>3. q \notin executing /\ q \notin returning
  BY <1>1 DEF PathInv, TaskedOnce
<1> HIDE DEF q
<1>4. /\ IsFiniteSet(executing') /\ Cardinality(executing') = Cardinality(executing) + 1
      /\ Cardinality(executing) \in Nat /\ Cardinality(returning) \in Nat
  BY <1>2, <1>3, FS_AddElement, FS_CardinalityType DEF PathInv, Types
<1>5. Types'
  BY <1>1, <1>2, <1>4 DEF PathInv, Types, workerVars
<1>6. TaskedOnce'
  <2>1. \A i \in 1 .. Len(bizq') : i + 1 \in 1 .. Len(bizq) /\ i + 1 # 1 /\ bizq'[i] = bizq[i + 1]
    BY <1>1
  <2>2. \A i \in 1 .. Len(bizq') : bizq'[i] # q /\ bizq'[i] \notin executing /\ bizq'[i] \notin returning
    BY <1>1, <2>1 DEF PathInv, TaskedOnce
  <2>3. \A i, j \in 1 .. Len(bizq') : bizq'[i] = bizq'[j] => i = j
    BY <1>1, <2>1 DEF PathInv, TaskedOnce
  <2>4. QED
    BY <1>2, <1>3, <2>2, <2>3 DEF PathInv, TaskedOnce
<1>7. InflightExact'
  <2>1. inflight = Len(bizq) + Cardinality(executing) + Cardinality(returning)
    BY DEF PathInv, InflightExact
  <2>2. QED
    BY <1>1, <1>2, <1>4, <2>1 DEF InflightExact
<1>8. \A r \in Request : Tasked(r)' => Tasked(r)
  BY <1>1, <1>2 DEF Tasked
<1>9. QED
  BY <1>2, <1>5, <1>6, <1>7, <1>8, PoolStep

\* A handler returned: its task goes on to its decrement.
LEMMA HandledKeeps ==
  ASSUME PathInv, NEW q \in Request, PushReply(q) \/ NoReply(q)
  PROVE  PathInv'
<1>1. /\ q \in executing /\ executing' = executing \ {q} /\ returning' = returning \cup {q}
      /\ UNCHANGED <<workerVars, reqRing, rpc, popVars, inflight, bizq>>
  BY DEF PushReply, NoReply
<1>2. q \notin returning
  BY <1>1 DEF PathInv, TaskedOnce
<1>3. /\ IsFiniteSet(executing') /\ Cardinality(executing') = Cardinality(executing) - 1
      /\ Cardinality(executing) \in Nat
  BY <1>1, FS_RemoveElement, FS_CardinalityType DEF PathInv, Types
<1>4. /\ IsFiniteSet(returning') /\ Cardinality(returning') = Cardinality(returning) + 1
      /\ Cardinality(returning) \in Nat
  BY <1>1, <1>2, FS_AddElement, FS_CardinalityType DEF PathInv, Types
<1>5. fate' \in [Request -> Fates] /\ \A r \in Request : fate'[r] = "unsent" => fate[r] = "unsent"
  <2>1. fate' = fate \/ fate' = [fate EXCEPT ![q] = "silent"]
    BY Zenon DEF PushReply, NoReply
  <2>2. fate \in [Request -> Fates] /\ "silent" \in Fates /\ "silent" # "unsent"
    BY DEF PathInv, Types, Fates
  <2>3. QED
    BY <2>1, <2>2, Zenon
<1>6. Types'
  BY <1>1, <1>3, <1>4, <1>5 DEF PathInv, Types, workerVars
<1>7. TaskedOnce' /\ \A r \in Request : Tasked(r)' => Tasked(r)
  BY <1>1, <1>2 DEF PathInv, TaskedOnce, Tasked
<1>8. InflightExact'
  BY <1>1, <1>3, <1>4 DEF PathInv, Types, InflightExact
<1>9. QED
  BY <1>1, <1>5, <1>6, <1>7, <1>8, PoolStep

\* The decrement ends one task.
LEMMA ReturnKeeps ==
  ASSUME PathInv, NEW q \in Request, ReturnQuota(q)
  PROVE  PathInv'
<1>1. /\ q \in returning /\ returning' = returning \ {q} /\ inflight' = inflight - 1
      /\ UNCHANGED <<fate, workerVars, reqRing, rpc, popVars, bizq, executing>>
  BY DEF ReturnQuota
<1>2. /\ IsFiniteSet(returning') /\ Cardinality(returning') = Cardinality(returning) - 1
      /\ Cardinality(returning) \in Nat /\ Cardinality(executing) \in Nat
  BY <1>1, FS_RemoveElement, FS_CardinalityType DEF PathInv, Types
<1>3. Types'
  BY <1>1, <1>2 DEF PathInv, Types, workerVars
<1>4. TaskedOnce' /\ \A r \in Request : Tasked(r)' => Tasked(r)
  BY <1>1 DEF PathInv, TaskedOnce, Tasked
<1>5. InflightExact'
  BY <1>1, <1>2 DEF PathInv, Types, InflightExact
<1>6. QED
  BY <1>1, <1>3, <1>4, <1>5, PoolStep

\* The steps of the reader that make no callback and release nothing.
LEMMA ReaderKeeps ==
  ASSUME PathInv, \/ SampleInflight \/ SampleReplies \/ PopBatch \/ NextRing \/ PopDone \/ PollReturns
  PROVE  PathInv'
<1>1. UNCHANGED <<fate, workerVars, reqRing, bizVars>>
  BY DEF SampleInflight, SampleReplies, PopBatch, NextRing, PopDone, PollReturns
<1>2. Rings \in Nat \ {0} /\ PopShape
  BY RingsAssumption DEF PathInv
<1>3. got = 0 /\ got' = got
  <2>1. batch = 0 => got = 0
    BY <1>2 DEF PopShape
  <2>2. CASE SampleInflight \/ SampleReplies \/ PollReturns
    BY <1>2, <2>1, <2>2 DEF SampleInflight, SampleReplies, PollReturns, PopShape
  <2>3. CASE PopBatch \/ NextRing
    BY <2>1, <2>3 DEF PopBatch, NextRing
  <2>4. CASE PopDone
    BY <1>2, <2>1, <2>4 DEF PopDone, PopShape
  <2>5. QED
    BY <2>2, <2>3, <2>4
<1>4. PopShape'
  <2>1. CASE PopBatch
    <3>1. ring \in Worker /\ Len(reqRing[ring]) \in Nat
      BY <1>2, <2>1 DEF PopBatch, PopShape, Worker, PathInv, Types
    <3>2. PICK n \in 1 .. Least(Len(reqRing[ring]), MaxBatch) : batch' = n
      BY <2>1 DEF PopBatch
    <3>3. n \in Nat /\ n <= Len(reqRing[ring])
      BY <3>1, <3>2, BatchAssumption DEF Least
    <3>4. QED
      BY <1>2, <1>3, <2>1, <3>1, <3>2, <3>3 DEF PopBatch, PopShape, Worker
  <2>2. CASE ~PopBatch
    <3>1. batch = 0 /\ batch' = 0 /\ ring' \in 1 .. Rings + 1
      <4>1. ring \in 1 .. Rings + 1 /\ (rpc # "pop" \/ Rings < ring => batch = 0)
        BY <1>2 DEF PopShape
      <4>2. CASE SampleInflight \/ SampleReplies \/ PollReturns
        <5>1. rpc # "pop" /\ batch' = batch /\ (ring' = ring \/ ring' = 1)
          BY <4>2 DEF SampleInflight, SampleReplies, PollReturns, StartPop, ReturnToLoop
        <5>2. QED
          BY <1>2, <4>1, <5>1
      <4>3. CASE NextRing
        <5>1. batch = 0 /\ batch' = batch /\ ring <= Rings /\ ring' = ring + 1
          BY <4>3 DEF NextRing
        <5>2. QED
          BY <1>2, <4>1, <5>1
      <4>4. CASE PopDone
        <5>1. ring > Rings /\ batch' = batch /\ (ring' = ring \/ ring' = 1)
          BY <4>4 DEF PopDone, StartPop, ReturnToLoop
        <5>2. QED
          BY <1>2, <4>1, <5>1
      <4>5. QED
        BY <2>2, <4>2, <4>3, <4>4
    <3>2. \A w \in 1 .. Rings : Len(reqRing[w]) \in Nat
      BY DEF PathInv, Types, Worker
    <3>3. QED
      BY <1>1, <1>2, <1>3, <3>1, <3>2 DEF PopShape
  <2>3. QED
    BY <2>1, <2>2
<1>5. QED
  BY <1>1, <1>3, <1>4, ReaderTurns

\* The steps that write, publish and deliver replies, and the environment's.
LEMMA ReplyKeeps ==
  ASSUME PathInv, \/ DrainReplies \/ SampleRspRing \/ WriteReply \/ PublishWhenFull \/ DropReplies
                  \/ PublishReplies \/ NotifyGateway \/ GatewayStep \/ Stop
                  \/ (\E c \in Conn : CloseConn(c)) \/ UNCHANGED vars
  PROVE  PathInv'
<1>1. fate \in [Request -> Fates]
  BY DEF PathInv, Types
<1>2. ASSUME UNCHANGED <<fate, workerVars, reqRing, bizVars, popVars>>,
             rpc' = rpc \/ (rpc # "pop" /\ rpc' # "pop")
      PROVE  PathInv'
  BY <1>1, <1>2, OutsidePop
<1>3. CASE DrainReplies \/ SampleRspRing \/ WriteReply \/ PublishWhenFull \/ PublishReplies
           \/ NotifyGateway
  <2>1. UNCHANGED <<fate, workerVars, reqRing, bizVars, popVars>>
    BY <1>3, Zenon DEF DrainReplies, SampleRspRing, WriteReply, PublishWhenFull, PublishReplies,
                       NotifyGateway
  <2>2. rpc' = rpc \/ (rpc # "pop" /\ rpc' # "pop")
    BY <1>3 DEF DrainReplies, SampleRspRing, WriteReply, PublishWhenFull, PublishReplies,
                NotifyGateway
  <2>3. QED
    BY <1>2, <2>1, <2>2
<1>4. CASE DropReplies
  <2>1. UNCHANGED <<workerVars, reqRing, bizVars, popVars, rpc>>
    BY <1>4, Zenon DEF DropReplies
  <2>2. fate' = [r \in Request |-> IF r \in Elements(items) THEN "dropped" ELSE fate[r]]
    BY <1>4, Zenon DEF DropReplies
  <2>3. fate' \in [Request -> Fates] /\ \A r \in Request : fate'[r] = "unsent" => fate[r] = "unsent"
    BY <1>1, <2>2 DEF Fates
  <2>4. QED
    BY <2>1, <2>3, OutsidePop
<1>5. CASE DeliverReply
  <2>1. UNCHANGED <<workerVars, reqRing, bizVars, popVars, rpc>>
    BY <1>5, Zenon DEF DeliverReply
  <2>2. \E r, f : f \in {"closed", "delivered"} /\ fate' = [fate EXCEPT ![r] = f]
    BY <1>5, Zenon DEF DeliverReply
  <2>3. fate' \in [Request -> Fates] /\ \A r \in Request : fate'[r] = "unsent" => fate[r] = "unsent"
    BY <1>1, <2>2, Zenon DEF Fates
  <2>4. QED
    BY <2>1, <2>3, OutsidePop
<1>6. CASE GatewayTurn \/ GatewayPop \/ GatewayRelease \/ GatewayDone
  <2>1. UNCHANGED <<fate, workerVars, reqRing, bizVars, popVars, rpc>>
    BY <1>6, Zenon DEF GatewayTurn, GatewayPop, GatewayRelease, GatewayDone
  <2>2. QED
    BY <1>2, <2>1
<1>7. CASE Stop \/ (\E c \in Conn : CloseConn(c)) \/ UNCHANGED vars
  <2>1. UNCHANGED <<fate, workerVars, reqRing, bizVars, popVars, rpc>>
    BY <1>7, Zenon DEF Stop, CloseConn, vars
  <2>2. QED
    BY <1>2, <2>1
<1>8. QED
  BY <1>3, <1>4, <1>5, <1>6, <1>7, Zenon DEF GatewayStep

\* Every step preserves the invariant.
LEMMA PathInductive == PathInv /\ [Next]_vars => PathInv'
<1> SUFFICES ASSUME PathInv, [Next]_vars PROVE PathInv'
  OBVIOUS
<1>1. ASSUME NEW w \in Worker, NEW r \in Request, StartHandle(w, r) PROVE PathInv'
  BY <1>1, StartKeeps
<1>2. ASSUME NEW w \in Worker, WorkerStep(w) PROVE PathInv'
  BY <1>2, WriteKeeps, LetGoKeeps DEF WorkerStep
<1>3. CASE ReaderStep
  BY <1>3, ReaderKeeps, ReplyKeeps, CallbackKeeps, ReleaseKeeps DEF ReaderStep
<1>4. CASE ReaderError
  BY <1>4, FailedKeeps, ReplyKeeps DEF ReaderError
<1>5. CASE TakeTask
  BY <1>5, TakeKeeps
<1>6. ASSUME NEW r \in Request, TaskStep(r) PROVE PathInv'
  BY <1>6, HandledKeeps, ReturnKeeps DEF TaskStep
<1>7. CASE GatewayStep \/ Stop \/ (\E c \in Conn : CloseConn(c)) \/ UNCHANGED vars
  BY <1>7, ReplyKeeps
<1>8. QED
  BY <1>1, <1>2, <1>3, <1>4, <1>5, <1>6, <1>7 DEF Next

\* For any numbers of rings, slots, threads and requests, inflight_replies counts
\* the tasks that have not returned their quota, failed posts and handlers that
\* give no reply included.
THEOREM InflightAlwaysExact == Spec => []InflightExact
<1>1. PathInv => InflightExact
  BY DEF PathInv
<1>2. QED
  BY <1>1, PathInitially, PathInductive, PTL DEF Spec

-----------------------------------------------------------------------------
(***************************************************************************)
(* The long poll. It rests on the exact counter.                           *)
(***************************************************************************)

\* No task is queued, in its handler or before its decrement.
Idle == bizq = << >> /\ executing = {} /\ returning = {}

\* The reader polls, or is in a pop_once that has taken nothing so far.
Empty == rpc = "poll" \/ (rpc = "pop" /\ ~total /\ got = 0)

\* What the reader's samples tell it: a counter of zero says that no reply can
\* be pushed any more, so that the size read after it stays, until a callback.
IdleInv ==
  /\ rpc = "size" => Idle
  /\ Empty /\ slice = "long" => Idle /\ replies = << >>

\* A counter of zero leaves no task.
LEMMA NoneInFlight ==
  ASSUME PathInv, inflight = 0
  PROVE  Idle
<1>1. Cardinality(executing) \in Nat /\ Cardinality(returning) \in Nat /\ Len(bizq) \in Nat
  BY FS_CardinalityType DEF PathInv, Types
<1>2. Cardinality(executing) = 0 /\ Cardinality(returning) = 0 /\ Len(bizq) = 0
  BY <1>1 DEF PathInv, InflightExact
<1>3. executing = {} /\ returning = {}
  BY <1>2, FS_EmptySet DEF PathInv, Types
<1>4. bizq = << >>
  BY <1>2 DEF PathInv, Types
<1>5. QED
  BY <1>3, <1>4 DEF Idle

\* Every step keeps what the reader knows.
LEMMA IdleInductive == PathInv /\ IdleInv /\ [Next]_vars => IdleInv'
<1> SUFFICES ASSUME PathInv, IdleInv, [Next]_vars PROVE IdleInv'
  OBVIOUS
<1>1. ASSUME UNCHANGED <<bizVars, replies, rpc, slice, total, got>> PROVE IdleInv'
  BY <1>1 DEF IdleInv, Idle, Empty, bizVars
<1>2. ASSUME NEW w \in Worker, NEW r \in Request, StartHandle(w, r) PROVE IdleInv'
  BY <1>1, <1>2 DEF StartHandle, popVars
<1>3. ASSUME NEW w \in Worker, WorkerStep(w) PROVE IdleInv'
  BY <1>1, <1>3 DEF WorkerStep, WriteRequest, Overload, NotifyReader, popVars
<1>4. CASE SampleInflight
  <2>1. UNCHANGED bizVars /\ (rpc' = "size" => inflight = 0)
    BY <1>4 DEF SampleInflight, StartPop
  <2>2. rpc' = "size" => Idle'
    BY <2>1, NoneInFlight DEF Idle, bizVars
  <2>3. ~(Empty' /\ slice' = "long")
    BY <1>4 DEF SampleInflight, StartPop, Empty
  <2>4. QED
    BY <2>2, <2>3 DEF IdleInv
<1>5. CASE SampleReplies
  BY <1>5 DEF SampleReplies, StartPop, IdleInv, Idle, Empty, bizVars
<1>6. CASE PopBatch \/ NextRing \/ PopDone \/ PollReturns
  <2>1. UNCHANGED <<bizVars, replies>> /\ rpc' # "size"
    BY <1>6 DEF PopBatch, NextRing, PopDone, PollReturns, StartPop, ReturnToLoop
  <2>2. got = 0
    <3>1. PopShape /\ (batch = 0 => got = 0)
      BY DEF PathInv, PopShape
    <3>2. CASE PopBatch \/ NextRing
      BY <3>1, <3>2 DEF PopBatch, NextRing
    <3>3. CASE PopDone
      BY <3>1, <3>3, RingsAssumption DEF PopDone, PopShape
    <3>4. CASE PollReturns
      BY <3>1, <3>4 DEF PollReturns, PopShape
    <3>5. QED
      BY <1>6, <3>2, <3>3, <3>4
  <2>3. Empty' /\ slice' = "long" => Empty /\ slice = "long"
    BY <1>6, <2>2 DEF PopBatch, NextRing, PopDone, PollReturns, StartPop, ReturnToLoop, Empty
  <2>4. QED
    BY <2>1, <2>3 DEF IdleInv, Idle, bizVars
<1>7. CASE Callback \/ CallbackFails \/ Release
  <2>1. got \in Nat
    BY DEF PathInv, PopShape
  <2>2. rpc' = "pop" /\ (total' = TRUE \/ got' = got + 1)
    BY <1>7 DEF Callback, CallbackFails, Release
  <2>3. QED
    BY <2>1, <2>2 DEF IdleInv, Empty
<1>8. CASE TakeTask
  BY <1>8 DEF TakeTask, IdleInv, Idle, Empty, popVars
<1>9. ASSUME NEW r \in Request, TaskStep(r) PROVE IdleInv'
  BY <1>9 DEF TaskStep, PushReply, NoReply, ReturnQuota, IdleInv, Idle, Empty, popVars
<1>10. CASE DrainReplies \/ SampleRspRing \/ WriteReply \/ PublishWhenFull \/ DropReplies
            \/ PublishReplies \/ NotifyGateway
  <2>1. rpc' \notin {"size", "pop", "poll"}
    BY <1>10 DEF DrainReplies, SampleRspRing, WriteReply, PublishWhenFull, DropReplies,
                 PublishReplies, NotifyGateway
  <2>2. QED
    BY <2>1 DEF IdleInv, Empty
<1>11. CASE GatewayStep \/ Stop \/ (\E c \in Conn : CloseConn(c)) \/ UNCHANGED vars
  BY <1>1, <1>11 DEF GatewayStep, GatewayTurn, GatewayPop, DeliverReply, GatewayRelease, GatewayDone,
                     Stop, CloseConn, popVars, vars
<1>12. QED
  BY <1>2, <1>3, <1>4, <1>5, <1>6, <1>7, <1>8, <1>9, <1>10, <1>11
  DEF Next, ReaderStep, ReaderError

\* For any numbers of rings, slots, threads and requests, the reader polls for
\* the long slice only when no task runs and no reply waits.
THEOREM LongPollAlwaysIdle == Spec => []LongPollOnlyWhenIdle
<1>1. Init => IdleInv
  BY DEF Init, IdleInv, Empty
<1>2. IdleInv => LongPollOnlyWhenIdle
  BY DEF IdleInv, Idle, Empty, LongPollOnlyWhenIdle
<1>3. QED
  BY <1>1, <1>2, PathInitially, PathInductive, IdleInductive, PTL DEF Spec
=============================================================================
