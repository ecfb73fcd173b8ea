--------------------------- MODULE SpscRingProofs ---------------------------
(***************************************************************************)
(* Proofs about SpscRing, for every ring size, counter width, batch limit  *)
(* and set of packets.                                                     *)
(*                                                                         *)
(* The first part reduces the counters' modular arithmetic to a handful of *)
(* facts about Plus, Distance and SlotAt; the second part never expands    *)
(* those three.                                                            *)
(***************************************************************************)
EXTENDS SpscRing, TLAPS

(***************************************************************************)
(* Division with remainder.                                                *)
(***************************************************************************)

\* A multiple of n by something that is not 0 is at least n away from 0.
LEMMA MultipleAbove ==
  ASSUME NEW n \in Nat \ {0}, NEW a \in Int, a >= 1
  PROVE  n * a >= n
  OBVIOUS

\* A negative multiple of n is at most -n.
LEMMA MultipleBelow ==
  ASSUME NEW n \in Nat \ {0}, NEW a \in Int, a <= -1
  PROVE  n * a <= -n
  OBVIOUS

\* Multiplication distributes over differences and sums.
LEMMA Distribute ==
  ASSUME NEW n \in Int, NEW a \in Int, NEW b \in Int
  PROVE  n * (a - b) = n * a - n * b /\ n * (a + b) = n * a + n * b
  OBVIOUS

\* Quotient and remainder by n.
LEMMA Division ==
  ASSUME NEW n \in Nat \ {0}, NEW x \in Int
  PROVE  /\ x = n * (x \div n) + (x % n)
         /\ x \div n \in Int
         /\ x % n \in 0 .. n - 1
  OBVIOUS

\* The remainder is the only number below n that differs from x by a multiple
\* of n.
LEMMA RemainderUnique ==
  ASSUME NEW n \in Nat \ {0}, NEW x \in Int, NEW m \in Int,
         NEW r \in 0 .. n - 1, x = n * m + r
  PROVE  x % n = r
<1> DEFINE d == m - (x \div n)
<1>1. x = n * (x \div n) + (x % n) /\ x \div n \in Int /\ x % n \in 0 .. n - 1
  BY Division, Zenon
<1>2. d \in Int /\ n * d = (x % n) - r
  BY <1>1
<1>3. ~(d >= 1)
  BY <1>1, <1>2, MultipleAbove
<1>4. ~(d <= -1)
  BY <1>1, <1>2, MultipleBelow
<1>5. d = 0
  BY <1>2, <1>3, <1>4
<1> QED
  BY <1>1, <1>2, <1>5

\* Two numbers that differ by a multiple of n have the same remainder.
LEMMA SameRemainder ==
  ASSUME NEW n \in Nat \ {0}, NEW x \in Int, NEW y \in Int, NEW m \in Int,
         x = y + n * m
  PROVE  x % n = y % n
<1>1. y = n * (y \div n) + (y % n) /\ y \div n \in Int /\ y % n \in 0 .. n - 1
  BY Division
<1> DEFINE d == (y \div n) + m
<1>2. x = n * d + (y % n) /\ d \in Int
  BY <1>1, Distribute
<1> HIDE DEF d
<1> QED
  BY <1>1, <1>2, RemainderUnique, Zenon
-----------------------------------------------------------------------------
(***************************************************************************)
(* Counters and slots.                                                     *)
(***************************************************************************)

\* The constants, in the form the steps below use them.
LEMMA Constants ==
  /\ kSlotCount \in Nat \ {0}
  /\ CounterMod \in Nat \ {0}
  /\ kSlotCount < CounterMod
  /\ \E k \in Int : CounterMod = kSlotCount * k
<1>1. PICK k \in 2 .. CounterMod : CounterMod = k * kSlotCount
  BY CounterAssumption
<1>2. k \in Int /\ CounterMod = kSlotCount * k
  BY <1>1, SlotsAssumption, CounterAssumption
<1>3. kSlotCount * k = kSlotCount + kSlotCount * (k - 1)
  BY <1>2, SlotsAssumption
<1>4. kSlotCount * (k - 1) >= kSlotCount
  BY <1>1, <1>2, SlotsAssumption, MultipleAbove
<1> QED
  BY <1>2, <1>3, <1>4, SlotsAssumption, CounterAssumption

\* A counter advanced is a counter.
LEMMA PlusType ==
  ASSUME NEW c \in Counter, NEW n \in Nat
  PROVE  Plus(c, n) \in Counter
  BY Constants, Division DEF Plus, Counter

\* The difference of two counters, as uint32_t has it, is below the modulus.
LEMMA DistanceType ==
  ASSUME NEW a \in Counter, NEW b \in Counter
  PROVE  Distance(a, b) \in 0 .. CounterMod - 1
  BY Constants, Division DEF Distance, Counter

\* Every masked index is an index of the slot array.
LEMMA SlotType ==
  ASSUME NEW c \in Counter, NEW i \in Int
  PROVE  SlotAt(c, i) \in SlotIndex
  BY Constants, Division DEF SlotAt, SlotIndex, Counter

\* An empty ring has distance zero.
LEMMA DistanceSelf ==
  ASSUME NEW c \in Counter
  PROVE  Distance(c, c) = 0
<1>1. c - c = CounterMod * 0 + 0 /\ 0 \in 0 .. CounterMod - 1
  BY Constants DEF Counter
<1> QED
  BY <1>1, Constants, RemainderUnique DEF Distance, Counter

\* Advancing the leading counter by n lengthens the distance by n, wrapped or
\* not, as long as it stays below the modulus.
LEMMA DistanceAdvance ==
  ASSUME NEW a \in Counter, NEW b \in Counter, NEW n \in Nat,
         Distance(a, b) + n < CounterMod
  PROVE  Distance(Plus(a, n), b) = Distance(a, b) + n
<1> DEFINE s == (a - b) \div CounterMod
           t == (a + n) \div CounterMod
<1>1. a \in Int /\ b \in Int /\ CounterMod \in Nat \ {0}
  BY Constants DEF Counter
<1>2. a - b = CounterMod * s + Distance(a, b) /\ s \in Int
  BY <1>1, Division DEF Distance
<1>3. a + n = CounterMod * t + Plus(a, n) /\ t \in Int
  BY <1>1, Division DEF Plus
<1>4. Plus(a, n) \in Counter /\ Distance(a, b) \in 0 .. CounterMod - 1
  BY PlusType, DistanceType
<1> HIDE DEF s, t
<1>5. Plus(a, n) - b = CounterMod * (s - t) + (Distance(a, b) + n)
  <2>1. CounterMod * (s - t) = CounterMod * s - CounterMod * t
    BY <1>1, <1>2, <1>3, Distribute
  <2>2. CounterMod * s \in Int /\ CounterMod * t \in Int
    BY <1>1, <1>2, <1>3
  <2> QED
    BY <1>1, <1>2, <1>3, <1>4, <2>1, <2>2 DEF Counter
<1>6. Distance(a, b) + n \in 0 .. CounterMod - 1 /\ s - t \in Int
  BY <1>1, <1>2, <1>3, <1>4
<1>7. (Plus(a, n) - b) % CounterMod = Distance(a, b) + n
  <2>1. Plus(a, n) - b \in Int
    BY <1>1, <1>4 DEF Counter
  <2> QED
    BY <1>1, <1>5, <1>6, <2>1, RemainderUnique, Zenon
<1> QED
  BY <1>7 DEF Distance

\* Advancing the trailing counter by at most the distance shortens it.
LEMMA DistanceCatchUp ==
  ASSUME NEW a \in Counter, NEW b \in Counter, NEW n \in Nat,
         n <= Distance(a, b)
  PROVE  Distance(a, Plus(b, n)) = Distance(a, b) - n
<1> DEFINE s == (a - b) \div CounterMod
           t == (b + n) \div CounterMod
<1>1. a \in Int /\ b \in Int /\ CounterMod \in Nat \ {0}
  BY Constants DEF Counter
<1>2. a - b = CounterMod * s + Distance(a, b) /\ s \in Int
  BY <1>1, Division DEF Distance
<1>3. b + n = CounterMod * t + Plus(b, n) /\ t \in Int
  BY <1>1, Division DEF Plus
<1>4. Plus(b, n) \in Counter /\ Distance(a, b) \in 0 .. CounterMod - 1
  BY PlusType, DistanceType
<1> HIDE DEF s, t
<1>5. a - Plus(b, n) = CounterMod * (s + t) + (Distance(a, b) - n)
  <2>1. CounterMod * (s + t) = CounterMod * s + CounterMod * t
    BY <1>1, <1>2, <1>3, Distribute
  <2>2. CounterMod * s \in Int /\ CounterMod * t \in Int
    BY <1>1, <1>2, <1>3
  <2> QED
    BY <1>1, <1>2, <1>3, <1>4, <2>1, <2>2 DEF Counter
<1>6. Distance(a, b) - n \in 0 .. CounterMod - 1 /\ s + t \in Int
  BY <1>1, <1>2, <1>3, <1>4
<1>7. (a - Plus(b, n)) % CounterMod = Distance(a, b) - n
  <2>1. a - Plus(b, n) \in Int
    BY <1>1, <1>4 DEF Counter
  <2> QED
    BY <1>1, <1>5, <1>6, <2>1, RemainderUnique, Zenon
<1> QED
  BY <1>7 DEF Distance

\* A counter that wraps keeps its slot, because the slot count divides the
\* modulus.
LEMMA SlotAfterPlus ==
  ASSUME NEW c \in Counter, NEW n \in Nat, NEW i \in Int
  PROVE  SlotAt(Plus(c, n), i) = SlotAt(c, n + i)
<1> DEFINE t == (c + n) \div CounterMod
<1>1. c \in Int /\ CounterMod \in Nat \ {0} /\ kSlotCount \in Nat \ {0}
  BY Constants DEF Counter
<1>2. PICK k \in Int : CounterMod = kSlotCount * k
  BY Constants
<1>3. c + n = CounterMod * t + Plus(c, n) /\ t \in Int
  BY <1>1, Division DEF Plus
<1>4. Plus(c, n) \in Int
  BY PlusType DEF Counter
<1> HIDE DEF t
<1>5. CounterMod * t = kSlotCount * (k * t) /\ k * t \in Int
  BY <1>1, <1>2, <1>3
<1>6. c + (n + i) = (Plus(c, n) + i) + kSlotCount * (k * t)
  BY <1>1, <1>3, <1>4, <1>5
<1>7. (c + (n + i)) % kSlotCount = (Plus(c, n) + i) % kSlotCount
  <2>1. c + (n + i) \in Int /\ Plus(c, n) + i \in Int
    BY <1>1, <1>4
  <2> QED
    BY <1>1, <1>5, <1>6, <2>1, SameRemainder, Zenon
<1> QED
  BY <1>7 DEF SlotAt

\* The kSlotCount positions after a counter are different slots.
LEMMA SlotInjective ==
  ASSUME NEW c \in Counter, NEW i \in SlotIndex, NEW j \in SlotIndex,
         SlotAt(c, i) = SlotAt(c, j)
  PROVE  i = j
<1> DEFINE s == (c + i) \div kSlotCount
           t == (c + j) \div kSlotCount
           d == s - t
<1>1. /\ c \in Int /\ kSlotCount \in Nat \ {0}
      /\ i \in 0 .. kSlotCount - 1 /\ j \in 0 .. kSlotCount - 1
  BY Constants DEF Counter, SlotIndex
<1>2. c + i = kSlotCount * s + SlotAt(c, i) /\ s \in Int /\ SlotAt(c, i) \in Int
  BY <1>1, Division DEF SlotAt
<1>3. c + j = kSlotCount * t + SlotAt(c, j) /\ t \in Int
  BY <1>1, Division DEF SlotAt
<1> HIDE DEF s, t
<1>4. d \in Int /\ kSlotCount * d = kSlotCount * s - kSlotCount * t
  BY <1>1, <1>2, <1>3, Distribute
<1>5. kSlotCount * s \in Int /\ kSlotCount * t \in Int
  BY <1>1, <1>2, <1>3
<1>6. kSlotCount * d = i - j
  BY <1>1, <1>2, <1>3, <1>4, <1>5
<1> HIDE DEF d
<1>7. ~(d >= 1) /\ ~(d <= -1)
  BY <1>1, <1>4, <1>6, MultipleAbove, MultipleBelow
<1>8. d = 0
  BY <1>4, <1>7
<1> QED
  BY <1>1, <1>6, <1>8

\* Before the end of the array, positions are consecutive slots.
LEMMA SlotConsecutive ==
  ASSUME NEW c \in Counter, NEW i \in Nat, SlotAt(c, 0) + i < kSlotCount
  PROVE  SlotAt(c, i) = SlotAt(c, 0) + i
<1> DEFINE s == (c + 0) \div kSlotCount
<1>1. c \in Int /\ kSlotCount \in Nat \ {0}
  BY Constants DEF Counter
<1>2. /\ c + 0 = kSlotCount * s + SlotAt(c, 0) /\ s \in Int
      /\ SlotAt(c, 0) \in 0 .. kSlotCount - 1
  BY <1>1, Division DEF SlotAt
<1> HIDE DEF s
<1>3. c + i = kSlotCount * s + (SlotAt(c, 0) + i)
  <2>1. kSlotCount * s \in Int
    BY <1>1, <1>2
  <2> QED
    BY <1>1, <1>2, <2>1
<1>4. SlotAt(c, 0) + i \in 0 .. kSlotCount - 1 /\ c + i \in Int
  BY <1>1, <1>2
<1>5. (c + i) % kSlotCount = SlotAt(c, 0) + i
  BY <1>1, <1>2, <1>3, <1>4, RemainderUnique, Zenon
<1> QED
  BY <1>5 DEF SlotAt

\* A counter is the one it is ahead of, advanced by their distance.
LEMMA SlotFromBehind ==
  ASSUME NEW a \in Counter, NEW b \in Counter
  PROVE  SlotAt(a, CounterMod - 1) = SlotAt(b, Distance(a, b) - 1)
<1> DEFINE s == (a - b) \div CounterMod
<1>1. a \in Int /\ b \in Int /\ CounterMod \in Nat \ {0} /\ kSlotCount \in Nat \ {0}
  BY Constants DEF Counter
<1>2. PICK k \in Int : CounterMod = kSlotCount * k
  BY Constants
<1>3. a - b = CounterMod * s + Distance(a, b) /\ s \in Int /\ Distance(a, b) \in Int
  BY <1>1, Division DEF Distance
<1> HIDE DEF s
<1> DEFINE m == k * (s + 1)
<1>4. m \in Int /\ kSlotCount * m = CounterMod * (s + 1)
  BY <1>1, <1>2, <1>3
<1>5. CounterMod * (s + 1) = CounterMod * s + CounterMod /\ CounterMod * s \in Int
  BY <1>1, <1>3
<1> HIDE DEF m
<1> DEFINE x == a + (CounterMod - 1)
           y == b + (Distance(a, b) - 1)
<1>6. x \in Int /\ y \in Int /\ x = y + kSlotCount * m
  BY <1>1, <1>3, <1>4, <1>5
<1>7. x % kSlotCount = y % kSlotCount
  <2> HIDE DEF x, y
  <2> QED
    BY <1>1, <1>4, <1>6, SameRemainder, Zenon
<1> QED
  BY <1>7 DEF SlotAt
-----------------------------------------------------------------------------
(***************************************************************************)
(* The inductive invariant.                                                *)
(***************************************************************************)

\* What every step below needs of a state that satisfies the invariant.
LEMMA Bounds ==
  ASSUME RingInv
  PROVE  /\ Published \in 0 .. kSlotCount
         /\ InFlight \in 0 .. kSlotCount
         /\ unpublished \in Nat
         /\ InFlight = Published + unpublished
         /\ kSlotCount < CounterMod /\ CounterMod \in Nat /\ kSlotCount \in Nat \ {0}
  BY Constants, DistanceType DEF RingInv, TypeOK, CountersAgree, Published, InFlight

\* The slot under the pen is the last reserved one, counted from tail.
LEMMA ReservedSlot ==
  ASSUME RingInv
  PROVE  Reserved = SlotAt(tail, InFlight - 1) /\ Reserved \in SlotIndex
<1>1. head_local \in Counter /\ tail \in Counter /\ CounterMod - 1 \in Int
  BY Constants DEF RingInv, TypeOK
<1> QED
  BY <1>1, SlotFromBehind, SlotType DEF Reserved, InFlight

\* The positions in flight are different slots.
LEMMA InFlightSlots ==
  ASSUME RingInv, NEW i \in Int, 0 <= i, i < InFlight
  PROVE  /\ SlotAt(tail, i) \in SlotIndex
         /\ i < InFlight - 1 => SlotAt(tail, i) # SlotAt(tail, InFlight - 1)
<1>1. tail \in Counter /\ InFlight \in 0 .. kSlotCount
  BY Bounds DEF RingInv, TypeOK
<1>2. i \in SlotIndex /\ InFlight - 1 \in SlotIndex
  BY <1>1, Bounds DEF SlotIndex
<1>3. SlotAt(tail, i) = SlotAt(tail, InFlight - 1) => i = InFlight - 1
  BY <1>1, <1>2, SlotInjective
<1> QED
  BY <1>1, <1>3, SlotType

\* A fresh ring satisfies the invariant.
LEMMA InitInv == Init => RingInv
<1> SUFFICES ASSUME Init PROVE RingInv
  OBVIOUS
<1>1. 0 \in Counter /\ kSlotCount \in Nat \ {0}
  BY Constants DEF Counter
<1>2. Published = 0 /\ InFlight = 0
  BY <1>1, DistanceSelf DEF Init, Published, InFlight
<1>3. TypeOK
  BY <1>1 DEF Init, TypeOK, Slot, Whole
<1>4. SlotAt(tail, 0) \in 0 .. kSlotCount - 1
  BY <1>1, SlotType DEF Init, SlotIndex
<1> QED
  BY <1>1, <1>2, <1>3, <1>4
  DEF Init, RingInv, CountersAgree, StagedFilled, PublishedWhole, BatchContiguous

\* begin_write reserves a slot that is not in flight, because the ring was not full.
LEMMA BeginWriteInv ==
  ASSUME RingInv, NEW p \in Packet, BeginWrite(p)
  PROVE  RingInv'
<1> USE DEF BeginWrite, consumerVars
<1>1. InFlight < kSlotCount /\ InFlight \in Nat
  BY Bounds DEF Full, InFlight
<1>2. InFlight' = InFlight + 1 /\ Published' = Published
  BY <1>1, Bounds, DistanceAdvance DEF RingInv, TypeOK, InFlight, Published
<1>3. TypeOK'
  <2>1. head_local' \in Counter
    BY PlusType DEF RingInv, TypeOK
  <2>2. unpublished' \in 0 .. kSlotCount
    BY <1>1, Bounds
  <2> QED
    BY <2>1, <2>2 DEF RingInv, TypeOK
<1>4. CountersAgree'
  BY <1>1, <1>2, Bounds DEF RingInv, CountersAgree
<1>5. StagedFilled'
  BY <1>1, <1>2, Bounds DEF RingInv, StagedFilled
<1>6. PublishedWhole' /\ BatchContiguous'
  BY <1>2 DEF RingInv, PublishedWhole, BatchContiguous
<1> QED
  BY <1>3, <1>4, <1>5, <1>6 DEF RingInv

\* Writing the header touches the slot reserved last and no other in flight.
LEMMA FillHeaderInv ==
  ASSUME RingInv, FillHeader
  PROVE  RingInv'
<1> USE DEF FillHeader, consumerVars
<1>1. InFlight' = InFlight /\ Published' = Published /\ Published < InFlight
  BY Bounds DEF RingInv, StagedFilled, InFlight, Published
<1>2. \A i \in Int : 0 <= i /\ i < InFlight - 1 =>
        slots'[SlotAt(tail, i)] = slots[SlotAt(tail, i)]
  BY ReservedSlot, InFlightSlots, Bounds DEF RingInv, TypeOK
<1>3. slots'[SlotAt(tail, InFlight - 1)].pkt = packet
  BY ReservedSlot DEF RingInv, TypeOK, Slot
<1>4. TypeOK'
  BY ReservedSlot DEF RingInv, TypeOK, Slot
<1>5. CountersAgree' /\ BatchContiguous'
  BY <1>1 DEF RingInv, CountersAgree, BatchContiguous
<1>6. StagedFilled'
  BY <1>1, <1>2, <1>3, Bounds DEF RingInv, StagedFilled
<1>7. PublishedWhole'
  BY <1>1, <1>2, Bounds DEF RingInv, PublishedWhole
<1> QED
  BY <1>4, <1>5, <1>6, <1>7 DEF RingInv

\* The memcpy makes the slot reserved last whole.
LEMMA FillPayloadInv ==
  ASSUME RingInv, FillPayload
  PROVE  RingInv'
<1> USE DEF FillPayload, consumerVars
<1>1. InFlight' = InFlight /\ Published' = Published /\ Published < InFlight
  BY Bounds DEF RingInv, StagedFilled, InFlight, Published
<1>2. \A i \in Int : 0 <= i /\ i < InFlight - 1 =>
        slots'[SlotAt(tail, i)] = slots[SlotAt(tail, i)]
  BY ReservedSlot, InFlightSlots, Bounds DEF RingInv, TypeOK
<1>3. slots'[SlotAt(tail, InFlight - 1)] = Whole(packet)
  BY ReservedSlot DEF RingInv, TypeOK, StagedFilled, Slot, Whole
<1>4. TypeOK'
  BY ReservedSlot DEF RingInv, TypeOK, Slot
<1>5. CountersAgree' /\ BatchContiguous'
  BY <1>1 DEF RingInv, CountersAgree, BatchContiguous
<1>6. StagedFilled'
  BY <1>1, <1>2, <1>3, Bounds DEF RingInv, StagedFilled
<1>7. PublishedWhole'
  BY <1>1, <1>2, Bounds DEF RingInv, PublishedWhole
<1> QED
  BY <1>4, <1>5, <1>6, <1>7 DEF RingInv

\* publish hands over slots that are all filled.
LEMMA PublishInv ==
  ASSUME RingInv, Publish
  PROVE  RingInv'
<1> USE DEF Publish, consumerVars
<1>1. Published' = InFlight /\ InFlight' = InFlight
  BY Bounds, DistanceAdvance
  DEF RingInv, TypeOK, CountersAgree, InFlight, Published
<1>2. TypeOK'
  BY Bounds, PlusType DEF RingInv, TypeOK
<1>3. CountersAgree' /\ BatchContiguous'
  BY <1>1, Bounds DEF RingInv, TypeOK, CountersAgree, BatchContiguous
<1>4. StagedFilled'
  BY <1>1, Bounds DEF RingInv, StagedFilled
<1>5. PublishedWhole'
  BY <1>1, Bounds DEF RingInv, PublishedWhole, StagedFilled
<1> QED
  BY <1>2, <1>3, <1>4, <1>5 DEF RingInv

\* A restarted producer forgets exactly what was reserved.
LEMMA ProducerAttachInv ==
  ASSUME RingInv, ProducerAttach
  PROVE  RingInv'
<1> USE DEF ProducerAttach, consumerVars
<1>1. Published' = Published /\ InFlight' = Published
  BY DEF InFlight, Published
<1>2. TypeOK'
  BY Bounds DEF RingInv, TypeOK
<1>3. CountersAgree' /\ BatchContiguous'
  BY <1>1, Bounds DEF RingInv, CountersAgree, BatchContiguous
<1>4. StagedFilled' /\ PublishedWhole'
  BY <1>1, Bounds DEF RingInv, StagedFilled, PublishedWhole
<1> QED
  BY <1>2, <1>3, <1>4 DEF RingInv

\* pop_batch returns published slots before the end of the array.
LEMMA PopBatchInv ==
  ASSUME RingInv, PopBatch
  PROVE  RingInv'
<1> USE DEF PopBatch, producerVars
<1>1. Published' = Published /\ InFlight' = InFlight
  BY DEF InFlight, Published
<1>2. SlotAt(tail, 0) \in 0 .. kSlotCount - 1
  BY SlotType DEF RingInv, TypeOK, SlotIndex
<1>3. BatchSize = Least(Least(MaxBatch, Published), kSlotCount - SlotAt(tail, 0))
  BY DEF BatchSize, Published, RingInv, CountersAgree
<1>4. /\ BatchSize \in 0 .. kSlotCount
      /\ BatchSize <= Published
      /\ SlotAt(tail, 0) + BatchSize <= kSlotCount
  BY <1>2, <1>3, Bounds, BatchAssumption DEF Least
<1>5. TypeOK'
  BY <1>4, Bounds DEF RingInv, TypeOK
<1>6. CountersAgree' /\ StagedFilled' /\ PublishedWhole'
  BY <1>1 DEF RingInv, CountersAgree, StagedFilled, PublishedWhole
<1>7. BatchContiguous'
  BY <1>1, <1>4 DEF BatchContiguous
<1> QED
  BY <1>5, <1>6, <1>7 DEF RingInv

\* A slot of the batch is the published slot of the same position.
LEMMA BatchSlot ==
  ASSUME RingInv, got < batch
  PROVE  /\ SlotAt(tail_local, 0) + got = SlotAt(tail, got)
         /\ SlotAt(tail, got) \in SlotIndex
         /\ got \in 0 .. Published - 1
<1>1. /\ tail \in Counter /\ got \in Nat /\ batch \in Nat
      /\ tail_local = tail /\ SlotAt(tail, 0) + batch <= kSlotCount
      /\ batch <= Published
  BY Constants DEF RingInv, TypeOK, CountersAgree, BatchContiguous
<1>2. SlotAt(tail, 0) \in 0 .. kSlotCount - 1
  BY <1>1, SlotType DEF SlotIndex
<1>3. SlotAt(tail, 0) + got < kSlotCount
  BY <1>1, <1>2, Constants
<1> QED
  BY <1>1, <1>3, Bounds, SlotConsecutive, SlotType

\* Reading a slot of the batch changes nothing shared.
LEMMA ReadSlotInv ==
  ASSUME RingInv, ReadSlot
  PROVE  RingInv'
<1> USE DEF ReadSlot, producerVars
<1>1. Published' = Published /\ InFlight' = InFlight
  BY DEF InFlight, Published
<1>2. out' \in Slot
  BY BatchSlot DEF RingInv, TypeOK
<1>3. TypeOK'
  BY <1>2, Bounds DEF RingInv, TypeOK
<1>4. CountersAgree' /\ StagedFilled' /\ PublishedWhole'
  BY <1>1 DEF RingInv, CountersAgree, StagedFilled, PublishedWhole
<1>5. BatchContiguous'
  BY <1>1, Bounds DEF RingInv, TypeOK, BatchContiguous
<1> QED
  BY <1>3, <1>4, <1>5 DEF RingInv

\* release gives back the batch and keeps the rest of the ring in place.
LEMMA ReleaseInv ==
  ASSUME RingInv, Release
  PROVE  RingInv'
<1> USE DEF Release, producerVars
<1>1. /\ head \in Counter /\ head_local \in Counter /\ tail \in Counter
      /\ tail_local = tail /\ batch \in Nat
      /\ batch <= Published /\ batch <= InFlight
  BY Bounds DEF RingInv, TypeOK, CountersAgree, BatchContiguous
<1>2. tail' = Plus(tail, batch) /\ tail' \in Counter
  BY <1>1, PlusType
<1>3. Published' = Published - batch /\ InFlight' = InFlight - batch
  BY <1>1, <1>2, DistanceCatchUp DEF Published, InFlight
<1>4. \A i \in Int : SlotAt(tail', i) = SlotAt(tail, batch + i)
  BY <1>1, <1>2, SlotAfterPlus
<1>5. TypeOK'
  BY <1>2, Bounds DEF RingInv, TypeOK
<1>6. CountersAgree'
  BY <1>1, <1>3, Bounds DEF RingInv, CountersAgree
<1>7. StagedFilled'
  BY <1>1, <1>3, <1>4, Bounds DEF RingInv, StagedFilled
<1>8. PublishedWhole'
  BY <1>1, <1>3, <1>4, Bounds DEF RingInv, PublishedWhole
<1>9. BatchContiguous'
  <2>1. SlotAt(tail', 0) \in 0 .. kSlotCount - 1
    BY <1>2, SlotType DEF SlotIndex
  <2> QED
    BY <1>1, <1>3, <2>1, Bounds DEF BatchContiguous
<1> QED
  BY <1>5, <1>6, <1>7, <1>8, <1>9 DEF RingInv

\* A restarted consumer starts from the shared tail.
LEMMA ConsumerAttachInv ==
  ASSUME RingInv, ConsumerAttach
  PROVE  RingInv'
<1> USE DEF ConsumerAttach, producerVars
<1>1. Published' = Published /\ InFlight' = InFlight
  BY DEF InFlight, Published
<1>2. TypeOK'
  BY Bounds DEF RingInv, TypeOK
<1>3. CountersAgree' /\ StagedFilled' /\ PublishedWhole'
  BY <1>1 DEF RingInv, CountersAgree, StagedFilled, PublishedWhole
<1>4. SlotAt(tail, 0) \in 0 .. kSlotCount - 1
  BY SlotType DEF RingInv, TypeOK, SlotIndex
<1>5. BatchContiguous'
  BY <1>1, <1>4, Bounds DEF BatchContiguous
<1> QED
  BY <1>2, <1>3, <1>5 DEF RingInv

\* The invariant depends on the variables only.
LEMMA StutterInv ==
  ASSUME RingInv, UNCHANGED vars
  PROVE  RingInv'
  BY DEF vars, producerVars, consumerVars, RingInv, TypeOK, CountersAgree,
         StagedFilled, PublishedWhole, BatchContiguous, Published, InFlight

\* The ring's invariant holds in every reachable state, across restarts of
\* either side and wrap-around of the counters.
THEOREM RingCorrect == Spec => []RingInv
<1>1. RingInv /\ [Next]_vars => RingInv'
  BY BeginWriteInv, FillHeaderInv, FillPayloadInv, PublishInv,
     ProducerAttachInv, PopBatchInv, ReadSlotInv, ReleaseInv,
     ConsumerAttachInv, StutterInv DEF Next
<1> QED
  BY <1>1, InitInv, PTL DEF Spec
-----------------------------------------------------------------------------
(***************************************************************************)
(* Consequences of the invariant.                                          *)
(***************************************************************************)

\* Neither side ever sees a half-written packet.
THEOREM PublishedAlwaysWhole == Spec => []PublishedWhole
<1>1. RingInv => PublishedWhole
  BY DEF RingInv
<1> QED
  BY <1>1, RingCorrect, PTL

\* pop_batch never hands out an element outside the slot array.
THEOREM BatchAlwaysContiguous == Spec => []BatchContiguous
<1>1. RingInv => BatchContiguous
  BY DEF RingInv
<1> QED
  BY <1>1, RingCorrect, PTL

\* No step writes to a slot that is published and not released.
LEMMA StepKeepsUnread ==
  ASSUME RingInv, Next
  PROVE  UnreadUntouched
<1> SUFFICES ASSUME NEW i \in 0 .. Published - 1
             PROVE  slots'[SlotAt(tail, i)] = slots[SlotAt(tail, i)]
  BY DEF UnreadUntouched
<1>1. CASE FillHeader \/ FillPayload
  <2>1. i \in Int /\ 0 <= i /\ i < InFlight - 1
    BY <1>1, Bounds DEF RingInv, StagedFilled, FillHeader, FillPayload
  <2>2. SlotAt(tail, i) # Reserved /\ SlotAt(tail, i) \in SlotIndex
    BY <2>1, Bounds, ReservedSlot, InFlightSlots
  <2> QED
    BY <1>1, <2>2 DEF RingInv, TypeOK, FillHeader, FillPayload
<1>2. CASE ~(FillHeader \/ FillPayload)
  BY <1>2 DEF Next, BeginWrite, Publish, ProducerAttach, PopBatch, ReadSlot,
              Release, ConsumerAttach
<1> QED
  BY <1>1, <1>2

\* No step of either side, restarts included, writes to a published slot that
\* has not been released.
THEOREM UnreadSafe == Spec => UnreadNeverOverwritten
<1>1. RingInv /\ [Next]_vars => [UnreadUntouched]_vars
  BY StepKeepsUnread
<1> QED
  BY <1>1, RingCorrect, PTL DEF Spec, UnreadNeverOverwritten
-----------------------------------------------------------------------------
(***************************************************************************)
(* The ring implements the bounded FIFO.                                   *)
(***************************************************************************)

\* Sequences are equal when they have the same length and the same elements.
LEMMA AppendIs ==
  ASSUME NEW S, NEW s \in Seq(S), NEW x \in S, NEW t \in Seq(S),
         Len(t) = Len(s) + 1, t[Len(s) + 1] = x,
         \A i \in 1 .. Len(s) : t[i] = s[i]
  PROVE  t = Append(s, x)
  OBVIOUS

\* Pointwise characterisation of the concatenation that publish performs.
LEMMA ConcatIs ==
  ASSUME NEW S, NEW s \in Seq(S), NEW r \in Seq(S), NEW t \in Seq(S),
         Len(t) = Len(s) + Len(r),
         \A i \in 1 .. Len(s) : t[i] = s[i],
         \A i \in 1 .. Len(r) : t[Len(s) + i] = r[i]
  PROVE  t = s \o r
<1>1. /\ s \o r \in Seq(S) /\ Len(s \o r) = Len(s) + Len(r)
      /\ Len(s) \in Nat /\ Len(r) \in Nat
  OBVIOUS
<1>2. ASSUME NEW i \in 1 .. Len(t) PROVE t[i] = (s \o r)[i]
  <2>1. CASE i \in 1 .. Len(s)
    BY <2>1
  <2>2. CASE i \notin 1 .. Len(s)
    <3>1. i - Len(s) \in 1 .. Len(r) /\ Len(s) + (i - Len(s)) = i
      BY <1>1, <2>2
    <3>2. (s \o r)[i] = r[i - Len(s)]
      BY <1>1, <2>2, <3>1
    <3>3. QED
      BY <3>1, <3>2
  <2>3. QED
    BY <2>1, <2>2
<1>3. QED
  BY <1>1, <1>2

\* Pointwise characterisation of what is left after release.
LEMMA SubSeqIs ==
  ASSUME NEW S, NEW s \in Seq(S), NEW n \in 0 .. Len(s), NEW t \in Seq(S),
         Len(t) = Len(s) - n,
         \A i \in 1 .. Len(s) - n : t[i] = s[n + i]
  PROVE  t = SubSeq(s, n + 1, Len(s))
  OBVIOUS

\* The slot of a published or a reserved position.
LEMMA PositionSlots ==
  ASSUME RingInv
  PROVE  /\ \A i \in 1 .. Published : slots[SlotAt(tail, i - 1)] \in Slot
         /\ \A i \in 1 .. unpublished : StagedItem(i) \in Slot
<1>1. \A i \in Int : slots[SlotAt(tail, i)] \in Slot
  BY SlotType DEF RingInv, TypeOK
<1>2. Whole(packet) \in Slot
  BY DEF RingInv, TypeOK, Whole, Slot
<1>3. \A i \in 1 .. Published : i - 1 \in Int
  BY Bounds
<1>4. \A i \in 1 .. unpublished : Published + i - 1 \in Int
  BY Bounds
<1> QED
  BY <1>1, <1>2, <1>3, <1>4 DEF StagedItem

ItemsTyped ==
  /\ StagedItems \in Seq(Slot) /\ Len(StagedItems) = unpublished
  /\ QueuedItems \in Seq(Slot) /\ Len(QueuedItems) = Published

\* The mapped queues are sequences of slot values, of the lengths the counters say.
LEMMA ItemSequences == RingInv => ItemsTyped
<1> SUFFICES ASSUME RingInv PROVE ItemsTyped
  OBVIOUS
<1>1. StagedItems \in Seq(Slot) /\ Len(StagedItems) = unpublished
  BY Bounds, PositionSlots DEF StagedItems
<1>2. QueuedItems \in Seq(Slot) /\ Len(QueuedItems) = Published
  BY Bounds, PositionSlots DEF QueuedItems
<1> QED
  BY <1>1, <1>2 DEF ItemsTyped

\* The same in the next state.
LEMMA ItemSequencesNext == RingInv' => ItemsTyped'
  BY ItemSequences, PTL

\* begin_write stages an item.
LEMMA BeginWriteRefines ==
  ASSUME RingInv, NEW p \in Packet, BeginWrite(p)
  PROVE  Fifo!Stage(Whole(p))
<1> USE DEF BeginWrite, consumerVars
<1>1. InFlight < kSlotCount
  BY Bounds DEF Full, InFlight
<1>2. Published' = Published
  BY DEF Published
<1>3. Len(StagedItems) + Len(QueuedItems) < kSlotCount
  BY <1>1, Bounds, ItemSequences DEF ItemsTyped
<1>4. QueuedItems' = QueuedItems
  BY <1>2 DEF QueuedItems
<1>5. RingInv'
  BY BeginWriteInv
<1>6. \A i \in Int : i = unpublished + 1 => StagedItem(i)' = Whole(p)
  BY DEF StagedItem
<1>7. \A i \in 1 .. unpublished : StagedItem(i)' = StagedItem(i)
  BY <1>2, Bounds DEF StagedItem
<1>8. StagedItems' = Append(StagedItems, Whole(p))
  <2>1. StagedItems \in Seq(Slot) /\ Len(StagedItems) = unpublished
    BY ItemSequences DEF ItemsTyped
  <2>2. StagedItems' \in Seq(Slot) /\ Len(StagedItems') = unpublished + 1
    BY <1>5, ItemSequencesNext DEF ItemsTyped
  <2>3. Whole(p) \in Slot
    BY DEF Whole, Slot
  <2>4. /\ StagedItems'[unpublished + 1] = Whole(p)
        /\ \A i \in 1 .. unpublished : StagedItems'[i] = StagedItems[i]
    BY <1>6, <1>7, Bounds DEF StagedItems
  <2> QED
    BY <2>1, <2>2, <2>3, <2>4, AppendIs
<1> QED
  BY <1>3, <1>4, <1>8 DEF Fifo!Stage

\* The item at a position of the mapped queue is the slot at that distance from tail.
LEMMA QueuedAt ==
  ASSUME NEW i \in Int, NEW j \in Int, j \in 1 .. Published, i = j - 1
  PROVE  QueuedItems[j] = slots[SlotAt(tail, i)]
  BY DEF QueuedItems

\* Filling a slot changes neither queue: its item counted from begin_write on.
LEMMA FillRefines ==
  ASSUME RingInv, FillHeader \/ FillPayload
  PROVE  UNCHANGED Fifo!fifoVars
<1> USE DEF FillHeader, FillPayload, consumerVars
<1>1. /\ InFlight' = InFlight /\ Published' = Published
      /\ unpublished' = unpublished /\ tail' = tail
      /\ InFlight = Published + unpublished /\ unpublished > 0
  BY Bounds DEF InFlight, Published, RingInv, StagedFilled
<1>2. \A i \in Int : 0 <= i /\ i < InFlight - 1 =>
        slots'[SlotAt(tail, i)] = slots[SlotAt(tail, i)]
  BY ReservedSlot, InFlightSlots, Bounds DEF RingInv, TypeOK
<1>3. FillPayload => slots'[SlotAt(tail, InFlight - 1)] = Whole(packet)
  BY ReservedSlot DEF RingInv, TypeOK, StagedFilled, Slot, Whole
<1>4. QueuedItems' = QueuedItems
  BY <1>1, <1>2, Bounds DEF QueuedItems
<1>5. \A i \in 1 .. unpublished : StagedItem(i)' = StagedItem(i)
  <2> TAKE i \in 1 .. unpublished
  <2>1. CASE i = unpublished
    <3>1. Published + i - 1 = InFlight - 1
      BY <1>1, <2>1, Bounds
    <3> QED
      BY <1>1, <1>3, <2>1, <3>1 DEF StagedItem
  <2>2. CASE i # unpublished
    <3>1. Published + i - 1 \in Int /\ 0 <= Published + i - 1 /\ Published + i - 1 < InFlight - 1
      BY <1>1, <2>2, Bounds
    <3>2. slots'[SlotAt(tail, Published + i - 1)] = slots[SlotAt(tail, Published + i - 1)]
      BY <1>2, <3>1
    <3> QED
      BY <1>1, <2>2, <3>2 DEF StagedItem
  <2> QED
    BY <2>1, <2>2
<1>6. StagedItems' = StagedItems
  BY <1>1, <1>5 DEF StagedItems
<1> QED
  BY <1>4, <1>6 DEF Fifo!fifoVars

\* publish publishes what is staged.
LEMMA PublishRefines ==
  ASSUME RingInv, Publish
  PROVE  Fifo!PublishStaged
<1> USE DEF Publish, consumerVars
<1>1. Published' = Published + unpublished /\ tail' = tail /\ slots' = slots
  BY Bounds, DistanceAdvance DEF RingInv, TypeOK, CountersAgree, Published
<1>2. ItemsTyped /\ ItemsTyped'
  BY PublishInv, ItemSequences, ItemSequencesNext
<1>3. \A i \in 1 .. Published : QueuedItems'[i] = QueuedItems[i]
  BY <1>1, Bounds DEF QueuedItems
<1>4. \A i \in 1 .. unpublished : QueuedItems'[Published + i] = StagedItems[i]
  BY <1>1, Bounds DEF QueuedItems, StagedItems, StagedItem
<1>5. QueuedItems' = QueuedItems \o StagedItems
  <2>1. /\ QueuedItems \in Seq(Slot) /\ Len(QueuedItems) = Published
        /\ StagedItems \in Seq(Slot) /\ Len(StagedItems) = unpublished
        /\ QueuedItems' \in Seq(Slot)
        /\ Len(QueuedItems') = Len(QueuedItems) + Len(StagedItems)
    BY <1>1, <1>2 DEF ItemsTyped
  <2>2. /\ \A i \in 1 .. Len(QueuedItems) : QueuedItems'[i] = QueuedItems[i]
        /\ \A i \in 1 .. Len(StagedItems) :
             QueuedItems'[Len(QueuedItems) + i] = StagedItems[i]
    BY <1>3, <1>4, <2>1
  <2> QED
    BY <2>1, <2>2, ConcatIs, Zenon
<1>6. StagedItems' = << >>
  BY <1>2 DEF ItemsTyped
<1> QED
  BY <1>5, <1>6 DEF Fifo!PublishStaged

\* A producer restart loses what is staged.
LEMMA ProducerAttachRefines ==
  ASSUME RingInv, ProducerAttach
  PROVE  Fifo!LoseStaged
<1> USE DEF ProducerAttach, consumerVars
<1>1. QueuedItems' = QueuedItems
  BY DEF QueuedItems, Published
<1>2. StagedItems' = << >>
  BY ProducerAttachInv, ItemSequencesNext DEF ItemsTyped
<1> QED
  BY <1>1, <1>2 DEF Fifo!LoseStaged

\* A step that leaves the counters and the producer alone leaves both queues.
LEMMA ItemsUnchanged ==
  ASSUME UNCHANGED <<head, tail, slots, producerVars>>
  PROVE  UNCHANGED <<StagedItems, QueuedItems>>
  BY DEF StagedItems, QueuedItems, StagedItem, Published, producerVars

\* The callback reads the next item.
LEMMA ReadSlotRefines ==
  ASSUME RingInv, ReadSlot
  PROVE  Fifo!ReadNext
<1> USE DEF ReadSlot
<1>1. got \in 0 .. Published - 1 /\ out' = slots[SlotAt(tail, got)]
  BY BatchSlot
<1>2. got \in Int /\ got + 1 \in 1 .. Published /\ got = (got + 1) - 1
  BY <1>1, Bounds
<1>3. QueuedItems[got + 1] = slots[SlotAt(tail, got)]
  BY <1>2, QueuedAt
<1>4. got < Len(QueuedItems)
  BY <1>1, Bounds, ItemSequences DEF ItemsTyped
<1> QED
  BY <1>1, <1>3, <1>4, ItemsUnchanged DEF Fifo!ReadNext

\* release gives the read items back.
LEMMA ReleaseRefines ==
  ASSUME RingInv, Release
  PROVE  Fifo!GiveBack
<1> USE DEF Release, producerVars
<1>1. /\ head \in Counter /\ head_local \in Counter /\ tail \in Counter
      /\ tail_local = tail /\ batch \in Nat /\ batch <= Published
  BY Bounds DEF RingInv, TypeOK, CountersAgree, BatchContiguous
<1>2. tail' = Plus(tail, batch)
  BY <1>1
<1>3. Published' = Published - batch
  BY <1>1, <1>2, DistanceCatchUp DEF Published
<1>4. \A i \in Int : SlotAt(tail', i) = SlotAt(tail, batch + i)
  BY <1>1, <1>2, SlotAfterPlus
<1>5. ItemsTyped /\ ItemsTyped'
  BY ReleaseInv, ItemSequences, ItemSequencesNext
<1>6. \A i \in 1 .. Published - batch : QueuedItems'[i] = QueuedItems[batch + i]
  <2> TAKE i \in 1 .. Published - batch
  <2>1. /\ i \in 1 .. Published' /\ batch + i \in 1 .. Published
        /\ i - 1 \in Int /\ batch + (i - 1) \in Int
        /\ batch + (i - 1) = (batch + i) - 1
    BY <1>1, <1>3, Bounds
  <2>2. QueuedItems'[i] = slots[SlotAt(tail', i - 1)]
    BY <2>1 DEF QueuedItems
  <2>3. QueuedItems[batch + i] = slots[SlotAt(tail, batch + (i - 1))]
    BY <1>1, <2>1, QueuedAt
  <2> QED
    BY <1>4, <2>1, <2>2, <2>3
<1>7. QueuedItems' = SubSeq(QueuedItems, batch + 1, Len(QueuedItems))
  <2>1. batch \in 0 .. Len(QueuedItems) /\ Len(QueuedItems') = Len(QueuedItems) - batch
    BY <1>1, <1>3, <1>5, Bounds DEF ItemsTyped
  <2> QED
    BY <1>5, <1>6, <2>1, SubSeqIs DEF ItemsTyped
<1>8. \A i \in 1 .. unpublished : StagedItem(i)' = StagedItem(i)
  <2> TAKE i \in 1 .. unpublished
  <2>1. Published' + i - 1 \in Int /\ batch + (Published' + i - 1) = Published + i - 1
    BY <1>1, <1>3, Bounds
  <2>2. SlotAt(tail', Published' + i - 1) = SlotAt(tail, Published + i - 1)
    BY <1>4, <2>1
  <2> QED
    BY <2>2 DEF StagedItem
<1>9. StagedItems' = StagedItems
  BY <1>8 DEF StagedItems
<1> QED
  BY <1>7, <1>9 DEF Fifo!GiveBack

\* A consumer restart reads again what was not given back.
LEMMA ConsumerAttachRefines ==
  ASSUME RingInv, ConsumerAttach
  PROVE  Fifo!ReadAgain
  BY ItemsUnchanged DEF ConsumerAttach, Fifo!ReadAgain

\* pop_batch only decides how much to read: the queue sees at most a restart
\* of the reading position.
LEMMA PopBatchRefines ==
  ASSUME RingInv, PopBatch
  PROVE  Fifo!ReadAgain
  BY ItemsUnchanged DEF PopBatch, Fifo!ReadAgain

\* Every behaviour of the ring, its restarts included, is a behaviour of the
\* bounded FIFO: whole packets, in order, none lost once published.
THEOREM RingImplementsFifo == Spec => ImplementsFifo
<1>1. Init => Fifo!FifoInit
  <2> SUFFICES ASSUME Init PROVE Fifo!FifoInit
    OBVIOUS
  <2>1. 0 \in Counter
    BY Constants DEF Counter
  <2>2. Published = 0
    BY <2>1, DistanceSelf DEF Init, Published
  <2>3. ItemsTyped
    BY InitInv, ItemSequences
  <2> QED
    BY <2>2, <2>3 DEF ItemsTyped, Init, Fifo!FifoInit
<1>2. RingInv /\ [Next]_vars => [Fifo!FifoNext]_(Fifo!fifoVars)
  <2> SUFFICES ASSUME RingInv, [Next]_vars
               PROVE  [Fifo!FifoNext]_(Fifo!fifoVars)
    OBVIOUS
  <2>1. ASSUME NEW p \in Packet, BeginWrite(p)
        PROVE  Fifo!FifoNext
    BY <2>1, BeginWriteRefines DEF Fifo!FifoNext
  <2>2. CASE FillHeader \/ FillPayload
    BY <2>2, FillRefines
  <2>3. CASE UNCHANGED vars
    BY <2>3, ItemsUnchanged DEF vars, consumerVars, Fifo!fifoVars
  <2> QED
    BY <2>1, <2>2, <2>3, PublishRefines, ProducerAttachRefines,
       PopBatchRefines, ReadSlotRefines, ReleaseRefines, ConsumerAttachRefines
    DEF Next, Fifo!FifoNext
<1> QED
  BY <1>1, <1>2, RingCorrect, PTL DEF Spec, ImplementsFifo, Fifo!FifoSpec
=============================================================================
