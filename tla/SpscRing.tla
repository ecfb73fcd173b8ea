------------------------------ MODULE SpscRing ------------------------------
(***************************************************************************)
(* One single-producer single-consumer ring in shared memory               *)
(* (server/include/bike/ipc/spsc_ring.hpp).  The request rings and the     *)
(* response ring are instances of it.                                      *)
(*                                                                         *)
(* head and tail are the two shared atomics.  They count modulo CounterMod *)
(* (2^32 in the code) and are never reset, so the model runs them round.   *)
(* Each access to an atomic is a step of its own, and filling a slot takes *)
(* two: the packet header first, the payload after it.                     *)
(*                                                                         *)
(* Either process may die between any two steps and be started again; its  *)
(* new view of the ring takes its cursor from the shared header.           *)
(***************************************************************************)
EXTENDS Integers, Sequences

CONSTANTS kSlotCount,   \* slots of the ring
          CounterMod,   \* the counters' modulus, 2^32 in the code
          MaxBatch,     \* pop_batch's max: 64 for requests, 32 for responses
          Packet,       \* packets that can be written
          NoPacket      \* what a fresh slot holds

ASSUME SlotsAssumption == kSlotCount \in Nat \ {0}

\* SlotCountBits is at most 16 and the counters have 32 bits, so the modulus
\* is a multiple of the slot count, and a proper one.
ASSUME CounterAssumption ==
  /\ CounterMod \in Nat
  /\ \E k \in 2 .. CounterMod : CounterMod = k * kSlotCount

ASSUME BatchAssumption == MaxBatch \in Nat \ {0}

VARIABLES
  head,             \* RingHeader::head, written by the producer only
  tail,             \* RingHeader::tail, written by the consumer only
  slots,            \* the slot array
  head_local,       \* Producer::head_local_: next slot to reserve
  head_published,   \* Producer::head_published_
  unpublished,      \* Producer::unpublished_
  filling,          \* progress of fill() on the slot reserved last
  packet,           \* the packet being filled in
  tail_local,       \* Consumer::tail_local_
  batch,            \* size of the batch pop_batch returned, 0 outside one
  got,              \* slots of the batch the callback has seen
  out               \* the slot the callback saw last

producerVars == <<head_local, head_published, unpublished, filling, packet>>
consumerVars == <<tail_local, batch, got, out>>
vars == <<head, tail, slots, producerVars, consumerVars>>

Counter == 0 .. CounterMod - 1
SlotIndex == 0 .. kSlotCount - 1
Slot == [pkt : Packet \cup {NoPacket}, payload : Packet \cup {NoPacket}]
Whole(p) == [pkt |-> p, payload |-> p]

\* uint32_t arithmetic on the counters.
Plus(c, n) == (c + n) % CounterMod
Distance(a, b) == (a - b) % CounterMod

\* &slots_[(c + i) & kMask]
SlotAt(c, i) == (c + i) % kSlotCount

Least(a, b) == IF a <= b THEN a ELSE b

Init ==
  /\ head = 0
  /\ tail = 0
  /\ slots = [i \in SlotIndex |-> Whole(NoPacket)]
  /\ head_local = 0
  /\ head_published = 0
  /\ unpublished = 0
  /\ filling = "no"
  /\ packet = NoPacket
  /\ tail_local = 0
  /\ batch = 0
  /\ got = 0
  /\ out = Whole(NoPacket)
-----------------------------------------------------------------------------
(***************************************************************************)
(* The producer.                                                           *)
(***************************************************************************)

\* Seeded fault: one slot too many before the ring counts as full.
Full_OffByOne == Distance(head_local, tail) = kSlotCount + 1

\* Producer::full: everything reserved or in flight, against the capacity.
Full == Distance(head_local, tail) = kSlotCount

\* begin_write loads tail and reserves the slot under head_local_.  When the
\* ring is full it returns nullptr and changes nothing.
BeginWrite(p) ==
  /\ filling = "no"
  /\ ~Full
  /\ unpublished' = unpublished + 1
  /\ head_local' = Plus(head_local, 1)
  /\ filling' = "header"
  /\ packet' = p
  /\ UNCHANGED <<head, tail, slots, head_published, consumerVars>>

\* The slot begin_write returned: head_local_ was incremented after use.
Reserved == SlotAt(head_local, CounterMod - 1)

\* fill, first assignment: slot->pkt = pkt.
FillHeader ==
  /\ filling = "header"
  /\ slots' = [slots EXCEPT ![Reserved].pkt = packet]
  /\ filling' = "payload"
  /\ UNCHANGED <<head, tail, head_local, head_published, unpublished, packet,
                 consumerVars>>

\* fill, the memcpy of the payload.
FillPayload ==
  /\ filling = "payload"
  /\ slots' = [slots EXCEPT ![Reserved].payload = packet]
  /\ filling' = "no"
  /\ UNCHANGED <<head, tail, head_local, head_published, unpublished, packet,
                 consumerVars>>

\* publish(n) with n = unpublished_, which its assertion demands.
Publish ==
  /\ filling = "no"
  /\ unpublished > 0
  /\ unpublished' = 0
  /\ head_published' = Plus(head_published, unpublished)
  /\ head' = head_published'
  /\ UNCHANGED <<tail, slots, head_local, filling, packet, consumerVars>>

\* Seeded fault: the new process keeps the dead one's count of reservations.
ProducerAttach_KeepsCount ==
  /\ head_local' = head
  /\ head_published' = head
  /\ filling' = "no"
  /\ UNCHANGED <<head, tail, slots, unpublished, packet, consumerVars>>

\* The Producer constructor, in the process that takes the place of one that
\* died: whatever was reserved or half written is forgotten.
ProducerAttach ==
  /\ head_local' = head
  /\ head_published' = head
  /\ unpublished' = 0
  /\ filling' = "no"
  /\ UNCHANGED <<head, tail, slots, packet, consumerVars>>
-----------------------------------------------------------------------------
(***************************************************************************)
(* The consumer.                                                           *)
(***************************************************************************)

\* What pop_batch returns: no more than max, than what is published, and than
\* what lies before the end of the array.
BatchSize ==
  Least(Least(MaxBatch, Distance(head, tail_local)),
        kSlotCount - SlotAt(tail_local, 0))

PopBatch ==
  /\ batch = 0
  /\ BatchSize > 0
  /\ batch' = BatchSize
  /\ got' = 0
  /\ UNCHANGED <<head, tail, slots, producerVars, tail_local, out>>

\* The caller's loop over batch[0] .. batch[n-1].  The batch is an array, so
\* its slots are addressed without wrapping.
ReadSlot ==
  /\ got < batch
  /\ out' = slots[SlotAt(tail_local, 0) + got]
  /\ got' = got + 1
  /\ UNCHANGED <<head, tail, slots, producerVars, tail_local, batch>>

\* release(n), which callers call with the size of the batch they finished.
Release ==
  /\ batch > 0
  /\ got = batch
  /\ tail_local' = Plus(tail_local, batch)
  /\ tail' = tail_local'
  /\ batch' = 0
  /\ got' = 0
  /\ UNCHANGED <<head, slots, producerVars, out>>

\* Seeded fault: a restarted consumer skips to the newest packet.
ConsumerAttach_Skips ==
  /\ tail_local' = head
  /\ tail' = head
  /\ batch' = 0
  /\ got' = 0
  /\ UNCHANGED <<head, slots, producerVars, out>>

\* The Consumer constructor in a restarted process.
ConsumerAttach ==
  /\ tail_local' = tail
  /\ batch' = 0
  /\ got' = 0
  /\ UNCHANGED <<head, tail, slots, producerVars, out>>

Next ==
  \/ \E p \in Packet : BeginWrite(p)
  \/ FillHeader
  \/ FillPayload
  \/ Publish
  \/ ProducerAttach
  \/ PopBatch
  \/ ReadSlot
  \/ Release
  \/ ConsumerAttach

Spec == Init /\ [][Next]_vars
-----------------------------------------------------------------------------
(***************************************************************************)
(* Properties.                                                             *)
(***************************************************************************)

Published == Distance(head, tail)
InFlight == Distance(head_local, tail)

\* Every variable has its type.
TypeOK ==
  /\ head \in Counter /\ tail \in Counter
  /\ slots \in [SlotIndex -> Slot]
  /\ head_local \in Counter /\ head_published \in Counter
  /\ unpublished \in 0 .. kSlotCount
  /\ filling \in {"no", "header", "payload"}
  /\ packet \in Packet \cup {NoPacket}
  /\ tail_local \in Counter
  /\ batch \in 0 .. kSlotCount /\ got \in 0 .. kSlotCount
  /\ out \in Slot

\* Each side's cursor agrees with the shared counter it alone writes, and what
\* is in flight is what is published plus what is reserved: never more than
\* the ring holds, whatever the counters have wrapped to.
CountersAgree ==
  /\ head_published = head
  /\ tail_local = tail
  /\ InFlight = Published + unpublished
  /\ InFlight <= kSlotCount

\* The reserved slots hold the packets they were reserved for, except that the
\* last one may still be being filled.
StagedFilled ==
  /\ filling # "no" => unpublished > 0 /\ packet \in Packet
  /\ \A i \in Published .. InFlight - 1 :
       i < InFlight - 1 \/ filling = "no" =>
         \E p \in Packet : slots[SlotAt(tail, i)] = Whole(p)
  /\ filling = "payload" => slots[SlotAt(tail, InFlight - 1)].pkt = packet

\* A consumer never sees a half-written slot: every published slot holds the
\* header and the payload of one packet (the release store of publish and the
\* acquire load of pop_batch, spsc_ring.hpp:62-71 and 121-131).
PublishedWhole ==
  \A i \in 0 .. Published - 1 :
    \E p \in Packet : slots[SlotAt(tail, i)] = Whole(p)

\* The batch handed to the callback is published and lies inside the slot
\* array without wrapping, so batch[i] is a valid element for every i < n
\* (pop_batch's to_end cut).
BatchContiguous ==
  /\ got <= batch
  /\ batch <= Published
  /\ SlotAt(tail, 0) + batch <= kSlotCount

\* The inductive invariant.
RingInv ==
  TypeOK /\ CountersAgree /\ StagedFilled /\ PublishedWhole /\ BatchContiguous

\* No step writes to a slot that is published and not yet released: the
\* producer cannot overwrite a packet the consumer may still be reading, even
\* after a restart of either side (begin_write's full test, release's order).
UnreadUntouched ==
  \A i \in 0 .. Published - 1 :
    slots'[SlotAt(tail, i)] = slots[SlotAt(tail, i)]

UnreadNeverOverwritten == [][UnreadUntouched]_vars

\* The ring is a bounded FIFO: packets come out whole, in the order they were
\* published, each exactly once as long as the consumer lives.
StagedItem(i) ==
  IF i = unpublished /\ filling # "no" THEN Whole(packet)
                                      ELSE slots[SlotAt(tail, Published + i - 1)]

StagedItems == [i \in 1 .. unpublished |-> StagedItem(i)]
QueuedItems == [i \in 1 .. Published |-> slots[SlotAt(tail, i - 1)]]

Fifo == INSTANCE BoundedFifo
  WITH Capacity <- kSlotCount,
       Item <- {Whole(p) : p \in Packet},
       staged <- StagedItems,
       q <- QueuedItems,
       last <- out

ImplementsFifo == Fifo!FifoSpec
=============================================================================
