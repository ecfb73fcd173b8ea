---------------------------- MODULE BoundedFifo ----------------------------
(***************************************************************************)
(* What one shared-memory ring promises its two sides, without counters,   *)
(* indices or slots: a bounded queue whose producer stages items and then  *)
(* publishes the staged batch, and whose consumer reads items in order     *)
(* before giving them back.                                                *)
(*                                                                         *)
(* Either side may be restarted.  A restarted producer loses what it       *)
(* staged and never published; a restarted consumer reads again what it    *)
(* read and never gave back.  Nothing else is lost, repeated or reordered. *)
(***************************************************************************)
EXTENDS Naturals, Sequences

CONSTANTS Capacity,   \* room for staged and published items together
          Item        \* what can be queued

VARIABLES staged,     \* items written by the producer, not yet published
          q,          \* published items the consumer has not given back
          got,        \* how many items at the front of q were read
          last        \* the item read last

fifoVars == <<staged, q, got, last>>

FifoInit ==
  /\ staged = << >>
  /\ q = << >>
  /\ got = 0

Stage(x) ==
  /\ Len(staged) + Len(q) < Capacity
  /\ staged' = Append(staged, x)
  /\ UNCHANGED <<q, got, last>>

PublishStaged ==
  /\ q' = q \o staged
  /\ staged' = << >>
  /\ UNCHANGED <<got, last>>

LoseStaged ==
  /\ staged' = << >>
  /\ UNCHANGED <<q, got, last>>

ReadNext ==
  /\ got < Len(q)
  /\ last' = q[got + 1]
  /\ got' = got + 1
  /\ UNCHANGED <<staged, q>>

GiveBack ==
  /\ q' = SubSeq(q, got + 1, Len(q))
  /\ got' = 0
  /\ UNCHANGED <<staged, last>>

ReadAgain ==
  /\ got' = 0
  /\ UNCHANGED <<staged, q, last>>

FifoNext ==
  \/ \E x \in Item : Stage(x)
  \/ PublishStaged
  \/ LoseStaged
  \/ ReadNext
  \/ GiveBack
  \/ ReadAgain

FifoSpec == FifoInit /\ [][FifoNext]_fifoVars
=============================================================================
