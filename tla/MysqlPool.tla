------------------------------ MODULE MysqlPool ------------------------------
(***************************************************************************)
(* The MySQL connection pool and the ways the repositories use it.  Every  *)
(* repository call takes one lease for its whole length.  Two calls take a *)
(* second one while they hold the first: add_balance, which ends with      *)
(* get_balance, and find_or_create, when its INSERT is refused.            *)
(*                                                                         *)
(* A step is a critical section of the pool's mutex, or the notify_one     *)
(* that return_ makes after it has left the mutex.                         *)
(***************************************************************************)
EXTENDS Integers, Sequences, FiniteSets

CONSTANTS Thread,     \* the business threads
          Conns,      \* the connections the constructor opened
          MaxCalls    \* bound: repository calls a thread makes

ASSUME ConnsAssumption == IsFiniteSet(Conns) /\ IsFiniteSet(Thread)
ASSUME CallsAssumption == MaxCalls \in Nat

VARIABLES pool,    \* pool_: the connections that are free
          held,    \* the leases of a thread, the inner one last
          pc,      \* where a thread is
          nested,  \* its call has a second lease still to take
          calls    \* the calls it has begun

poolVars == <<pool, held, pc, nested, calls>>

\* The queue is used as a set: which free connection is taken does not matter.
PoolInit ==
    /\ pool = Conns
    /\ held = [t \in Thread |-> << >>]
    /\ pc = [t \in Thread |-> "idle"]
    /\ nested = [t \in Thread |-> FALSE]
    /\ calls = [t \in Thread |-> 0]

\* A repository method is called; its first statement is acquire().
Call(t) ==
    /\ pc[t] = "idle"
    /\ calls[t] < MaxCalls
    /\ calls' = [calls EXCEPT ![t] = @ + 1]
    /\ \E b \in BOOLEAN : nested' = [nested EXCEPT ![t] = b]
    /\ pc' = [pc EXCEPT ![t] = "acquire"]
    /\ UNCHANGED <<pool, held>>

\* The wait's predicate holds: the thread leaves acquire() with a lease.
Acquire(t) ==
    /\ pc[t] \in {"acquire", "awake"}
    /\ \E m \in pool :
          /\ pool' = pool \ {m}
          /\ held' = [held EXCEPT ![t] = Append(@, m)]
    /\ pc' = [pc EXCEPT ![t] = "use"]
    /\ UNCHANGED <<nested, calls>>

\* The predicate is false: the thread waits on cv_ and releases the mutex.
Sleep(t) ==
    /\ pc[t] \in {"acquire", "awake"}
    /\ pool = {}
    /\ pc' = [pc EXCEPT ![t] = "asleep"]
    /\ UNCHANGED <<pool, held, nested, calls>>

\* A condition variable may wake a thread for no reason.
WakeSpuriously(t) ==
    /\ pc[t] = "asleep"
    /\ pc' = [pc EXCEPT ![t] = "awake"]
    /\ UNCHANGED <<pool, held, nested, calls>>

\* Seeded fault: the inner call is itself one that takes another lease.
AcquireAgain_Deeper(t) ==
    /\ pc[t] = "use"
    /\ nested[t]
    /\ pc' = [pc EXCEPT ![t] = "acquire"]
    /\ UNCHANGED <<pool, held, nested, calls>>

\* get_balance at the end of add_balance: acquire() with a lease in hand.
AcquireAgain(t) ==
    /\ pc[t] = "use"
    /\ nested[t]
    /\ nested' = [nested EXCEPT ![t] = FALSE]
    /\ pc' = [pc EXCEPT ![t] = "acquire"]
    /\ UNCHANGED <<pool, held, calls>>

\* Where a thread goes on after return_: to the end of the outer call, or out.
AfterReturn(t) == IF held[t] = << >> THEN "idle" ELSE "use"

\* Seeded fault: return_ without the notification.
Return_Silent(t) ==
    /\ pc[t] = "use"
    /\ ~nested[t]
    /\ pool' = pool \cup {held[t][Len(held[t])]}
    /\ held' = [held EXCEPT ![t] = SubSeq(@, 1, Len(@) - 1)]
    /\ pc' = [pc EXCEPT ![t] = IF Len(held[t]) = 1 THEN "idle" ELSE "use"]
    /\ UNCHANGED <<nested, calls>>

\* Seeded fault: the connection goes back while the lease keeps it.
Return_Twice(t) ==
    /\ pc[t] = "use"
    /\ ~nested[t]
    /\ pool' = pool \cup {held[t][Len(held[t])]}
    /\ pc' = [pc EXCEPT ![t] = "notify"]
    /\ UNCHANGED <<held, nested, calls>>

\* ~Lease: return_ puts the innermost connection back.
Return(t) ==
    /\ pc[t] = "use"
    /\ ~nested[t]
    /\ pool' = pool \cup {held[t][Len(held[t])]}
    /\ held' = [held EXCEPT ![t] = SubSeq(@, 1, Len(@) - 1)]
    /\ pc' = [pc EXCEPT ![t] = "notify"]
    /\ UNCHANGED <<nested, calls>>

\* Seeded fault: return_ notifies only when the pool had been empty before it.
NotifyOne_IfWasEmpty(t) ==
    /\ pc[t] = "notify"
    /\ \/ /\ Cardinality(pool) = 1
          /\ \E s \in Thread : /\ pc[s] = "asleep"
                               /\ pc' = [pc EXCEPT ![s] = "awake", ![t] = AfterReturn(t)]
       \/ /\ Cardinality(pool) # 1 \/ \A s \in Thread : pc[s] # "asleep"
          /\ pc' = [pc EXCEPT ![t] = AfterReturn(t)]
    /\ UNCHANGED <<pool, held, nested, calls>>

\* cv_.notify_one(), after the mutex was released.
NotifyOne(t) ==
    /\ pc[t] = "notify"
    /\ \/ \E s \in Thread : /\ pc[s] = "asleep"
                            /\ pc' = [pc EXCEPT ![s] = "awake", ![t] = AfterReturn(t)]
       \/ /\ \A s \in Thread : pc[s] # "asleep"
          /\ pc' = [pc EXCEPT ![t] = AfterReturn(t)]
    /\ UNCHANGED <<pool, held, nested, calls>>

Step(t) == Acquire(t) \/ Sleep(t) \/ AcquireAgain(t) \/ Return(t) \/ NotifyOne(t)

PoolNext == \E t \in Thread : Call(t) \/ WakeSpuriously(t) \/ Step(t)

PoolSpec == PoolInit /\ [][PoolNext]_poolVars

\* Statements return and the mutex is granted; nothing wakes a sleeper but
\* notify_one.
FairPoolSpec == PoolSpec /\ \A t \in Thread : WF_poolVars(Step(t))

-----------------------------------------------------------------------------
(***************************************************************************)
(* Properties.                                                             *)
(***************************************************************************)
\* The state has its type.
PoolTypeOK ==
    /\ pool \in SUBSET Conns
    /\ held \in [Thread -> Seq(Conns)]
    /\ pc \in [Thread -> {"idle", "acquire", "asleep", "awake", "use", "notify"}]
    /\ nested \in [Thread -> BOOLEAN]
    /\ calls \in [Thread -> Nat]

(* A connection is free or in one lease, never in two: MYSQL handles are   *)
(* not thread safe, and two transactions on one would be one (Lease's      *)
(* moves, acquire and return_).                                            *)
LeasesExclusive ==
    /\ \A t \in Thread : \A i \in DOMAIN held[t] : held[t][i] \notin pool
    /\ \A t, s \in Thread : \A i \in DOMAIN held[t], j \in DOMAIN held[s] :
          held[t][i] = held[s][j] => t = s /\ i = j

(* No wakeup is lost: while a connection is free and a thread sleeps, some *)
(* thread is on its way to notify or has been woken and will look, though  *)
(* return_ notifies outside the mutex and a newcomer may take the          *)
(* connection before the one that was woken.                               *)
NoLostWakeup ==
    (pool # {} /\ \E t \in Thread : pc[t] = "asleep") =>
        \E s \in Thread : pc[s] \in {"notify", "awake"}

\* The connections of the pool, free or leased.
Opened == pool \cup {m \in Conns : \E t \in Thread : \E i \in DOMAIN held[t] : held[t][i] = m}

(* With more connections than threads the threads never all sleep in       *)
(* acquire() at once, although add_balance waits with a lease in hand.     *)
(* This is the size the pool needs; with one connection less they may.     *)
NotEverybodyWaits ==
    (Thread # {} /\ Cardinality(Opened) > Cardinality(Thread)) =>
        \E t \in Thread : pc[t] # "asleep"

\* Every connection is in the hand of a thread that waits for another one:
\* nobody gives one back any more.
Wedged ==
    /\ pool = {}
    /\ \A t \in Thread : held[t] # << >> => pc[t] \in {"acquire", "asleep", "awake"}

\* A pool of more connections than threads is never wedged.
LargePoolFree == Cardinality(Opened) > Cardinality(Thread) => ~Wedged

(* Every repository call returns, or the pool is wedged by calls that wait *)
(* for their second lease; wakeups, newcomers and spurious wakeups leave   *)
(* no other way to wait for ever.  With more connections than threads it   *)
(* never is.  A thread makes a bounded number of calls here: newcomers     *)
(* that overtake a sleeper without end are a matter of the scheduler.      *)
EveryCallReturns ==
    /\ \A t \in Thread : pc[t] # "idle" ~> pc[t] = "idle" \/ Wedged
    /\ []LargePoolFree

-----------------------------------------------------------------------------
(* Refuted: docs/superpowers/specs/2026-07-19-shared-bike-expansion-       *)
(* design.md:557, the pool has "as many connections as asio threads" (and  *)
(* server.toml half as many).  Each of them may serve an add_balance that  *)
(* waits for its second lease.                                             *)

\* The pool is never wedged, whatever its size.
NeverWedged == ~Wedged
=============================================================================
