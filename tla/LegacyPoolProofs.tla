-------------------------- MODULE LegacyPoolProofs --------------------------
(***************************************************************************)
(* For every number of threads and every max_queue: the pool's counter is   *)
(* exact, its queue is bounded, no queued task is forgotten while a thread  *)
(* sleeps, and the pool is freed only when nothing uses it.                 *)
(***************************************************************************)
EXTENDS LegacyPool, FiniteSetTheorems, TLAPS

\* The inductive invariant: the bound on the counter itself is what makes the
\* bound on the queue inductive.
PoolInv ==
  /\ PoolTypeOK
  /\ waiting <= max_queue
  /\ WaitingExact
  /\ NoTaskForgotten

\* A set of threads is finite, and its cardinality a natural number.
LEMMA InFinite ==
  ASSUME NEW S \in SUBSET Thread
  PROVE  IsFiniteSet(S) /\ Cardinality(S) \in Nat
BY LegacyPoolAssumption, FS_Subset, FS_CardinalityType

\* A thread joining a set of threads counts for one.
LEMMA Joins ==
  ASSUME NEW S \in SUBSET Thread, NEW w \in Thread, w \notin S
  PROVE  Cardinality(S \cup {w}) = Cardinality(S) + 1
BY InFinite, FS_AddElement

\* A thread leaving one counts for one less.
LEMMA Leaves ==
  ASSUME NEW S \in SUBSET Thread, NEW w \in S
  PROVE  Cardinality(S \ {w}) = Cardinality(S) - 1
BY InFinite, FS_RemoveElement

\* The pool as thread_pool_init leaves it satisfies the invariant.
LEMMA PoolInitially == thread_pool_init => PoolInv
<1> SUFFICES ASSUME thread_pool_init PROVE PoolInv
  OBVIOUS
<1>1. PoolTypeOK
  BY DEF thread_pool_init, PoolTypeOK
<1>2. Waiters = {} /\ Asleep = {}
  BY DEF thread_pool_init, Waiters, Asleep
<1>3. Cardinality({}) = 0 /\ Len(queue) = 0 /\ waiting = 0
  BY FS_EmptySet DEF thread_pool_init
<1>4. waiting <= max_queue
  BY <1>3, LegacyPoolAssumption
<1>5. WaitingExact /\ NoTaskForgotten
  BY <1>2, <1>3 DEF WaitingExact, NoTaskForgotten
<1>6. QED
  BY <1>1, <1>4, <1>5 DEF PoolInv

\* The conjuncts of the invariant about how many threads and tasks there are.
Counts == waiting <= max_queue /\ WaitingExact /\ NoTaskForgotten

\* A post keeps the counts: the task and the counter grow together, and the
\* signal, if a thread sleeps, adds a woken thread.
LEMMA PostKeeps ==
  ASSUME PoolInv, NEW t \in Task \cup {Exit}, thread_task_post(t)
  PROVE  Counts'
<1>1. CASE Full /\ UNCHANGED <<queue, waiting, thr, task>>
  BY <1>1 DEF PoolInv, Counts, WaitingExact, NoTaskForgotten, Waiters, Asleep, Woken
<1>2. CASE Posted(t)
  <2> USE <1>2 DEF Posted
  <2>1. /\ waiting' = waiting + 1 /\ waiting' <= max_queue
        /\ Len(queue') = Len(queue) + 1 /\ Len(queue) \in Nat /\ waiting \in Int
    BY LegacyPoolAssumption DEF Full, PoolInv, PoolTypeOK
  <2>2. CASE Asleep = {}
    <3>1. Waiters' = Waiters /\ Asleep' = Asleep
      BY <2>2 DEF thread_cond_signal, Waiters, Asleep
    <3>2. Cardinality(Waiters) \in Nat
      BY InFinite DEF Waiters
    <3>3. QED
      BY <2>1, <2>2, <3>1, <3>2 DEF PoolInv, Counts, WaitingExact, NoTaskForgotten
  <2>3. CASE Asleep # {}
    <3>1. PICK w \in Asleep : thr' = [thr EXCEPT ![w] = "woken"]
      BY <2>3 DEF thread_cond_signal
    <3>2. w \in Thread /\ thr[w] = "asleep"
      BY <3>1 DEF Asleep
    <3>3. Waiters' = Waiters /\ Woken' = Woken \cup {w} /\ w \notin Woken
      BY <3>1, <3>2 DEF PoolInv, PoolTypeOK, Waiters, Woken
    <3>4. Cardinality(Woken') = Cardinality(Woken) + 1
      BY <3>2, <3>3, Joins, Zenon DEF Woken
    <3>5. Cardinality(Waiters) \in Nat /\ Cardinality(Woken) \in Nat
      BY InFinite DEF Waiters, Woken
    <3>6. QED
      BY <2>1, <2>3, <3>3, <3>4, <3>5 DEF PoolInv, Counts, WaitingExact, NoTaskForgotten
  <2>4. QED
    BY <2>2, <2>3
<1>3. QED
  BY <1>1, <1>2 DEF thread_task_post

\* A thread that comes for work takes one from the counter, and then either
\* joins the waiting threads or takes a task from the queue.
LEMMA CycleKeeps ==
  ASSUME PoolInv, NEW w \in Thread, thread_pool_cycle(w)
  PROVE  Counts'
<1> USE DEF thread_pool_cycle
<1>1. waiting' = waiting - 1 /\ waiting \in Int /\ Len(queue) \in Nat /\ thr[w] = "start"
  BY DEF PoolInv, PoolTypeOK
<1>2. Cardinality(Waiters) \in Nat /\ Cardinality(Woken) \in Nat
  BY InFinite DEF Waiters, Woken
<1>3. CASE queue = <<>>
  <2>1. thr' = [thr EXCEPT ![w] = "asleep"] /\ queue' = queue
    BY <1>3 DEF take
  <2>2. Waiters' = Waiters \cup {w} /\ w \notin Waiters /\ Woken' = Woken
    BY <1>1, <2>1 DEF PoolInv, PoolTypeOK, Waiters, Woken
  <2>3. Cardinality(Waiters') = Cardinality(Waiters) + 1
    BY <2>2, Joins DEF Waiters
  <2>4. Len(queue) = 0
    BY <1>3
  <2>5. QED
    BY <1>1, <1>2, <2>1, <2>2, <2>3, <2>4, LegacyPoolAssumption
    DEF PoolInv, Counts, WaitingExact, NoTaskForgotten
<1>4. CASE queue # <<>>
  <2>1. thr' = [thr EXCEPT ![w] = "run"] /\ queue' = Tail(queue)
    BY <1>4 DEF take
  <2>2. Waiters' = Waiters /\ Woken' = Woken /\ Asleep' = Asleep
    BY <1>1, <2>1 DEF PoolInv, PoolTypeOK, Waiters, Woken, Asleep
  <2>3. Len(queue') = Len(queue) - 1
    BY <1>4, <2>1 DEF PoolInv, PoolTypeOK
  <2>4. QED
    BY <1>1, <1>2, <2>2, <2>3, LegacyPoolAssumption
    DEF PoolInv, Counts, WaitingExact, NoTaskForgotten
<1>5. QED
  BY <1>3, <1>4

\* A thread back from thread_cond_wait leaves the waiting threads with a task,
\* or goes back to sleep at an empty queue.
LEMMA WaitAgainKeeps ==
  ASSUME PoolInv, NEW w \in Thread, waitAgain(w)
  PROVE  Counts'
<1> USE DEF waitAgain
<1>1. waiting' = waiting /\ waiting \in Int /\ Len(queue) \in Nat /\ thr[w] = "woken"
  BY DEF PoolInv, PoolTypeOK
<1>2. Cardinality(Waiters) \in Nat /\ Cardinality(Woken) \in Nat
  BY InFinite DEF Waiters, Woken
<1>3. CASE queue = <<>>
  <2>1. thr' = [thr EXCEPT ![w] = "asleep"] /\ queue' = queue
    BY <1>3 DEF take
  <2>2. Waiters' = Waiters /\ Woken' \in SUBSET Thread
    BY <1>1, <2>1 DEF PoolInv, PoolTypeOK, Waiters, Woken
  <2>3. Len(queue) = 0 /\ Cardinality(Woken') \in Nat
    BY <1>3, <2>2, InFinite
  <2>4. QED
    BY <1>1, <1>2, <2>1, <2>2, <2>3 DEF PoolInv, Counts, WaitingExact, NoTaskForgotten
<1>4. CASE queue # <<>>
  <2>1. thr' = [thr EXCEPT ![w] = "run"] /\ queue' = Tail(queue)
    BY <1>4 DEF take
  <2>2. /\ Waiters' = Waiters \ {w} /\ Woken' = Woken \ {w} /\ Asleep' = Asleep
        /\ w \in Waiters /\ w \in Woken
    BY <1>1, <2>1 DEF PoolInv, PoolTypeOK, Waiters, Woken, Asleep
  <2>3. Cardinality(Waiters') = Cardinality(Waiters) - 1
    BY <2>2, Leaves DEF Waiters
  <2>4. Cardinality(Woken') = Cardinality(Woken) - 1
    BY <2>2, Leaves DEF Woken
  <2>5. Len(queue') = Len(queue) - 1
    BY <1>4, <2>1 DEF PoolInv, PoolTypeOK
  <2>6. QED
    BY <1>1, <1>2, <2>2, <2>3, <2>4, <2>5 DEF PoolInv, Counts, WaitingExact, NoTaskForgotten
<1>5. QED
  BY <1>3, <1>4

\* A thread woken without a signal is one more woken thread.
LEMMA SpuriousKeeps ==
  ASSUME PoolInv, NEW w \in Thread, Spurious(w)
  PROVE  Counts'
<1> USE DEF Spurious
<1>1. Waiters' = Waiters /\ Woken' = Woken \cup {w} /\ w \notin Woken /\ Asleep # {}
  BY DEF PoolInv, PoolTypeOK, Waiters, Woken, Asleep
<1>2. Cardinality(Woken') = Cardinality(Woken) + 1
  BY <1>1, Joins DEF Woken
<1>3. Cardinality(Woken) \in Nat /\ Len(queue) \in Nat
  BY InFinite DEF Woken, PoolInv, PoolTypeOK
<1>4. QED
  BY <1>1, <1>2, <1>3 DEF PoolInv, Counts, WaitingExact, NoTaskForgotten

\* A running thread that ends its handler waits for nothing before or after.
LEMMA HandlerKeeps ==
  ASSUME PoolInv, NEW w \in Thread, HandlerDone(w) \/ thread_pool_exit_handler(w)
  PROVE  Counts'
<1>1. Waiters' = Waiters /\ Woken' = Woken /\ Asleep' = Asleep
  BY DEF HandlerDone, thread_pool_exit_handler, PoolInv, PoolTypeOK, Waiters, Woken, Asleep
<1>2. queue' = queue /\ waiting' = waiting
  BY DEF HandlerDone, thread_pool_exit_handler
<1>3. QED
  BY <1>1, <1>2 DEF PoolInv, Counts, WaitingExact, NoTaskForgotten

\* The types are kept by every step.
LEMMA TypesKept ==
  ASSUME PoolInv, [PoolNext]_poolvars
  PROVE  PoolTypeOK'
<1> USE DEF PoolInv, PoolTypeOK
<1>1. ASSUME NEW t \in Task \cup {Exit}, thread_task_post(t)
      PROVE  /\ queue' \in Seq(Task \cup {Exit}) /\ waiting' \in Int
             /\ thr' \in [Thread -> {"start", "asleep", "woken", "run", "gone"}]
             /\ task' \in [Thread -> Task \cup {Exit}]
  <2>1. /\ queue' = queue \/ queue' = Append(queue, t)
        /\ task' = task
        /\ \/ thr' = thr
           \/ \E w \in Thread : thr' = [thr EXCEPT ![w] = "woken"]
    BY <1>1, Zenon DEF thread_task_post, Posted, thread_cond_signal, Asleep
  <2>2. waiting' \in Int
    BY <1>1 DEF thread_task_post, Posted
  <2>3. queue' \in Seq(Task \cup {Exit})
    BY <2>1
  <2>4. thr' \in [Thread -> {"start", "asleep", "woken", "run", "gone"}]
    BY <2>1
  <2>5. QED
    BY <2>1, <2>2, <2>3, <2>4
<1>2. ASSUME NEW t \in Task, Post(t) PROVE PoolTypeOK'
  BY <1>1, <1>2 DEF Post
<1>3. ASSUME NEW w \in Thread, Worker(w) PROVE PoolTypeOK'
  <2>0. waiting' \in Int /\ UNCHANGED <<destroy, exits, lock>>
    BY <1>3 DEF Worker, thread_pool_cycle, waitAgain
  <2>1. CASE queue = <<>>
    <3>1. thr' = [thr EXCEPT ![w] = "asleep"] /\ UNCHANGED <<queue, task>>
      BY <1>3, <2>1 DEF Worker, thread_pool_cycle, waitAgain, take
    <3>2. QED
      BY <2>0, <3>1
  <2>2. CASE queue # <<>>
    <3>1. Head(queue) \in Task \cup {Exit} /\ Tail(queue) \in Seq(Task \cup {Exit})
      BY <2>2
    <3>2. /\ thr' = [thr EXCEPT ![w] = "run"] /\ task' = [task EXCEPT ![w] = Head(queue)]
          /\ queue' = Tail(queue)
      BY <1>3, <2>2 DEF Worker, thread_pool_cycle, waitAgain, take
    <3>3. task' \in [Thread -> Task \cup {Exit}]
      BY <3>1, <3>2
    <3>4. QED
      BY <2>0, <3>1, <3>2, <3>3
  <2>3. QED
    BY <2>1, <2>2
<1>4. ASSUME NEW w \in Thread, Spurious(w) \/ HandlerDone(w) \/ thread_pool_exit_handler(w)
      PROVE  PoolTypeOK'
  BY <1>4 DEF Spurious, HandlerDone, thread_pool_exit_handler
<1>5. CASE Close \/ destroyEnd
  BY <1>5 DEF Close, destroyEnd
<1>6. CASE destroyLoop
  BY <1>1, <1>6 DEF destroyLoop
<1>7. CASE UNCHANGED poolvars
  BY <1>7 DEF poolvars
<1>8. QED
  BY <1>2, <1>3, <1>4, <1>5, <1>6, <1>7 DEF PoolNext, PoolSteps, thread_pool_destroy

\* Every step of the pool preserves the invariant.
LEMMA PoolInductive == PoolInv /\ [PoolNext]_poolvars => PoolInv'
<1> SUFFICES ASSUME PoolInv, [PoolNext]_poolvars PROVE PoolInv'
  OBVIOUS
<1>1. PoolTypeOK'
  BY TypesKept
<1>2. Counts'
  <2>1. ASSUME NEW t \in Task, Post(t) PROVE Counts'
    BY <2>1, PostKeeps DEF Post
  <2>2. ASSUME NEW w \in Thread, Worker(w) PROVE Counts'
    BY <2>2, CycleKeeps, WaitAgainKeeps DEF Worker
  <2>3. ASSUME NEW w \in Thread, Spurious(w) PROVE Counts'
    BY <2>3, SpuriousKeeps
  <2>4. ASSUME NEW w \in Thread, HandlerDone(w) \/ thread_pool_exit_handler(w) PROVE Counts'
    BY <2>4, HandlerKeeps
  <2>5. CASE destroyLoop
    BY <2>5, PostKeeps DEF destroyLoop
  <2>6. CASE Close \/ destroyEnd \/ UNCHANGED poolvars
    <3>1. queue' = queue /\ waiting' = waiting /\ thr' = thr
      BY <2>6 DEF Close, destroyEnd, poolvars
    <3>2. QED
      BY <3>1 DEF PoolInv, Counts, WaitingExact, NoTaskForgotten, Waiters, Woken, Asleep
  <2>7. QED
    BY <2>1, <2>2, <2>3, <2>4, <2>5, <2>6 DEF PoolNext, PoolSteps, thread_pool_destroy
<1>3. QED
  BY <1>1, <1>2 DEF PoolInv, Counts

\* The invariant bounds the queue.
LEMMA CountsBoundQueue == PoolInv => QueueBounded
<1> SUFFICES ASSUME PoolInv PROVE QueueBounded
  OBVIOUS
<1>1. Cardinality(Waiters) \in Nat /\ Len(queue) \in Nat /\ waiting \in Int
  BY InFinite DEF Waiters, PoolInv, PoolTypeOK
<1>2. QED
  BY <1>1, LegacyPoolAssumption DEF PoolInv, WaitingExact, QueueBounded

\* With any number of threads the counter of thread_task_post is exact, the queue
\* holds at most max_queue tasks and one for each waiting thread, and signalling
\* before the append leaves no task without a thread.
THEOREM QueueAlwaysAccounted == PoolSpec => []QueueAccounted
<1>1. PoolInv => QueueAccounted
  BY CountsBoundQueue DEF PoolInv, QueueAccounted
<1>2. QED
  BY <1>1, PoolInitially, PoolInductive, PTL DEF PoolSpec

-----------------------------------------------------------------------------

Gone == {w \in Thread : thr[w] = "gone"}
Leaving == {w \in Thread : thr[w] = "run" /\ task[w] = Exit}

\* No exit task is in the queue or in a thread.
NoExit == Leaving = {} /\ \A i \in 1 .. Len(queue) : queue[i] # Exit

\* One exit task is the last of the queue, or the queue is empty and a thread
\* has it.
OneExit ==
  \/ /\ Leaving = {} /\ queue # <<>> /\ queue[Len(queue)] = Exit
     /\ \A i \in 1 .. Len(queue) - 1 : queue[i] # Exit
  \/ queue = <<>> /\ \E w \in Thread : Leaving = {w}

\* What thread_pool_destroy knows from its spin variable: each turn of its loop
\* but the one it spins for has ended a thread, and the first exit task drains
\* the queue, for it comes after every task.
ExitInv ==
  /\ destroy \in {"open", "closing"} => exits = Cardinality(Gone) + lock
  /\ destroy = "open" => lock = 0 /\ exits = 0 /\ NoExit
  /\ destroy = "closing" /\ lock = 0 => NoExit /\ (0 < exits => queue = <<>>)
  /\ destroy = "closing" /\ lock = 1 => OneExit
  /\ FreedUnused

\* No thread has left, or is leaving, the pool thread_pool_init made.
LEMMA ExitInitially == thread_pool_init => ExitInv
<1> SUFFICES ASSUME thread_pool_init PROVE ExitInv
  OBVIOUS
<1>1. Gone = {} /\ Leaving = {} /\ Len(queue) = 0
  BY DEF thread_pool_init, Gone, Leaving
<1>2. Cardinality(Gone) = 0
  BY <1>1, FS_EmptySet
<1>3. QED
  BY <1>1, <1>2 DEF thread_pool_init, ExitInv, NoExit, FreedUnused

\* A step that moves no thread into or out of a handler leaves the exits alone.
LEMMA SameExits ==
  ASSUME ExitInv, Gone' = Gone, Leaving' = Leaving, UNCHANGED <<queue, destroy, exits, lock>>
  PROVE  ExitInv'
<1>1. Cardinality(Gone') = Cardinality(Gone)
  BY Zenon
<1>2. destroy = "freed" => Gone = Thread
  BY DEF ExitInv, FreedUnused, Gone
<1>3. FreedUnused'
  BY <1>2 DEF ExitInv, FreedUnused, Gone
<1>4. QED
  BY <1>1, <1>3 DEF ExitInv, NoExit, OneExit

\* A signal wakes a sleeping thread, which has not left and is not leaving.
LEMMA SignalExits ==
  ASSUME PoolTypeOK, thread_cond_signal, UNCHANGED task
  PROVE  Gone' = Gone /\ Leaving' = Leaving
<1>1. CASE Asleep = {}
  BY <1>1 DEF thread_cond_signal, Gone, Leaving
<1>2. CASE Asleep # {}
  <2>1. PICK w \in Asleep : thr' = [thr EXCEPT ![w] = "woken"]
    BY <1>2 DEF thread_cond_signal
  <2>2. QED
    BY <2>1 DEF Asleep, Gone, Leaving, PoolTypeOK
<1>3. QED
  BY <1>1, <1>2

\* A caller's task is no exit task, and it is posted before the pool closes.
LEMMA PostExits ==
  ASSUME PoolTypeOK, ExitInv, NEW t \in Task, Post(t)
  PROVE  ExitInv'
<1>1. CASE Full /\ UNCHANGED <<queue, waiting, thr, task>>
  BY <1>1, SameExits DEF Post, Gone, Leaving
<1>2. CASE Posted(t)
  <2>1. Gone' = Gone /\ Leaving' = Leaving
    BY <1>2, SignalExits DEF Posted
  <2>2. queue' = Append(queue, t) /\ t # Exit
    BY <1>2, LegacyPoolAssumption DEF Posted
  <2>3. NoExit /\ NoExit'
    BY <2>1, <2>2 DEF Post, ExitInv, NoExit, PoolTypeOK
  <2>4. QED
    BY <2>1, <2>3 DEF Post, ExitInv, FreedUnused
<1>3. QED
  BY <1>1, <1>2 DEF Post, thread_task_post

\* A worker that takes the exit task finds it alone in the queue.
LEMMA WorkerExits ==
  ASSUME PoolTypeOK, ExitInv, NEW w \in Thread, Worker(w)
  PROVE  ExitInv'
<1>1. thr[w] \in {"start", "woken"} /\ take(w) /\ UNCHANGED <<destroy, exits, lock>>
  BY DEF Worker, thread_pool_cycle, waitAgain
<1>2. destroy # "freed" /\ w \notin Leaving /\ w \notin Gone
  BY <1>1 DEF ExitInv, FreedUnused, Leaving, Gone
<1>3. CASE queue = <<>>
  <2>1. thr' = [thr EXCEPT ![w] = "asleep"] /\ UNCHANGED <<queue, task>>
    BY <1>1, <1>3 DEF take
  <2>2. Gone' = Gone /\ Leaving' = Leaving
    BY <1>1, <2>1 DEF Gone, Leaving, PoolTypeOK
  <2>3. QED
    BY <1>1, <2>1, <2>2, SameExits
<1>4. CASE queue # <<>>
  <2>1. /\ thr' = [thr EXCEPT ![w] = "run"] /\ task' = [task EXCEPT ![w] = Head(queue)]
        /\ queue' = Tail(queue)
    BY <1>1, <1>4 DEF take
  <2>2. Gone' = Gone
    BY <1>1, <2>1 DEF Gone, PoolTypeOK
  <2>3. Head(queue) # Exit => Leaving' = Leaving
    BY <1>1, <2>1 DEF Leaving, PoolTypeOK
  <2>4. Head(queue) = Exit => Leaving' = Leaving \cup {w}
    BY <1>1, <2>1 DEF Leaving, PoolTypeOK
  <2>5. /\ Len(queue) \in Nat /\ 0 < Len(queue) /\ Len(queue') = Len(queue) - 1
        /\ Head(queue) = queue[1] /\ \A i \in 1 .. Len(queue') : queue'[i] = queue[i + 1]
    BY <1>4, <2>1 DEF PoolTypeOK
  <2>6. NoExit => NoExit'
    BY <2>3, <2>5 DEF NoExit
  <2>7. OneExit => OneExit'
    <3> SUFFICES ASSUME OneExit PROVE OneExit'
      OBVIOUS
    <3>1. /\ Leaving = {} /\ queue[Len(queue)] = Exit
          /\ \A i \in 1 .. Len(queue) - 1 : queue[i] # Exit
      BY <1>4 DEF OneExit
    <3>2. CASE Len(queue) = 1
      <4>1. queue' = <<>>
        BY <2>1, <2>5, <3>2 DEF PoolTypeOK
      <4>2. Leaving' = {w}
        BY <2>4, <2>5, <3>1, <3>2
      <4>3. QED
        BY <4>1, <4>2 DEF OneExit
    <3>3. CASE Len(queue) # 1
      <4>1. Leaving' = {} /\ queue' # <<>>
        BY <2>3, <2>5, <3>1, <3>3
      <4>2. queue'[Len(queue')] = Exit /\ \A i \in 1 .. Len(queue') - 1 : queue'[i] # Exit
        <5> DEFINE n == Len(queue)
                   m == Len(queue')
        <5>1. /\ n \in Nat /\ m = n - 1 /\ 0 < n /\ n # 1
              /\ \A i \in 1 .. m : queue'[i] = queue[i + 1]
          BY <2>5, <3>3
        <5>2. queue[n] = Exit /\ \A i \in 1 .. n - 1 : queue[i] # Exit
          BY <3>1
        <5> HIDE DEF n, m
        <5>3. m \in 1 .. m /\ m + 1 = n /\ \A i \in 1 .. m - 1 : i \in 1 .. m /\ i + 1 \in 1 .. n - 1
          BY <5>1
        <5>4. queue'[m] = Exit
          BY <5>1, <5>2, <5>3
        <5>5. \A i \in 1 .. m - 1 : queue'[i] # Exit
          BY <5>1, <5>2, <5>3
        <5>6. QED
          BY <5>4, <5>5 DEF m
      <4>3. QED
        BY <4>1, <4>2 DEF OneExit
    <3>4. QED
      BY <3>2, <3>3
  <2>8. QED
    BY <1>1, <1>2, <1>4, <2>2, <2>6, <2>7 DEF ExitInv, FreedUnused
<1>5. QED
  BY <1>3, <1>4

\* A thread that leaves is the one the spin of thread_pool_destroy waits for.
LEMMA LeaveExits ==
  ASSUME PoolTypeOK, ExitInv, NEW w \in Thread, thread_pool_exit_handler(w)
  PROVE  ExitInv'
<1> USE DEF thread_pool_exit_handler
<1>1. w \in Leaving /\ w \notin Gone /\ destroy # "freed"
  BY DEF Leaving, Gone, ExitInv, FreedUnused
<1>2. Gone' = Gone \cup {w} /\ Leaving' = Leaving \ {w}
  BY DEF Gone, Leaving, PoolTypeOK
<1>3. Cardinality(Gone') = Cardinality(Gone) + 1 /\ Cardinality(Gone) \in Nat
  BY <1>1, <1>2, Joins, InFinite DEF Gone
<1>4. destroy # "open" /\ (destroy = "closing" => lock = 1)
  BY <1>1 DEF ExitInv, NoExit, PoolTypeOK
<1>5. CASE destroy = "closing"
  <2>1. queue = <<>> /\ Leaving = {w} /\ exits = Cardinality(Gone) + 1
    BY <1>1, <1>4, <1>5 DEF ExitInv, OneExit
  <2>2. NoExit' /\ queue' = <<>> /\ exits' = Cardinality(Gone') + lock'
    BY <1>2, <1>3, <2>1 DEF NoExit
  <2>3. QED
    BY <1>5, <2>2 DEF ExitInv, FreedUnused
<1>6. CASE destroy = "kept"
  BY <1>6 DEF ExitInv, FreedUnused
<1>7. QED
  BY <1>1, <1>4, <1>5, <1>6 DEF PoolTypeOK

\* A turn of the loop of thread_pool_destroy posts the one exit task there is,
\* or gives up.
LEMMA LoopExits ==
  ASSUME PoolTypeOK, ExitInv, destroyLoop
  PROVE  ExitInv'
<1>1. CASE Full
  BY <1>1 DEF destroyLoop, ExitInv, FreedUnused
<1>2. CASE ~Full
  <2>1. Posted(Exit) /\ destroy' = "closing" /\ lock' = 1 /\ exits' = exits + 1
    BY <1>2 DEF destroyLoop, thread_task_post
  <2>2. Gone' = Gone /\ Leaving' = Leaving
    BY <2>1, SignalExits DEF Posted
  <2>3. NoExit /\ exits = Cardinality(Gone) /\ Cardinality(Gone) \in Nat
    BY InFinite DEF destroyLoop, ExitInv, Gone
  <2>4. queue' = Append(queue, Exit)
    BY <2>1 DEF Posted
  <2>5. OneExit'
    BY <2>2, <2>3, <2>4 DEF OneExit, NoExit, PoolTypeOK
  <2>6. QED
    BY <2>1, <2>2, <2>3, <2>5 DEF ExitInv, FreedUnused
<1>3. QED
  BY <1>1, <1>2

\* When the loop has ended, as many threads are gone as there are.
LEMMA EndExits ==
  ASSUME PoolTypeOK, ExitInv, destroyEnd
  PROVE  ExitInv'
<1> USE DEF destroyEnd
<1>1. exits = Cardinality(Thread) /\ Cardinality(Gone) = Cardinality(Thread)
  BY InFinite DEF ExitInv, Gone
<1>2. Gone = Thread
  BY <1>1, LegacyPoolAssumption, FS_Subset DEF Gone
<1>3. 0 < exits
  BY <1>1, InFinite, LegacyPoolAssumption, FS_EmptySet
<1>4. queue = <<>>
  BY <1>3 DEF ExitInv
<1>5. QED
  BY <1>2, <1>4 DEF ExitInv, FreedUnused, Gone

\* Every step of the pool preserves the exits.
LEMMA ExitInductive == PoolTypeOK /\ ExitInv /\ [PoolNext]_poolvars => ExitInv'
<1> SUFFICES ASSUME PoolTypeOK, ExitInv, [PoolNext]_poolvars PROVE ExitInv'
  OBVIOUS
<1>1. ASSUME NEW w \in Thread, Spurious(w) \/ HandlerDone(w) PROVE ExitInv'
  <2>1. Gone' = Gone /\ Leaving' = Leaving
    BY <1>1 DEF Spurious, HandlerDone, Gone, Leaving, PoolTypeOK
  <2>2. QED
    BY <1>1, <2>1, SameExits DEF Spurious, HandlerDone
<1>2. CASE Close
  BY <1>2 DEF Close, ExitInv, NoExit, FreedUnused, Gone, Leaving
<1>3. CASE UNCHANGED poolvars
  BY <1>3, SameExits DEF poolvars, Gone, Leaving
<1>4. QED
  BY <1>1, <1>2, <1>3, PostExits, WorkerExits, LeaveExits, LoopExits, EndExits
  DEF PoolNext, PoolSteps, thread_pool_destroy

\* With any number of threads thread_pool_destroy frees the pool only when every
\* thread has left it and no task is in its queue.
THEOREM FreedAlwaysUnused == PoolSpec => []FreedUnused
<1>1. PoolInv => PoolTypeOK
  BY DEF PoolInv
<1>2. ExitInv => FreedUnused
  BY DEF ExitInv
<1>3. QED
  BY <1>1, <1>2, PoolInitially, PoolInductive, ExitInitially, ExitInductive, PTL DEF PoolSpec
=============================================================================
