----------------------------- MODULE LegacyPool -----------------------------
(***************************************************************************)
(* The thread pool of the first server (legacy/thread_pool.cpp).  A thread  *)
(* takes one from `waiting' when it comes for work and a posted task adds   *)
(* one, so the counter the limit is tested against is the queue's length    *)
(* less the threads that are waiting for a task.                            *)
(*                                                                         *)
(* Every action is what a thread does in one hold of the mutex, or the end  *)
(* of a handler outside it.                                                 *)
(***************************************************************************)
EXTENDS Integers, FiniteSets, Sequences

CONSTANTS
  Thread,     \* the threads of the pool
  Task,       \* what is posted
  Exit,       \* the task thread_pool_destroy posts
  max_queue

ASSUME LegacyPoolAssumption ==
  IsFiniteSet(Thread) /\ Thread # {} /\ max_queue \in Nat /\ Exit \notin Task

VARIABLES
  queue,      \* tasks posted and not taken
  waiting,    \* the counter
  thr,        \* "start": before the lock; "asleep" in thread_cond_wait, "woken"
              \* from it; "run": in a handler; "gone"
  task,       \* what a running thread runs
  destroy,    \* "open", "closing", then "freed" or "kept" (a post was refused)
  exits,      \* turns of the loop of thread_pool_destroy begun
  lock        \* its spin variable

poolvars == <<queue, waiting, thr, task, destroy, exits, lock>>

Asleep == {w \in Thread : thr[w] = "asleep"}
Woken == {w \in Thread : thr[w] = "woken"}
Waiters == {w \in Thread : thr[w] \in {"asleep", "woken"}}

thread_pool_init ==
  /\ queue = <<>> /\ waiting = 0 /\ thr = [w \in Thread |-> "start"]
  /\ task = [w \in Thread |-> Exit] /\ destroy = "open" /\ exits = 0 /\ lock = 0

thread_cond_signalLost == UNCHANGED thr

\* A signal wakes one of the threads asleep, if there is one.
thread_cond_signal ==
  IF Asleep = {} THEN UNCHANGED thr
  ELSE \E w \in Asleep : thr' = [thr EXCEPT ![w] = "woken"]

Full == waiting >= max_queue

\* Appends the task and returns T_OK.
Posted(t) ==
  /\ ~Full /\ thread_cond_signal
  /\ queue' = Append(queue, t) /\ waiting' = waiting + 1 /\ UNCHANGED task

\* A full queue: T_ERROR, and nothing changes.
thread_task_post(t) == Posted(t) \/ (Full /\ UNCHANGED <<queue, waiting, thr, task>>)

take(w) ==
  IF queue = <<>> THEN thr' = [thr EXCEPT ![w] = "asleep"] /\ UNCHANGED <<queue, task>>
  ELSE /\ thr' = [thr EXCEPT ![w] = "run"] /\ task' = [task EXCEPT ![w] = Head(queue)]
       /\ queue' = Tail(queue)

\* The loop of a thread from the lock to the task, or to thread_cond_wait.
thread_pool_cycle(w) ==
  /\ thr[w] = "start" /\ waiting' = waiting - 1 /\ take(w)
  /\ UNCHANGED <<destroy, exits, lock>>

\* Back from thread_cond_wait: the loop tests the queue again.
waitAgain(w) == thr[w] = "woken" /\ take(w) /\ UNCHANGED <<waiting, destroy, exits, lock>>

\* thread_cond_wait may return without a signal.
Spurious(w) ==
  /\ thr[w] = "asleep" /\ thr' = [thr EXCEPT ![w] = "woken"]
  /\ UNCHANGED <<queue, waiting, task, destroy, exits, lock>>

\* The handler returned; the task is freed.
HandlerDone(w) ==
  /\ thr[w] = "run" /\ task[w] # Exit /\ thr' = [thr EXCEPT ![w] = "start"]
  /\ UNCHANGED <<queue, waiting, task, destroy, exits, lock>>

thread_pool_exit_handler(w) ==
  /\ thr[w] = "run" /\ task[w] = Exit /\ thr' = [thr EXCEPT ![w] = "gone"] /\ lock' = 0
  /\ UNCHANGED <<queue, waiting, task, destroy, exits>>

Close == destroy = "open" /\ destroy' = "closing" /\ UNCHANGED <<queue, waiting, thr, task, exits, lock>>

destroyLoopEager ==
  /\ destroy = "closing" /\ exits < Cardinality(Thread) /\ thread_task_post(Exit)
  /\ exits' = exits + 1 /\ lock' = 1 /\ destroy' = IF Full THEN "kept" ELSE destroy

\* One turn of the loop, once the spin of the last one ended.
destroyLoop ==
  /\ destroy = "closing" /\ lock = 0 /\ exits < Cardinality(Thread) /\ thread_task_post(Exit)
  /\ exits' = exits + 1 /\ lock' = 1 /\ destroy' = IF Full THEN "kept" ELSE destroy

destroyEnd ==
  /\ destroy = "closing" /\ lock = 0 /\ exits = Cardinality(Thread) /\ destroy' = "freed"
  /\ UNCHANGED <<queue, waiting, thr, task, exits, lock>>

thread_pool_destroy == Close \/ destroyLoop \/ destroyEnd

\* A caller posts from the thread that will destroy the pool, before it does.
Post(t) == destroy = "open" /\ thread_task_post(t) /\ UNCHANGED <<destroy, exits, lock>>

Worker(w) == thread_pool_cycle(w) \/ waitAgain(w)

PoolSteps ==
  \/ \E w \in Thread : Worker(w) \/ Spurious(w) \/ HandlerDone(w) \/ thread_pool_exit_handler(w)
  \/ thread_pool_destroy

PoolNext == (\E t \in Task : Post(t)) \/ PoolSteps

PoolSpec == thread_pool_init /\ [][PoolNext]_poolvars

PoolTypeOK ==
  /\ queue \in Seq(Task \cup {Exit}) /\ waiting \in Int
  /\ thr \in [Thread -> {"start", "asleep", "woken", "run", "gone"}]
  /\ task \in [Thread -> Task \cup {Exit}]
  /\ destroy \in {"open", "closing", "freed", "kept"} /\ exits \in Nat /\ lock \in {0, 1}

-----------------------------------------------------------------------------

\* The counter thread_task_post tests is the number of tasks no thread is
\* waiting for: it is below zero while threads idle, and max_queue bounds the
\* queue only once every thread is busy.
WaitingExact == waiting = Len(queue) - Cardinality(Waiters)

\* The queue never holds more than max_queue tasks beyond one for each thread
\* that waits for work.
QueueBounded == Len(queue) <= max_queue + Cardinality(Waiters)

\* While a thread sleeps, every queued task has a woken thread coming for it,
\* although the signal is given before the task is in the queue and a thread
\* that never slept may take the task first.
NoTaskForgotten == Asleep # {} => Len(queue) <= Cardinality(Woken)

\* The pool's queue: its counter never drifts, its limit holds, and no task is
\* left in it while threads sleep.
QueueAccounted == WaitingExact /\ QueueBounded /\ NoTaskForgotten

\* The pool's memory is freed only when no thread can touch it again.
FreedUnused == destroy = "freed" => (\A w \in Thread : thr[w] = "gone") /\ queue = <<>>
=============================================================================
