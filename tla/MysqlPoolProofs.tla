--------------------------- MODULE MysqlPoolProofs ---------------------------
(***************************************************************************)
(* For every set of threads and every set of connections: leases exclude   *)
(* each other, no wakeup is lost, and a pool of more connections than      *)
(* threads is never waited for by all of them.                             *)
(***************************************************************************)
EXTENDS MysqlPool, FiniteSetTheorems, SequenceTheorems, TLAPS

\* The threads that notify_one is still to come from, or has reached.
Pending == {t \in Thread : pc[t] \in {"notify", "awake"}}

\* How many leases a thread may hold, by where it is.
Shape(t) ==
    /\ pc[t] = "idle" => Len(held[t]) = 0
    /\ pc[t] \in {"acquire", "asleep", "awake"} => Len(held[t]) <= 1
    /\ pc[t] \in {"acquire", "asleep", "awake"} /\ nested[t] => Len(held[t]) = 0
    /\ pc[t] = "use" => Len(held[t]) \in {1, 2}
    /\ pc[t] = "use" /\ nested[t] => Len(held[t]) = 1
    /\ pc[t] = "notify" => Len(held[t]) <= 1 /\ ~nested[t]

\* No connection is mislaid.
Conserved ==
    \A m \in Conns : m \in pool \/ \E t \in Thread : \E i \in DOMAIN held[t] : held[t][i] = m

\* While somebody sleeps, there are as many wakeups on their way as free
\* connections: one alone, as NoLostWakeup says, would be used up too early.
WakeupsSuffice ==
    (\E t \in Thread : pc[t] = "asleep") => Cardinality(pool) <= Cardinality(Pending)

\* Where every lease is.
LeaseInv ==
    /\ PoolTypeOK
    /\ \A t \in Thread : Shape(t)
    /\ LeasesExclusive
    /\ Conserved

\* The inductive invariant.
MysqlPoolInv == LeaseInv /\ WakeupsSuffice

-----------------------------------------------------------------------------
\* A lease taken is the last one of its thread; the others stay where they are.
LEMMA Appended ==
  ASSUME NEW S, NEW s \in Seq(S), NEW m \in S
  PROVE  /\ Append(s, m) \in Seq(S)
         /\ Len(Append(s, m)) = Len(s) + 1
         /\ DOMAIN Append(s, m) = 1 .. Len(s) + 1
         /\ \A i \in 1 .. Len(s) : Append(s, m)[i] = s[i]
         /\ Append(s, m)[Len(s) + 1] = m
OBVIOUS

\* A lease given back is the last one; the others stay where they are.
LEMMA Shortened ==
  ASSUME NEW S, NEW s \in Seq(S), 1 <= Len(s)
  PROVE  /\ SubSeq(s, 1, Len(s) - 1) \in Seq(S)
         /\ Len(SubSeq(s, 1, Len(s) - 1)) = Len(s) - 1
         /\ DOMAIN SubSeq(s, 1, Len(s) - 1) = 1 .. Len(s) - 1
         /\ \A i \in 1 .. Len(s) - 1 : SubSeq(s, 1, Len(s) - 1)[i] = s[i]
         /\ s[Len(s)] \in S
<1> DEFINE r == SubSeq(s, 1, Len(s) - 1)
<1>1. Len(s) \in Nat /\ \A i \in 1 .. Len(s) : s[i] \in S
  OBVIOUS
<1>2. /\ r \in Seq(S)
      /\ Len(r) = IF 1 <= Len(s) - 1 THEN Len(s) - 1 - 1 + 1 ELSE 0
      /\ \A i \in 1 .. Len(s) - 1 - 1 + 1 : r[i] = s[1 + i - 1]
  BY <1>1, SubSeqProperties
<1> HIDE DEF r
<1>3. Len(r) = Len(s) - 1
  <2>1. CASE Len(s) = 1
    BY <1>2, <2>1
  <2>2. CASE Len(s) > 1
    <3>1. 1 <= Len(s) - 1 /\ Len(s) - 1 - 1 + 1 = Len(s) - 1
      BY <1>1, <2>2
    <3>2. QED
      BY <1>2, <3>1
  <2>3. \A n \in Nat : 1 <= n => n = 1 \/ n > 1
    OBVIOUS
  <2>4. QED
    BY <1>1, <2>1, <2>2, <2>3, Zenon
<1>4. DOMAIN r = 1 .. Len(s) - 1
  BY <1>2, <1>3
<1>5. ASSUME NEW i \in 1 .. Len(s) - 1 PROVE r[i] = s[i]
  <2>1. i \in 1 .. Len(s) - 1 - 1 + 1 /\ 1 + i - 1 = i
    BY <1>1
  <2>2. QED
    BY <1>2, <2>1
<1>6. s[Len(s)] \in S
  BY <1>1
<1>7. QED
  BY <1>2, <1>3, <1>4, <1>5, <1>6 DEF r

\* The pool as its constructor leaves it.
LEMMA LeasesInitially == PoolInit => LeaseInv
<1> SUFFICES ASSUME PoolInit PROVE LeaseInv
  OBVIOUS
<1>1. PoolTypeOK
  BY DEF PoolInit, PoolTypeOK
<1>2. \A t \in Thread : Shape(t)
  BY DEF PoolInit, Shape
<1>3. LeasesExclusive /\ Conserved
  BY DEF PoolInit, LeasesExclusive, Conserved
<1>4. QED
  BY <1>1, <1>2, <1>3 DEF LeaseInv

\* A step that moves a thread and no connection keeps every lease in its place.
LEMMA PlaceKept ==
  ASSUME LeaseInv, UNCHANGED <<pool, held>>
  PROVE  LeasesExclusive' /\ Conserved'
BY DEF LeaseInv, LeasesExclusive, Conserved

\* acquire() with a free connection.
LEMMA AcquireKeeps ==
  ASSUME LeaseInv, NEW t \in Thread, Acquire(t)
  PROVE  LeaseInv'
<1>1. PICK m \in pool : /\ pool' = pool \ {m}
                        /\ held' = [held EXCEPT ![t] = Append(@, m)]
  BY Zenon DEF Acquire
<1>2. m \in Conns /\ held[t] \in Seq(Conns)
  BY <1>1 DEF LeaseInv, PoolTypeOK
<1> DEFINE s == held[t]
<1>3. /\ held'[t] = Append(s, m)
      /\ \A u \in Thread : u # t => held'[u] = held[u]
      /\ pc' = [pc EXCEPT ![t] = "use"]
      /\ pc[t] \in {"acquire", "awake"}
      /\ UNCHANGED <<nested, calls>>
  BY <1>1 DEF Acquire, LeaseInv, PoolTypeOK
<1>4. /\ Append(s, m) \in Seq(Conns)
      /\ Len(Append(s, m)) = Len(s) + 1
      /\ DOMAIN Append(s, m) = 1 .. Len(s) + 1
      /\ \A i \in 1 .. Len(s) : Append(s, m)[i] = s[i]
      /\ Append(s, m)[Len(s) + 1] = m
      /\ DOMAIN s = 1 .. Len(s) /\ Len(s) \in Nat
  BY <1>2, Appended
<1>5. PoolTypeOK'
  BY <1>1, <1>3, <1>4 DEF LeaseInv, PoolTypeOK
<1>6. \A u \in Thread : Shape(u)'
  <2>1. Shape(t)'
    <3>1. pc'[t] = "use" /\ Len(held'[t]) = Len(s) + 1
      BY <1>3, <1>4 DEF LeaseInv, PoolTypeOK
    <3>2. Len(s) <= 1 /\ (nested[t] => Len(s) = 0)
      BY <1>3 DEF LeaseInv, Shape
    <3>3. QED
      BY <1>3, <1>4, <3>1, <3>2 DEF Shape
  <2>2. ASSUME NEW u \in Thread, u # t PROVE Shape(u)'
    <3>1. pc'[u] = pc[u] /\ held'[u] = held[u] /\ nested'[u] = nested[u]
      BY <1>3, <2>2 DEF LeaseInv, PoolTypeOK
    <3>2. QED
      BY <3>1 DEF LeaseInv, Shape
  <2>3. QED
    BY <2>1, <2>2
<1>7. LeasesExclusive'
  BY <1>1, <1>3, <1>4 DEF LeaseInv, LeasesExclusive
<1>8. Conserved'
  <2> SUFFICES ASSUME NEW c \in Conns, c \notin pool'
               PROVE  \E u \in Thread : \E i \in DOMAIN held'[u] : held'[u][i] = c
    BY Zenon DEF Conserved
  <2>1. CASE c = m
    <3>1. Len(s) + 1 \in DOMAIN held'[t] /\ held'[t][Len(s) + 1] = m
      BY <1>3, <1>4
    <3>2. QED
      BY <2>1, <3>1, Zenon
  <2>2. CASE c # m
    <3>1. PICK u \in Thread : \E i \in DOMAIN held[u] : held[u][i] = c
      BY <1>1, <2>2 DEF LeaseInv, Conserved
    <3>2. PICK i \in DOMAIN held[u] : held[u][i] = c
      BY <3>1, Zenon
    <3>3. i \in DOMAIN held'[u] /\ held'[u][i] = held[u][i]
      <4>1. CASE u = t
        <5>1. i \in 1 .. Len(s) /\ i \in 1 .. Len(s) + 1
          BY <1>4, <3>2, <4>1
        <5>2. QED
          BY <1>3, <1>4, <4>1, <5>1, Zenon
      <4>2. CASE u # t
        BY <1>3, <3>2, <4>2, Zenon
      <4>3. QED
        BY <4>1, <4>2, Zenon
    <3>4. QED
      BY <3>2, <3>3, Zenon
  <2>3. QED
    BY <2>1, <2>2, Zenon
<1>9. QED
  BY <1>5, <1>6, <1>7, <1>8 DEF LeaseInv

\* The end of a lease.
LEMMA ReturnKeeps ==
  ASSUME LeaseInv, NEW t \in Thread, Return(t)
  PROVE  LeaseInv'
<1> DEFINE s == held[t]
           r == SubSeq(s, 1, Len(s) - 1)
<1>1. /\ held'[t] = r
      /\ \A u \in Thread : u # t => held'[u] = held[u]
      /\ held' = [held EXCEPT ![t] = r]
      /\ pool' = pool \cup {s[Len(s)]}
      /\ pc' = [pc EXCEPT ![t] = "notify"]
      /\ pc[t] = "use" /\ ~nested[t]
      /\ UNCHANGED <<nested, calls>>
  BY DEF Return, LeaseInv, PoolTypeOK
<1>2. s \in Seq(Conns) /\ Len(s) \in {1, 2}
  BY <1>1 DEF LeaseInv, PoolTypeOK, Shape
<1>3. /\ r \in Seq(Conns)
      /\ Len(r) = Len(s) - 1
      /\ DOMAIN r = 1 .. Len(s) - 1
      /\ \A i \in 1 .. Len(s) - 1 : r[i] = s[i]
      /\ s[Len(s)] \in Conns
      /\ DOMAIN s = 1 .. Len(s)
  <2>1. 1 <= Len(s)
    <3>1. 1 <= 1 /\ 1 <= 2
      OBVIOUS
    <3>2. QED
      BY <1>2, <3>1, Zenon
  <2>2. DOMAIN s = 1 .. Len(s)
    BY <1>2
  <2>3. QED
    BY <1>2, <2>1, <2>2, Shortened, Zenon
<1>4. PoolTypeOK'
  BY <1>1, <1>3 DEF LeaseInv, PoolTypeOK
<1>5. \A u \in Thread : Shape(u)'
  BY <1>1, <1>2, <1>3 DEF LeaseInv, PoolTypeOK, Shape
<1>6. LeasesExclusive'
  BY <1>1, <1>2, <1>3 DEF LeaseInv, LeasesExclusive
<1>7. Conserved'
  <2> SUFFICES ASSUME NEW m \in Conns, m \notin pool'
               PROVE  \E u \in Thread : \E i \in DOMAIN held'[u] : held'[u][i] = m
    BY DEF Conserved
  <2>0. PICK u \in Thread : \E i \in DOMAIN held[u] : held[u][i] = m
    BY <1>1 DEF LeaseInv, Conserved
  <2>1. PICK i \in DOMAIN held[u] : held[u][i] = m
    BY <2>0
  <2>2. CASE u # t
    BY <1>1, <2>1, <2>2
  <2>3. CASE u = t
    <3>1. i \in 1 .. Len(s) /\ i # Len(s)
      BY <1>1, <1>3, <2>1, <2>3
    <3>2. i \in 1 .. Len(s) - 1
      BY <1>2, <3>1
    <3>3. QED
      BY <1>1, <1>3, <2>1, <2>3, <3>2
  <2>4. QED
    BY <2>2, <2>3
<1>8. QED
  BY <1>4, <1>5, <1>6, <1>7 DEF LeaseInv

\* The steps that move a thread and no connection.
Moves(t) == Call(t) \/ Sleep(t) \/ WakeSpuriously(t) \/ AcquireAgain(t) \/ NotifyOne(t)

\* They keep the leases, and what each thread holds fits where it has moved to.
LEMMA MovesKeep ==
  ASSUME LeaseInv, NEW t \in Thread, Moves(t)
  PROVE  LeaseInv'
<1>1. UNCHANGED <<pool, held>>
  BY DEF Moves, Call, Sleep, WakeSpuriously, AcquireAgain, NotifyOne
<1>2. LeasesExclusive' /\ Conserved'
  BY <1>1, PlaceKept
<1>3. ASSUME NEW u \in Thread PROVE Len(held[u]) \in Nat /\ (held[u] = << >> <=> Len(held[u]) = 0)
  BY DEF LeaseInv, PoolTypeOK
<1>4. CASE Call(t)
  <2>1. PoolTypeOK'
    BY <1>4 DEF Call, LeaseInv, PoolTypeOK
  <2>2. \A u \in Thread : Shape(u)'
    BY <1>3, <1>4 DEF Call, LeaseInv, PoolTypeOK, Shape
  <2>3. QED
    BY <1>2, <2>1, <2>2 DEF LeaseInv
<1>5. CASE Sleep(t)
  <2>1. PoolTypeOK'
    BY <1>5 DEF Sleep, LeaseInv, PoolTypeOK
  <2>2. \A u \in Thread : Shape(u)'
    BY <1>3, <1>5 DEF Sleep, LeaseInv, PoolTypeOK, Shape
  <2>3. QED
    BY <1>2, <2>1, <2>2 DEF LeaseInv
<1>6. CASE WakeSpuriously(t)
  <2>1. PoolTypeOK'
    BY <1>6 DEF WakeSpuriously, LeaseInv, PoolTypeOK
  <2>2. \A u \in Thread : Shape(u)'
    BY <1>3, <1>6 DEF WakeSpuriously, LeaseInv, PoolTypeOK, Shape
  <2>3. QED
    BY <1>2, <2>1, <2>2 DEF LeaseInv
<1>7. CASE AcquireAgain(t)
  <2>1. PoolTypeOK'
    BY <1>7 DEF AcquireAgain, LeaseInv, PoolTypeOK
  <2>2. \A u \in Thread : Shape(u)'
    <3>1. /\ pc' = [pc EXCEPT ![t] = "acquire"] /\ nested' = [nested EXCEPT ![t] = FALSE]
          /\ pc[t] = "use" /\ nested[t]
      BY <1>7 DEF AcquireAgain
    <3>2. Shape(t)'
      <4>1. Len(held[t]) = 1
        BY <3>1 DEF LeaseInv, Shape
      <4>2. pc'[t] = "acquire" /\ ~nested'[t] /\ held'[t] = held[t]
        BY <1>1, <3>1 DEF LeaseInv, PoolTypeOK
      <4>3. Len(held'[t]) = 1 /\ Len(held'[t]) <= 1
        <5>1. 1 <= 1
          OBVIOUS
        <5>2. QED
          BY <4>1, <4>2, <5>1, Zenon
      <4>4. QED
        BY <4>2, <4>3, Zenon DEF Shape
    <3>3. ASSUME NEW u \in Thread, u # t PROVE Shape(u)'
      <4>1. pc'[u] = pc[u] /\ nested'[u] = nested[u] /\ held'[u] = held[u]
        BY <1>1, <3>1, <3>3 DEF LeaseInv, PoolTypeOK
      <4>2. QED
        BY <4>1 DEF LeaseInv, Shape
    <3>4. QED
      BY <3>2, <3>3
  <2>3. QED
    BY <1>2, <2>1, <2>2 DEF LeaseInv
<1>8. CASE NotifyOne(t)
  <2>1. PoolTypeOK'
    BY <1>8, Zenon DEF NotifyOne, AfterReturn, LeaseInv, PoolTypeOK
  <2>2. \A u \in Thread : Shape(u)'
    <3>1. pc[t] = "notify" /\ nested' = nested
      BY <1>8 DEF NotifyOne
    <3>2. Shape(t)'
      <4>1. Len(held[t]) <= 1 /\ ~nested[t]
        BY <3>1 DEF LeaseInv, Shape
      <4>2. pc'[t] = AfterReturn(t)
        BY <1>8 DEF NotifyOne, LeaseInv, PoolTypeOK
      <4>3. CASE Len(held[t]) = 0
        BY <1>1, <1>3, <3>1, <4>1, <4>2, <4>3 DEF AfterReturn, Shape
      <4>4. CASE Len(held[t]) = 1
        BY <1>1, <1>3, <3>1, <4>1, <4>2, <4>4 DEF AfterReturn, Shape
      <4>5. \A n \in Nat : n <= 1 => n = 0 \/ n = 1
        OBVIOUS
      <4>6. QED
        BY <1>3, <4>1, <4>3, <4>4, <4>5, Zenon
    <3>3. ASSUME NEW u \in Thread, u # t PROVE Shape(u)'
      <4>1. pc'[u] = pc[u] \/ (pc[u] = "asleep" /\ pc'[u] = "awake")
        BY <1>8, <3>3 DEF NotifyOne, LeaseInv, PoolTypeOK
      <4>2. nested'[u] = nested[u] /\ held'[u] = held[u]
        BY <1>1, <3>1
      <4>3. QED
        BY <4>1, <4>2 DEF LeaseInv, Shape
    <3>4. QED
      BY <3>2, <3>3
  <2>3. QED
    BY <1>2, <2>1, <2>2 DEF LeaseInv
<1>9. QED
  BY <1>4, <1>5, <1>6, <1>7, <1>8 DEF Moves

\* Every step keeps the leases.
LEMMA LeasesKept ==
  ASSUME LeaseInv, [PoolNext]_poolVars
  PROVE  LeaseInv'
<1>1. CASE UNCHANGED poolVars
  BY <1>1 DEF poolVars, LeaseInv, PoolTypeOK, Shape, LeasesExclusive, Conserved
<1>2. ASSUME NEW t \in Thread, Call(t) \/ WakeSpuriously(t) \/ Step(t) PROVE LeaseInv'
  BY <1>2, AcquireKeeps, ReturnKeeps, MovesKeep DEF Step, Moves
<1>3. QED
  BY <1>1, <1>2 DEF PoolNext

-----------------------------------------------------------------------------
\* The free connections and the pending wakeups can be counted.
LEMMA Countable ==
  ASSUME PoolTypeOK
  PROVE  /\ IsFiniteSet(pool) /\ Cardinality(pool) \in Nat
         /\ IsFiniteSet(Pending) /\ Cardinality(Pending) \in Nat
<1>1. pool \in SUBSET Conns /\ Pending \in SUBSET Thread
  BY DEF PoolTypeOK, Pending
<1>2. IsFiniteSet(pool) /\ IsFiniteSet(Pending)
  BY <1>1, ConnsAssumption, FS_Subset
<1>3. QED
  BY <1>2, FS_CardinalityType

\* Taking a connection takes at most one wakeup.
LEMMA AcquireWakes ==
  ASSUME PoolTypeOK, WakeupsSuffice, NEW t \in Thread, Acquire(t)
  PROVE  WakeupsSuffice'
<1>1. PICK m \in pool : pool' = pool \ {m}
  BY DEF Acquire
<1>2. pc' = [pc EXCEPT ![t] = "use"]
  BY DEF Acquire
<1>3. Pending' = Pending \ {t}
  BY <1>2 DEF Pending, PoolTypeOK
<1>4. Cardinality(pool') = Cardinality(pool) - 1
  BY <1>1, Countable, FS_RemoveElement, Zenon
<1>5. Cardinality(Pending') \in {Cardinality(Pending), Cardinality(Pending) - 1}
  BY <1>3, Countable, FS_RemoveElement, Zenon
<1>6. (\E u \in Thread : pc'[u] = "asleep") => \E u \in Thread : pc[u] = "asleep"
  BY <1>2 DEF PoolTypeOK
<1>7. QED
  BY <1>4, <1>5, <1>6, Countable DEF WakeupsSuffice

\* A thread that gives a connection back is about to notify.
LEMMA ReturnWakes ==
  ASSUME PoolTypeOK, WakeupsSuffice, NEW t \in Thread, Return(t)
  PROVE  WakeupsSuffice'
<1> DEFINE m == held[t][Len(held[t])]
<1>1. /\ pool' = pool \cup {m}
      /\ pc' = [pc EXCEPT ![t] = "notify"]
      /\ pc[t] = "use"
  BY DEF Return
<1>2. Pending' = Pending \cup {t} /\ t \notin Pending
  BY <1>1 DEF Pending, PoolTypeOK
<1> HIDE DEF m
<1>3. Cardinality(pool') \in {Cardinality(pool), Cardinality(pool) + 1}
  BY <1>1, Countable, FS_AddElement, Zenon
<1>4. Cardinality(Pending') = Cardinality(Pending) + 1
  BY <1>2, Countable, FS_AddElement, Zenon
<1>5. (\E u \in Thread : pc'[u] = "asleep") => \E u \in Thread : pc[u] = "asleep"
  BY <1>1 DEF PoolTypeOK
<1>6. QED
  BY <1>3, <1>4, <1>5, Countable DEF WakeupsSuffice

\* notify_one passes the wakeup on, or there is nobody to wake.
LEMMA NotifyWakes ==
  ASSUME PoolTypeOK, WakeupsSuffice, NEW t \in Thread, NotifyOne(t)
  PROVE  WakeupsSuffice'
<1>1. pc[t] = "notify" /\ pool' = pool /\ AfterReturn(t) \in {"idle", "use"}
  BY DEF NotifyOne, AfterReturn
<1>2. ASSUME NEW u \in Thread, pc[u] = "asleep",
             pc' = [pc EXCEPT ![u] = "awake", ![t] = AfterReturn(t)]
      PROVE  WakeupsSuffice'
  <2>1. Pending' = (Pending \ {t}) \cup {u} /\ t \in Pending /\ u \notin Pending \ {t}
    BY <1>1, <1>2 DEF Pending, PoolTypeOK
  <2>2. /\ IsFiniteSet(Pending \ {t})
        /\ Cardinality(Pending \ {t}) = Cardinality(Pending) - 1
    BY <2>1, Countable, FS_RemoveElement
  <2>3. Cardinality(Pending') = Cardinality(Pending) - 1 + 1
    BY <2>1, <2>2, FS_AddElement
  <2>4. QED
    BY <1>1, <1>2, <2>3, Countable DEF WakeupsSuffice
<1>3. ASSUME \A u \in Thread : pc[u] # "asleep", pc' = [pc EXCEPT ![t] = AfterReturn(t)]
      PROVE  WakeupsSuffice'
  BY <1>1, <1>3 DEF WakeupsSuffice, PoolTypeOK
<1>4. QED
  BY <1>2, <1>3 DEF NotifyOne

\* The other steps take neither connections nor wakeups while anybody sleeps.
LEMMA RestWakes ==
  ASSUME PoolTypeOK, WakeupsSuffice, NEW t \in Thread,
         Call(t) \/ Sleep(t) \/ WakeSpuriously(t) \/ AcquireAgain(t)
  PROVE  WakeupsSuffice'
<1>1. CASE Call(t) \/ AcquireAgain(t)
  <2>1. pool' = pool /\ pc[t] \in {"idle", "use"} /\ pc' = [pc EXCEPT ![t] = "acquire"]
    BY <1>1 DEF Call, AcquireAgain
  <2>2. Pending' = Pending
    BY <2>1 DEF Pending, PoolTypeOK
  <2>3. QED
    BY <2>1, <2>2 DEF WakeupsSuffice, PoolTypeOK
<1>2. CASE Sleep(t)
  <2>1. pool' = {} /\ pc' = [pc EXCEPT ![t] = "asleep"]
    BY <1>2 DEF Sleep
  <2>2. Pending' \in SUBSET Thread
    BY DEF Pending
  <2>3. Cardinality(Pending') \in Nat /\ Cardinality(pool') = 0
    BY <2>1, <2>2, ConnsAssumption, FS_Subset, FS_CardinalityType, FS_EmptySet
  <2>4. QED
    BY <2>3 DEF WakeupsSuffice
<1>3. CASE WakeSpuriously(t)
  <2>1. pool' = pool /\ pc[t] = "asleep" /\ pc' = [pc EXCEPT ![t] = "awake"]
    BY <1>3 DEF WakeSpuriously
  <2>2. Pending' = Pending \cup {t} /\ t \notin Pending
    BY <2>1 DEF Pending, PoolTypeOK
  <2>3. Cardinality(Pending') = Cardinality(Pending) + 1
    BY <2>2, Countable, FS_AddElement, Zenon
  <2>4. QED
    BY <2>1, <2>3, Countable DEF WakeupsSuffice
<1>4. QED
  BY <1>1, <1>2, <1>3

-----------------------------------------------------------------------------
\* The inductive invariant holds in every state of the pool.
LEMMA PoolCorrect == PoolSpec => []MysqlPoolInv
<1>1. PoolInit => MysqlPoolInv
  <2> SUFFICES ASSUME PoolInit PROVE MysqlPoolInv
    OBVIOUS
  <2>1. WakeupsSuffice
    BY DEF PoolInit, WakeupsSuffice
  <2>2. QED
    BY <2>1, LeasesInitially DEF MysqlPoolInv
<1>2. MysqlPoolInv /\ [PoolNext]_poolVars => MysqlPoolInv'
  <2> SUFFICES ASSUME MysqlPoolInv, [PoolNext]_poolVars PROVE MysqlPoolInv'
    OBVIOUS
  <2>1. LeaseInv /\ PoolTypeOK /\ WakeupsSuffice
    BY DEF MysqlPoolInv, LeaseInv
  <2>2. LeaseInv'
    BY <2>1, LeasesKept
  <2>3. ASSUME UNCHANGED poolVars PROVE WakeupsSuffice'
    <3>1. Pending' = Pending /\ pool' = pool /\ pc' = pc
      BY <2>3 DEF poolVars, Pending
    <3>2. QED
      BY <2>1, <3>1 DEF WakeupsSuffice
  <2>4. ASSUME NEW t \in Thread, Call(t) \/ WakeSpuriously(t) \/ Step(t)
        PROVE  WakeupsSuffice'
    BY <2>1, <2>4, AcquireWakes, ReturnWakes, NotifyWakes, RestWakes DEF Step
  <2>5. WakeupsSuffice'
    BY <2>3, <2>4 DEF PoolNext
  <2>6. QED
    BY <2>2, <2>5 DEF MysqlPoolInv
<1>3. QED
  BY <1>1, <1>2, PTL DEF PoolSpec

(* No connection is ever in two leases, or in a lease and in the pool:     *)
(* acquire and return_ of mysql_pool.cpp, for any number of threads and    *)
(* connections and with leases nested in leases.                           *)
THEOREM LeasesAlwaysExclusive == PoolSpec => []LeasesExclusive
<1>1. MysqlPoolInv => LeasesExclusive
  BY DEF MysqlPoolInv, LeaseInv
<1>2. QED
  BY <1>1, PoolCorrect, PTL

\* A free connection and a sleeper make a pending wakeup.
LEMMA FreeMeansPending == MysqlPoolInv => NoLostWakeup
<1> SUFFICES ASSUME MysqlPoolInv, pool # {}, \E t \in Thread : pc[t] = "asleep"
             PROVE  \E u \in Thread : pc[u] \in {"notify", "awake"}
  BY DEF NoLostWakeup
<1>1. PoolTypeOK /\ Cardinality(pool) <= Cardinality(Pending)
  BY DEF MysqlPoolInv, LeaseInv, WakeupsSuffice
<1>2. Cardinality(pool) # 0
  BY <1>1, Countable, FS_EmptySet
<1>3. Cardinality(Pending) # 0
  BY <1>1, <1>2, Countable
<1>4. Pending # {}
  BY <1>3, FS_EmptySet
<1>5. QED
  BY <1>4 DEF Pending

(* return_ notifies one thread, after it has left the mutex, and that is   *)
(* enough: while a connection is free, no thread sleeps with no            *)
(* notification on its way.                                                *)
THEOREM WakeupsNeverLost == PoolSpec => []NoLostWakeup
BY FreeMeansPending, PoolCorrect, PTL

\* No connection is mislaid: free or leased, they are those the constructor opened.
LEMMA OpenedStay == MysqlPoolInv => Opened = Conns
BY DEF MysqlPoolInv, LeaseInv, PoolTypeOK, Conserved, Opened

\* In a wedged pool each thread holds one connection at most, and all the
\* connections are held.
LEMMA WedgedNeedsFew ==
  ASSUME MysqlPoolInv, Wedged
  PROVE  Cardinality(Conns) <= Cardinality(Thread)
<1>1. ASSUME NEW m \in Conns PROVE \E t \in Thread : held[t][1] = m
  <2>1. PICK t \in Thread : \E i \in DOMAIN held[t] : held[t][i] = m
    BY DEF MysqlPoolInv, LeaseInv, Conserved, Wedged
  <2>2. PICK i \in DOMAIN held[t] : held[t][i] = m
    BY <2>1
  <2>3. held[t] # << >>
    BY <2>2
  <2>4. pc[t] \in {"acquire", "asleep", "awake"}
    BY <2>3 DEF Wedged
  <2>5. held[t] \in Seq(Conns) /\ Len(held[t]) <= 1
    BY <2>4 DEF MysqlPoolInv, LeaseInv, PoolTypeOK, Shape
  <2>6. i = 1
    BY <2>2, <2>5
  <2>7. QED
    BY <2>2, <2>6
<1> DEFINE f == [m \in Conns |-> CHOOSE t \in Thread : held[t][1] = m]
<1>2. \A m \in Conns : f[m] \in Thread /\ held[f[m]][1] = m
  BY <1>1
<1>3. f \in Injection(Conns, Thread)
  BY <1>2 DEF Injection, IsInjective
<1>4. QED
  BY <1>3, ConnsAssumption, FS_Injection

\* The size that keeps a pool from being wedged.
LEMMA LargeEnough == MysqlPoolInv => LargePoolFree
<1> SUFFICES ASSUME MysqlPoolInv, Cardinality(Opened) > Cardinality(Thread), Wedged
             PROVE  FALSE
  BY DEF LargePoolFree
<1>1. Cardinality(Conns) <= Cardinality(Thread) /\ Opened = Conns
  BY WedgedNeedsFew, OpenedStay
<1>2. Cardinality(Conns) \in Nat /\ Cardinality(Thread) \in Nat
  BY ConnsAssumption, FS_CardinalityType
<1>3. QED
  BY <1>1, <1>2

(* A pool with more connections than threads is never wedged, although     *)
(* add_balance and find_or_create wait for a second lease with the first   *)
(* in hand: the half of EveryCallReturns that says when calls return.      *)
THEOREM LargePoolNeverWedged == PoolSpec => []LargePoolFree
BY LargeEnough, PoolCorrect, PTL

(* A pool with more connections than threads never has them all waiting in *)
(* acquire: all asleep and nothing free, they would have wedged it.        *)
THEOREM EnoughConnections == PoolSpec => []NotEverybodyWaits
<1>1. MysqlPoolInv => NotEverybodyWaits
  <2> SUFFICES ASSUME MysqlPoolInv, Thread # {}, Cardinality(Opened) > Cardinality(Thread),
                      \A t \in Thread : pc[t] = "asleep"
               PROVE  FALSE
    BY DEF NotEverybodyWaits
  <2>1. ~ \E t \in Thread : pc[t] \in {"notify", "awake"}
    OBVIOUS
  <2>2. pool = {}
    BY <2>1, FreeMeansPending DEF NoLostWakeup
  <2>3. Wedged
    BY <2>2 DEF Wedged
  <2>4. QED
    BY <2>3, LargeEnough DEF LargePoolFree
<1>2. QED
  BY <1>1, PoolCorrect, PTL
=============================================================================
