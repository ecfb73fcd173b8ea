------------------------- MODULE RideServiceProofs --------------------------
(***************************************************************************)
(* For every set of users, bikes and requests and any number of refused    *)
(* statements and restarts, the account records explain the balance, and a *)
(* ride that was settled is not charged again to a later end_ride.         *)
(*                                                                         *)
(* The ledger needs nothing of what the amounts are: a transaction writes  *)
(* the balance and the record that explains it together or not at all.     *)
(***************************************************************************)
EXTENDS RideService, TLAPS

\* balance and records are tables with a row for each user.
Tabulated ==
    /\ balance = [u \in User |-> balance[u]]
    /\ records = [u \in User |-> records[u]]
    /\ \A u \in User : \E S : records[u] \in Seq(S)

\* What RecordsExplainBalance says of one user.
Explained(rec, bal) ==
    rec # <<>> =>
        /\ rec[Len(rec)].balance_after = bal
        /\ \A i \in 1 .. Len(rec) - 1 :
              rec[i+1].balance_after = rec[i].balance_after + rec[i+1].amount

\* The inductive invariant of the ledger.
LedgerInv == Tabulated /\ \A u \in User : Explained(records[u], balance[u])

\* A record appended with the balance it leads to explains the new balance.
LEMMA RecordAppended ==
  ASSUME NEW S, NEW rec \in Seq(S), NEW bal, NEW amount, Explained(rec, bal)
  PROVE  LET e == [amount |-> amount, balance_after |-> bal + amount]
         IN  /\ Append(rec, e) \in Seq(S \cup {e})
             /\ Explained(Append(rec, e), bal + amount)
<1> DEFINE e == [amount |-> amount, balance_after |-> bal + amount]
           new == Append(rec, e)
<1>1. e.amount = amount /\ e.balance_after = bal + amount
  OBVIOUS
<1> HIDE DEF e
<1>2. rec \in Seq(S \cup {e}) /\ Len(rec) \in Nat
  OBVIOUS
<1>3. /\ new \in Seq(S \cup {e})
      /\ Len(new) = Len(rec) + 1
      /\ \A i \in 1 .. Len(rec) : new[i] = rec[i]
      /\ new[Len(rec) + 1] = e
  BY <1>2
<1>4. rec = <<>> <=> Len(rec) = 0
  OBVIOUS
<1> HIDE DEF new
<1>5. new[Len(new)].balance_after = bal + amount
  BY <1>1, <1>3
<1>6. ASSUME NEW i \in 1 .. Len(new) - 1
      PROVE  new[i+1].balance_after = new[i].balance_after + new[i+1].amount
  <2>1. CASE i = Len(rec)
    <3>1. rec # <<>> /\ i \in 1 .. Len(rec)
      BY <1>2, <1>3, <1>4, <2>1
    <3>2. rec[Len(rec)].balance_after = bal
      BY <3>1 DEF Explained
    <3>3. new[i+1] = e /\ new[i] = rec[Len(rec)]
      BY <1>3, <2>1, <3>1
    <3>4. QED
      BY <1>1, <3>2, <3>3, Zenon
  <2>2. CASE i # Len(rec)
    <3>1. i \in 1 .. Len(rec) - 1 /\ i \in 1 .. Len(rec) /\ i + 1 \in 1 .. Len(rec)
      BY <1>2, <1>3, <2>2
    <3>2. rec # <<>>
      BY <1>2, <1>4, <3>1
    <3>3. rec[i+1].balance_after = rec[i].balance_after + rec[i+1].amount
      BY <3>1, <3>2 DEF Explained
    <3>4. new[i+1] = rec[i+1] /\ new[i] = rec[i]
      BY <1>3, <3>1
    <3>5. QED
      BY <3>3, <3>4, Zenon
  <2>3. QED
    BY <2>1, <2>2
<1>7. Explained(new, bal + amount)
  BY <1>5, <1>6, Zenon DEF Explained
<1>8. QED
  BY <1>3, <1>7 DEF e, new

\* add_balance keeps the ledger: for its user by RecordAppended, for the others
\* because it touches no row of theirs.
LEMMA AddBalanceKeeps ==
  ASSUME LedgerInv, NEW v, NEW amount, add_balance(v, amount)
  PROVE  LedgerInv'
<1> DEFINE e == [amount |-> amount, balance_after |-> balance[v] + amount]
<1>1. CASE UNCHANGED <<balance, records>>
  BY <1>1 DEF LedgerInv, Tabulated
<1>2. CASE /\ balance' = [balance EXCEPT ![v] = @ + amount]
           /\ records' = [records EXCEPT ![v] = Append(@, e)]
  <2> HIDE DEF e
  <2>1. ASSUME NEW u \in User, u # v
        PROVE  balance'[u] = balance[u] /\ records'[u] = records[u]
    BY <1>2, <2>1, Zenon DEF LedgerInv, Tabulated
  <2>2. v \in User => balance'[v] = balance[v] + amount /\ records'[v] = Append(records[v], e)
    BY <1>2 DEF LedgerInv, Tabulated
  <2>3. /\ balance' = [u \in User |-> balance'[u]]
        /\ records' = [u \in User |-> records'[u]]
    BY <1>2, Zenon DEF LedgerInv, Tabulated
  <2>4. ASSUME NEW u \in User
        PROVE  (\E S : records'[u] \in Seq(S)) /\ Explained(records'[u], balance'[u])
    <3>1. PICK S : records[u] \in Seq(S)
      BY DEF LedgerInv, Tabulated
    <3>2. Explained(records[u], balance[u])
      BY DEF LedgerInv
    <3>3. CASE u # v
      BY <2>1, <3>1, <3>2, <3>3
    <3>4. CASE u = v
      <4>1. /\ Append(records[u], e) \in Seq(S \cup {e})
            /\ Explained(Append(records[u], e), balance[u] + amount)
        BY <3>1, <3>2, <3>4, RecordAppended, Zenon DEF e
      <4>2. QED
        BY <2>2, <3>4, <4>1, Zenon
    <3>5. QED
      BY <3>3, <3>4
  <2>5. QED
    BY <2>3, <2>4, Zenon DEF LedgerInv, Tabulated
<1>3. QED
  BY <1>1, <1>2 DEF add_balance

\* The handlers' other steps do not touch the account tables.
LEMMA OthersKeep ==
  ASSUME LedgerInv, UNCHANGED <<balance, records>>
  PROVE  LedgerInv'
BY DEF LedgerInv, Tabulated

\* Every step of every request keeps the ledger.
LEMMA HandleKeeps ==
  ASSUME LedgerInv, NEW r \in Request, Handle(r)
  PROVE  LedgerInv'
<1>1. CASE ScanUnlock(r) \/ ReportDamage(r) \/ EndRide(r) \/ Recharge(r) \/ Refuse(r)
  BY <1>1, OthersKeep, Zenon
  DEF ScanUnlock, ReportDamage, EndRide, Recharge, Refuse, Arrive, tables
<1>2. CASE GetBike(r) \/ CheckBalance(r) \/ CreateSession(r) \/ SetRented(r) \/ SetDamaged(r)
  BY <1>2, OthersKeep DEF GetBike, CheckBalance, CreateSession, SetRented, SetDamaged, tables
<1>3. CASE FindSession(r) \/ FindHistory(r) \/ ReadBack(r) \/ CreateRide(r)
  BY <1>3, OthersKeep DEF FindSession, FindHistory, ReadBack, CreateRide, tables
<1>4. CASE SetIdle(r) \/ RemoveSession(r)
  BY <1>4, OthersKeep DEF SetIdle, RemoveSession, tables
<1>5. CASE Debit(r)
  BY <1>5, AddBalanceKeeps DEF Debit
<1>6. CASE Credit(r)
  <2>1. PICK amount \in Amounts : add_balance(task[r].user, amount)
    BY <1>6 DEF Credit
  <2>2. QED
    BY <2>1, AddBalanceKeeps
<1>7. QED
  BY <1>1, <1>2, <1>3, <1>4, <1>5, <1>6 DEF Handle

(* Each record's balance_after is the one before it plus its amount, and   *)
(* the last one is the balance: add_balance of mysql_account_repo.cpp,     *)
(* called by any number of concurrent end_ride and recharge, with refused  *)
(* statements and restarts.                                                *)
THEOREM LedgerExplained == Spec => []RecordsExplainBalance
<1>1. Init => LedgerInv
  <2> SUFFICES ASSUME Init PROVE LedgerInv
    OBVIOUS
  <2>1. ASSUME NEW u \in User PROVE records[u] = <<>> /\ records[u] \in Seq({})
    BY DEF Init
  <2>2. Tabulated
    BY <2>1 DEF Init, Tabulated
  <2>3. QED
    BY <2>1, <2>2 DEF LedgerInv, Explained
<1>2. LedgerInv /\ [Next]_vars => LedgerInv'
  <2> SUFFICES ASSUME LedgerInv, [Next]_vars PROVE LedgerInv'
    OBVIOUS
  <2>1. CASE Tick \/ Crash \/ UNCHANGED vars
    BY <2>1, OthersKeep DEF Tick, Crash, vars, tables
  <2>2. CASE \E r \in Request : Handle(r)
    BY <2>2, HandleKeeps
  <2>3. QED
    BY <2>1, <2>2 DEF Next
<1>3. LedgerInv => RecordsExplainBalance
  BY DEF LedgerInv, Explained, RecordsExplainBalance
<1>4. QED
  BY <1>1, <1>2, <1>3, PTL DEF Spec

-----------------------------------------------------------------------------
(***************************************************************************)
(* A settled ride. The argument follows a ride number from scan_unlock to  *)
(* end_ride.                                                               *)
(***************************************************************************)

\* A table of records with the fields of Fresh.
Table(t) ==
    /\ t = [r \in Request |-> t[r]]
    /\ \A r \in Request :
          t[r] = [pc |-> t[r].pc, op |-> t[r].op, user |-> t[r].user, bike |-> t[r].bike,
                  ride |-> t[r].ride, fee |-> t[r].fee, code |-> t[r].code,
                  paid |-> t[r].paid, late |-> t[r].late]

\* s is t but for the row of r, which has these values in the fields that the
\* argument is about.
Row(t, s, r, pc, op, ride, code, paid, late) ==
    /\ Table(s) /\ \A q \in Request \ {r} : s[q] = t[q]
    /\ s[r].pc = pc /\ s[r].op = op /\ s[r].ride = ride
    /\ s[r].code = code /\ s[r].paid = paid /\ s[r].late = late

\* What a step leaves in the row of r.
Now(r, pc, op, ride, code, paid, late) == Row(task, task', r, pc, op, ride, code, paid, late)

\* The same with the fields that only an arrival sets.
Then(r, pc, ride, code, paid) == Now(r, pc, task[r].op, ride, code, paid, task[r].late)

EndSteps == {"find", "history", "debit", "readback", "record", "return", "remove"}

\* Which handler a step is of; when scan_unlock has its number; that an answer
\* ends a handler.
TaskOK(r) ==
    /\ task[r].pc = "new" => task[r].op = "none" /\ ~task[r].late
    /\ task[r].pc \in EndSteps => task[r].op = "end"
    /\ task[r].pc = "lock" => task[r].op \in {"unlock", "damage"}
    /\ task[r].pc \in {"balance", "create", "rent"} => task[r].op = "unlock"
    /\ task[r].pc = "damage" => task[r].op = "damage"
    /\ task[r].pc = "credit" => task[r].op = "recharge"
    /\ task[r].op = "unlock" /\ task[r].pc \in {"lock", "balance", "create"} => task[r].ride = 0
    /\ task[r].op = "unlock" /\ (task[r].pc = "rent" \/ task[r].code = "ok") => task[r].ride \in RideNo
    /\ task[r].code = "ok" => task[r].pc = "done"
    /\ task[r].late => task[r].op = "end"

Ended(r) == task[r].op = "end" /\ task[r].code = "ok"

\* A ride that is ended was begun.
Begun ==
    \A r \in Request : task[r].op = "end" =>
        /\ task[r].ride \in RideNo
        /\ \E q \in Request : task[q].op = "unlock" /\ task[q].ride = task[r].ride

\* As long as ride numbers are unique: no session comes back once its ride is
\* settled, and an end_ride that is late never gets to its debit.
Gone == \A r \in Request : Ended(r) => sessions[task[r].ride] = None
LateUnpaid ==
    \A r \in Request : task[r].late =>
        /\ task[r].paid = 0 /\ task[r].pc \in {"find", "history", "done", "lost"}
        /\ \E q \in Request : Ended(q) /\ task[q].ride = task[r].ride

\* The inductive invariant of the rides.
RideInv ==
    /\ Table(task) /\ now \in RideNo /\ sessions = [n \in RideNo |-> sessions[n]]
    /\ \A r \in Request : TaskOK(r)
    /\ Begun
    /\ NumbersUnique => Gone /\ LateUnpaid

\* Setting one field of a row.
LEMMA SetField ==
  ASSUME NEW t, Table(t), NEW r \in Request, NEW x
  PROVE  /\ Row(t, [t EXCEPT ![r].pc = x], r,
                x, t[r].op, t[r].ride, t[r].code, t[r].paid, t[r].late)
         /\ Row(t, [t EXCEPT ![r].bike = x], r,
                t[r].pc, t[r].op, t[r].ride, t[r].code, t[r].paid, t[r].late)
         /\ Row(t, [t EXCEPT ![r].fee = x], r,
                t[r].pc, t[r].op, t[r].ride, t[r].code, t[r].paid, t[r].late)
         /\ Row(t, [t EXCEPT ![r].ride = x], r,
                t[r].pc, t[r].op, x, t[r].code, t[r].paid, t[r].late)
         /\ Row(t, [t EXCEPT ![r].code = x], r,
                t[r].pc, t[r].op, t[r].ride, x, t[r].paid, t[r].late)
         /\ Row(t, [t EXCEPT ![r].paid = x], r,
                t[r].pc, t[r].op, t[r].ride, t[r].code, x, t[r].late)
<1>1. Row(t, [t EXCEPT ![r].pc = x], r, x, t[r].op, t[r].ride, t[r].code, t[r].paid, t[r].late)
  BY DEF Table, Row
<1>2. Row(t, [t EXCEPT ![r].bike = x], r,
          t[r].pc, t[r].op, t[r].ride, t[r].code, t[r].paid, t[r].late)
  BY DEF Table, Row
<1>3. Row(t, [t EXCEPT ![r].fee = x], r,
          t[r].pc, t[r].op, t[r].ride, t[r].code, t[r].paid, t[r].late)
  BY DEF Table, Row
<1>4. Row(t, [t EXCEPT ![r].ride = x], r, t[r].pc, t[r].op, x, t[r].code, t[r].paid, t[r].late)
  BY DEF Table, Row
<1>5. Row(t, [t EXCEPT ![r].code = x], r, t[r].pc, t[r].op, t[r].ride, x, t[r].paid, t[r].late)
  BY DEF Table, Row
<1>6. Row(t, [t EXCEPT ![r].paid = x], r, t[r].pc, t[r].op, t[r].ride, t[r].code, x, t[r].late)
  BY DEF Table, Row
<1>7. QED
  BY <1>1, <1>2, <1>3, <1>4, <1>5, <1>6, Zenon

\* A handler goes on to its next call.
LEMMA GotoNow ==
  ASSUME Table(task), NEW r \in Request, NEW pc, Goto(r, pc)
  PROVE  Then(r, pc, task[r].ride, task[r].code, task[r].paid)
BY DEF Table, Goto, Then, Now, Row

\* A handler returns.
LEMMA AnswerNow ==
  ASSUME Table(task), NEW r \in Request, NEW code, Answer(r, code)
  PROVE  Then(r, "done", task[r].ride, code, task[r].paid)
<1> DEFINE s == [task EXCEPT ![r].pc = "done"]
<1>1. Row(task, s, r, "done", task[r].op, task[r].ride, task[r].code, task[r].paid, task[r].late)
  BY SetField, Zenon
<1>2. task' = [s EXCEPT ![r].code = code]
  BY DEF Answer
<1> HIDE DEF s
<1>3. Row(s, task', r, s[r].pc, s[r].op, s[r].ride, code, s[r].paid, s[r].late)
  <2>1. Table(s)
    BY <1>1 DEF Row
  <2>2. QED
    BY <1>2, <2>1, SetField, Zenon
<1>4. QED
  BY <1>1, <1>3 DEF Row, Then, Now

\* A request arrives.
LEMMA ArriveNow ==
  ASSUME Table(task), NEW r \in Request, NEW op, NEW u, NEW b, NEW n, NEW pc,
         Arrive(r, op, u, b, n, pc)
  PROVE  Now(r, pc, op, n, "none", 0, (op = "end" /\ n \in Settled))
BY Zenon DEF Table, Arrive, Now, Row, Fresh

\* scan_unlock has its number.
LEMMA CreateNow ==
  ASSUME Table(task), NEW r \in Request, CreateSession(r)
  PROVE  Then(r, "rent", now, task[r].code, task[r].paid)
<1> DEFINE s == [task EXCEPT ![r].pc = "rent"]
<1>1. Row(task, s, r, "rent", task[r].op, task[r].ride, task[r].code, task[r].paid, task[r].late)
  BY SetField, Zenon
<1>2. task' = [s EXCEPT ![r].ride = now]
  BY DEF CreateSession
<1> HIDE DEF s
<1>3. Row(s, task', r, s[r].pc, s[r].op, now, s[r].code, s[r].paid, s[r].late)
  <2>1. Table(s)
    BY <1>1 DEF Row
  <2>2. QED
    BY <1>2, <2>1, SetField, Zenon
<1>4. QED
  BY <1>1, <1>3 DEF Row, Then, Now

\* end_ride has found its session.
LEMMA FoundNow ==
  ASSUME Table(task), NEW r \in Request, NEW b, NEW f,
         task' = [task EXCEPT ![r].pc = "debit", ![r].bike = b, ![r].fee = f]
  PROVE  Then(r, "debit", task[r].ride, task[r].code, task[r].paid)
<1> DEFINE s == [task EXCEPT ![r].pc = "debit"]
           t == [s EXCEPT ![r].bike = b]
<1>1. task' = [t EXCEPT ![r].fee = f]
  OBVIOUS
<1>2. Row(task, s, r, "debit", task[r].op, task[r].ride, task[r].code, task[r].paid, task[r].late)
  BY SetField, Zenon
<1> HIDE DEF s
<1>3. Row(s, t, r, s[r].pc, s[r].op, s[r].ride, s[r].code, s[r].paid, s[r].late)
  <2>1. Table(s)
    BY <1>2 DEF Row
  <2>2. QED
    BY <2>1, SetField, Zenon
<1> HIDE DEF t
<1>4. Row(t, task', r, t[r].pc, t[r].op, t[r].ride, t[r].code, t[r].paid, t[r].late)
  <2>1. Table(t)
    BY <1>3 DEF Row
  <2>2. Row(t, [t EXCEPT ![r].fee = f], r, t[r].pc, t[r].op, t[r].ride, t[r].code, t[r].paid, t[r].late)
    BY <2>1, SetField, Zenon
  <2>3. QED
    BY <1>1, <2>2, Zenon
<1>5. QED
  BY <1>2, <1>3, <1>4, Zenon DEF Row, Then, Now

\* end_ride has debited the account.
LEMMA DebitNow ==
  ASSUME Table(task), NEW r \in Request, NEW p,
         task' = [task EXCEPT ![r].pc = "readback", ![r].paid = p]
  PROVE  Then(r, "readback", task[r].ride, task[r].code, p)
<1> DEFINE s == [task EXCEPT ![r].pc = "readback"]
<1>1. Row(task, s, r, "readback", task[r].op, task[r].ride, task[r].code, task[r].paid, task[r].late)
  BY SetField, Zenon
<1>2. task' = [s EXCEPT ![r].paid = p]
  OBVIOUS
<1> HIDE DEF s
<1>3. Row(s, task', r, s[r].pc, s[r].op, s[r].ride, s[r].code, p, s[r].late)
  <2>1. Table(s)
    BY <1>1 DEF Row
  <2>2. Row(s, [s EXCEPT ![r].paid = p], r, s[r].pc, s[r].op, s[r].ride, s[r].code, p, s[r].late)
    BY <2>1, SetField, Zenon
  <2>3. QED
    BY <1>2, <2>2, Zenon
<1>4. QED
  BY <1>1, <1>3, Zenon DEF Row, Then, Now

\* What a step of r may do to its own row and to the sessions.
Moved(r) ==
    /\ Table(task') /\ \A q \in Request \ {r} : task'[q] = task[q]
    /\ TaskOK(r)'
    /\ task[r].op = "unlock" /\ task[r].ride # 0 =>
          task'[r].op = "unlock" /\ task'[r].ride = task[r].ride
    /\ task[r].op = "end" => task'[r].op = "end" /\ task'[r].ride = task[r].ride
    /\ Ended(r) => Ended(r)'
    /\ task'[r].op = "end" => task[r].op = "end" \/ task'[r].ride \in Issued
    /\ task'[r].late =>
          \/ task[r].late
          \/ task'[r].pc = "find" /\ task'[r].paid = 0 /\ task'[r].ride \in Settled
    /\ \/ sessions' = sessions /\ (Ended(r)' => Ended(r))
       \/ task[r].op = "end" /\ sessions' = [sessions EXCEPT ![task[r].ride] = None]
       \/ /\ task[r].op = "unlock" /\ task[r].ride = 0 /\ ~Ended(r)'
          /\ task'[r].op = "unlock" /\ task'[r].ride = now
          /\ \E x : sessions' = [sessions EXCEPT ![now] = x]

\* A late end_ride goes only where nothing is paid, if it finds no session.
Harmless(r) ==
    task[r].late /\ task[r].paid = 0 /\ task[r].pc \in {"find", "history", "done", "lost"}
      /\ sessions[task[r].ride] = None
    => task'[r].paid = 0 /\ task'[r].pc \in {"find", "history", "done", "lost"}

\* Arrivals.
LEMMA ArriveMoves ==
  ASSUME RideInv, NEW r \in Request,
         \/ ScanUnlock(r) \/ ReportDamage(r) \/ EndRide(r) \/ Recharge(r) \/ Refuse(r)
  PROVE  Moved(r) /\ Harmless(r)
<1>1. /\ Table(task) /\ TaskOK(r) /\ task[r].pc = "new" /\ sessions' = sessions
      /\ task[r].op = "none" /\ ~task[r].late /\ ~Ended(r)
  BY Zenon DEF RideInv, TaskOK, Ended, ScanUnlock, ReportDamage, EndRide, Recharge, Refuse, Arrive, At
<1>2. Harmless(r)
  BY <1>1 DEF Harmless
<1>3. CASE Refuse(r)
  <2>1. Then(r, "done", task[r].ride, "refused", task[r].paid)
    BY <1>1, <1>3, AnswerNow DEF Refuse
  <2>2. Moved(r)
    BY <1>1, <2>1 DEF Then, Now, Row, Moved, TaskOK, Ended, EndSteps
  <2>3. QED
    BY <1>2, <2>2
<1>4. CASE ScanUnlock(r)
  <2>1. PICK u \in User, b \in Bike : Arrive(r, "unlock", u, b, 0, "lock")
    BY <1>4 DEF ScanUnlock
  <2>2. Now(r, "lock", "unlock", 0, "none", 0, FALSE)
    BY <1>1, <2>1, ArriveNow, Zenon
  <2>3. Moved(r)
    BY <1>1, <2>2 DEF Now, Row, Moved, TaskOK, Ended, EndSteps
  <2>4. QED
    BY <1>2, <2>3
<1>5. CASE ReportDamage(r)
  <2>1. PICK u \in User, b \in Bike : Arrive(r, "damage", u, b, 0, "lock")
    BY <1>5 DEF ReportDamage
  <2>2. Now(r, "lock", "damage", 0, "none", 0, FALSE)
    BY <1>1, <2>1, ArriveNow, Zenon
  <2>3. Moved(r)
    BY <1>1, <2>2 DEF Now, Row, Moved, TaskOK, Ended, EndSteps
  <2>4. QED
    BY <1>2, <2>3
<1>6. CASE Recharge(r)
  <2>1. PICK u \in User : Arrive(r, "recharge", u, None, 0, "credit")
    BY <1>6 DEF Recharge
  <2>2. Now(r, "credit", "recharge", 0, "none", 0, FALSE)
    BY <1>1, <2>1, ArriveNow, Zenon
  <2>3. Moved(r)
    BY <1>1, <2>2 DEF Now, Row, Moved, TaskOK, Ended, EndSteps
  <2>4. QED
    BY <1>2, <2>3
<1>7. CASE EndRide(r)
  <2>1. PICK u \in User, n \in Issued : Arrive(r, "end", u, None, n, "find")
    BY <1>7 DEF EndRide
  <2>2. Now(r, "find", "end", n, "none", 0, (n \in Settled))
    BY <1>1, <2>1, ArriveNow
  <2>3. Moved(r)
    BY <1>1, <2>1, <2>2, Zenon DEF Now, Row, Moved, TaskOK, Ended, EndSteps
  <2>4. QED
    BY <1>2, <2>3
<1>8. QED
  BY <1>3, <1>4, <1>5, <1>6, <1>7

\* scan_unlock and report_damage.
LEMMA BikeMoves ==
  ASSUME RideInv, NEW r \in Request,
         \/ GetBike(r) \/ CheckBalance(r) \/ CreateSession(r) \/ SetRented(r) \/ SetDamaged(r)
  PROVE  Moved(r) /\ Harmless(r)
<1>1. /\ Table(task) /\ TaskOK(r) /\ task[r].op \in {"unlock", "damage"}
      /\ ~task[r].late /\ ~Ended(r) /\ task[r].code # "ok" /\ now \in RideNo
  BY DEF RideInv, TaskOK, Ended, GetBike, CheckBalance, CreateSession, SetRented, SetDamaged, At
<1>2. Harmless(r)
  BY <1>1 DEF Harmless
<1>3. CASE GetBike(r)
  <2>1. task[r].pc = "lock" /\ sessions' = sessions
    BY <1>3 DEF GetBike, At
  <2>2. \/ task[r].op = "damage" /\ Goto(r, "damage")
        \/ task[r].op # "damage" /\ Goto(r, "balance")
        \/ Answer(r, "damaged") \/ Answer(r, "running") \/ Answer(r, "invalid_data")
    BY <1>3 DEF GetBike
  <2>3. \/ task[r].op = "damage" /\ Then(r, "damage", task[r].ride, task[r].code, task[r].paid)
        \/ task[r].op = "unlock" /\ Then(r, "balance", task[r].ride, task[r].code, task[r].paid)
        \/ \E c \in {"damaged", "running", "invalid_data"} : Then(r, "done", task[r].ride, c, task[r].paid)
    BY <1>1, <2>2, GotoNow, AnswerNow
  <2>4. Moved(r)
    BY <1>1, <2>1, <2>3 DEF Then, Now, Row, Moved, TaskOK, Ended, EndSteps
  <2>5. QED
    BY <1>2, <2>4
<1>4. CASE CheckBalance(r)
  <2>1. task[r].pc = "balance" /\ sessions' = sessions
    BY <1>4 DEF CheckBalance, At
  <2>2. Goto(r, "create") \/ Answer(r, "process_failed")
    BY <1>4 DEF CheckBalance
  <2>3. \/ Then(r, "create", task[r].ride, task[r].code, task[r].paid)
        \/ Then(r, "done", task[r].ride, "process_failed", task[r].paid)
    BY <1>1, <2>2, GotoNow, AnswerNow
  <2>4. Moved(r)
    BY <1>1, <2>1, <2>3 DEF Then, Now, Row, Moved, TaskOK, Ended, EndSteps
  <2>5. QED
    BY <1>2, <2>4
<1>5. CASE CreateSession(r)
  <2>1. /\ task[r].pc = "create" /\ task[r].op = "unlock" /\ task[r].ride = 0
        /\ \E x : sessions' = [sessions EXCEPT ![now] = x]
    BY <1>1, <1>5, Zenon DEF CreateSession, At, TaskOK
  <2>2. Then(r, "rent", now, task[r].code, task[r].paid)
    BY <1>1, <1>5, CreateNow
  <2>3. Moved(r)
    BY <1>1, <2>1, <2>2, Zenon DEF Then, Now, Row, Moved, TaskOK, Ended, EndSteps
  <2>4. QED
    BY <1>2, <2>3
<1>6. CASE SetRented(r) \/ SetDamaged(r)
  <2>1. /\ task[r].pc \in {"rent", "damage"} /\ sessions' = sessions /\ Answer(r, "ok")
        /\ task[r].pc = "rent" => task[r].ride \in RideNo
    BY <1>1, <1>6 DEF SetRented, SetDamaged, At, TaskOK
  <2>2. Then(r, "done", task[r].ride, "ok", task[r].paid)
    BY <1>1, <2>1, AnswerNow
  <2>3. Moved(r)
    BY <1>1, <2>1, <2>2 DEF Then, Now, Row, Moved, TaskOK, Ended, EndSteps
  <2>4. QED
    BY <1>2, <2>3
<1>7. QED
  BY <1>3, <1>4, <1>5, <1>6

\* end_ride and recharge.
LEMMA EndMoves ==
  ASSUME RideInv, NEW r \in Request,
         \/ FindSession(r) \/ FindHistory(r) \/ Debit(r) \/ ReadBack(r) \/ CreateRide(r)
         \/ SetIdle(r) \/ RemoveSession(r) \/ Credit(r)
  PROVE  Moved(r) /\ Harmless(r)
<1>1. /\ Table(task) /\ TaskOK(r) /\ task[r].pc \in EndSteps \cup {"credit"}
      /\ task[r].op = (IF task[r].pc = "credit" THEN "recharge" ELSE "end")
      /\ task[r].code # "ok" /\ ~Ended(r)
  BY Zenon DEF RideInv, TaskOK, Ended, EndSteps, FindSession, FindHistory, Debit, ReadBack, CreateRide,
         SetIdle, RemoveSession, Credit, At
<1>2. CASE FindSession(r)
  <2>1. task[r].pc = "find" /\ sessions' = sessions
    BY <1>2, Zenon DEF FindSession, At
  <2>2. \/ Goto(r, "history")
        \/ sessions[task[r].ride] # None /\ Answer(r, "unauthorized")
        \/ /\ sessions[task[r].ride] # None
           /\ \E d \in Durations :
                 task' = [task EXCEPT ![r].pc = "debit", ![r].bike = sessions[task[r].ride].bike,
                                      ![r].fee = compute_fee(IF d < 0 THEN 0 ELSE d)]
    BY <1>2, Zenon DEF FindSession
  <2>3. \/ Then(r, "history", task[r].ride, task[r].code, task[r].paid)
        \/ Then(r, "done", task[r].ride, "unauthorized", task[r].paid)
        \/ /\ sessions[task[r].ride] # None
           /\ Then(r, "debit", task[r].ride, task[r].code, task[r].paid)
    <3>1. CASE Goto(r, "history")
      BY <1>1, <3>1, GotoNow
    <3>2. CASE Answer(r, "unauthorized")
      BY <1>1, <3>2, AnswerNow
    <3>3. ASSUME NEW d \in Durations,
                 task' = [task EXCEPT ![r].pc = "debit", ![r].bike = sessions[task[r].ride].bike,
                                      ![r].fee = compute_fee(IF d < 0 THEN 0 ELSE d)]
          PROVE  Then(r, "debit", task[r].ride, task[r].code, task[r].paid)
      BY <1>1, <3>3, FoundNow, Zenon
    <3>4. QED
      BY <2>2, <3>1, <3>2, <3>3
  <2>4. Moved(r)
    BY <1>1, <2>1, <2>3 DEF Then, Now, Row, Moved, TaskOK, Ended, EndSteps
  <2>5. Harmless(r)
    BY <2>3, Zenon DEF Then, Now, Row, Harmless
  <2>6. QED
    BY <2>4, <2>5
<1>3. CASE FindHistory(r)
  <2>1. task[r].pc = "history" /\ sessions' = sessions
    BY <1>3 DEF FindHistory, At
  <2>2. \E c \in {"invalid_data", "unauthorized", "history"} : Answer(r, c)
    BY <1>3 DEF FindHistory
  <2>3. \E c \in {"invalid_data", "unauthorized", "history"} :
           Then(r, "done", task[r].ride, c, task[r].paid)
    BY <1>1, <2>2, AnswerNow
  <2>4. Moved(r)
    BY <1>1, <2>1, <2>3 DEF Then, Now, Row, Moved, TaskOK, Ended, EndSteps
  <2>5. Harmless(r)
    BY <2>3 DEF Then, Now, Row, Harmless
  <2>6. QED
    BY <2>4, <2>5
<1>4. CASE Debit(r)
  <2>1. task[r].pc = "debit" /\ sessions' = sessions
    BY <1>4 DEF Debit, At
  <2>2. \E p : Then(r, "readback", task[r].ride, task[r].code, p)
    BY <1>1, <1>4, DebitNow, Zenon DEF Debit
  <2>3. Moved(r)
    BY <1>1, <2>1, <2>2 DEF Then, Now, Row, Moved, TaskOK, Ended, EndSteps
  <2>4. QED
    BY <2>1, <2>3 DEF Harmless
<1>5. CASE ReadBack(r) \/ CreateRide(r) \/ SetIdle(r)
  <2>1. task[r].pc \in {"readback", "record", "return"} /\ sessions' = sessions
    BY <1>5 DEF ReadBack, CreateRide, SetIdle, At
  <2>2. Answer(r, "process_failed") \/ \E pc \in {"record", "return", "remove"} : Goto(r, pc)
    BY <1>5 DEF ReadBack, CreateRide, SetIdle
  <2>3. \/ Then(r, "done", task[r].ride, "process_failed", task[r].paid)
        \/ \E pc \in {"record", "return", "remove"} :
              Then(r, pc, task[r].ride, task[r].code, task[r].paid)
    BY <1>1, <2>2, GotoNow, AnswerNow
  <2>4. Moved(r)
    BY <1>1, <2>1, <2>3 DEF Then, Now, Row, Moved, TaskOK, Ended, EndSteps
  <2>5. QED
    BY <2>1, <2>4 DEF Harmless
<1>6. CASE RemoveSession(r)
  <2>1. /\ task[r].pc = "remove" /\ task[r].op = "end" /\ Answer(r, "ok")
        /\ sessions' = [sessions EXCEPT ![task[r].ride] = None]
    BY <1>1, <1>6 DEF RemoveSession, At
  <2>2. Then(r, "done", task[r].ride, "ok", task[r].paid)
    BY <1>1, <2>1, AnswerNow
  <2>3. Moved(r)
    BY <1>1, <2>1, <2>2 DEF Then, Now, Row, Moved, TaskOK, Ended, EndSteps
  <2>4. QED
    BY <2>1, <2>3 DEF Harmless
<1>7. CASE Credit(r)
  <2>1. task[r].pc = "credit" /\ sessions' = sessions /\ Answer(r, "ok")
    BY <1>7 DEF Credit, At
  <2>2. Then(r, "done", task[r].ride, "ok", task[r].paid)
    BY <1>1, <2>1, AnswerNow
  <2>3. Moved(r)
    BY <1>1, <2>1, <2>2 DEF Then, Now, Row, Moved, TaskOK, Ended, EndSteps
  <2>4. QED
    BY <2>1, <2>3 DEF Harmless
<1>8. QED
  BY <1>2, <1>3, <1>4, <1>5, <1>6, <1>7

\* Such a step keeps the invariant.
LEMMA MovedKeeps ==
  ASSUME RideInv, NEW r \in Request, Moved(r), Harmless(r), now' = now
  PROVE  RideInv'
<1>1. \A q \in Request : TaskOK(q)'
  <2>1. ASSUME NEW q \in Request \ {r} PROVE TaskOK(q)'
    <3>1. task'[q] = task[q] /\ TaskOK(q)
      BY DEF Moved, RideInv
    <3>2. QED
      BY <3>1 DEF TaskOK, RideNo
  <2>2. TaskOK(r)'
    BY DEF Moved
  <2>3. QED
    BY <2>1, <2>2
<1>2. Table(task)' /\ (now \in RideNo)' /\ (sessions = [n \in RideNo |-> sessions[n]])'
  BY Zenon DEF Moved, RideInv, RideNo
<1>3. 0 \notin RideNo
  BY DEF RideNo
<1>4. ASSUME NEW q \in Request, task[q].op = "unlock", task[q].ride # 0
      PROVE  task'[q].op = "unlock" /\ task'[q].ride = task[q].ride
  BY <1>4 DEF Moved
<1>5. ASSUME NEW q \in Request, Ended(q) PROVE Ended(q)' /\ task'[q].ride = task[q].ride
  BY <1>5 DEF Moved, Ended
<1>6. NumbersUnique' => NumbersUnique
  BY <1>4 DEF NumbersUnique
<1>7. Begun'
  <2> SUFFICES ASSUME NEW q \in Request, task'[q].op = "end"
               PROVE  /\ task'[q].ride \in RideNo
                      /\ \E p \in Request : task'[p].op = "unlock" /\ task'[p].ride = task'[q].ride
    BY DEF Begun, RideNo
  <2>1. \E p \in Request : /\ task[p].op = "unlock" /\ task[p].ride \in RideNo
                           /\ task[p].ride = task'[q].ride
    <3>1. CASE task[q].op = "end"
      BY <3>1 DEF Moved, RideInv, Begun
    <3>2. CASE task[q].op # "end"
      <4>1. task'[q].ride \in Issued
        BY <3>2 DEF Moved
      <4>2. QED
        BY <4>1 DEF Issued, RideInv, TaskOK
    <3>3. QED
      BY <3>1, <3>2
  <2>2. QED
    BY <1>3, <1>4, <2>1
<1>8. ASSUME NumbersUnique' PROVE Gone'
  <2> SUFFICES ASSUME NEW q \in Request, Ended(q)' PROVE sessions'[task'[q].ride] = None
    BY DEF Gone
  <2>1. Gone /\ sessions = [n \in RideNo |-> sessions[n]]
    BY <1>6, <1>8 DEF RideInv
  <2>2. task'[q].ride \in RideNo
    BY <1>7 DEF Begun, Ended, RideNo
  <2>3. q # r => Ended(q) /\ task'[q] = task[q]
    BY DEF Moved, Ended
  <2>4. CASE sessions' = sessions /\ (Ended(r)' => Ended(r))
    BY <1>5, <2>1, <2>3, <2>4 DEF Gone
  <2>5. CASE task[r].op = "end" /\ sessions' = [sessions EXCEPT ![task[r].ride] = None]
    <3>1. task'[r].ride = task[r].ride
      BY <2>5 DEF Moved
    <3>2. QED
      BY <2>1, <2>2, <2>3, <2>5, <3>1 DEF Gone
  <2>6. CASE /\ task[r].op = "unlock" /\ task[r].ride = 0 /\ ~Ended(r)'
             /\ task'[r].op = "unlock" /\ task'[r].ride = now
             /\ \E x : sessions' = [sessions EXCEPT ![now] = x]
    <3>1. q # r /\ Ended(q) /\ task'[q] = task[q]
      BY <2>3, <2>6
    <3>2. PICK p \in Request : task[p].op = "unlock" /\ task[p].ride = task[q].ride
      BY <3>1 DEF RideInv, Begun, Ended
    <3>3. p # r /\ task'[p].op = "unlock" /\ task'[p].ride = task[q].ride /\ task[q].ride # 0
      BY <1>3, <1>4, <2>2, <2>6, <3>1, <3>2
    <3>4. task[q].ride # now
      BY <1>8, <2>6, <3>3 DEF NumbersUnique
    <3>5. QED
      BY <2>1, <2>2, <2>6, <3>1, <3>4 DEF Gone
  <2>7. QED
    BY <2>4, <2>5, <2>6 DEF Moved
<1>9. ASSUME NumbersUnique' PROVE LateUnpaid'
  <2> SUFFICES ASSUME NEW q \in Request, task'[q].late
               PROVE  /\ task'[q].paid = 0 /\ task'[q].pc \in {"find", "history", "done", "lost"}
                      /\ \E p \in Request : Ended(p)' /\ task'[p].ride = task'[q].ride
    BY DEF LateUnpaid
  <2>1. Gone /\ LateUnpaid
    BY <1>6, <1>9 DEF RideInv
  <2>2. CASE task[q].late
    <3>1. PICK p \in Request : Ended(p) /\ task[p].ride = task[q].ride
      BY <2>1, <2>2 DEF LateUnpaid
    <3>2. task[q].op = "end" /\ task'[q].ride = task[q].ride
      BY <2>2 DEF RideInv, TaskOK, Moved
    <3>3. sessions[task[q].ride] = None
      BY <2>1, <3>1 DEF Gone
    <3>4. task'[q].paid = 0 /\ task'[q].pc \in {"find", "history", "done", "lost"}
      BY <2>1, <2>2, <3>3 DEF LateUnpaid, Moved, Harmless
    <3>5. QED
      BY <1>5, <3>1, <3>2, <3>4
  <2>3. CASE ~task[q].late
    <3>1. /\ q = r /\ task'[q].paid = 0 /\ task'[q].pc = "find" /\ task'[q].ride \in Settled
      BY <2>3 DEF Moved
    <3>2. PICK p \in Request : Ended(p) /\ task[p].ride = task'[q].ride
      BY <3>1 DEF Settled, Ended
    <3>3. QED
      BY <1>5, <3>1, <3>2
  <2>4. QED
    BY <2>2, <2>3
<1>10. QED
  BY <1>1, <1>2, <1>7, <1>8, <1>9 DEF RideInv

\* A restart forgets the sessions and the handlers that were running.
LEMMA CrashKeeps ==
  ASSUME RideInv, Crash
  PROVE  RideInv'
<1>1. ASSUME NEW q \in Request
      PROVE  \/ task'[q] = task[q]
             \/ Running(q) /\ task'[q] = [task[q] EXCEPT !.pc = "lost"]
  BY DEF Crash
<1>2. Table(task)'
  BY <1>1 DEF Crash, RideInv, Table
<1>3. \A q \in Request :
        /\ task'[q].pc = task[q].pc \/ (Running(q) /\ task'[q].pc = "lost")
        /\ task'[q].op = task[q].op /\ task'[q].ride = task[q].ride
        /\ task'[q].code = task[q].code /\ task'[q].paid = task[q].paid /\ task'[q].late = task[q].late
  <2> SUFFICES ASSUME NEW q \in Request
               PROVE  /\ task'[q].pc = task[q].pc \/ (Running(q) /\ task'[q].pc = "lost")
                      /\ task'[q].op = task[q].op /\ task'[q].ride = task[q].ride
                      /\ task'[q].code = task[q].code /\ task'[q].paid = task[q].paid
                      /\ task'[q].late = task[q].late
    OBVIOUS
  <2>1. CASE task'[q] = task[q]
    BY <2>1
  <2>2. CASE Running(q) /\ task'[q] = [task[q] EXCEPT !.pc = "lost"]
    <3>1. task[q] = [pc |-> task[q].pc, op |-> task[q].op, user |-> task[q].user,
                     bike |-> task[q].bike, ride |-> task[q].ride, fee |-> task[q].fee,
                     code |-> task[q].code, paid |-> task[q].paid, late |-> task[q].late]
      BY DEF RideInv, Table
    <3>2. QED
      BY <2>2, <3>1
  <2>3. QED
    BY <1>1, <2>1, <2>2
<1>4. /\ now' = now /\ sessions' = [n \in RideNo |-> None] /\ \A n \in RideNo : sessions'[n] = None
      /\ RideNo' = RideNo
  BY DEF Crash, RideNo
<1>5. \A q \in Request : TaskOK(q)'
  BY <1>3, <1>4 DEF RideInv, TaskOK, Running, EndSteps
<1>6. Begun'
  BY <1>3, <1>4 DEF RideInv, Begun
<1>7. \A q \in Request : Ended(q)' <=> Ended(q)
  BY <1>3 DEF Ended
<1>8. Gone'
  BY <1>3, <1>4, <1>7 DEF RideInv, Begun, Gone, Ended
<1>9. NumbersUnique' => NumbersUnique
  BY <1>3 DEF NumbersUnique
<1>10. LateUnpaid => LateUnpaid'
  BY <1>3, <1>7 DEF LateUnpaid
<1>11. QED
  BY <1>2, <1>4, <1>5, <1>6, <1>8, <1>9, <1>10 DEF RideInv

\* Every step keeps the invariant.
LEMMA RideInductive == RideInv /\ [Next]_vars => RideInv'
<1> SUFFICES ASSUME RideInv, [Next]_vars PROVE RideInv'
  OBVIOUS
<1>1. CASE Tick \/ UNCHANGED vars
  <2>1. task' = task /\ sessions' = sessions /\ (now' = now \/ (now < MaxNow /\ now' = now + 1))
    BY <1>1 DEF Tick, vars
  <2>2. (now \in RideNo)' /\ RideNo' = RideNo
    BY <2>1, BoundsAssumption DEF RideInv, RideNo
  <2>3. (\A r \in Request : TaskOK(r)') /\ Begun'
    BY <2>1, <2>2 DEF RideInv, TaskOK, Begun
  <2>4. (Gone <=> Gone') /\ (LateUnpaid <=> LateUnpaid') /\ (NumbersUnique <=> NumbersUnique')
    <3>1. \A r \in Request : Ended(r) <=> Ended(r)'
      BY <2>1 DEF Ended
    <3>2. (Gone <=> Gone') /\ (LateUnpaid <=> LateUnpaid')
      BY <2>1, <3>1 DEF Gone, LateUnpaid
    <3>3. NumbersUnique <=> NumbersUnique'
      BY <2>1 DEF NumbersUnique
    <3>4. QED
      BY <3>2, <3>3
  <2>5. Table(task)' /\ (sessions = [n \in RideNo |-> sessions[n]])'
    BY <2>1, <2>2, Zenon DEF RideInv
  <2>6. QED
    BY <2>2, <2>3, <2>4, <2>5 DEF RideInv
<1>2. CASE Crash
  BY <1>2, CrashKeeps
<1>3. ASSUME NEW r \in Request, Handle(r) PROVE RideInv'
  <2>1. Moved(r) /\ Harmless(r)
    BY <1>3, ArriveMoves, BikeMoves, EndMoves DEF Handle
  <2>2. now' = now
    BY <1>3, Zenon DEF Handle, ScanUnlock, ReportDamage, EndRide, Recharge, Refuse, Arrive, GetBike,
                CheckBalance, CreateSession, SetRented, SetDamaged, FindSession, FindHistory, Debit,
                ReadBack, CreateRide, SetIdle, RemoveSession, Credit
  <2>3. QED
    BY <2>1, <2>2, MovedKeeps
<1>4. QED
  BY <1>1, <1>2, <1>3 DEF Next

(* With unique ride numbers an end_ride that arrives after its ride was    *)
(* settled takes no money, for any number of concurrent requests, refused  *)
(* statements and restarts.                                                *)
THEOREM SettledAlwaysFree == Spec => []SettledRideIsFree
<1>1. Init => RideInv
  <2> SUFFICES ASSUME Init PROVE RideInv
    OBVIOUS
  <2>1. \A r \in Request : task[r] = Fresh
    BY DEF Init
  <2>2. Table(task)
    BY <2>1, Zenon DEF Init, Table, Fresh
  <2>3. now \in RideNo /\ sessions = [n \in RideNo |-> sessions[n]]
    BY BoundsAssumption DEF Init, RideNo
  <2>4. \A r \in Request : TaskOK(r)
    BY <2>1 DEF TaskOK, Fresh, EndSteps
  <2>5. Begun /\ Gone /\ LateUnpaid
    BY <2>1 DEF Begun, Gone, LateUnpaid, Ended, Fresh
  <2>6. QED
    BY <2>2, <2>3, <2>4, <2>5 DEF RideInv
<1>2. RideInv => SettledRideIsFree
  BY DEF RideInv, LateUnpaid, SettledRideIsFree
<1>3. QED
  BY <1>1, <1>2, RideInductive, PTL DEF Spec
=============================================================================
