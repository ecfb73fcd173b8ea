----------------------------- MODULE RideService -----------------------------
(***************************************************************************)
(* The ride and account handlers of the dispatch process: scan_unlock,     *)
(* end_ride, report_damage and recharge, run concurrently by the business  *)
(* threads over the MySQL tables bike, account, account_record and ride    *)
(* and over the in-memory RideSessionStore.                                *)
(*                                                                         *)
(* A step of a request is one call of a repository or of the session      *)
(* store: each of these is atomic (one autocommitted statement, one        *)
(* transaction, or one critical section of the store's mutex) and nothing  *)
(* is held from one call to the next, so the calls of two requests         *)
(* interleave freely.  What a handler keeps between two calls is in the    *)
(* record of its request.                                                  *)
(***************************************************************************)
EXTENDS Integers, Sequences, FiniteSets, Pricing

CONSTANTS
    Request,      \* the requests that reach the handlers, each handled once
    User, Bike,
    Durations,    \* what end_ts - start_ts may come to, in seconds
    Amounts,      \* what a recharge may add, in cents
    Balances,     \* the balances users may start with, in cents
    MaxNow,       \* bound: the seconds of the clock that are told apart
    MaxFaults,    \* bound: statements that MySQL may refuse
    MaxCrashes,   \* bound: restarts of the dispatch process
    None          \* no session, no ride row, no bike or user yet

ASSUME FaresAssumption ==
    /\ Durations \subseteq Int /\ Amounts \subseteq Int /\ Balances \subseteq Int
    /\ \A a \in Amounts : a > 0

ASSUME BoundsAssumption ==
    MaxNow \in Nat \ {0} /\ MaxFaults \in Nat /\ MaxCrashes \in Nat

ASSUME NoneAssumption == None \notin User /\ None \notin Bike

VARIABLES
    bikes,      \* table bike: the status column
    balance,    \* table account
    records,    \* table account_record, per user in insertion order
    rides,      \* table ride, by ride_no (a UNIQUE key)
    sessions,   \* RideSessionStore::sessions_, by ride_no
    now,        \* the clock, in seconds: all that ride_no depends on
    task,       \* the requests and the locals of their handlers
    faults, crashes

vars == <<bikes, balance, records, rides, sessions, now, task, faults, crashes>>

tables == <<bikes, balance, records, rides>>

RideNo == 1 .. MaxNow

Statuses == {"idle", "rented", "damaged"}

\* The balance below which scan_unlock refuses.
kMinBalance == 100

(* A request that no handler has seen.  Of the fields only pc, op, user,   *)
(* bike, ride and fee are locals of a handler; "code" is the answer, and   *)
(* two are history: "paid" is what the request's transactions took from    *)
(* the account, "late" says that the ride had been settled before the      *)
(* request arrived.                                                        *)
Fresh == [pc |-> "new", op |-> "none", user |-> None, bike |-> None, ride |-> 0,
          fee |-> 0, code |-> "none", paid |-> 0, late |-> FALSE]

(***************************************************************************)
(* The ride numbers that the server has given out in an answer, and the   *)
(* rides whose end has been answered with success.                         *)
(***************************************************************************)
Issued == {task[r].ride : r \in {q \in Request : task[q].op = "unlock" /\ task[q].code = "ok"}}

Settled == {task[r].ride : r \in {q \in Request : task[q].op = "end" /\ task[q].code = "ok"}}

Init ==
    /\ bikes \in [Bike -> {"idle", "damaged"}]
    /\ balance \in [User -> Balances]
    /\ records = [u \in User |-> <<>>]
    /\ rides = [n \in RideNo |-> None]
    /\ sessions = [n \in RideNo |-> None]
    /\ now = 1
    /\ task = [r \in Request |-> Fresh]
    /\ faults = 0
    /\ crashes = 0

At(r, pc) == task[r].pc = pc

Goto(r, pc) == task' = [task EXCEPT ![r].pc = pc]

\* The handler returns.
Answer(r, code) == task' = [task EXCEPT ![r].pc = "done", ![r].code = code]

\* MySQL refuses a statement: the repositories log it and return a default.
Fault == faults < MaxFaults /\ faults' = faults + 1

NoFault == faults' = faults

-----------------------------------------------------------------------------
(***************************************************************************)
(* A request arrives.  It names its user by a session token and a bike or  *)
(* a ride by its number; end_ride is called with numbers that scan_unlock  *)
(* has answered.  A request that does not parse, whose token is unknown or *)
(* whose fields are out of range is refused before any table is read.      *)
(***************************************************************************)
Arrive(r, op, u, b, n, pc) ==
    /\ At(r, "new")
    /\ task' = [task EXCEPT ![r] = [Fresh EXCEPT !.pc = pc, !.op = op, !.user = u,
                                                 !.bike = b, !.ride = n,
                                                 !.late = (op = "end" /\ n \in Settled)]]
    /\ UNCHANGED <<tables, sessions, now, faults, crashes>>

ScanUnlock(r) == \E u \in User, b \in Bike : Arrive(r, "unlock", u, b, 0, "lock")

ReportDamage(r) == \E u \in User, b \in Bike : Arrive(r, "damage", u, b, 0, "lock")

EndRide(r) == \E u \in User, n \in Issued : Arrive(r, "end", u, None, n, "find")

Recharge(r) == \E u \in User : Arrive(r, "recharge", u, None, 0, "credit")

Refuse(r) ==
    /\ At(r, "new")
    /\ Answer(r, "refused")
    /\ UNCHANGED <<tables, sessions, now, faults, crashes>>

-----------------------------------------------------------------------------
(***************************************************************************)
(* The statements of the repositories that change a table.  A statement    *)
(* that MySQL refuses changes nothing.                                     *)
(***************************************************************************)
update_status(b, s) ==
    \/ NoFault /\ bikes' = [bikes EXCEPT ![b] = s]
    \/ Fault /\ UNCHANGED bikes

\* Seeded fault: the rollback forgotten, so that the balance moves without a record.
add_balance_NoRollback(u, amount) ==
    \/ /\ NoFault
       /\ balance' = [balance EXCEPT ![u] = @ + amount]
       /\ records' = [records EXCEPT
              ![u] = Append(@, [amount |-> amount, balance_after |-> balance[u] + amount])]
    \/ Fault /\ balance' = [balance EXCEPT ![u] = @ + amount] /\ UNCHANGED records

(* add_balance up to its COMMIT: one transaction updates the balance and   *)
(* appends the record, or is rolled back.  The balance may go below zero.  *)
add_balance(u, amount) ==
    \/ /\ NoFault
       /\ balance' = [balance EXCEPT ![u] = @ + amount]
       /\ records' = [records EXCEPT
              ![u] = Append(@, [amount |-> amount, balance_after |-> balance[u] + amount])]
    \/ Fault /\ UNCHANGED <<balance, records>>

\* get_balance returns bal: 0 when the query fails.
get_balance(u, bal) ==
    \/ NoFault /\ bal = balance[u]
    \/ Fault /\ bal = 0

(* create_with_points: ride_no is a UNIQUE key, so a second row with the   *)
(* same number is refused like any other statement that fails.             *)
create_with_points(n, row) ==
    \/ NoFault /\ rides' = [rides EXCEPT ![n] = IF @ = None THEN row ELSE @]
    \/ Fault /\ UNCHANGED rides

-----------------------------------------------------------------------------
(***************************************************************************)
(* scan_unlock and report_damage begin with get_for_update: a SELECT ...   *)
(* FOR UPDATE outside a transaction.  It commits by itself and its row     *)
(* lock ends with it, so it is a read of the status.                       *)
(***************************************************************************)
GetBike(r) ==
    /\ At(r, "lock")
    /\ \/ /\ NoFault
          /\ CASE task[r].op = "damage"               -> Goto(r, "damage")
               [] bikes[task[r].bike] = "damaged"     -> Answer(r, "damaged")
               [] bikes[task[r].bike] = "rented"      -> Answer(r, "running")
               [] OTHER                               -> Goto(r, "balance")
       \/ Fault /\ Answer(r, "invalid_data")
    /\ UNCHANGED <<tables, sessions, now, crashes>>

CheckBalance(r) ==
    /\ At(r, "balance")
    /\ \E bal \in {0, balance[task[r].user]} :
          /\ get_balance(task[r].user, bal)
          /\ IF bal < kMinBalance THEN Answer(r, "process_failed") ELSE Goto(r, "create")
    /\ UNCHANGED <<tables, sessions, now, crashes>>

\* The ride number is the second of the clock; a session under it is replaced.
CreateSession(r) ==
    /\ At(r, "create")
    /\ sessions' = [sessions EXCEPT ![now] = [user |-> task[r].user, bike |-> task[r].bike]]
    /\ task' = [task EXCEPT ![r].pc = "rent", ![r].ride = now]
    /\ UNCHANGED <<tables, now, faults, crashes>>

SetRented(r) ==
    /\ At(r, "rent")
    /\ update_status(task[r].bike, "rented")
    /\ Answer(r, "ok")
    /\ UNCHANGED <<balance, records, rides, sessions, now, crashes>>

SetDamaged(r) ==
    /\ At(r, "damage")
    /\ update_status(task[r].bike, "damaged")
    /\ Answer(r, "ok")
    /\ UNCHANGED <<balance, records, rides, sessions, now, crashes>>

-----------------------------------------------------------------------------
(***************************************************************************)
(* end_ride works on a copy of the session from here to its last step.     *)
(***************************************************************************)
FindSession(r) ==
    /\ At(r, "find")
    /\ LET sess == sessions[task[r].ride]
       IN  \/ /\ sess = None
              /\ Goto(r, "history")
           \/ /\ sess # None
              /\ sess.user # task[r].user
              /\ Answer(r, "unauthorized")
           \/ /\ sess # None
              /\ sess.user = task[r].user
              /\ \E d \in Durations :
                    task' = [task EXCEPT ![r].pc = "debit", ![r].bike = sess.bike,
                                         ![r].fee = compute_fee(IF d < 0 THEN 0 ELSE d)]
    /\ UNCHANGED <<tables, sessions, now, faults, crashes>>

\* The idempotent path: the ride is over, and its row is the answer.
FindHistory(r) ==
    /\ At(r, "history")
    /\ LET row == rides[task[r].ride]
       IN  \/ /\ NoFault
              /\ Answer(r, CASE row = None               -> "invalid_data"
                             [] row.user # task[r].user  -> "unauthorized"
                             [] OTHER                    -> "history")
           \/ Fault /\ Answer(r, "invalid_data")
    /\ UNCHANGED <<tables, sessions, now, crashes>>

Debit(r) ==
    /\ At(r, "debit")
    /\ add_balance(task[r].user, -task[r].fee)
    /\ task' = [task EXCEPT ![r].pc = "readback",
                            ![r].paid = balance[task[r].user] - balance'[task[r].user]]
    /\ UNCHANGED <<bikes, rides, sessions, now, crashes>>

(* add_balance ends with get_balance, whether or not its transaction was   *)
(* committed, and end_ride takes a negative result for a refusal.          *)
ReadBack(r) ==
    /\ At(r, "readback")
    /\ \E bal \in {0, balance[task[r].user]} :
          /\ get_balance(task[r].user, bal)
          /\ IF bal < 0 THEN Answer(r, "process_failed") ELSE Goto(r, "record")
    /\ UNCHANGED <<tables, sessions, now, crashes>>

\* Seeded fault: the fare of the row computed from a second reading of the clock.
CreateRide_ComputesAgain(r) ==
    /\ At(r, "record")
    /\ \E d \in Durations :
          create_with_points(task[r].ride,
              [user |-> task[r].user, bike |-> task[r].bike, amount |-> compute_fee(d)])
    /\ Goto(r, "return")
    /\ UNCHANGED <<bikes, balance, records, sessions, now, crashes>>

\* Seeded fault: the bike is not given back.
CreateRide_KeepsBike(r) ==
    /\ At(r, "record")
    /\ create_with_points(task[r].ride,
           [user |-> task[r].user, bike |-> task[r].bike, amount |-> task[r].fee])
    /\ Goto(r, "remove")
    /\ UNCHANGED <<bikes, balance, records, sessions, now, crashes>>

CreateRide(r) ==
    /\ At(r, "record")
    /\ create_with_points(task[r].ride,
           [user |-> task[r].user, bike |-> task[r].bike, amount |-> task[r].fee])
    /\ Goto(r, "return")
    /\ UNCHANGED <<bikes, balance, records, sessions, now, crashes>>

SetIdle(r) ==
    /\ At(r, "return")
    /\ update_status(task[r].bike, "idle")
    /\ Goto(r, "remove")
    /\ UNCHANGED <<balance, records, rides, sessions, now, crashes>>

\* Seeded fault: the session stays in the store.
RemoveSession_Forgotten(r) ==
    /\ At(r, "remove")
    /\ Answer(r, "ok")
    /\ UNCHANGED <<tables, sessions, now, faults, crashes>>

RemoveSession(r) ==
    /\ At(r, "remove")
    /\ sessions' = [sessions EXCEPT ![task[r].ride] = None]
    /\ Answer(r, "ok")
    /\ UNCHANGED <<tables, now, faults, crashes>>

Credit(r) ==
    /\ At(r, "credit")
    /\ \E amount \in Amounts : add_balance(task[r].user, amount)
    /\ Answer(r, "ok")
    /\ UNCHANGED <<bikes, rides, sessions, now, crashes>>

-----------------------------------------------------------------------------
Tick ==
    /\ now < MaxNow
    /\ now' = now + 1
    /\ UNCHANGED <<tables, sessions, task, faults, crashes>>

(* The dispatch process dies and is started again: the sessions were in    *)
(* its memory, and the requests being handled are never answered.          *)
Running(r) == task[r].pc \notin {"new", "done", "lost"}

Crash ==
    /\ crashes < MaxCrashes
    /\ crashes' = crashes + 1
    /\ sessions' = [n \in RideNo |-> None]
    /\ task' = [r \in Request |-> IF Running(r) THEN [task[r] EXCEPT !.pc = "lost"] ELSE task[r]]
    /\ UNCHANGED <<tables, now, faults>>

Handle(r) ==
    \/ ScanUnlock(r) \/ ReportDamage(r) \/ EndRide(r) \/ Recharge(r) \/ Refuse(r)
    \/ GetBike(r) \/ CheckBalance(r) \/ CreateSession(r) \/ SetRented(r) \/ SetDamaged(r)
    \/ FindSession(r) \/ FindHistory(r) \/ Debit(r) \/ ReadBack(r) \/ CreateRide(r)
    \/ SetIdle(r) \/ RemoveSession(r) \/ Credit(r)

Next == Tick \/ Crash \/ \E r \in Request : Handle(r)

Spec == Init /\ [][Next]_vars

-----------------------------------------------------------------------------
(***************************************************************************)
(* Properties.                                                             *)
(***************************************************************************)
\* The tables, the sessions and the requests hold values of their types.
TypeOK ==
    /\ bikes \in [Bike -> Statuses]
    /\ balance \in [User -> Int]
    /\ records \in [User -> Seq([amount : Int, balance_after : Int])]
    /\ rides \in [RideNo -> [user : User, bike : Bike, amount : Int] \cup {None}]
    /\ sessions \in [RideNo -> [user : User, bike : Bike] \cup {None}]
    /\ now \in RideNo
    /\ \A r \in Request :
          /\ task[r].user \in User \cup {None}
          /\ task[r].bike \in Bike \cup {None}
          /\ task[r].ride \in RideNo \cup {0}
          /\ task[r].late \in BOOLEAN
    /\ faults \in 0 .. MaxFaults
    /\ crashes \in 0 .. MaxCrashes

\* scan_unlock has never given the same number to two rides.  It may, when
\* two requests reach it within one second.
NumbersUnique ==
    \A r, q \in {p \in Request : task[p].op = "unlock" /\ task[p].ride # 0} :
        r # q => task[r].ride # task[q].ride

(* The account records of a user explain the balance, whatever the         *)
(* interleaving of recharges and debits, with refused statements and       *)
(* crashes: each balance_after is the one before plus the amount, and the  *)
(* last one is the balance.  This is the transaction of add_balance.       *)
RecordsExplainBalance ==
    \A u \in User :
        LET rec == records[u]
        IN  rec # <<>> =>
              /\ rec[Len(rec)].balance_after = balance[u]
              /\ \A i \in 1 .. Len(rec) - 1 :
                    rec[i+1].balance_after = rec[i].balance_after + rec[i+1].amount

(* A row of the ride table was paid for by its user, in full, although     *)
(* end_ride debits in one transaction and inserts the row in another and   *)
(* may die between them.  A refused debit is another matter: add_balance   *)
(* rolls back, returns the old balance, and the ride is recorded unpaid.   *)
RecordedRidesPaid ==
    faults = 0 => \A n \in RideNo : rides[n] # None =>
        \E r \in Request : /\ task[r].op = "end"
                           /\ task[r].ride = n
                           /\ task[r].user = rides[n].user
                           /\ task[r].paid = rides[n].amount

(* A rented bike has a rider: some session of the store is for it, so an   *)
(* end_ride can return it.  end_ride gives the bike back before it removes *)
(* the session, scan_unlock creates the session before it takes the bike.  *)
(* A crash, which loses the sessions, leaves rented bikes without one, and *)
(* so does a refused UPDATE, whose result end_ride does not look at.       *)
RentedBikeHasSession ==
    (NumbersUnique /\ faults = 0 /\ crashes = 0) => \A b \in Bike : bikes[b] = "rented" =>
        \E n \in RideNo : sessions[n] # None /\ sessions[n].bike = b

(* An end_ride that arrives after the ride was settled takes no money: it  *)
(* finds no session and answers from the ride table.  This holds across    *)
(* crashes and refused statements.                                         *)
SettledRideIsFree ==
    NumbersUnique => \A r \in Request : task[r].late => task[r].paid = 0

-----------------------------------------------------------------------------
(***************************************************************************)
(* What the documents say of these handlers and the code does not do.      *)
(***************************************************************************)
(* Concurrent scans of one bike are serialised by a row lock, so that no   *)
(* two sessions are for the same bike (scan_unlock).                       *)
OneSessionPerBike ==
    \A m, n \in RideNo : (m # n /\ sessions[m] # None /\ sessions[n] # None) =>
        sessions[m].bike # sessions[n].bike

(* A debit that the balance does not cover is refused and changes nothing, *)
(* so no balance is ever negative (add_balance).                           *)
BalanceNeverNegative == \A u \in User : balance[u] >= 0

(* However often end_ride is called for a ride, it is charged once.        *)
RideChargedOnce ==
    \A n \in RideNo :
        Cardinality({r \in Request : task[r].op = "end" /\ task[r].ride = n
                                     /\ task[r].paid > 0}) <= 1

(* A bike reported as damaged stays damaged: no operation repairs one, and *)
(* a scan after the report is refused.                                     *)
DamageIsKept ==
    \A r \in Request : (task[r].op = "damage" /\ task[r].code = "ok") =>
        bikes[task[r].bike] = "damaged"
=============================================================================
