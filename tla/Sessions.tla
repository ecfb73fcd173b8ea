------------------------------ MODULE Sessions ------------------------------
(***************************************************************************)
(* Log-in, sessions and the handlers that only read: mobile_code, login,    *)
(* require_user and account_balance, list_records, list_rides,              *)
(* get_ride_detail, run by the business threads against one Redis server    *)
(* (codes, sessions, a pool of connections) and the table userinfo.         *)
(*                                                                          *)
(* A Redis call is two steps, taking a connection and the command, since    *)
(* another thread may run between them; an SQL statement is one step.       *)
(* Codes and tokens are numbered in the order they are drawn, 0 for none.   *)
(* std::mt19937_64 rng is shared without a lock: two draws that overlap may *)
(* give one token twice.                                                    *)
(***************************************************************************)
EXTENDS Naturals, Sequences, FiniteSets

CONSTANTS
  Thread,     \* business threads of bike-dispatch
  Mobile,     \* the mobile numbers that log in
  PoolSize,   \* [redis].pool_size
  MaxCalls,   \* requests handled in all
  MaxFaults   \* SQL statements refused and outages of Redis, in all

ASSUME SessionsAssumption ==
  IsFiniteSet(Thread) /\ {PoolSize, MaxCalls, MaxFaults} \subseteq Nat

VARIABLES
  pool,      \* Impl::pool, each connection "ok" or "broken"
  up,        \* the Redis server answers
  code,      \* code:<mobile>
  session,   \* session:<token>, its mobile
  users,     \* userinfo: mobile -> id
  th,        \* what each thread is doing
  given,     \* replies of mobile_code: <<mobile, code>>, code 0 included
  issued,    \* replies of login: <<token, mobile>>
  spent,     \* history: codes that have logged someone in, reply sent
  codes, tokens,  \* drawn so far
  doubled,   \* history: two overlapping draws gave one token
  undeleted, \* history: a delete_code did not reach Redis
  calls, faults

redis == <<pool, up, code, session>>
clients == <<given, issued, spent>>
history == <<codes, tokens, doubled, undeleted, calls, faults>>
svars == <<redis, users, th, clients, history>>

Reads == {"account_balance", "list_records", "list_rides", "get_ride_detail"}
Idle == [op |-> "none", step |-> "idle", mobile |-> "none", code |-> 0, token |-> 0,
         uid |-> 0, conn |-> "none", reused |-> FALSE, ride |-> 0]
RedisStep == {"set_code", "get_code", "delete_code", "create_session", "lookup_session"}
Ids == 1..Cardinality(Mobile)
NewId == 1 + Cardinality({m \in Mobile : users[m] # 0})

\* The pool is filled while the server is up (the constructor).
SessionsInit ==
  /\ pool = [i \in 1..PoolSize |-> "ok"] /\ up = TRUE
  /\ code = [m \in Mobile |-> 0] /\ session = <<>>
  /\ users = [m \in Mobile |-> 0] /\ th = [t \in Thread |-> Idle]
  /\ given = {} /\ issued = {} /\ spent = {}
  /\ codes = 0 /\ tokens = 0 /\ doubled = FALSE /\ undeleted = FALSE
  /\ calls = 0 /\ faults = 0

-----------------------------------------------------------------------------
(* A request reaches a thread.  A client logs in with a code it was given   *)
(* and asks with a token it was given (0: the empty token).                 *)

Take(t, call) ==
  /\ th[t].step = "idle" /\ calls < MaxCalls
  /\ th' = [th EXCEPT ![t] = call] /\ calls' = calls + 1
  /\ UNCHANGED <<redis, users, clients, codes, tokens, doubled, undeleted, faults>>

mobile_code(t) == \E m \in Mobile :
  Take(t, [Idle EXCEPT !.op = "mobile_code", !.step = "set_code", !.mobile = m])

login(t) == \E g \in given :
  Take(t, [Idle EXCEPT !.op = "login", !.step = "get_code", !.mobile = g[1],
                       !.code = g[2], !.reused = g[2] \in spent])

require_user(t) == \E op \in Reads, i \in issued, r \in Ids :
  /\ op # "get_ride_detail" => r = 1
  /\ Take(t, [Idle EXCEPT !.op = op, !.step = "lookup_session", !.token = i[1],
                          !.ride = r])

-----------------------------------------------------------------------------
(* Redis.                                                                   *)

Goto(t, step) == [th[t] EXCEPT !.step = step, !.conn = "none"]
Becomes(t, r) == th' = [th EXCEPT ![t] = r]

\* Impl::acquire: the last connection of the pool, a new one when it is
\* empty; a refused connection is the next action.
acquire(t) ==
  /\ th[t].step \in RedisStep /\ th[t].conn = "none"
  /\ pool # <<>> \/ up
  /\ IF pool = <<>>
       THEN th' = [th EXCEPT ![t].conn = "ok"] /\ UNCHANGED pool
       ELSE /\ th' = [th EXCEPT ![t].conn = pool[Len(pool)]]
            /\ pool' = SubSeq(pool, 1, Len(pool) - 1)

Lease(t) == acquire(t) /\ UNCHANGED <<up, code, session, users, clients, history>>

\* No connection: each method's early return.  The client is given the code 0, or
\* the empty token.
NoConnection(t) ==
  /\ th[t].step \in RedisStep /\ th[t].conn = "none" /\ pool = <<>> /\ ~up
  /\ Becomes(t, CASE th[t].step = "delete_code" -> Goto(t, "select")
                  [] OTHER -> Idle)
  /\ given' = IF th[t].step = "set_code" THEN given \cup {<<th[t].mobile, 0>>} ELSE given
  /\ issued' = IF th[t].step = "create_session"
                 THEN issued \cup {<<0, th[t].mobile>>} ELSE issued
  /\ spent' = IF th[t].step = "create_session" THEN spent \cup {th[t].code} ELSE spent
  /\ undeleted' = (undeleted \/ th[t].step = "delete_code")
  /\ UNCHANGED <<redis, users, codes, tokens, doubled, calls, faults>>

Works(t) == th[t].conn = "ok" /\ up
release(t) == pool' = Append(pool, th[t].conn)

\* The command of step s is sent and answered, or fails on a broken
\* connection; the connection goes back to the pool either way.
Command(t, s) ==
  /\ th[t].step = s /\ th[t].conn # "none" /\ release(t) /\ UNCHANGED <<up, users, calls, faults>>

\* The code is given to the client whether or not SET succeeded.
set_code(t) ==
  /\ Command(t, "set_code") /\ Becomes(t, Idle) /\ codes' = codes + 1
  /\ code' = IF Works(t) THEN [code EXCEPT ![th[t].mobile] = codes'] ELSE code
  /\ given' = given \cup {<<th[t].mobile, codes'>>}
  /\ UNCHANGED <<session, issued, spent, tokens, doubled, undeleted>>

get_code(t) ==
  LET stored == IF Works(t) THEN code[th[t].mobile] ELSE 0 IN
  /\ Command(t, "get_code")
  /\ Becomes(t, IF stored # 0 /\ stored = th[t].code THEN Goto(t, "delete_code") ELSE Idle)
  /\ UNCHANGED <<code, session, clients, codes, tokens, doubled, undeleted>>

delete_codeSkipped(t) ==
  /\ Command(t, "delete_code") /\ Becomes(t, Goto(t, "select"))
  /\ UNCHANGED <<code, session, clients, codes, tokens, doubled, undeleted>>

delete_code(t) ==
  /\ Command(t, "delete_code") /\ Becomes(t, Goto(t, "select"))
  /\ code' = IF Works(t) THEN [code EXCEPT ![th[t].mobile] = 0] ELSE code
  /\ undeleted' = (undeleted \/ ~Works(t))
  /\ UNCHANGED <<session, clients, codes, tokens, doubled>>

Drawing(t) == {u \in Thread \ {t} : th[u].step = "create_session" /\ th[u].token # 0}

\* The token drawn is a new one, or one drawn by another thread that is still
\* between its draw and the end of its command.
draw(t) ==
  /\ th[t].step = "create_session" /\ th[t].conn # "none" /\ th[t].token = 0
  /\ \E twin \in {tokens + 1} \cup {th[u].token : u \in Drawing(t)} :
       /\ th' = [th EXCEPT ![t].token = twin]
       /\ doubled' = (doubled \/ twin <= tokens)
       /\ tokens' = IF twin > tokens THEN twin ELSE tokens
  /\ UNCHANGED <<redis, users, clients, codes, undeleted, calls, faults>>

Mapped(k, v) == [x \in DOMAIN session \cup {k} |-> IF x = k THEN v ELSE session[x]]

\* SET may fail unnoticed: the token is returned all the same.
create_session(t) ==
  /\ th[t].token # 0 /\ Command(t, "create_session") /\ Becomes(t, Idle)
  /\ session' = IF Works(t) THEN Mapped(th[t].token, th[t].mobile) ELSE session
  /\ issued' = issued \cup {<<th[t].token, th[t].mobile>>}
  /\ spent' = spent \cup {th[t].code}
  /\ UNCHANGED <<code, given, codes, tokens, doubled, undeleted>>

lookup_session(t) ==
  /\ Command(t, "lookup_session")
  /\ Becomes(t, IF Works(t) /\ th[t].token \in DOMAIN session
                  THEN [Goto(t, "select") EXCEPT !.mobile = session[th[t].token]]
                  ELSE Idle)
  /\ UNCHANGED <<code, session, clients, codes, tokens, doubled, undeleted>>

-----------------------------------------------------------------------------
(* MysqlUserRepo.                                                           *)

Found(t, id) ==
  [Goto(t, IF th[t].op = "login" THEN "create_session" ELSE "read") EXCEPT !.uid = id]

Refused == faults < MaxFaults /\ faults' = faults + 1
Statement == UNCHANGED <<redis, clients, codes, tokens, doubled, undeleted, calls>>

\* A SELECT that is refused is taken for a user that does not exist.
find_by_mobile(t) ==
  /\ th[t].step = "select" /\ Statement /\ UNCHANGED users
  /\ \/ /\ UNCHANGED faults
        /\ Becomes(t, IF users[th[t].mobile] # 0 THEN Found(t, users[th[t].mobile])
                                                 ELSE Goto(t, "insert"))
     \/ Refused /\ Becomes(t, Goto(t, "insert"))

find_or_createBlind(t) ==
  /\ th[t].step = "insert" /\ Statement
  /\ UNCHANGED faults
  /\ users' = IF users[th[t].mobile] = 0 THEN [users EXCEPT ![th[t].mobile] = NewId] ELSE users
  /\ Becomes(t, Found(t, NewId))

\* The INSERT fails when another thread has inserted the mobile (UNIQUE).
find_or_create(t) ==
  /\ th[t].step = "insert" /\ Statement
  /\ \/ /\ users[th[t].mobile] = 0 /\ UNCHANGED faults
        /\ users' = [users EXCEPT ![th[t].mobile] = NewId] /\ Becomes(t, Found(t, NewId))
     \/ users[th[t].mobile] # 0 /\ Becomes(t, Goto(t, "again")) /\ UNCHANGED <<users, faults>>
     \/ Refused /\ Becomes(t, Goto(t, "again")) /\ UNCHANGED users

\* After a failed INSERT the mobile is looked up again; value_or(User{}).
find_again(t) ==
  /\ th[t].step = "again" /\ Statement /\ UNCHANGED users
  /\ \/ Becomes(t, Found(t, users[th[t].mobile])) /\ UNCHANGED faults
     \/ Refused /\ Becomes(t, Found(t, 0))

-----------------------------------------------------------------------------
(* What a reading handler puts in its reply, as the ids of the users whose  *)
(* data it is.  Ride r belongs to user r.                                   *)

account_records(uid) == {uid}                      \* WHERE user_id = uid
list_by_user(uid) == {r \in Ids : r = uid}

account_balance(uid, r) == {uid}
list_records(uid, r) == account_records(uid)
list_rides(uid, r) == list_by_user(uid)

get_ride_detail(uid, r) == IF r = uid THEN {r} ELSE {}

Reply(t) ==
  CASE th[t].op = "account_balance" -> account_balance(th[t].uid, th[t].ride)
    [] th[t].op = "list_records"    -> list_records(th[t].uid, th[t].ride)
    [] th[t].op = "list_rides"      -> list_rides(th[t].uid, th[t].ride)
    [] th[t].op = "get_ride_detail" -> get_ride_detail(th[t].uid, th[t].ride)

Answer(t) ==
  /\ th[t].step = "read" /\ Becomes(t, Idle) /\ UNCHANGED <<redis, users, clients, history>>

-----------------------------------------------------------------------------
(* Redis goes away and comes back; keys expire (EX 300, EX 604800).         *)

Break(r) == IF r.conn = "ok" THEN [r EXCEPT !.conn = "broken"] ELSE r

RedisDown ==
  /\ up /\ Refused /\ up' = FALSE
  /\ pool' = [i \in DOMAIN pool |-> "broken"]
  /\ th' = [t \in Thread |-> Break(th[t])]
  /\ UNCHANGED <<code, session, users, clients, codes, tokens, doubled, undeleted, calls>>

RedisUp ==
  /\ ~up /\ up' = TRUE
  /\ UNCHANGED <<pool, code, session, users, th, clients, history>>

Expire ==
  /\ \/ \E m \in Mobile : code[m] # 0 /\ code' = [code EXCEPT ![m] = 0] /\ UNCHANGED session
     \/ \E k \in DOMAIN session :
          /\ session' = [x \in DOMAIN session \ {k} |-> session[x]] /\ UNCHANGED code
  /\ UNCHANGED <<pool, up, users, th, clients, history>>

ThreadStep(t) ==
  \/ mobile_code(t) \/ login(t) \/ require_user(t)
  \/ Lease(t) \/ NoConnection(t)
  \/ set_code(t) \/ get_code(t) \/ delete_code(t)
  \/ draw(t) \/ create_session(t) \/ lookup_session(t)
  \/ find_by_mobile(t) \/ find_or_create(t) \/ find_again(t) \/ Answer(t)

SessionsNext == (\E t \in Thread : ThreadStep(t)) \/ RedisDown \/ RedisUp \/ Expire

-----------------------------------------------------------------------------
(* Properties.                                                              *)

SessionsTypeOK ==
  /\ pool \in Seq({"ok", "broken"}) /\ up \in BOOLEAN
  /\ code \in [Mobile -> 0..MaxCalls] /\ users \in [Mobile -> {0} \cup Ids]
  /\ DOMAIN session \subseteq 1..tokens
  /\ th \in [Thread -> [op : {"none", "mobile_code", "login"} \cup Reads,
       step : {"idle", "select", "insert", "again", "read"} \cup RedisStep,
       mobile : Mobile \cup {"none"}, code : 0..MaxCalls, token : 0..MaxCalls,
       uid : {0} \cup Ids, conn : {"none", "ok", "broken"}, reused : BOOLEAN,
       ride : {0} \cup Ids]]

\* A reply holds only the data of the user who logged in with the request's
\* token, however log-ins, first requests and user creation interleave; after
\* a refused statement it may hold that of user 0 (value_or(User{}) in
\* find_or_create).  Two overlapping draws of one token are excepted.
OwnDataOnly == \A t \in Thread :
  th[t].step = "read" /\ ~doubled =>
    \A i \in issued : i[1] = th[t].token =>
      Reply(t) \subseteq {users[i[2]]} \cup (IF faults > 0 THEN {0} ELSE {})

\* A code with which a login has been answered logs nobody in again (login's
\* delete_code before find_or_create), unless the DEL did not reach Redis.
SpentCodeRefused == \A t \in Thread :
  th[t].reused /\ th[t].step \in {"select", "insert", "again", "create_session"} => undeleted

\* Not so: while the server answers, acquire lends a connection that works.
\* One broken by an outage is handed out and put back for ever.
LeasesWork == [][\A t \in Thread : Lease(t) /\ up => th'[t].conn = "ok"]_svars

\* Not so: nobody acts for another user.  Two overlapping draws from the
\* unlocked generator can give two users one token.
TokenIsOnes == \A i, j \in issued : i[1] = j[1] /\ i[1] # 0 => i[2] = j[2]

\* Not so: delete_code removes the code its login compared.  A code sent
\* while that login runs is removed instead.
DeletesOwnCode ==
  [][\A t \in Thread, m \in Mobile :
       delete_code(t) /\ m = th[t].mobile /\ code'[m] # code[m] => code[m] = th[t].code]_svars
=============================================================================
