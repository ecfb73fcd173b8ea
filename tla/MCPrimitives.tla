---------------------------- MODULE MCPrimitives ----------------------------
(***************************************************************************)
(* The two shared objects the server is built on, in one run: the ring in  *)
(* shared memory (four slots, counters that wrap at sixteen) and the pool  *)
(* of MySQL connections, once with more connections than threads and once  *)
(* with fewer, as server.toml has it.  They share no state: an execution   *)
(* exercises the part chosen at its start.                                 *)
(***************************************************************************)
EXTENDS SpscRing, MysqlPool

CONSTANTS p1, p2, FewConns

VARIABLE part

MCPacket == {p1, p2}

Short == INSTANCE MysqlPool WITH Conns <- FewConns

MCInit ==
  \/ part \in {"ring", "pool"} /\ Init /\ PoolInit
  \/ part = "short" /\ Init /\ Short!PoolInit

MCvars == <<part, vars, poolVars>>

\* The threads have made all the calls the bound allows.
AllCallsMade == part # "ring" /\ \A t \in Thread : pc[t] = "idle" /\ calls[t] = MaxCalls

MCNext ==
  \/ part = "ring" /\ Next /\ UNCHANGED <<part, poolVars>>
  \/ part # "ring" /\ PoolNext /\ UNCHANGED <<part, vars>>
  \/ AllCallsMade /\ UNCHANGED MCvars

\* The fairness of FairPoolSpec; nothing is assumed of the ring's users.
MCSpec ==
  /\ MCInit /\ [][MCNext]_MCvars
  /\ \A t \in Thread : WF_poolVars(part # "ring" /\ Step(t))
=============================================================================
