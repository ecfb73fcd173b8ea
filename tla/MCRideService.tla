---------------------------- MODULE MCRideService ----------------------------
(***************************************************************************)
(* Small instances of RideService: a ride of a quarter of an hour or less  *)
(* costs 100 cents, one second more costs 150.                             *)
(*                                                                         *)
(* MCSpec puts two scenarios in one run.  Under "contention" two users who *)
(* can pay for everything race and nothing fails.  Under "faults" the      *)
(* requests are of one user, who may be short of money, a statement may be *)
(* refused and the process may crash.                                      *)
(***************************************************************************)
EXTENDS RideService, TLC

VARIABLE scenario

MCDurations == {0, 901}
MCAmounts == {100}
MCBalances == {50, 250, 1000}
MCRich == {1000}
OneDuration == {900}

MCInit ==
    /\ Init
    /\ scenario \in {"contention", "faults"}
    /\ \A u \in User : IF scenario = "contention" THEN balance[u] = 1000
                                                  ELSE balance[u] \in {50, 250}
    /\ \A u, v \in User : balance[u] = balance[v]

Users == {task[r].user : r \in Request} \ {None}

MCNext ==
    /\ Next
    /\ scenario' = scenario
    /\ IF scenario = "contention" THEN faults' = 0 /\ crashes' = 0
                                  ELSE Cardinality(Users') <= 1

MCSpec == MCInit /\ [][MCNext]_<<vars, scenario>>

Interchangeable == Permutations(Request) \cup Permutations(User) \cup Permutations(Bike)
=============================================================================
