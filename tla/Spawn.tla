------------------------------- MODULE Spawn -------------------------------
(***************************************************************************)
(* list_nearby_bikes in one area: a handler counts the bikes it finds there *)
(* and, when they are fewer than kSpawnThreshold, inserts new ones up to    *)
(* kSpawnTarget, one statement each, while other handlers do the same and   *)
(* bikes are rented, returned and reported damaged.                         *)
(***************************************************************************)
EXTENDS Integers, FiniteSets

CONSTANTS
  Handler,          \* threads in list_nearby_bikes for this area
  kSpawnThreshold, kSpawnTarget,
  kMaxNoRetry,      \* attempts at a free bike number
  MaxRequests,      \* requests for the area
  MaxLeaving,       \* rentals and damage reports in the area
  MaxRefused        \* statements refused (insert: the number is taken)

ASSUME SpawnAssumption ==
  /\ kSpawnThreshold \in Nat /\ kSpawnTarget \in Nat /\ kSpawnThreshold <= kSpawnTarget
  /\ kMaxNoRetry \in Nat \ {0} /\ {MaxRequests, MaxLeaving, MaxRefused} \subseteq Nat

VARIABLES
  idle, rented, damaged,  \* bikes of the area in the table, by status
  hs,        \* per handler: step, bikes still to insert, attempts, bikes of the
             \* reply and those of them that can be rented
  requests, leaving, refused,
  waves,     \* history: handlers that decided to spawn
  overlap,   \* history: two handlers were between query and reply at once
  causes     \* history: rentals that left the area below the threshold, queries
             \* refused, bikes given up; one for an area below it at the start

pvars == <<idle, rented, damaged, hs, requests, leaving, refused, waves, overlap, causes>>

Resting == [step |-> "resting", need |-> 0, attempt |-> 0, near |-> 0, free |-> 0]

SpawnInit ==
  /\ idle \in 0..kSpawnTarget /\ rented = 0 /\ damaged = 0 /\ hs = [h \in Handler |-> Resting]
  /\ requests = 0 /\ leaving = 0 /\ refused = 0 /\ waves = 0 /\ overlap = FALSE
  /\ causes = IF idle < kSpawnThreshold THEN 1 ELSE 0

Busy(h) == \E g \in Handler \ {h} : hs[g].step = "spawn"

\* The query: idle and damaged bikes are listed (status IN (0,2)), rented ones
\* are not; a refused query lists nothing.
list_in_bounds(n, free) ==
  \/ free = idle /\ n = idle + damaged /\ UNCHANGED <<refused, causes>>
  \/ free = 0 /\ n = 0 /\ refused < MaxRefused /\ refused' = refused + 1 /\ causes' = causes + 1

sparseLoose(n) == n <= kSpawnThreshold
\* static_cast<int>(near.size()) < kSpawnThreshold
sparse(n) == n < kSpawnThreshold

list_nearby_bikes(h) == \E n \in 0..(idle + damaged), free \in 0..idle :
  /\ hs[h].step = "resting" /\ requests < MaxRequests /\ requests' = requests + 1
  /\ list_in_bounds(n, free)
  /\ hs' = [hs EXCEPT ![h] =
       IF sparse(n) THEN [step |-> "spawn", need |-> kSpawnTarget - n, attempt |-> 0,
                          near |-> n, free |-> free]
                    ELSE [Resting EXCEPT !.step = "reply", !.near = n, !.free = free]]
  /\ waves' = IF sparse(n) THEN waves + 1 ELSE waves
  /\ overlap' = (overlap \/ Busy(h))
  /\ UNCHANGED <<idle, rented, damaged, leaving>>

\* MysqlBikeRepo::insert: refused when the number is taken, or for any reason.
insert(ok) ==
  \/ ok /\ idle' = idle + 1 /\ UNCHANGED refused
  \/ ~ok /\ refused < MaxRefused /\ refused' = refused + 1 /\ UNCHANGED idle

\* One attempt at one bike; after kMaxNoRetry failures the bike is given up.
spawn_bikes(h) == \E ok \in BOOLEAN :
  LET givenUp == ~ok /\ hs[h].attempt + 1 = kMaxNoRetry
      one == IF ok THEN 1 ELSE 0
  IN
  /\ hs[h].step = "spawn" /\ hs[h].need > 0 /\ insert(ok)
  /\ hs' = [hs EXCEPT ![h].near = @ + one, ![h].free = @ + one,
                      ![h].need = IF ok \/ givenUp THEN @ - 1 ELSE @,
                      ![h].attempt = IF ok \/ givenUp THEN 0 ELSE @ + 1]
  /\ causes' = IF givenUp THEN causes + 1 ELSE causes
  /\ UNCHANGED <<rented, damaged, requests, leaving, waves, overlap>>

SpawnDone(h) ==
  /\ hs[h].step = "spawn" /\ hs[h].need = 0 /\ hs' = [hs EXCEPT ![h].step = "reply"]
  /\ UNCHANGED <<idle, rented, damaged, requests, leaving, refused, waves, overlap, causes>>

\* The response with the bikes found and spawned.
SpawnReply(h) ==
  /\ hs[h].step = "reply" /\ hs' = [hs EXCEPT ![h] = Resting]
  /\ UNCHANGED <<idle, rented, damaged, requests, leaving, refused, waves, overlap, causes>>

\* scan_unlock, end_ride and report_damage change the status of a bike of the area.
Rent ==
  /\ idle > 0 /\ leaving < MaxLeaving /\ leaving' = leaving + 1
  /\ idle' = idle - 1 /\ rented' = rented + 1
  /\ causes' = IF idle' + damaged < kSpawnThreshold THEN causes + 1 ELSE causes
  /\ UNCHANGED <<damaged, hs, requests, refused, waves, overlap>>

Return ==
  /\ rented > 0 /\ idle' = idle + 1 /\ rented' = rented - 1
  /\ UNCHANGED <<damaged, hs, requests, leaving, refused, waves, overlap, causes>>

Damage ==
  /\ idle > 0 /\ leaving < MaxLeaving /\ leaving' = leaving + 1
  /\ idle' = idle - 1 /\ damaged' = damaged + 1
  /\ UNCHANGED <<rented, hs, requests, refused, waves, overlap, causes>>

SpawnNext ==
  \/ \E h \in Handler :
       list_nearby_bikes(h) \/ spawn_bikes(h) \/ SpawnDone(h) \/ SpawnReply(h)
  \/ Rent \/ Return \/ Damage

-----------------------------------------------------------------------------
(* Properties.                                                              *)

SpawnTypeOK ==
  /\ {idle, rented, damaged, requests, refused, waves, causes} \subseteq Nat /\ overlap \in BOOLEAN
  /\ hs \in [Handler -> [step : {"resting", "spawn", "reply"}, need : 0..kSpawnTarget,
                         attempt : 0..kMaxNoRetry - 1, near : Nat, free : Nat]]

\* Handlers that do not overlap spawn again only after a rental has left the
\* area below the threshold (list_nearby_bikes.cpp:20-22), a query was
\* refused (it is taken for an empty area) or a bike was given up.
OneWavePerCause == ~overlap => waves <= causes

\* A reply lists at least kSpawnThreshold bikes, or statements were refused.
ReplyNotSparse == \A h \in Handler :
  hs[h].step = "reply" /\ refused = 0 => hs[h].near >= kSpawnThreshold

\* Bikes are spawned where they are missing and, by handlers that do not overlap,
\* once only.
SpawnsAsNeeded == OneWavePerCause /\ ReplyNotSparse

\* Not so: bikes reported damaged are replaced ("spawns again once bikes
\* rented or reported bring the area below the threshold",
\* list_nearby_bikes.cpp:21-22).  Damaged bikes are still counted.
ReportedReplaced == \A h \in Handler :
  hs[h].step = "reply" /\ refused = 0 => hs[h].free >= kSpawnThreshold

\* Not so: at most one wave per area until bikes are taken
\* (list_nearby_bikes.cpp:21).  Two handlers that overlap both spawn.
OneWaveEver == waves <= causes
=============================================================================
