----------------------------- MODULE Trajectory -----------------------------
(***************************************************************************)
(* The recorded path of one ride: TrajectoryModel ticks on the client and   *)
(* reports each position, the business threads of bike-dispatch handle the  *)
(* reports in any order (position_report, RideSessionStore::update_pos),    *)
(* end_ride copies the session, settles and stores the points, and a failed *)
(* end makes the client start its model again (RidePane.qml).               *)
(*                                                                          *)
(* A position is the number of the tick it was taken at, counted over the   *)
(* whole ride.                                                              *)
(***************************************************************************)
EXTENDS Integers, Sequences, SequencesExt, FiniteSets

CONSTANTS
  kMaxPoints,   \* points a session keeps
  MaxTicks,     \* ticks of the client's timer in all
  MaxFlight,    \* reports sent and not yet handled
  MaxEnds,      \* ends of the ride refused for lack of money
  MaxBack       \* how far the server's clock is set back during the ride

ASSUME TrajectoryAssumption ==
  kMaxPoints \in Nat \ {0} /\ {MaxTicks, MaxFlight, MaxEnds, MaxBack} \subseteq Nat

VARIABLES
  active, seq, elapsed,  \* TrajectoryModel and its TrajectorySim
  pos,       \* ticks so far: where the client is, and the time
  flight,    \* reports on their way to update_pos
  exists, last_seq, last_pos, points,  \* the RideSession
  ending,    \* end_ride: its step, its copy of the session, and by how much the
             \* clock it read had been set back
  stored,    \* rows of ride_position, as list_points reads them
  handled,   \* history: the reports handled while the session existed
  restarts,  \* ends refused so far
  clean      \* history: no report was under way at any of them

client == <<active, seq, elapsed, pos>>
server == <<exists, last_seq, last_pos, points>>
tvars == <<client, flight, server, ending, stored, handled, restarts, clean>>

Point(s, e, p) == [seq |-> s, elapsed |-> e, pos |-> p]
NoEnd == [step |-> "none", points |-> <<>>, back |-> 0]

TrajectoryInit ==
  /\ active = TRUE /\ seq = 0 /\ elapsed = 0 /\ pos = 0 /\ flight = {}
  /\ exists = TRUE /\ last_seq = 0 /\ last_pos = 0 /\ points = <<>>
  /\ ending = NoEnd /\ stored = <<>> /\ handled = {} /\ restarts = 0 /\ clean = TRUE

\* TrajectorySim: a step numbers the next position; start begins again at 0.
step == seq' = seq + 1 /\ pos' = pos + 1
start == seq' = 0 /\ elapsed' = 0 /\ active' = TRUE

\* TrajectoryModel::onTick and the slot of RidePane.qml that reports it.
onTick ==
  /\ active /\ pos < MaxTicks /\ Cardinality(flight) < MaxFlight
  /\ elapsed' = elapsed + 1 /\ step
  /\ flight' = flight \cup {Point(seq', elapsed', pos')}
  /\ UNCHANGED <<active, server, ending, stored, handled, restarts, clean>>

\* Time passes while the model is stopped.
Wait ==
  /\ ~active /\ pos < MaxTicks /\ pos' = pos + 1
  /\ UNCHANGED <<active, seq, elapsed, flight, server, ending, stored, handled, restarts, clean>>

acceptedAll(p) == TRUE

\* The test of update_pos: nothing seen yet, or a later number.
accepted(p) == ~((last_seq # 0 \/ points # <<>>) /\ p.seq <= last_seq)

\* The oldest point goes when there are more than kMaxPoints.
kept(ps) == IF Len(ps) > kMaxPoints THEN Tail(ps) ELSE ps

update_pos(p) ==
  IF exists /\ accepted(p)
    THEN last_seq' = p.seq /\ last_pos' = p.pos /\ points' = kept(Append(points, p))
    ELSE UNCHANGED <<last_seq, last_pos, points>>

\* A thread takes any report; one for a session that is gone is dropped.
position_report == \E p \in flight :
  /\ flight' = flight \ {p} /\ update_pos(p)
  /\ handled' = IF exists THEN handled \cup {p} ELSE handled
  /\ UNCHANGED <<client, exists, ending, stored, restarts, clean>>

\* RidePane's button: the model stops, then end_ride is asked for.
endRide ==
  /\ active /\ ending = NoEnd /\ active' = FALSE
  /\ ending' = [NoEnd EXCEPT !.step = "find"]
  /\ UNCHANGED <<seq, elapsed, pos, flight, server, stored, handled, restarts, clean>>

\* duration_sec: the server's clock now, less that of the start, at least 0.
duration(back) == IF pos > back THEN pos - back ELSE 0

\* The start, the points of the session, the end.
fullPath(back) ==
  <<Point(0, 0, 0)>> \o points \o <<Point(last_seq + 1, duration(back), pos)>>

\* end_ride copies the session and reads the clock, which may have been set back.
Copy ==
  /\ ending.step = "find" /\ exists
  /\ \E back \in 0..MaxBack :
       ending' = [step |-> "settle", points |-> fullPath(back), back |-> back]
  /\ UNCHANGED <<client, flight, server, stored, handled, restarts, clean>>

\* The account does not hold the fee: the session stays, and RidePane starts
\* the model again where it is.
EndRefused ==
  /\ ending.step = "settle" /\ restarts < MaxEnds /\ restarts' = restarts + 1
  /\ ending' = NoEnd /\ start /\ clean' = (clean /\ flight = {})
  /\ UNCHANGED <<pos, flight, server, stored, handled>>

\* The order list_points reads the rows in.
list_points(ps) == SortSeq(ps, LAMBDA a, b : a.seq < b.seq)

\* The rows of the ride; the order std::sort leaves them in does not survive.
EndStored ==
  /\ ending.step = "settle" /\ stored' = list_points(ending.points)
  /\ ending' = [ending EXCEPT !.step = "remove"]
  /\ UNCHANGED <<client, flight, server, handled, restarts, clean>>

EndRemoves ==
  /\ ending.step = "remove" /\ exists' = FALSE /\ ending' = [ending EXCEPT !.step = "done"]
  /\ UNCHANGED <<client, flight, last_seq, last_pos, points, stored, handled, restarts, clean>>

TrajectoryNext ==
  onTick \/ Wait \/ position_report \/ endRide \/ Copy \/ EndRefused \/ EndStored \/ EndRemoves

-----------------------------------------------------------------------------
(* Properties.                                                              *)

TrajectoryTypeOK ==
  LET P == [seq : 0..MaxTicks + 1, elapsed : 0..MaxTicks, pos : 0..MaxTicks] IN
  /\ {active, exists, clean} \subseteq BOOLEAN
  /\ {seq, elapsed, pos, last_seq, last_pos} \subseteq 0..MaxTicks
  /\ flight \cup handled \subseteq P /\ {points, stored, ending.points} \subseteq Seq(P)

\* The points of a session are in the order the rider passed them, although
\* the threads take reports in any order and numbers begin again after a
\* refused end (unless a report from before it is still under way then).
RecordedInTravelOrder ==
  clean => \A i, j \in DOMAIN points : i < j => points[i].pos < points[j].pos

\* A session keeps at most kMaxPoints points, the newest among them, and its
\* last position is the furthest one handled; the last holds until a refused
\* end makes the numbers begin again.
NewestKept ==
  /\ Len(points) <= kMaxPoints
  /\ points # <<>> => Last(points).seq = last_seq /\ Last(points).pos = last_pos
  /\ restarts = 0 => \A p \in handled : p.pos <= last_pos

\* A replay goes from the start to the end of the ride in the order it was
\* ridden, whatever the server's clock did, although list_points orders by seq;
\* and in time order as well (end_ride.cpp:72) unless the clock was set back.
StoredInOrder ==
  /\ stored # <<>> => stored[1].pos = 0 /\ Last(stored) = Last(ending.points)
  /\ \A i, j \in DOMAIN stored : i < j =>
       /\ clean => stored[i].pos <= stored[j].pos
       /\ ending.back = 0 => stored[i].elapsed <= stored[j].elapsed

\* The path of a ride keeps its order from the session to the replay, and loses
\* its oldest points first.
PathKept == RecordedInTravelOrder /\ NewestKept /\ StoredInOrder

\* Not so: "the sort guarantees that storage and replay are in time order"
\* (end_ride.cpp:72).  After the clock was set back the end of the ride is earlier
\* than points before it, and list_points reads it after them.
StoredInTimeOrder ==
  \A i, j \in DOMAIN stored : i < j => stored[i].elapsed <= stored[j].elapsed

\* Not so: after a refused end "the ride has been resumed" (RidePane.qml:129).
\* The model counts from 0 again, and update_pos ignores its reports until
\* the count passes last_seq.
ResumedRideTracked == \A p \in handled : clean => p.pos <= last_pos
=============================================================================
