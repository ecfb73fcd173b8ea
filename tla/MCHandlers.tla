----------------------------- MODULE MCHandlers -----------------------------
(***************************************************************************)
(* Four parts that share no state, checked in one run: log-in and sessions,  *)
(* the recorded path of a ride, spawning, and the frames of the protocol.   *)
(* An execution exercises the part chosen at its start.                     *)
(***************************************************************************)
EXTENDS Sessions, Trajectory, Spawn, Frames, TLC

VARIABLE part

Init ==
  /\ part \in {"sessions", "trajectory", "spawn", "frames"}
  /\ SessionsInit /\ TrajectoryInit /\ SpawnInit /\ FramesInit
  /\ part # "spawn" => idle = 0

Next ==
  \/ part = "sessions" /\ SessionsNext /\ UNCHANGED <<part, tvars, pvars, fvars>>
  \/ part = "trajectory" /\ TrajectoryNext /\ UNCHANGED <<part, svars, pvars, fvars>>
  \/ part = "spawn" /\ SpawnNext /\ UNCHANGED <<part, svars, tvars, fvars>>
  \/ part = "frames" /\ FramesNext /\ UNCHANGED <<part, svars, tvars, pvars>>

Spec == Init /\ [][Next]_<<part, svars, tvars, pvars, fvars>>

Threads == Permutations(Thread) \cup Permutations(Handler)

\* Frames with and without a payload, and one too long to be encoded.
SomeFrames ==
  {[event_id |-> e, seq |-> q, payload |-> p] :
     e \in {1, 6}, q \in {0, 9}, p \in {<<>>, <<3>>, <<0, 3, 2>>, <<1, 1, 1, 1>>}}

=============================================================================
