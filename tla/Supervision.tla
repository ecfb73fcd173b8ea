---------------------------- MODULE Supervision ----------------------------
(***************************************************************************)
(* The life cycle of the shared memory and the supervision of the two       *)
(* processes that share it.  bike-dispatch creates or recovers the two      *)
(* files (request rings and response ring) and exits for a relaunch when    *)
(* the gateway's heartbeat stops; bike-gateway attaches and does the same.  *)
(* Processes start, crash and are relaunched independently; two dispatch    *)
(* processes may start at once.                                             *)
(*                                                                          *)
(* Time is counted in heartbeat periods (one second).  A heartbeat is kept  *)
(* as its age.  Of the headers only what start-up and supervision read is   *)
(* kept: the gateway's pid and heartbeat in both files, the dispatch        *)
(* process's in the response file.                                          *)
(***************************************************************************)
EXTENDS Naturals, FiniteSets

CONSTANTS
  Dispatchers,  \* bike-dispatch processes that may be started
  InUse,        \* kInUseHbLimitNs, in periods
  PeerTimeout,  \* [ipc].peer_timeout_ms, in periods
  MaxFaults     \* crashes of either process, and times the reader waits in vain
                \* for room in the response ring, in all

ASSUME SupervisionAssumption ==
  /\ {InUse, PeerTimeout, MaxFaults} \subseteq Nat
  /\ 1 < InUse /\ InUse < PeerTimeout

Nobody == "nobody"

ASSUME NobodyAssumption == Nobody \notin Dispatchers

Files == {"req", "rsp"}
Spin == PeerTimeout + 1        \* full_deadline of flush_replies
Old == PeerTimeout + 1         \* ages are not told apart beyond this one
Never == Old + 1               \* heartbeat field still zero

VARIABLES
  file,      \* per file: "absent", "empty" (of length zero), "blank" (no headers
             \* yet) or "valid"
  lock,      \* per file: the holder of the flock
  gpid,      \* per file: the gateway's pid field, "zero", "live", "dead", "reused"
  ghb,       \* per file: age of the gateway's heartbeat
  dpid, dhb, \* the dispatch process's pid and heartbeat in the response file
  dpc, fresh, dcur, peer_seen, ddue, spin,   \* per dispatch process
  gpc, gcur, first, gdue,  \* the gateway; first: no heartbeat sent yet
  wrong,     \* history: the gateway has declared a live dispatch process dead
  crashes, stalls

files == <<file, lock, gpid, ghb, dpid, dhb>>
dispatch == <<dpc, fresh, dcur, peer_seen, ddue, spin>>
gateway == <<gpc, gcur, first, gdue>>
other == <<wrong, crashes, stalls>>
vars == <<files, dispatch, gateway, other>>

Step(step, f) == [step |-> step, file |-> f]
Down == Step("down", "req")
Running == Step("running", "req")
Register == Step("register", "req")
Attach == Step("attach", "req")
Assemble == Step("assemble", "req")
Stopping == Step("stopping", "req")

Init ==
  /\ file = [f \in Files |-> "absent"] /\ lock = [f \in Files |-> Nobody]
  /\ gpid = [f \in Files |-> "zero"] /\ ghb = [f \in Files |-> Never]
  /\ dpid = "zero" /\ dhb = Never
  /\ dpc = [d \in Dispatchers |-> Down] /\ fresh = [d \in Dispatchers |-> FALSE]
  /\ dcur = [d \in Dispatchers |-> {}]
  /\ peer_seen = [d \in Dispatchers |-> FALSE]
  /\ ddue = [d \in Dispatchers |-> FALSE] /\ spin = [d \in Dispatchers |-> 0]
  /\ gpc = Down /\ gcur = {} /\ first = FALSE /\ gdue = {}
  /\ wrong = FALSE /\ crashes = 0 /\ stalls = 0

-----------------------------------------------------------------------------
(* bike-dispatch: create_or_recover, file by file.                          *)

Goto(d, pc) == dpc' = [dpc EXCEPT ![d] = pc]

\* The end of a dispatch process: its descriptors, and with them its locks, go.
\* The shared memory stays as it is.
DispatchGone(d) ==
  /\ Goto(d, Down)
  /\ lock' = [f \in Files |-> IF lock[f] = d THEN Nobody ELSE lock[f]]
  /\ dpid' = IF dpc[d] \in {Assemble, Running} THEN "dead" ELSE dpid
  /\ dcur' = [dcur EXCEPT ![d] = {}]
  /\ fresh' = [fresh EXCEPT ![d] = FALSE]
  /\ peer_seen' = [peer_seen EXCEPT ![d] = FALSE]
  /\ ddue' = [ddue EXCEPT ![d] = FALSE]
  /\ spin' = [spin EXCEPT ![d] = 0]

StartDispatch(d) ==
  /\ dpc[d] = Down
  /\ Goto(d, Step("open", "req"))
  /\ UNCHANGED <<files, fresh, dcur, peer_seen, ddue, spin, gateway, other>>

\* The creator of a file still has to give it its length.
shm_create(d, f) ==
  /\ dpc[d] = Step("open", f) /\ file[f] = "absent"
  /\ file' = [file EXCEPT ![f] = "empty"]
  /\ fresh' = [fresh EXCEPT ![d] = TRUE]
  /\ Goto(d, Step("size", f))
  /\ UNCHANGED <<lock, gpid, ghb, dpid, dhb, dcur, peer_seen, ddue, spin, gateway,
                 other>>

ftruncate(d, f) ==
  /\ dpc[d] = Step("size", f)
  /\ file' = [file EXCEPT ![f] = "blank"]
  /\ Goto(d, Step("lock", f))
  /\ UNCHANGED <<lock, gpid, ghb, dpid, dhb, fresh, dcur, peer_seen, ddue, spin,
                 gateway, other>>

\* A file of length zero cannot be mapped, and the process exits.
shm_open_existing(d, f) ==
  /\ dpc[d] = Step("open", f) /\ file[f] # "absent"
  /\ IF file[f] = "empty"
     THEN DispatchGone(d)
     ELSE Goto(d, Step("lock", f)) /\ UNCHANGED <<lock, dpid, dcur, fresh, peer_seen, ddue, spin>>
  /\ UNCHANGED <<file, gpid, ghb, dhb, gateway, other>>

\* Mutant: a lock that is held does not keep anybody out.
lock_file_shared(d, f) ==
  /\ dpc[d] = Step("lock", f)
  /\ lock' = [lock EXCEPT ![f] = d]
  /\ Goto(d, Step("check", f))
  /\ UNCHANGED <<file, gpid, ghb, dpid, dhb, fresh, dcur, peer_seen, ddue, spin,
                 gateway, other>>

\* The lock is never waited for: who does not get it exits.
lock_file_exclusive(d, f) ==
  /\ dpc[d] = Step("lock", f)
  /\ IF lock[f] = Nobody
     THEN /\ lock' = [lock EXCEPT ![f] = d]
          /\ Goto(d, Step("check", f))
          /\ UNCHANGED <<dpid, dcur, fresh, peer_seen, ddue, spin>>
     ELSE DispatchGone(d)
  /\ UNCHANGED <<file, gpid, ghb, dhb, gateway, other>>

pid_alive(pid) == pid \in {"live", "reused"}

peer_in_use(f) == pid_alive(gpid[f]) /\ ghb[f] < InUse

\* A file that is new or has no valid header is written without further checks;
\* a valid one only when no gateway uses it.
Accepted(d, f) == fresh[d] \/ file[f] # "valid" \/ ~peer_in_use(f)

Accept(d, f) ==
  /\ dpc[d] = Step("check", f) /\ Accepted(d, f)
  /\ Goto(d, Step("reset", f))
  /\ UNCHANGED <<files, fresh, dcur, peer_seen, ddue, spin, gateway, other>>

Refuse(d, f) ==
  /\ dpc[d] = Step("check", f) /\ ~Accepted(d, f)
  /\ DispatchGone(d)
  /\ UNCHANGED <<file, gpid, ghb, dhb, gateway, other>>

\* All counters, pids and heartbeats become zero, so whoever took its position
\* from the header before has a position of the past.
write_headers(d, f) ==
  /\ dpc[d] = Step("reset", f)
  /\ file' = [file EXCEPT ![f] = "valid"]
  /\ gpid' = [gpid EXCEPT ![f] = "zero"]
  /\ ghb' = [ghb EXCEPT ![f] = Never]
  /\ IF f = "rsp" THEN dpid' = "zero" /\ dhb' = Never ELSE UNCHANGED <<dpid, dhb>>
  /\ gcur' = gcur \ {f}
  /\ dcur' = [e \in Dispatchers |-> dcur[e] \ {f}]
  /\ Goto(d, IF f = "req" THEN Step("open", "rsp") ELSE Attach)
  /\ fresh' = [fresh EXCEPT ![d] = FALSE]
  /\ UNCHANGED <<lock, peer_seen, ddue, spin, gpc, first, gdue, other>>

\* Take the positions of both files, register the pid, connect to the stores and
\* only then start the reader.
DispatchAttach(d) ==
  /\ dpc[d] = Attach
  /\ dcur' = [dcur EXCEPT ![d] = Files]
  /\ Goto(d, Register)
  /\ UNCHANGED <<files, fresh, peer_seen, ddue, spin, gateway, other>>

DispatchRegister(d) ==
  /\ dpc[d] = Register
  /\ dpid' = "live"
  /\ Goto(d, Assemble)
  /\ UNCHANGED <<file, lock, gpid, ghb, dhb, fresh, dcur, peer_seen, ddue, spin,
                 gateway, other>>

DispatchReady(d) ==
  /\ dpc[d] = Assemble
  /\ Goto(d, Running)
  /\ ddue' = [ddue EXCEPT ![d] = TRUE]
  /\ UNCHANGED <<files, fresh, dcur, peer_seen, spin, gateway, other>>

producer_alive == ghb["req"] < PeerTimeout

\* Mutant: the gateway is missed before it was ever seen.
DispatchTickHasty(d) ==
  /\ dpc[d] = Running /\ ddue[d] /\ spin[d] = 0
  /\ dhb' = 0
  /\ IF ~producer_alive
     THEN DispatchGone(d)
     ELSE /\ ddue' = [ddue EXCEPT ![d] = FALSE]
          /\ peer_seen' = [peer_seen EXCEPT ![d] = TRUE]
          /\ UNCHANGED <<dpc, fresh, lock, dpid, dcur, spin>>
  /\ UNCHANGED <<file, gpid, ghb, gateway, other>>

\* The reader's periodic work: its heartbeat, and a look at the gateway's.
DispatchTick(d) ==
  /\ dpc[d] = Running /\ ddue[d] /\ spin[d] = 0
  /\ dhb' = 0
  /\ IF peer_seen[d] /\ ~producer_alive
     THEN DispatchGone(d)
     ELSE /\ ddue' = [ddue EXCEPT ![d] = FALSE]
          /\ peer_seen' = [peer_seen EXCEPT ![d] = producer_alive]
          /\ UNCHANGED <<dpc, fresh, lock, dpid, dcur, spin>>
  /\ UNCHANGED <<file, gpid, ghb, gateway, other>>

\* flush_replies waits for room in the response ring, without heartbeats.
Stall(d) ==
  /\ dpc[d] = Running /\ spin[d] = 0 /\ crashes + stalls < MaxFaults
  /\ spin' = [spin EXCEPT ![d] = Spin] /\ stalls' = stalls + 1
  /\ UNCHANGED <<files, dpc, fresh, dcur, peer_seen, ddue, gateway, wrong, crashes>>

Resume(d) ==
  /\ spin[d] > 0
  /\ spin' = [spin EXCEPT ![d] = 0]
  /\ UNCHANGED <<files, dpc, fresh, dcur, peer_seen, ddue, gateway, other>>

-----------------------------------------------------------------------------
(* bike-gateway.                                                            *)

StartGateway ==
  /\ gpc = Down
  /\ gpc' = Step("open", "req")
  /\ UNCHANGED <<files, dispatch, gcur, first, gdue, other>>

\* open: both files must exist and have valid headers; any failure starts again
\* with the first, until the time is up and the process exits.
validate_file(f) ==
  /\ gpc = Step("open", f)
  /\ gpc' = IF file[f] # "valid" THEN Step("open", "req")
            ELSE IF f = "req" THEN Step("open", "rsp") ELSE Attach
  /\ UNCHANGED <<files, dispatch, gcur, first, gdue, other>>

OpenTimeout ==
  /\ gpc = Step("open", "req")
  /\ \E f \in Files : file[f] # "valid"
  /\ gpc' = Down
  /\ UNCHANGED <<files, dispatch, gcur, first, gdue, other>>

GatewayAttach ==
  /\ gpc = Attach
  /\ gcur' = Files
  /\ gpc' = Register
  /\ UNCHANGED <<files, dispatch, first, gdue, other>>

\* Heartbeats are due at once: one from the heartbeat thread for the request file,
\* one from the engine's loop for the response file.
GatewayRegister ==
  /\ gpc = Register
  /\ gpid' = [f \in Files |-> "live"]
  /\ gpc' = Running /\ first' = TRUE /\ gdue' = Files
  /\ UNCHANGED <<file, lock, ghb, dpid, dhb, dispatch, gcur, other>>

Serving == gpc \in {Running, Stopping}

heartbeat_all ==
  /\ Serving /\ "req" \in gdue
  /\ gdue' = gdue \ {"req"} /\ first' = FALSE
  /\ ghb' = [ghb EXCEPT !["req"] = 0]
  /\ UNCHANGED <<file, lock, gpid, dpid, dhb, dispatch, gpc, gcur, other>>

\* Mutant: a heartbeat that was never sent counts as an old one.
DeadBeforeFirst == \/ dpid # "zero" /\ ~pid_alive(dpid)
                   \/ dhb > PeerTimeout

\* The dispatch process is dead when its registered pid is, or when it has sent
\* heartbeats and the last one is too old.
Dead == \/ dpid # "zero" /\ ~pid_alive(dpid)
        \/ dhb # Never /\ dhb > PeerTimeout

drain_response_ring ==
  /\ Serving /\ "rsp" \in gdue
  /\ gdue' = gdue \ {"rsp"}
  /\ ghb' = [ghb EXCEPT !["rsp"] = 0]
  /\ IF gpc = Running /\ Dead
     THEN /\ gpc' = Stopping
          /\ wrong' = (wrong \/ dpid = "live")
     ELSE UNCHANGED <<gpc, wrong>>
  /\ UNCHANGED <<file, lock, gpid, dpid, dhb, dispatch, gcur, first, crashes, stalls>>

GatewayGone ==
  /\ gpc' = Down /\ gcur' = {} /\ first' = FALSE /\ gdue' = {}
  /\ gpid' = [f \in Files |-> IF gpid[f] = "live" THEN "dead" ELSE gpid[f]]

\* The engine has drained its connections and run returns.
GatewayExit ==
  /\ gpc = Stopping
  /\ GatewayGone
  /\ UNCHANGED <<file, lock, ghb, dpid, dhb, dispatch, other>>

-----------------------------------------------------------------------------
(* Crashes, the pid of a dead process given to another one, and time.       *)

CrashGateway ==
  /\ gpc # Down /\ crashes + stalls < MaxFaults
  /\ crashes' = crashes + 1
  /\ GatewayGone
  /\ UNCHANGED <<file, lock, ghb, dpid, dhb, dispatch, wrong, stalls>>

CrashDispatch(d) ==
  /\ dpc[d] # Down /\ crashes + stalls < MaxFaults
  /\ crashes' = crashes + 1
  /\ DispatchGone(d)
  /\ UNCHANGED <<file, gpid, ghb, dhb, gateway, wrong, stalls>>

PidReused ==
  \/ /\ dpid = "dead" /\ dpid' = "reused"
     /\ UNCHANGED <<file, lock, gpid, ghb, dhb, dispatch, gateway, other>>
  \/ /\ \E f \in Files : gpid[f] = "dead"
     /\ gpid' = [f \in Files |-> IF gpid[f] = "dead" THEN "reused" ELSE gpid[f]]
     /\ UNCHANGED <<file, lock, ghb, dpid, dhb, dispatch, gateway, other>>

Older(age) == IF age >= Old THEN age ELSE age + 1

\* A period passes; running processes have done their periodic work, except a
\* reader that waits for the response ring.
Tick ==
  /\ Serving => gdue = {}
  /\ \A d \in Dispatchers : dpc[d] = Running => ~ddue[d] \/ spin[d] > 0
  /\ ghb' = [f \in Files |-> Older(ghb[f])]
  /\ dhb' = Older(dhb)
  /\ gdue' = IF Serving THEN Files ELSE {}
  /\ ddue' = [d \in Dispatchers |-> dpc[d] = Running]
  /\ spin' = [d \in Dispatchers |-> IF spin[d] > 0 THEN spin[d] - 1 ELSE 0]
  /\ UNCHANGED <<file, lock, gpid, dpid, dpc, fresh, dcur, peer_seen, gpc, gcur, first,
                 other>>

-----------------------------------------------------------------------------
Dispatch(d) ==
  \/ StartDispatch(d) \/ DispatchAttach(d) \/ DispatchRegister(d) \/ DispatchReady(d)
  \/ DispatchTick(d)
  \/ \E f \in Files : \/ shm_create(d, f) \/ ftruncate(d, f)
                      \/ shm_open_existing(d, f) \/ lock_file_exclusive(d, f)
                      \/ Accept(d, f) \/ Refuse(d, f) \/ write_headers(d, f)
GatewayStep ==
  \/ StartGateway \/ OpenTimeout \/ GatewayAttach \/ GatewayRegister \/ GatewayExit
  \/ \E f \in Files : validate_file(f)
Heartbeats == heartbeat_all \/ drain_response_ring

Next ==
  \/ \E d \in Dispatchers : Dispatch(d) \/ Stall(d) \/ Resume(d) \/ CrashDispatch(d)
  \/ GatewayStep \/ Heartbeats \/ CrashGateway \/ PidReused \/ Tick

Spec == Init /\ [][Next]_vars

\* Processes run and are relaunched, and time passes.  The two relaunches do not
\* stay in step for ever: a dispatch process that finds the files free again and
\* again gets hold of them.
FairSpec ==
  /\ Spec
  /\ \A d \in Dispatchers : WF_vars(Dispatch(d)) /\ WF_vars(Resume(d))
  /\ \A d \in Dispatchers : SF_vars(Accept(d, "rsp"))
  /\ WF_vars(GatewayStep) /\ WF_vars(heartbeat_all) /\ WF_vars(drain_response_ring)
  /\ WF_vars(Tick)

-----------------------------------------------------------------------------
(* Properties.                                                              *)

Steps == [step : {"open", "size", "lock", "check", "reset"}, file : Files]
         \cup {Down, Attach, Register, Assemble, Running, Stopping}
Pids == {"zero", "live", "dead", "reused"}

\* The types of the state: start-up positions, pids and heartbeat ages.
TypeOK ==
  /\ file \in [Files -> {"absent", "empty", "blank", "valid"}]
  /\ lock \in [Files -> Dispatchers \cup {Nobody}]
  /\ gpid \in [Files -> Pids] /\ ghb \in [Files -> 0..Never]
  /\ dpid \in Pids /\ dhb \in 0..Never
  /\ dpc \in [Dispatchers -> Steps] /\ gpc \in Steps
  /\ dcur \in [Dispatchers -> SUBSET Files] /\ gcur \subseteq Files
  /\ spin \in [Dispatchers -> 0..Spin]

\* A dispatch process that serves works on the files as it found them: no other
\* one, started at the same time or later, resets a ring under it.
DispatchViewCurrent ==
  \A d \in Dispatchers : dpc[d] \in {Register, Assemble, Running} => dcur[d] = Files

\* The gateway declares a dispatch process dead that is alive only after its
\* reader has waited for room in the response ring: start-up, a header that was
\* reset and a restart of either side never look like a death.
WrongVerdictNeedsStall == wrong => stalls > 0

Up == gpc = Running /\ \E d \in Dispatchers : dpc[d] = Running
Chance == \E d \in Dispatchers : dpc[d] = Step("check", "rsp") /\ Accepted(d, "rsp")

Waiting == gpc = Step("open", "req") /\ \E f \in Files : file[f] # "valid"
Prompt ==
  /\ gpc = Running \/ Waiting
  /\ \A d \in Dispatchers : dpc[d].step \in {"down", "open", "assemble", "running"}

\* After the last crash the pair comes to run for good, whatever was left in the
\* shared memory: refusals, verdicts and relaunches settle, provided that a
\* gateway is relaunched and a dispatch process takes its files in less than a
\* heartbeat period, and that dispatch processes keep finding the response file
\* free.  That they do not when a crash between shm_create's two calls leaves a
\* file of length zero is the refuted claim below.
RecoversGivenChance ==
  []<>(Up \/ Chance) /\ <>[][Tick => Prompt]_vars => <>[]Up

-----------------------------------------------------------------------------
(* Refuted claims.                                                          *)

\* shm_region.cpp:200: a new dispatch process never resets the rings while a
\* gateway works on positions taken before.
GatewayViewCurrent == gpc = Running => gcur = Files

\* docs/ops.md:64: a restart of the gateway alone makes the dispatch process exit,
\* so no dispatch process serves two gateways, whose connection numbers both
\* begin at 1.
OneGatewayEach ==
  gpc = Running /\ first => \A d \in Dispatchers : ~peer_seen[d]

\* shm_region.cpp:384: what a process leaves behind is cleaned by the
\* create_or_recover of the next start.  A process that dies between the two calls
\* of shm_create leaves a file that none of the next ones can map.
EmptyFileHeals == \A f \in Files : file[f] = "empty" ~> file[f] # "empty"

\* README.md:13: heartbeats and relaunches heal the pair.  A gateway that finds
\* neither pid nor heartbeat of a dispatch process does not stay so for ever.
Unregistered == gpc = Running /\ dpid = "zero" /\ dhb = Never
UnregisteredHeals == Unregistered ~> ~Unregistered
=============================================================================
