------------------------- MODULE SupervisionProofs -------------------------
(***************************************************************************)
(* For any number of dispatch processes that start, crash and are           *)
(* relaunched in any order: nobody resets the rings under one that serves,  *)
(* and the gateway takes none for dead that lives unless one has stalled.   *)
(***************************************************************************)
EXTENDS Supervision, TLAPS

\* Where a dispatch process holds the lock of the request file, of both files.
HoldsReq == {Step("check", "req"), Step("reset", "req"), Step("open", "rsp"), Step("size", "rsp"),
             Step("lock", "rsp")}
HoldsBoth == {Step("check", "rsp"), Step("reset", "rsp"), Attach, Register, Assemble, Running}

\* What a dispatch process has locked at each step.
Locked(d) ==
  /\ dpc[d] \in HoldsReq => lock["req"] = d
  /\ dpc[d] \in HoldsBoth => lock["req"] = d /\ lock["rsp"] = d

\* The inductive invariant: a reset is made under the lock that a serving process
\* would hold.
LockInv ==
  /\ dpc \in [Dispatchers -> Steps]
  /\ lock \in [Files -> Dispatchers \cup {Nobody}]
  /\ dcur \in [Dispatchers -> SUBSET Files]
  /\ \A d \in Dispatchers : Locked(d)
  /\ DispatchViewCurrent

\* A step is told from another by its name and its file.
LEMMA StepsDiffer ==
  ASSUME NEW s, NEW t, NEW f, NEW g
  PROVE  Step(s, f) = Step(t, g) <=> s = t /\ f = g
BY DEF Step

\* No process has started.
LEMMA LockInitially == Init => LockInv
BY StepsDiffer DEF Init, LockInv, Locked, HoldsReq, HoldsBoth, DispatchViewCurrent, Files,
   Steps, Down, Attach, Register, Assemble, Running, Step

\* A step that neither moves a dispatch process nor touches a lock or a ring.
LEMMA QuietKeeps ==
  ASSUME LockInv, UNCHANGED <<dpc, lock, dcur>>
  PROVE  LockInv'
BY DEF LockInv, Locked, DispatchViewCurrent

\* A process that moves on and takes no lock, where it holds what its next step
\* needs and does not begin to serve.
LEMMA MoveKeeps ==
  ASSUME LockInv, NEW d \in Dispatchers, NEW pc \in Steps, Goto(d, pc), UNCHANGED <<lock, dcur>>,
         pc \in HoldsReq => lock["req"] = d,
         pc \in HoldsBoth => lock["req"] = d /\ lock["rsp"] = d,
         pc \in {Register, Assemble, Running} => dcur[d] = Files
  PROVE  LockInv'
BY DEF LockInv, Locked, DispatchViewCurrent, Goto

\* The end of a process gives back its own locks only.
LEMMA GoneKeeps ==
  ASSUME LockInv, NEW d \in Dispatchers, DispatchGone(d)
  PROVE  LockInv'
<1>1. dpc' = [dpc EXCEPT ![d] = Down] /\ Down \in Steps
  BY DEF DispatchGone, Goto, Steps
<1>2. Down \notin HoldsReq /\ Down \notin HoldsBoth /\ Down \notin {Register, Assemble, Running}
  BY StepsDiffer DEF Down, HoldsReq, HoldsBoth, Attach, Register, Assemble, Running
<1>3. lock' \in [Files -> Dispatchers \cup {Nobody}]
  BY DEF LockInv, DispatchGone
<1>4. dcur' \in [Dispatchers -> SUBSET Files] /\ \A e \in Dispatchers \ {d} : dcur'[e] = dcur[e]
  BY DEF LockInv, DispatchGone
<1>5. ASSUME NEW e \in Dispatchers PROVE Locked(e)'
  <2>1. CASE e = d
    BY <1>1, <1>2, <2>1 DEF Locked, LockInv
  <2>2. CASE e # d
    BY <1>1, <2>2 DEF Locked, LockInv, DispatchGone, Files
  <2> QED
    BY <2>1, <2>2
<1>6. DispatchViewCurrent'
  BY <1>1, <1>2, <1>4 DEF DispatchViewCurrent, LockInv
<1> QED
  BY <1>1, <1>3, <1>4, <1>5, <1>6, Zenon DEF LockInv

\* A process on its way from opening a file to its lock.
LEMMA OpeningKeeps ==
  ASSUME LockInv, NEW d \in Dispatchers, NEW f \in Files, NEW from \in {"open", "size"},
         NEW to \in {"size", "lock"}, dpc[d] = Step(from, f), Goto(d, Step(to, f)),
         UNCHANGED <<lock, dcur>>
  PROVE  LockInv'
<1> USE StepsDiffer
<1>1. /\ Step(to, f) \in Steps \ HoldsBoth
      /\ Step(to, f) \notin {Register, Assemble, Running}
  BY DEF Steps, Step, HoldsBoth, Attach, Register, Assemble, Running
<1>2. Step(to, f) \in HoldsReq => Step(from, f) \in HoldsReq
  BY DEF HoldsReq
<1>3. Step(to, f) \in HoldsReq => lock["req"] = d
  BY <1>2 DEF LockInv, Locked
<1> QED
  BY <1>1, <1>3, MoveKeeps

\* shm_open_existing: a file of length zero ends the process.
LEMMA OpenKeeps ==
  ASSUME LockInv, NEW d \in Dispatchers, NEW f \in Files, shm_open_existing(d, f)
  PROVE  LockInv'
<1>1. CASE file[f] = "empty"
  BY <1>1, GoneKeeps DEF shm_open_existing
<1>2. CASE file[f] # "empty"
  BY <1>2, OpeningKeeps DEF shm_open_existing
<1> QED
  BY <1>1, <1>2

\* lock_file_exclusive: the lock was free, so nobody relies on having it.
LEMMA LockKeeps ==
  ASSUME LockInv, NEW d \in Dispatchers, NEW f \in Files, lock_file_exclusive(d, f)
  PROVE  LockInv'
<1>1. CASE lock[f] # Nobody
  BY <1>1, GoneKeeps DEF lock_file_exclusive
<1>2. CASE lock[f] = Nobody
  <2>1. /\ dpc[d] = Step("lock", f) /\ lock' = [lock EXCEPT ![f] = d]
        /\ dpc' = [dpc EXCEPT ![d] = Step("check", f)] /\ dcur' = dcur
    BY <1>2 DEF lock_file_exclusive, Goto
  <2>2. Step("check", f) \in Steps /\ Step("check", f) \notin {Register, Assemble, Running}
    BY StepsDiffer DEF Steps, Step, Register, Assemble, Running
  <2>3. f = "rsp" => lock["req"] = d
    BY <2>1 DEF LockInv, Locked, HoldsReq
  <2>4. ASSUME NEW e \in Dispatchers PROVE Locked(e)'
    <3>1. CASE e = d
      <4>1. Step("check", "req") \notin HoldsBoth
        BY StepsDiffer DEF HoldsBoth, Attach, Register, Assemble, Running
      <4>2. f = "req" \/ f = "rsp"
        BY DEF Files
      <4>3. lock'[f] = d /\ (f = "rsp" => lock'["req"] = d)
        BY <2>1, <2>3 DEF LockInv, Files
      <4>4. dpc'[e] = Step("check", f)
        BY <2>1, <3>1 DEF LockInv
      <4>5. Step("check", "rsp") \notin HoldsReq
        BY StepsDiffer DEF HoldsReq
      <4> QED
        BY <3>1, <4>1, <4>2, <4>3, <4>4, <4>5 DEF Locked
    <3>2. CASE e # d
      BY <1>2, <2>1, <3>2, NobodyAssumption DEF LockInv, Locked, Files
    <3> QED
      BY <3>1, <3>2
  <2>5. DispatchViewCurrent'
    BY <2>1, <2>2 DEF DispatchViewCurrent, LockInv
  <2> QED
    BY <2>1, <2>2, <2>4, <2>5 DEF LockInv
<1> QED
  BY <1>1, <1>2

\* write_headers: the process that resets a file has its lock, so none of the
\* others serves.
LEMMA ResetKeeps ==
  ASSUME LockInv, NEW d \in Dispatchers, NEW f \in Files, write_headers(d, f)
  PROVE  LockInv'
<1> DEFINE next == IF f = "req" THEN Step("open", "rsp") ELSE Attach
<1>1. /\ dpc[d] = Step("reset", f) /\ dpc' = [dpc EXCEPT ![d] = next] /\ lock' = lock
      /\ dcur' = [e \in Dispatchers |-> dcur[e] \ {f}]
  BY DEF write_headers, Goto
<1>2. next \in Steps /\ next \notin {Register, Assemble, Running}
  BY StepsDiffer DEF Steps, Step, Attach, Register, Assemble, Running, Files
<1>3. lock[f] = d /\ (f = "rsp" => lock["req"] = d)
  BY <1>1 DEF LockInv, Locked, HoldsReq, HoldsBoth, Files
<1>4. ASSUME NEW e \in Dispatchers PROVE Locked(e)'
  <2>1. CASE e = d
    <3>1. Step("open", "rsp") \notin HoldsBoth
      BY StepsDiffer DEF HoldsBoth, Attach, Register, Assemble, Running
    <3> QED
      BY <1>1, <1>3, <2>1, <3>1 DEF LockInv, Locked, Files
  <2>2. CASE e # d
    BY <1>1, <2>2 DEF LockInv, Locked
  <2> QED
    BY <2>1, <2>2
<1>5. ASSUME NEW e \in Dispatchers, dpc'[e] \in {Register, Assemble, Running}
      PROVE  dcur'[e] = Files
  <2>1. e # d
    BY <1>1, <1>2, <1>5 DEF LockInv
  <2>2. dpc[e] \in HoldsBoth
    BY <1>1, <1>5, <2>1 DEF LockInv, HoldsBoth
  <2>3. lock[f] = e
    BY <2>2 DEF LockInv, Locked, Files
  <2> QED
    BY <1>3, <2>1, <2>3
<1>6. dpc' \in [Dispatchers -> Steps] /\ dcur' \in [Dispatchers -> SUBSET Files]
  BY <1>1, <1>2 DEF LockInv
<1> QED
  BY <1>1, <1>4, <1>5, <1>6 DEF LockInv, DispatchViewCurrent

\* DispatchAttach: the process takes both positions anew.
LEMMA AttachKeeps ==
  ASSUME LockInv, NEW d \in Dispatchers, DispatchAttach(d)
  PROVE  LockInv'
<1>1. /\ dpc[d] = Attach /\ dpc' = [dpc EXCEPT ![d] = Register] /\ lock' = lock
      /\ dcur' = [dcur EXCEPT ![d] = Files]
  BY DEF DispatchAttach, Goto, files
<1>2. Register \in Steps /\ Register \notin HoldsReq
  BY StepsDiffer DEF Steps, HoldsReq, Register
<1>3. lock["req"] = d /\ lock["rsp"] = d
  BY <1>1 DEF LockInv, Locked, HoldsBoth
<1> QED
  BY <1>1, <1>2, <1>3 DEF LockInv, Locked, DispatchViewCurrent

\* The steps of a dispatch process that only move it on.
LEMMA AdvanceKeeps ==
  ASSUME LockInv, NEW d \in Dispatchers,
         \/ StartDispatch(d) \/ DispatchRegister(d) \/ DispatchReady(d)
         \/ \E f \in Files : shm_create(d, f) \/ ftruncate(d, f) \/ Accept(d, f)
  PROVE  LockInv'
<1> USE StepsDiffer
<1>1. CASE StartDispatch(d)
  <2>1. Goto(d, Step("open", "req")) /\ UNCHANGED <<lock, dcur>>
    BY <1>1 DEF StartDispatch, files
  <2>2. /\ Step("open", "req") \in Steps \ (HoldsReq \cup HoldsBoth)
        /\ Step("open", "req") \notin {Register, Assemble, Running}
    BY DEF Steps, Step, Files, HoldsReq, HoldsBoth, Attach, Register, Assemble, Running
  <2> QED
    BY <2>1, <2>2, MoveKeeps
<1>2. CASE DispatchRegister(d)
  <2>1. dpc[d] = Register /\ Goto(d, Assemble) /\ UNCHANGED <<lock, dcur>>
    BY <1>2 DEF DispatchRegister
  <2>2. lock["req"] = d /\ lock["rsp"] = d /\ dcur[d] = Files
    BY <2>1 DEF LockInv, Locked, HoldsBoth, DispatchViewCurrent
  <2>3. Assemble \in Steps
    BY DEF Steps
  <2> QED
    BY <2>1, <2>2, <2>3, MoveKeeps
<1>3. CASE DispatchReady(d)
  <2>1. dpc[d] = Assemble /\ Goto(d, Running) /\ UNCHANGED <<lock, dcur>>
    BY <1>3 DEF DispatchReady, files
  <2>2. lock["req"] = d /\ lock["rsp"] = d /\ dcur[d] = Files
    BY <2>1 DEF LockInv, Locked, HoldsBoth, DispatchViewCurrent
  <2>3. Running \in Steps
    BY DEF Steps
  <2> QED
    BY <2>1, <2>2, <2>3, MoveKeeps
<1>4. ASSUME NEW f \in Files, shm_create(d, f) \/ ftruncate(d, f) PROVE LockInv'
  <2>1. PICK from \in {"open", "size"}, to \in {"size", "lock"} :
          dpc[d] = Step(from, f) /\ Goto(d, Step(to, f)) /\ UNCHANGED <<lock, dcur>>
    BY <1>4 DEF shm_create, ftruncate
  <2> QED
    BY <2>1, OpeningKeeps
<1>5. ASSUME NEW f \in Files, Accept(d, f) PROVE LockInv'
  <2>1. dpc[d] = Step("check", f) /\ Goto(d, Step("reset", f)) /\ UNCHANGED <<lock, dcur>>
    BY <1>5 DEF Accept, files
  <2>2. Step("reset", f) \in Steps /\ Step("reset", f) \notin {Register, Assemble, Running}
    BY DEF Steps, Step, Register, Assemble, Running
  <2>3. /\ Step("reset", f) \in HoldsReq => Step("check", f) \in HoldsReq
        /\ Step("reset", f) \in HoldsBoth => Step("check", f) \in HoldsBoth
    BY DEF HoldsReq, HoldsBoth, Attach, Register, Assemble, Running
  <2>4. /\ Step("reset", f) \in HoldsReq => lock["req"] = d
        /\ Step("reset", f) \in HoldsBoth => lock["req"] = d /\ lock["rsp"] = d
    BY <2>1, <2>3 DEF LockInv, Locked
  <2> QED
    BY <2>1, <2>2, <2>4, MoveKeeps
<1> QED
  BY <1>1, <1>2, <1>3, <1>4, <1>5

\* Every step keeps the invariant.
LEMMA LockInductive == LockInv /\ [Next]_vars => LockInv'
<1> SUFFICES ASSUME LockInv, [Next]_vars PROVE LockInv'
  OBVIOUS
<1>1. ASSUME NEW d \in Dispatchers, Dispatch(d) PROVE LockInv'
  <2>1. CASE DispatchTick(d)
    <3>1. DispatchGone(d) \/ UNCHANGED <<dpc, lock, dcur>>
      BY <2>1 DEF DispatchTick
    <3> QED
      BY <3>1, GoneKeeps, QuietKeeps
  <2>2. ASSUME NEW f \in Files, Refuse(d, f) PROVE LockInv'
    BY <2>2, GoneKeeps DEF Refuse
  <2> QED
    BY <1>1, <2>1, <2>2, AdvanceKeeps, OpenKeeps, LockKeeps, ResetKeeps, AttachKeeps DEF Dispatch
<1>2. ASSUME NEW d \in Dispatchers, CrashDispatch(d) PROVE LockInv'
  BY <1>2, GoneKeeps DEF CrashDispatch
<1>3. ASSUME NEW d \in Dispatchers, Stall(d) \/ Resume(d) PROVE LockInv'
  BY <1>3, QuietKeeps DEF Stall, Resume, files
<1>4. CASE GatewayStep
  BY <1>4, QuietKeeps DEF GatewayStep, StartGateway, OpenTimeout, GatewayAttach, GatewayRegister,
     GatewayExit, validate_file, files, dispatch
<1>5. CASE Heartbeats \/ CrashGateway
  BY <1>5, QuietKeeps DEF Heartbeats, heartbeat_all, drain_response_ring, CrashGateway, dispatch
<1>6. CASE PidReused \/ Tick
  BY <1>6, QuietKeeps DEF PidReused, Tick, dispatch
<1>7. CASE UNCHANGED vars
  BY <1>7, QuietKeeps DEF vars, files, dispatch
<1> QED
  BY <1>1, <1>2, <1>3, <1>4, <1>5, <1>6, <1>7 DEF Next

\* However many dispatch processes start, crash and are relaunched, none resets a
\* ring that another one serves: the flock of create_or_recover, taken file by
\* file and kept, is enough.
THEOREM RingsKeptUnderDispatch == Spec => []DispatchViewCurrent
<1>1. LockInv => DispatchViewCurrent
  BY DEF LockInv
<1>2. QED
  BY <1>1, LockInitially, LockInductive, PTL DEF Spec
-----------------------------------------------------------------------------
(* Verdicts.  The heartbeat the gateway reads belongs to the one process that *)
(* holds both locks: there is none before its first period, and afterwards it *)
(* is at most one period old, unless the reader has stalled.                  *)

\* How old the heartbeat is, by the step of a dispatch process.
Beat(d) ==
  /\ dpc[d] \in {Attach, Register, Assemble} => dhb = Never
  /\ dpc[d] = Running /\ stalls = 0 => dhb = Never \/ dhb = 0 \/ (dhb = 1 /\ ddue[d] = TRUE)

\* The pid in the header is that of a process that lives.
Registered == dpid = "live" => \E d \in Dispatchers : dpc[d] \in {Assemble, Running}

\* The inductive invariant.
BeatInv ==
  /\ ddue \in [Dispatchers -> BOOLEAN] /\ spin \in [Dispatchers -> Nat] /\ stalls \in Nat
  /\ stalls = 0 => \A d \in Dispatchers : spin[d] = 0
  /\ \A d \in Dispatchers : Beat(d)
  /\ Registered
  /\ WrongVerdictNeedsStall

\* No process has started, and no heartbeat was sent.
LEMMA BeatInitially == Init => BeatInv
<1> SUFFICES ASSUME Init PROVE BeatInv
  OBVIOUS
<1>1. Down \notin {Attach, Register, Assemble} /\ Down # Running
  BY StepsDiffer DEF Down, Attach, Register, Assemble, Running
<1> QED
  BY <1>1 DEF Init, BeatInv, Beat, Registered, WrongVerdictNeedsStall

\* Two processes cannot both have both locks.
LEMMA OneHolder ==
  ASSUME LockInv, NEW d \in Dispatchers, NEW e \in Dispatchers,
         dpc[d] \in HoldsBoth, dpc[e] \in HoldsBoth
  PROVE  d = e
BY DEF LockInv, Locked

\* The verdict of the gateway on a process that lives and has not stalled.
LEMMA NotDead ==
  ASSUME BeatInv, dpid = "live", stalls = 0
  PROVE  ~Dead
<1>1. PICK d \in Dispatchers : dpc[d] \in {Assemble, Running}
  BY DEF BeatInv, Registered
<1>2. dhb = Never \/ dhb = 0 \/ dhb = 1
  BY <1>1 DEF BeatInv, Beat
<1>3. dhb = Never \/ ~(dhb > PeerTimeout)
  BY <1>2, SupervisionAssumption
<1> QED
  BY <1>3 DEF Dead, pid_alive

\* A step that leaves the processes, the heartbeat and the pid alone.
LEMMA QuietBeats ==
  ASSUME BeatInv, UNCHANGED <<dpc, dhb, dpid, ddue, spin, stalls, wrong>>
  PROVE  BeatInv'
BY DEF BeatInv, Beat, Registered, WrongVerdictNeedsStall

\* The end of a process: its pid is dead, and its heartbeat only grows older.
LEMMA GoneBeats ==
  ASSUME LockInv, BeatInv, NEW d \in Dispatchers, DispatchGone(d),
         dhb' = dhb \/ \A e \in Dispatchers \ {d} : dpc[e] \notin HoldsBoth,
         UNCHANGED <<stalls, wrong>>
  PROVE  BeatInv'
<1>1. dpc' = [dpc EXCEPT ![d] = Down]
  BY DEF DispatchGone, Goto
<1>2. Down \notin {Attach, Register, Assemble} /\ Down # Running
  BY StepsDiffer DEF Down, Attach, Register, Assemble, Running
<1>3. \A e \in Dispatchers : Beat(e)'
  <2> TAKE e \in Dispatchers
  <2>1. CASE e = d
    BY <1>1, <1>2, <2>1 DEF Beat, LockInv
  <2>2. CASE e # d
    <3>1. dpc'[e] = dpc[e] /\ ddue'[e] = ddue[e]
      BY <1>1, <2>2 DEF LockInv, BeatInv, DispatchGone
    <3>2. dhb' = dhb \/ dpc[e] \notin {Attach, Register, Assemble, Running}
      BY <2>2 DEF HoldsBoth
    <3> QED
      BY <3>1, <3>2 DEF Beat, BeatInv
  <2> QED
    BY <2>1, <2>2
<1>4. Registered'
  <2> SUFFICES ASSUME dpid' = "live" PROVE \E e \in Dispatchers : dpc'[e] \in {Assemble, Running}
    BY DEF Registered
  <2>1. dpc[d] \notin {Assemble, Running} /\ dpid = "live"
    BY DEF DispatchGone
  <2>2. PICK e \in Dispatchers : dpc[e] \in {Assemble, Running}
    BY <2>1 DEF BeatInv, Registered
  <2> QED
    BY <1>1, <2>1, <2>2 DEF LockInv
<1>5. ddue' \in [Dispatchers -> BOOLEAN] /\ spin' \in [Dispatchers -> Nat]
  BY DEF BeatInv, DispatchGone
<1>6. stalls = 0 => \A e \in Dispatchers : spin'[e] = 0
  BY DEF BeatInv, DispatchGone
<1> QED
  BY <1>3, <1>4, <1>5, <1>6 DEF BeatInv, WrongVerdictNeedsStall

\* A process that moves on and sends no heartbeat: to a step before it serves, or
\* from start-up, with no heartbeat sent, to its first period.
LEMMA MoveBeats ==
  ASSUME LockInv, BeatInv, NEW d \in Dispatchers, NEW pc, Goto(d, pc),
         UNCHANGED <<dhb, spin, stalls, wrong>>, ddue' \in [Dispatchers -> BOOLEAN],
         \A e \in Dispatchers \ {d} : ddue'[e] = ddue[e],
         pc \in {Attach, Register, Assemble, Running} => dhb = Never,
         \/ dpid' = dpid /\ (dpc[d] \in {Assemble, Running} => pc \in {Assemble, Running})
         \/ pc = Assemble
  PROVE  BeatInv'
<1>1. dpc' = [dpc EXCEPT ![d] = pc] /\ dpc \in [Dispatchers -> Steps]
  BY DEF Goto, LockInv
<1>2. ASSUME NEW e \in Dispatchers PROVE Beat(e)'
  <2>1. CASE e = d
    BY <1>1, <2>1 DEF Beat
  <2>2. CASE e # d
    BY <1>1, <2>2 DEF Beat, BeatInv
  <2> QED
    BY <2>1, <2>2
<1>3. Registered'
  <2>1. CASE pc = Assemble
    BY <1>1, <2>1 DEF Registered
  <2>2. CASE dpid' = dpid /\ (dpc[d] \in {Assemble, Running} => pc \in {Assemble, Running})
    BY <1>1, <2>2 DEF Registered, BeatInv
  <2> QED
    BY <2>1, <2>2
<1> QED
  BY <1>2, <1>3 DEF BeatInv, WrongVerdictNeedsStall

\* The start-up of a dispatch process up to its first period.
LEMMA StartBeats ==
  ASSUME LockInv, BeatInv, NEW d \in Dispatchers,
         \/ StartDispatch(d) \/ DispatchAttach(d) \/ DispatchRegister(d) \/ DispatchReady(d)
         \/ \E f \in Files : shm_create(d, f) \/ ftruncate(d, f) \/ Accept(d, f)
  PROVE  BeatInv'
<1> USE StepsDiffer
<1> DEFINE Early == {Attach, Register, Assemble, Running}
<1>1. CASE StartDispatch(d)
  <2>1. /\ dpc[d] = Down /\ Goto(d, Step("open", "req"))
        /\ UNCHANGED <<dhb, dpid, spin, stalls, wrong, ddue>>
    BY <1>1 DEF StartDispatch, files, other
  <2>2. Step("open", "req") \notin Early /\ Down \notin {Assemble, Running}
    BY DEF Down, Attach, Register, Assemble, Running
  <2> QED
    BY <2>1, <2>2, MoveBeats DEF BeatInv
<1>2. CASE DispatchAttach(d)
  <2>1. /\ dpc[d] = Attach /\ Goto(d, Register)
        /\ UNCHANGED <<dhb, dpid, spin, stalls, wrong, ddue>>
    BY <1>2 DEF DispatchAttach, files, other
  <2>2. dhb = Never
    BY <2>1 DEF BeatInv, Beat
  <2>3. Attach \notin {Assemble, Running}
    BY DEF Attach, Assemble, Running
  <2> QED
    BY <2>1, <2>2, <2>3, MoveBeats DEF BeatInv
<1>3. CASE DispatchRegister(d)
  <2>1. dpc[d] = Register /\ Goto(d, Assemble) /\ UNCHANGED <<dhb, spin, stalls, wrong, ddue>>
    BY <1>3 DEF DispatchRegister, other
  <2>2. dhb = Never
    BY <2>1 DEF BeatInv, Beat
  <2> QED
    BY <2>1, <2>2, MoveBeats DEF BeatInv
<1>4. CASE DispatchReady(d)
  <2>1. /\ dpc[d] = Assemble /\ Goto(d, Running) /\ ddue' = [ddue EXCEPT ![d] = TRUE]
        /\ UNCHANGED <<dhb, dpid, spin, stalls, wrong>>
    BY <1>4 DEF DispatchReady, files, other
  <2>2. dhb = Never
    BY <2>1 DEF BeatInv, Beat
  <2>3. /\ ddue' \in [Dispatchers -> BOOLEAN]
        /\ \A e \in Dispatchers \ {d} : ddue'[e] = ddue[e]
    BY <2>1 DEF BeatInv
  <2> QED
    BY <2>1, <2>2, <2>3, MoveBeats, Zenon
<1>5. ASSUME NEW f \in Files, shm_create(d, f) \/ ftruncate(d, f) PROVE BeatInv'
  <2>1. PICK from \in {"open", "size"}, to \in {"size", "lock"} :
          /\ dpc[d] = Step(from, f) /\ Goto(d, Step(to, f))
          /\ UNCHANGED <<dhb, dpid, spin, stalls, wrong, ddue>>
    BY <1>5 DEF shm_create, ftruncate, other
  <2>2. Step(to, f) \notin Early /\ Step(from, f) \notin {Assemble, Running}
    BY DEF Attach, Register, Assemble, Running
  <2> QED
    BY <2>1, <2>2, MoveBeats DEF BeatInv
<1>6. ASSUME NEW f \in Files, Accept(d, f) PROVE BeatInv'
  <2>1. /\ dpc[d] = Step("check", f) /\ Goto(d, Step("reset", f))
        /\ UNCHANGED <<dhb, dpid, spin, stalls, wrong, ddue>>
    BY <1>6 DEF Accept, files, other
  <2>2. Step("reset", f) \notin Early /\ Step("check", f) \notin {Assemble, Running}
    BY DEF Attach, Register, Assemble, Running
  <2> QED
    BY <2>1, <2>2, MoveBeats DEF BeatInv
<1> QED
  BY <1>1, <1>2, <1>3, <1>4, <1>5, <1>6

\* shm_open_existing, lock_file_exclusive and Refuse: a process moves on or ends.
LEMMA LockBeats ==
  ASSUME LockInv, BeatInv, NEW d \in Dispatchers, NEW f \in Files,
         shm_open_existing(d, f) \/ lock_file_exclusive(d, f) \/ Refuse(d, f)
  PROVE  BeatInv'
<1>1. CASE DispatchGone(d)
  <2>1. UNCHANGED <<dhb, stalls, wrong>>
    BY DEF shm_open_existing, lock_file_exclusive, Refuse, other
  <2> QED
    BY <1>1, <2>1, GoneBeats
<1>2. CASE ~DispatchGone(d)
  <2>1. PICK from \in {"open", "lock"}, to \in {"lock", "check"} :
          /\ dpc[d] = Step(from, f) /\ Goto(d, Step(to, f))
          /\ UNCHANGED <<dhb, dpid, spin, stalls, wrong, ddue>>
    BY <1>2 DEF shm_open_existing, lock_file_exclusive, Refuse, other
  <2>2. /\ Step(to, f) \notin {Attach, Register, Assemble, Running}
        /\ Step(from, f) \notin {Assemble, Running}
    BY StepsDiffer DEF Attach, Register, Assemble, Running
  <2> QED
    BY <2>1, <2>2, MoveBeats DEF BeatInv
<1> QED
  BY <1>1, <1>2

\* write_headers: the response file loses pid and heartbeat together.
LEMMA ResetBeats ==
  ASSUME LockInv, BeatInv, NEW d \in Dispatchers, NEW f \in Files, write_headers(d, f)
  PROVE  BeatInv'
<1>1. /\ dpc[d] = Step("reset", f)
      /\ Goto(d, IF f = "req" THEN Step("open", "rsp") ELSE Attach)
      /\ UNCHANGED <<spin, stalls, wrong, ddue>>
  BY DEF write_headers, other
<1>2. CASE f = "req"
  <2>1. UNCHANGED <<dhb, dpid>> /\ Goto(d, Step("open", "rsp"))
    BY <1>1, <1>2 DEF write_headers
  <2>2. /\ Step("open", "rsp") \notin {Attach, Register, Assemble, Running}
        /\ Step("reset", "req") \notin {Assemble, Running}
    BY StepsDiffer DEF Attach, Register, Assemble, Running
  <2> QED
    BY <1>1, <1>2, <2>1, <2>2, MoveBeats DEF BeatInv
<1>3. CASE f = "rsp"
  <2>1. dhb' = Never /\ dpid' = "zero"
    BY <1>3 DEF write_headers
  <2>2. \A e \in Dispatchers : Beat(e)'
    BY <2>1 DEF Beat
  <2>3. Registered'
    BY <2>1 DEF Registered
  <2> QED
    BY <1>1, <2>2, <2>3 DEF BeatInv, WrongVerdictNeedsStall
<1> QED
  BY <1>2, <1>3 DEF Files

\* The reader's periodic work: a new heartbeat, of the only process that serves.
LEMMA PeriodBeats ==
  ASSUME LockInv, BeatInv, NEW d \in Dispatchers, DispatchTick(d)
  PROVE  BeatInv'
<1>1. dpc[d] = Running /\ dhb' = 0 /\ UNCHANGED <<stalls, wrong>>
  BY DEF DispatchTick, other
<1>2. \A e \in Dispatchers \ {d} : dpc[e] \notin HoldsBoth
  <2>1. dpc[d] \in HoldsBoth
    BY <1>1 DEF HoldsBoth
  <2> QED
    BY <2>1, OneHolder
<1>3. CASE DispatchGone(d)
  BY <1>1, <1>2, <1>3, GoneBeats
<1>4. CASE ~DispatchGone(d)
  <2>1. ddue' = [ddue EXCEPT ![d] = FALSE] /\ UNCHANGED <<dpc, dpid, spin>>
    BY <1>4 DEF DispatchTick
  <2>2. ASSUME NEW e \in Dispatchers PROVE Beat(e)'
    <3>1. dpc[e] \notin {Attach, Register, Assemble}
      <4>1. CASE e = d
        BY <1>1, <4>1, StepsDiffer DEF Attach, Register, Assemble, Running
      <4>2. CASE e # d
        BY <1>2, <4>2 DEF HoldsBoth
      <4> QED
        BY <4>1, <4>2
    <3> QED
      BY <1>1, <2>1, <3>1 DEF Beat
  <2>3. ddue' \in [Dispatchers -> BOOLEAN] /\ Registered'
    BY <2>1 DEF BeatInv, Registered
  <2> QED
    BY <1>1, <2>1, <2>2, <2>3 DEF BeatInv, WrongVerdictNeedsStall
<1> QED
  BY <1>3, <1>4

\* A period passes: without a stall the serving process has sent its heartbeat.
LEMMA TimeBeats ==
  ASSUME LockInv, BeatInv, Tick
  PROVE  BeatInv'
<1>1. /\ dhb' = Older(dhb) /\ ddue' = [d \in Dispatchers |-> dpc[d] = Running]
      /\ spin' = [d \in Dispatchers |-> IF spin[d] > 0 THEN spin[d] - 1 ELSE 0]
      /\ UNCHANGED <<dpc, dpid, stalls, wrong>>
  BY DEF Tick, other
<1>2. /\ Older(Never) = Never /\ Older(0) = 1 /\ Never # 0
  BY SupervisionAssumption DEF Older, Never, Old
<1>3. ASSUME NEW d \in Dispatchers PROVE Beat(d)'
  <2>1. dpc[d] \in {Attach, Register, Assemble} => dhb' = Never
    BY <1>1, <1>2 DEF BeatInv, Beat
  <2>2. ASSUME dpc[d] = Running, stalls = 0
        PROVE  dhb' = Never \/ dhb' = 0 \/ (dhb' = 1 /\ ddue'[d] = TRUE)
    <3>1. ~ddue[d]
      <4>1. ~ddue[d] \/ spin[d] > 0
        BY <2>2 DEF Tick
      <4>2. spin[d] = 0
        BY <2>2 DEF BeatInv
      <4> QED
        BY <4>1, <4>2
    <3>2. dhb = Never \/ dhb = 0
      BY <2>2, <3>1 DEF BeatInv, Beat
    <3>3. ddue'[d] = TRUE
      BY <1>1, <2>2, Zenon
    <3> QED
      BY <1>1, <1>2, <3>2, <3>3
  <2> QED
    BY <1>1, <2>1, <2>2, Zenon DEF Beat
<1>4. ddue' \in [Dispatchers -> BOOLEAN]
  BY <1>1
<1>5. /\ spin' \in [Dispatchers -> Nat]
      /\ stalls = 0 => \A d \in Dispatchers : spin'[d] = 0
  BY <1>1 DEF BeatInv
<1> QED
  BY <1>1, <1>3, <1>4, <1>5 DEF BeatInv, Registered, WrongVerdictNeedsStall

\* Stall and Resume: the reader waits, which is counted, and goes on.
LEMMA StallBeats ==
  ASSUME LockInv, BeatInv, NEW d \in Dispatchers, Stall(d) \/ Resume(d)
  PROVE  BeatInv'
<1>1. Spin \in Nat
  BY SupervisionAssumption DEF Spin
<1>2. CASE Stall(d)
  <2>1. /\ spin' = [spin EXCEPT ![d] = Spin] /\ stalls' = stalls + 1
        /\ UNCHANGED <<dpc, dhb, dpid, ddue, wrong>>
    BY <1>2 DEF Stall, files
  <2>2. stalls' \in Nat /\ stalls' > 0 /\ spin' \in [Dispatchers -> Nat]
    BY <1>1, <2>1 DEF BeatInv
  <2> QED
    BY <2>1, <2>2 DEF BeatInv, Beat, Registered, WrongVerdictNeedsStall
<1>3. CASE Resume(d)
  <2>1. spin' = [spin EXCEPT ![d] = 0] /\ UNCHANGED <<dpc, dhb, dpid, ddue, stalls, wrong>>
    BY <1>3 DEF Resume, files, other
  <2>2. spin' \in [Dispatchers -> Nat] /\ (stalls = 0 => \A e \in Dispatchers : spin'[e] = 0)
    BY <2>1 DEF BeatInv
  <2> QED
    BY <2>1, <2>2 DEF BeatInv, Beat, Registered, WrongVerdictNeedsStall
<1> QED
  BY <1>2, <1>3

\* drain_response_ring: a verdict is wrong only after a stall.
LEMMA VerdictBeats ==
  ASSUME BeatInv, drain_response_ring
  PROVE  BeatInv'
<1>1. UNCHANGED <<dpc, dhb, dpid, ddue, spin, stalls>>
  BY DEF drain_response_ring, dispatch
<1>2. wrong' => wrong \/ (Dead /\ dpid = "live")
  BY Zenon DEF drain_response_ring
<1>3. WrongVerdictNeedsStall'
  BY <1>1, <1>2, NotDead DEF BeatInv, WrongVerdictNeedsStall
<1> QED
  BY <1>1, <1>3 DEF BeatInv, Beat, Registered

\* Every step keeps the invariant.
LEMMA BeatInductive == LockInv /\ BeatInv /\ [Next]_vars => BeatInv'
<1> SUFFICES ASSUME LockInv, BeatInv, [Next]_vars PROVE BeatInv'
  OBVIOUS
<1>1. ASSUME NEW d \in Dispatchers, Dispatch(d) PROVE BeatInv'
  BY <1>1, StartBeats, LockBeats, ResetBeats, PeriodBeats DEF Dispatch
<1>2. ASSUME NEW d \in Dispatchers, CrashDispatch(d) PROVE BeatInv'
  BY <1>2, GoneBeats DEF CrashDispatch
<1>3. CASE GatewayStep
  BY <1>3, QuietBeats DEF GatewayStep, StartGateway, OpenTimeout, GatewayAttach, GatewayRegister,
     GatewayExit, validate_file, files, dispatch, other
<1>4. CASE heartbeat_all \/ CrashGateway
  BY <1>4, QuietBeats DEF heartbeat_all, CrashGateway, dispatch, other
<1>5. CASE PidReused
  <2>1. /\ dpid' = dpid \/ dpid' = "reused"
        /\ UNCHANGED <<dpc, dhb, ddue, spin, stalls, wrong>>
    BY <1>5 DEF PidReused, dispatch, other
  <2> QED
    BY <2>1 DEF BeatInv, Beat, Registered, WrongVerdictNeedsStall
<1>6. CASE UNCHANGED vars
  BY <1>6, QuietBeats DEF vars, files, dispatch, other
<1> QED
  BY <1>1, <1>2, <1>3, <1>4, <1>5, <1>6, StallBeats, VerdictBeats, TimeBeats DEF Next, Heartbeats

\* For every number of dispatch processes and every timeout: the gateway declares
\* one dead that lives only after its reader has waited in flush_replies.
THEOREM VerdictsRight == Spec => []WrongVerdictNeedsStall
<1>1. BeatInv => WrongVerdictNeedsStall
  BY DEF BeatInv
<1>2. QED
  BY <1>1, LockInitially, LockInductive, BeatInitially, BeatInductive, PTL DEF Spec
=============================================================================
