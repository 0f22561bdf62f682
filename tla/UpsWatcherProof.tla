--------------------------- MODULE UpsWatcherProof ---------------------------
(***************************************************************************)
(* Proofs about UpsWatcher for every role, configuration, status set and   *)
(* set of services, and every combination of faults unless a theorem says  *)
(* otherwise.                                                              *)
(***************************************************************************)
EXTENDS UpsWatcher, UpsMachineLemmas

(* The daemon's next machine, whatever it reads. *)
LEMMA FedType == ASSUME TypeOK PROVE Fed \in AnyProbe
<1>1. reply \in AnyProbe
  BY ProbeIsAny DEF TypeOK
<1>2. Reply({"OB"}) \in AnyProbe
  BY DEF AnyProbe, Words
<1> QED
  BY <1>1, <1>2 DEF Fed

LEMMA DecisionsEffect ==
    ASSUME TypeOK, NEW d \in Decisions
    PROVE  /\ d.m \in Machine
           /\ d.action \in Action
           /\ d.action = "undrain" => ~d.m.drained
           /\ d.m.drained /\ ~m.drained => d.action = "drain"
<1>1. PICK t \in IF Fed.ok THEN {0} ELSE {0, SilentSecs} : d = OnProbe(m, Fed, t)
  BY DEF Decisions
<1>2. t \in Int
  BY <1>1, PositiveKnobs
<1> QED
  BY <1>1, <1>2, FedType, OnProbeEffect DEF TypeOK

-----------------------------------------------------------------------------
(* Type correctness. *)

Labels == WatchPC \cup AttemptPC \cup BootPC

(* The part of TypeOK that a move of one process can break. *)
PcType(f) ==
    /\ f \in [Procs -> Labels]
    /\ f["watch"] \in WatchPC /\ f["attempt"] \in AttemptPC /\ f["boot"] \in BootPC

LEMMA GotoType ==
    ASSUME PcType(pc), NEW p \in Procs, NEW label, Goto(p, label),
           /\ p = "watch" => label \in WatchPC
           /\ p = "attempt" => label \in AttemptPC
           /\ p = "boot" => label \in BootPC
    PROVE  PcType(pc')
  BY DEF PcType, Procs, Goto, Labels

LEMMA LabelKinds ==
    /\ Recovery \subseteq WatchPC \cap BootPC
    /\ Urgent \cup Draining \cup {"loop", "poweroff", "down"} \subseteq WatchPC
  BY DEF WatchPC, BootPC

LEMMA RecoveredType ==
    ASSUME TypeOK, NEW p \in Recoverer, NEW success \in BOOLEAN, Recovered(p, success)
    PROVE  PcType(pc') /\ aborting' \in BOOLEAN
<1>1. CASE p = "boot"
  <2>1. Goto(p, IF success THEN "done" ELSE "recover_lock")
    BY <1>1 DEF Recovered
  <2> QED
    BY <1>1, <2>1, GotoType DEF Recovered, TypeOK, PcType, Procs, Labels, BootPC, Recovery
<1>2. CASE p = "watch"
  <2>1. Goto(p, IF aborting THEN "recover_lock" ELSE "loop")
    BY <1>2 DEF Recovered
  <2> QED
    BY <1>2, <2>1, GotoType DEF Recovered, TypeOK, PcType, Procs, Labels, WatchPC, Recovery
<1> QED
  BY <1>1, <1>2 DEF Recoverer

LEMMA BootedType == PcType(Booted)
  BY DEF PcType, Booted, Procs, Labels, WatchPC, AttemptPC, BootPC

LEMMA InitType == Init => TypeOK
<1> SUFFICES ASSUME Init PROVE TypeOK
  OBVIOUS
<1>1. PcType(pc)
  BY BootedType DEF Init
<1>2. m \in Machine
  BY NewMachineType DEF Init
<1>3. run \in Run
  BY DEF Init, NewRun, Run
<1>4. place \in [Services -> {"here", "transit", "survivor"}]
  BY DEF Init
<1> QED
  BY <1>1, <1>2, <1>3, <1>4 DEF Init, TypeOK, PcType, Labels, Drain!Availability, Procs

(* What is left of TypeOK is over variables most actions do not touch. *)
LEMMA RecoverType ==
    ASSUME TypeOK, NEW p \in Recoverer, Recover(p)
    PROVE  TypeOK'
<1>1. PcType(pc)
  BY DEF TypeOK, PcType, Labels
<1>2. p \in Procs /\ p # "attempt"
  BY DEF Recoverer, Procs
<1>3. PcType(pc') /\ aborting' \in BOOLEAN
  <2>1. CASE RecoverLock(p)
    <3>1. CASE Goto(p, "recover_probe") /\ UNCHANGED aborting
      BY <1>1, <1>2, <3>1, GotoType, LabelKinds DEF Recovery, TypeOK
    <3>2. CASE Recovered(p, TRUE) \/ Recovered(p, FALSE)
      BY <3>2, RecoveredType
    <3> QED
      BY <2>1, <3>1, <3>2 DEF RecoverLock
  <2>2. CASE RecoverProbe(p)
    <3>1. CASE Goto(p, "recover_active") /\ UNCHANGED aborting
      BY <1>1, <1>2, <3>1, GotoType, LabelKinds DEF Recovery, TypeOK
    <3>2. CASE Recovered(p, FALSE)
      BY <3>2, RecoveredType
    <3> QED
      BY <2>2, <3>1, <3>2 DEF RecoverProbe
  <2>3. CASE RecoverActive(p)
    <3>1. CASE Goto(p, "recover_clear") /\ UNCHANGED aborting
      BY <1>1, <1>2, <3>1, GotoType, LabelKinds DEF Recovery, TypeOK
    <3>2. CASE Recovered(p, FALSE)
      BY <3>2, RecoveredType
    <3> QED
      BY <2>3, <3>1, <3>2 DEF RecoverActive
  <2>4. CASE RecoverClear(p)
    BY <2>4, RecoveredType DEF RecoverClear
  <2> QED
    BY <2>1, <2>2, <2>3, <2>4 DEF Recover
<1>4. lock' \in Procs \cup {"none"}
  BY <1>2 DEF TypeOK, Recover, RecoverLock, RecoverProbe, RecoverActive, RecoverClear, Acquire
<1>5. marker' \in BOOLEAN
  BY DEF TypeOK, Recover, RecoverLock, RecoverProbe, RecoverActive, RecoverClear
<1>6. avail' \in Drain!Availability /\ inflight' \subseteq Drain!Availability
  BY DEF TypeOK, Recover, RecoverLock, RecoverProbe, RecoverActive, RecoverClear,
         swarmVars, Accepted, Rejected, Drain!Availability
<1>7. UNCHANGED <<reply, power, place, m, run>>
  BY DEF Recover, RecoverLock, RecoverProbe, RecoverActive, RecoverClear, upsVars
<1> QED
  BY <1>3, <1>4, <1>5, <1>6, <1>7 DEF TypeOK, PcType, Labels

LEMMA LeaveRunType ==
    ASSUME TypeOK, NEW shutdown \in BOOLEAN, LeaveRun(shutdown)
    PROVE  PcType(pc') /\ aborting' \in BOOLEAN /\ run' \in Run
<1>1. Goto("watch", IF shutdown THEN "poweroff" ELSE "recover_lock") /\ PcType(pc)
  BY DEF LeaveRun, TypeOK, PcType, Labels
<1>2. PcType(pc')
  BY <1>1, GotoType, LabelKinds DEF Procs, Recovery
<1> QED
  BY <1>2 DEF LeaveRun, NewRun, Run

LEMMA NotReadyType ==
    ASSUME TypeOK, NotReady
    PROVE  PcType(pc') /\ aborting' \in BOOLEAN /\ run' \in Run
<1>1. CASE LeaveRun(~TestMode)
  BY <1>1, LeaveRunType, FlagAssumption
<1>2. CASE /\ Goto("watch", IF run.drained THEN "poll" ELSE "first_probe")
           /\ UNCHANGED <<run, aborting>>
  <2>1. PcType(pc')
    BY <1>2, GotoType, LabelKinds DEF TypeOK, PcType, Labels, Procs, Draining
  <2> QED
    BY <1>2, <2>1 DEF TypeOK
<1> QED
  BY <1>1, <1>2 DEF NotReady

LEMMA RunDrainType ==
    ASSUME TypeOK, RunDrain
    PROVE  TypeOK'
<1> USE LabelKinds, GotoType DEF PcType, Labels
<1>1. PcType(pc) /\ "watch" \in Procs /\ "attempt" \in Procs
  BY DEF TypeOK, Procs
<1>2. /\ PcType(pc')
      /\ m' \in Machine
      /\ run' \in Run
      /\ aborting' \in BOOLEAN
  <2>1. CASE FirstProbe
    <3>1. PICK d \in Decisions : /\ m' = d.m
                                 /\ \/ Stops(d) /\ LeaveRun(d.action = "shutdown")
                                    \/ /\ ~Stops(d)
                                       /\ pc' = [pc EXCEPT !["watch"] = "attempting", !["attempt"] = "lock"]
                                       /\ UNCHANGED <<run, aborting>>
      BY <2>1 DEF FirstProbe
    <3>2. CASE LeaveRun(d.action = "shutdown")
      BY <3>1, <3>2, DecisionsEffect, LeaveRunType
    <3>3. CASE /\ pc' = [pc EXCEPT !["watch"] = "attempting", !["attempt"] = "lock"]
               /\ UNCHANGED <<run, aborting>>
      <4>1. PcType(pc')
        BY <1>1, <3>3 DEF Procs, AttemptPC, Draining, WatchPC
      <4> QED
        BY <4>1, <3>1, <3>3, DecisionsEffect DEF TypeOK
    <3> QED
      BY <3>1, <3>2, <3>3
  <2>2. CASE AttemptTick
    <3>1. PICK d \in Decisions :
              /\ m' = d.m
              /\ \/ Stops(d) /\ Goto("watch", "cancelling") /\ run' = [run EXCEPT !.stop = d.action]
                 \/ ~Stops(d) /\ UNCHANGED <<pc, run>>
      BY <2>2 DEF AttemptTick
    <3>2. CASE Stops(d) /\ Goto("watch", "cancelling") /\ run' = [run EXCEPT !.stop = d.action]
      <4>1. run' \in Run
        BY <3>2 DEF Stops, Run, TypeOK
      <4>2. PcType(pc')
        BY <1>1, <3>2 DEF Draining
      <4> QED
        BY <2>2, <3>1, <4>1, <4>2, DecisionsEffect DEF AttemptTick, TypeOK
    <3>3. CASE UNCHANGED <<pc, run>>
      BY <1>1, <2>2, <3>1, <3>3, DecisionsEffect DEF AttemptTick, TypeOK
    <3> QED
      BY <3>1, <3>2, <3>3
  <2>3. CASE AttemptResult
    <3>1. PcType(pc')
      BY <1>1, <2>3 DEF AttemptResult, Procs, AttemptPC, Draining, WatchPC
    <3> QED
      BY <2>3, <3>1 DEF AttemptResult, TypeOK, Run
  <2>4. CASE AttemptCancelled
    <3>1. PcType(pc')
      BY <1>1, <2>4 DEF AttemptCancelled, Procs, AttemptPC, Recovery, WatchPC
    <3> QED
      BY <2>4, <3>1 DEF AttemptCancelled, TypeOK, Run, NewRun
  <2>5. CASE Poll
    <3>1. PICK d \in Decisions :
              /\ m' = d.m
              /\ \/ Stops(d) /\ LeaveRun(d.action = "shutdown")
                 \/ ~Stops(d) /\ Goto("watch", "count") /\ UNCHANGED <<run, aborting>>
      BY <2>5 DEF Poll
    <3>2. CASE LeaveRun(d.action = "shutdown")
      BY <3>1, <3>2, DecisionsEffect, LeaveRunType
    <3>3. CASE Goto("watch", "count") /\ UNCHANGED <<run, aborting>>
      <4>1. PcType(pc')
        BY <1>1, <3>3 DEF Draining
      <4> QED
        BY <3>1, <3>3, <4>1, DecisionsEffect DEF TypeOK
    <3> QED
      BY <3>1, <3>2, <3>3
  <2>6. CASE Count
    <3>1. CASE Goto("watch", "missing") /\ UNCHANGED <<run, aborting>>
      <4>1. PcType(pc')
        BY <1>1, <3>1 DEF Draining
      <4> QED
        BY <2>6, <3>1, <4>1 DEF Count, TypeOK
    <3> QED
      BY <2>6, <3>1, NotReadyType DEF Count, TypeOK
  <2>7. CASE Missing
    <3>1. CASE Goto("watch", "ready") /\ UNCHANGED <<run, aborting>>
      <4>1. PcType(pc')
        BY <1>1, <3>1 DEF Draining
      <4> QED
        BY <2>7, <3>1, <4>1 DEF Missing, TypeOK
    <3> QED
      BY <2>7, <3>1, NotReadyType DEF Missing, TypeOK
  <2>8. CASE Ready
    BY <2>8, LeaveRunType, FlagAssumption DEF Ready, TypeOK
  <2> QED
    BY <2>1, <2>2, <2>3, <2>4, <2>5, <2>6, <2>7, <2>8 DEF RunDrain
<1>3. UNCHANGED <<reply, power, avail, inflight, marker, place, lock>>
  BY DEF RunDrain, FirstProbe, AttemptTick, AttemptResult, AttemptCancelled, Poll, Count,
         Missing, Ready, upsVars, swarmVars
<1> QED
  BY <1>2, <1>3 DEF TypeOK

LEMMA AttemptType ==
    ASSUME TypeOK, Attempt
    PROVE  TypeOK'
<1>1. PcType(pc) /\ "attempt" \in Procs
  BY DEF TypeOK, PcType, Labels, Procs
<1>2. PcType(pc')
  <2>1. \/ Goto("attempt", "mark") \/ Goto("attempt", "drain")
        \/ Goto("attempt", "ok") \/ Goto("attempt", "failed")
    BY DEF Attempt, AttemptLock, AttemptMark, AttemptDrain, AttemptEnds
  <2> QED
    BY <1>1, <2>1, GotoType DEF AttemptPC
<1>3. lock' \in Procs \cup {"none"}
  BY <1>1 DEF TypeOK, Attempt, AttemptLock, AttemptMark, AttemptDrain, AttemptEnds, Acquire
<1>4. marker' \in BOOLEAN
  BY DEF TypeOK, Attempt, AttemptLock, AttemptMark, AttemptDrain, WriteFlag
<1>5. run' \in Run
  <2>1. Local \in SUBSET Services
    BY DEF Local
  <2>2. [run EXCEPT !.snapshotted = TRUE, !.services = Local] \in Run
    BY <2>1 DEF TypeOK, Run
  <2>3. Snapshot \in Run
    BY <2>2 DEF Snapshot, TypeOK
  <2> QED
    BY <2>3 DEF TypeOK, Attempt, AttemptLock, AttemptMark, AttemptDrain, daemonVars
<1>6. avail' \in Drain!Availability /\ inflight' \subseteq Drain!Availability
  BY DEF TypeOK, Attempt, AttemptLock, AttemptMark, AttemptDrain, swarmVars, Accepted, Rejected,
         Drain!Availability
<1>7. UNCHANGED <<reply, power, place, m, aborting>>
  BY DEF Attempt, AttemptLock, AttemptMark, AttemptDrain, upsVars, daemonVars
<1> QED
  BY <1>2, <1>3, <1>4, <1>5, <1>6, <1>7 DEF TypeOK, PcType, Labels

LEMMA UrgentType ==
    ASSUME TypeOK, UrgentShutdown
    PROVE  TypeOK'
<1>1. PcType(pc) /\ "watch" \in Procs
  BY DEF TypeOK, PcType, Labels, Procs
<1>2. PcType(pc')
  <2>1. \/ Goto("watch", "poweroff") \/ Goto("watch", "urgent_inspect")
        \/ Goto("watch", "urgent_mark") \/ Goto("watch", "urgent_drain")
    BY DEF UrgentShutdown, UrgentLock, UrgentInspect, UrgentMark, UrgentDrain, UrgentEnds
  <2> QED
    BY <1>1, <2>1, GotoType, LabelKinds DEF Urgent
<1>3. lock' \in Procs \cup {"none"}
  BY <1>1 DEF TypeOK, UrgentShutdown, UrgentLock, UrgentInspect, UrgentMark, UrgentDrain,
              UrgentEnds, Acquire
<1>4. marker' \in BOOLEAN
  BY DEF TypeOK, UrgentShutdown, UrgentLock, UrgentInspect, UrgentMark, UrgentDrain, WriteFlag
<1>5. avail' \in Drain!Availability /\ inflight' \subseteq Drain!Availability
  BY DEF TypeOK, UrgentShutdown, UrgentLock, UrgentInspect, UrgentMark, UrgentDrain, swarmVars,
         Accepted, Rejected, Drain!Availability
<1>6. UNCHANGED <<reply, power, place, m, run, aborting>>
  BY DEF UrgentShutdown, UrgentLock, UrgentInspect, UrgentMark, UrgentDrain, upsVars, daemonVars
<1> QED
  BY <1>2, <1>3, <1>4, <1>5, <1>6 DEF TypeOK, PcType, Labels

LEMMA WatchLoopType ==
    ASSUME TypeOK, WatchLoop
    PROVE  TypeOK'
<1>1. PICK d \in Decisions :
          /\ m' = d.m
          /\ \/ Goto("watch", "first_probe") \/ Goto("watch", "urgent_lock")
             \/ Goto("watch", "poweroff") \/ Goto("watch", "recover_lock")
  BY DEF WatchLoop
<1>2. PcType(pc')
  BY <1>1, GotoType, LabelKinds DEF TypeOK, PcType, Labels, Procs, Urgent, Draining, Recovery
<1>3. m' \in Machine
  BY <1>1, DecisionsEffect
<1> QED
  BY <1>2, <1>3 DEF WatchLoop, TypeOK, PcType, Labels, upsVars, swarmVars

LEMMA CutOffType ==
    ASSUME TypeOK, NEW P \in SUBSET Procs, CutOff(P)
    PROVE  /\ avail' \in Drain!Availability
           /\ inflight' \subseteq Drain!Availability
           /\ lock' \in Procs \cup {"none"}
<1>1. Running(P) \subseteq Drain!Availability
  BY DEF Running
<1> QED
  BY <1>1 DEF CutOff, TypeOK

LEMMA NodeType ==
    ASSUME TypeOK, Node
    PROVE  TypeOK'
<1>1. CASE WatchCrash
  <2>1. PcType(pc')
    BY <1>1 DEF WatchCrash, TypeOK, PcType, Labels, Procs, WatchPC, AttemptPC
  <2>2. m' \in Machine /\ run' \in Run /\ aborting' \in BOOLEAN
    BY <1>1, NewMachineType DEF WatchCrash, Forget, NewRun, Run
  <2>3. CutOff({"watch", "attempt"}) /\ {"watch", "attempt"} \in SUBSET Procs
    BY <1>1 DEF WatchCrash, Procs
  <2> QED
    BY <1>1, <2>1, <2>2, <2>3, CutOffType DEF WatchCrash, TypeOK, PcType, Labels, upsVars
<1>2. CASE BootCrash
  <2>1. PcType(pc')
    BY <1>2, GotoType DEF BootCrash, TypeOK, PcType, Labels, Procs, BootPC
  <2>2. CutOff({"boot"}) /\ {"boot"} \in SUBSET Procs
    BY <1>2 DEF BootCrash, Procs
  <2> QED
    BY <1>2, <2>1, <2>2, CutOffType DEF BootCrash, TypeOK, PcType, Labels, upsVars, daemonVars
<1>3. CASE PowerDown
  <2>1. PcType(pc')
    BY <1>3 DEF PowerDown, PcType, Labels, Procs, WatchPC, AttemptPC, BootPC
  <2>2. m' \in Machine /\ run' \in Run /\ aborting' \in BOOLEAN
    BY <1>3, NewMachineType DEF PowerDown, Forget, NewRun, Run
  <2>3. CutOff(Procs)
    BY <1>3 DEF PowerDown
  <2>4. place' \in [Services -> {"here", "transit", "survivor"}]
    BY <1>3 DEF PowerDown, TypeOK
  <2> QED
    BY <1>3, <2>1, <2>2, <2>3, <2>4, CutOffType DEF PowerDown, TypeOK, PcType, Labels
<1>4. CASE PowerUp
  <2>1. PcType(pc')
    BY <1>4, BootedType DEF PowerUp, PcType
  <2>2. m' \in Machine /\ run' \in Run /\ aborting' \in BOOLEAN
    BY <1>4, NewMachineType DEF PowerUp, Forget, NewRun, Run
  <2> QED
    BY <1>4, <2>1, <2>2 DEF PowerUp, TypeOK, PcType, Labels, swarmVars
<1> QED
  BY <1>1, <1>2, <1>3, <1>4 DEF Node

LEMMA SwarmType ==
    ASSUME TypeOK, Swarm
    PROVE  TypeOK'
<1>1. ASSUME NEW target \in Drain!Availability, Land(target) \/ Drop(target)
      PROVE  TypeOK'
  BY <1>1 DEF Land, Drop, Accepted, TypeOK, upsVars, daemonVars
<1>2. ASSUME NEW s \in Services, Teardown(s) \/ Start(s)
      PROVE  TypeOK'
  BY <1>2 DEF Teardown, Start, TypeOK, upsVars, swarmVars, daemonVars
<1> QED
  BY <1>1, <1>2 DEF Swarm

LEMMA StepType == TypeOK /\ [Next]_vars => TypeOK'
<1> SUFFICES ASSUME TypeOK, [Next]_vars PROVE TypeOK'
  OBVIOUS
<1>1. CASE Watch
  <2>1. CASE Poweroff
    BY <2>1 DEF Poweroff, TypeOK, swarmVars, daemonVars
  <2> QED
    BY <1>1, <2>1, WatchLoopType, RunDrainType, UrgentType, RecoverType DEF Watch, Recoverer
<1>2. CASE Attempt
  BY <1>2, AttemptType
<1>3. CASE Boot
  <2>1. CASE BootStart
    <3>1. PcType(pc')
      BY <2>1, GotoType, LabelKinds DEF BootStart, TypeOK, PcType, Labels, Procs, BootPC, Recovery
    <3> QED
      BY <2>1, <3>1 DEF BootStart, TypeOK, PcType, Labels, upsVars, swarmVars, daemonVars
  <2> QED
    BY <1>3, <2>1, RecoverType DEF Boot, Recoverer
<1>4. CASE UpsChanges
  BY <1>4 DEF UpsChanges, TypeOK, swarmVars, daemonVars
<1>5. CASE Swarm
  BY <1>5, SwarmType
<1>6. CASE Node
  BY <1>6, NodeType
<1>7. CASE UNCHANGED vars
  BY <1>7 DEF vars, TypeOK
<1> QED
  BY <1>1, <1>2, <1>3, <1>4, <1>5, <1>6, <1>7 DEF Next

(***************************************************************************)
(* Every variable keeps its type, on every status sequence and fault.      *)
(***************************************************************************)
THEOREM TypeCorrect == Spec => []TypeOK
  BY InitType, StepType, PTL DEF Spec

-----------------------------------------------------------------------------
(* The flock: a process that has it is alone in the critical sections, and a *)
(* process about to remove the flag has an active node.                      *)

Critical == {"recover_probe", "recover_active", "recover_clear", "mark", "drain",
             "urgent_inspect", "urgent_mark", "urgent_drain"}

LockHeld == \A p \in Procs : pc[p] \in Critical => lock = p

Releasing == \A p \in Recoverer : pc[p] = "recover_clear" => avail = "active" /\ "drain" \notin inflight

Safe == TypeOK /\ LockHeld /\ Releasing

LEMMA Moves ==
    ASSUME TypeOK, NEW p \in Procs, NEW label, Goto(p, label)
    PROVE  pc'[p] = label /\ \A q \in Procs \ {p} : pc'[q] = pc[q]
  BY DEF TypeOK, Goto

(* A process that takes, keeps or gives back the lock is alone after the step. *)
LEMMA Alone ==
    ASSUME TypeOK, LockHeld, NEW p \in Procs, NEW label, Goto(p, label),
           \/ Acquire(p)
           \/ pc[p] \in Critical /\ UNCHANGED lock
           \/ pc[p] \in Critical /\ label \notin Critical
    PROVE  LockHeld' /\ \A q \in Procs \ {p} : pc'[q] \notin Critical
<1>1. \A q \in Procs \ {p} : pc[q] \notin Critical
  BY DEF LockHeld, Acquire, Procs
<1>2. \A q \in Procs \ {p} : pc'[q] \notin Critical
  BY <1>1, Moves
<1>3. pc'[p] \in Critical => lock' = p
  BY Moves DEF LockHeld, Acquire
<1> QED
  BY <1>2, <1>3 DEF LockHeld

(* A step that keeps the lock and lets nobody into a critical section. *)
LEMMA Outside ==
    ASSUME LockHeld, Releasing, UNCHANGED <<lock, swarmVars>>,
           \A p \in Procs : pc'[p] = pc[p] \/ pc'[p] \notin Critical
    PROVE  LockHeld' /\ Releasing'
<1>1. LockHeld'
  BY DEF LockHeld
<1>2. Releasing'
  BY DEF Releasing, Critical, swarmVars, Recoverer, Procs
<1> QED
  BY <1>1, <1>2

LEMMA RecoveredOutside ==
    ASSUME TypeOK, NEW p \in Recoverer, NEW success \in BOOLEAN, Recovered(p, success)
    PROVE  \E label : Goto(p, label) /\ label \notin Critical
<1>1. CASE p = "boot"
  BY <1>1 DEF Recovered, Critical
<1>2. CASE p = "watch"
  BY <1>2 DEF Recovered, Critical
<1> QED
  BY <1>1, <1>2 DEF Recoverer

LEMMA RecoverSafe ==
    ASSUME Safe, NEW p \in Recoverer, Recover(p)
    PROVE  LockHeld' /\ Releasing'
<1> p \in Procs
  BY DEF Recoverer, Procs
<1> USE DEF Safe
<1>1. ASSUME NEW success \in BOOLEAN, Recovered(p, success), UNCHANGED <<lock, swarmVars>>
      PROVE  LockHeld' /\ Releasing'
  <2>1. PICK label : Goto(p, label) /\ label \notin Critical
    BY <1>1, RecoveredOutside
  <2> QED
    BY <1>1, <2>1, Moves, Outside
<1>2. ASSUME NEW success \in BOOLEAN, Recovered(p, success), pc[p] \in Critical
      PROVE  LockHeld' /\ Releasing'
  <2>1. PICK label : Goto(p, label) /\ label \notin Critical
    BY <1>2, RecoveredOutside
  <2>2. LockHeld' /\ \A q \in Procs \ {p} : pc'[q] \notin Critical
    BY <1>2, <2>1, Alone
  <2> QED
    BY <2>1, <2>2, Moves DEF Releasing, Recoverer, Procs, Critical
<1>3. CASE RecoverLock(p)
  <2>1. CASE Acquire(p) /\ Goto(p, "recover_probe")
    BY <2>1, Alone, Moves DEF Releasing, Recoverer, Procs, Critical
  <2>2. CASE UNCHANGED lock /\ (Recovered(p, TRUE) \/ Recovered(p, FALSE))
    BY <1>1, <1>3, <2>2 DEF RecoverLock
  <2> QED
    BY <1>3, <2>1, <2>2 DEF RecoverLock
<1>4. CASE RecoverProbe(p)
  <2>0. pc[p] \in Critical
    BY <1>4 DEF RecoverProbe, Critical
  <2>1. CASE Goto(p, "recover_active") /\ UNCHANGED lock
    BY <2>0, <2>1, Alone, Moves DEF Releasing, Recoverer, Procs, Critical
  <2> QED
    BY <1>2, <1>4, <2>0, <2>1 DEF RecoverProbe
<1>5. CASE RecoverActive(p)
  <2>0. pc[p] \in Critical
    BY <1>5 DEF RecoverActive, Critical
  <2>1. CASE Accepted("active") /\ Goto(p, "recover_clear") /\ UNCHANGED lock
    <3>1. LockHeld' /\ \A q \in Procs \ {p} : pc'[q] \notin Critical
      BY <2>0, <2>1, Alone
    <3> QED
      BY <2>1, <3>1 DEF Accepted, Releasing, Recoverer, Procs, Critical
  <2> QED
    BY <1>2, <1>5, <2>0, <2>1 DEF RecoverActive
<1>6. CASE RecoverClear(p)
  <2>0. pc[p] \in Critical
    BY <1>6 DEF RecoverClear, Critical
  <2> QED
    BY <1>2, <1>6, <2>0 DEF RecoverClear
<1> QED
  BY <1>3, <1>4, <1>5, <1>6 DEF Recover

LEMMA AttemptSafe ==
    ASSUME Safe, Attempt
    PROVE  LockHeld' /\ Releasing'
<1> "attempt" \in Procs
  BY DEF Procs
<1> USE DEF Safe
<1>1. CASE AttemptLock
  <2>1. CASE Acquire("attempt") /\ Goto("attempt", "mark")
    BY <2>1, Alone, Moves DEF Releasing, Recoverer, Procs, Critical
  <2>2. CASE UNCHANGED lock /\ Goto("attempt", "failed")
    BY <1>1, <2>2, Moves, Outside DEF AttemptLock, Critical
  <2> QED
    BY <1>1, <2>1, <2>2 DEF AttemptLock
<1>2. CASE AttemptMark \/ AttemptDrain
  <2>1. pc["attempt"] \in Critical
    BY <1>2 DEF AttemptMark, AttemptDrain, Critical
  <2>2. \/ Goto("attempt", "drain") /\ UNCHANGED lock
        \/ Goto("attempt", "ok") \/ Goto("attempt", "failed")
    BY <1>2 DEF AttemptMark, AttemptDrain, AttemptEnds
  <2>3. LockHeld' /\ \A q \in Procs \ {"attempt"} : pc'[q] \notin Critical
    BY <2>1, <2>2, Alone DEF Critical
  <2> QED
    BY <2>3 DEF Releasing, Recoverer, Procs, Critical
<1> QED
  BY <1>1, <1>2 DEF Attempt

LEMMA UrgentSafe ==
    ASSUME Safe, UrgentShutdown
    PROVE  LockHeld' /\ Releasing'
<1> "watch" \in Procs
  BY DEF Procs
<1> USE DEF Safe
<1>1. CASE UrgentLock
  <2>1. CASE /\ Acquire("watch")
             /\ Goto("watch", IF marker THEN "urgent_inspect" ELSE "urgent_mark")
    <3>1. LockHeld' /\ \A q \in Procs \ {"watch"} : pc'[q] \notin Critical
      BY <2>1, Alone
    <3> QED
      BY <2>1, <3>1, Moves DEF Releasing, Recoverer, Procs, Critical
  <2>2. CASE UNCHANGED lock /\ Goto("watch", "poweroff")
    BY <1>1, <2>2, Moves, Outside DEF UrgentLock, Critical
  <2> QED
    BY <1>1, <2>1, <2>2 DEF UrgentLock
<1>2. CASE UrgentInspect \/ UrgentMark \/ UrgentDrain
  <2>1. pc["watch"] \in Critical
    BY <1>2 DEF UrgentInspect, UrgentMark, UrgentDrain, Critical
  <2>2. \/ (Goto("watch", "urgent_mark") \/ Goto("watch", "urgent_drain")) /\ UNCHANGED lock
        \/ Goto("watch", "poweroff")
    BY <1>2 DEF UrgentInspect, UrgentMark, UrgentDrain, UrgentEnds
  <2>3. /\ LockHeld' /\ \A q \in Procs \ {"watch"} : pc'[q] \notin Critical
        /\ pc'["watch"] \in {"urgent_mark", "urgent_drain", "poweroff"}
    BY <2>1, <2>2, Alone, Moves DEF Critical
  <2> QED
    BY <2>3 DEF Releasing, Recoverer, Procs, Critical
<1> QED
  BY <1>1, <1>2 DEF UrgentShutdown

(* The daemon's moves outside its critical sections. *)
LEMMA DaemonOutside ==
    ASSUME TypeOK, WatchLoop \/ RunDrain \/ Poweroff
    PROVE  /\ UNCHANGED <<lock, swarmVars, marker>>
           /\ \A p \in Procs : pc'[p] = pc[p] \/ pc'[p] \notin Critical
<1> "watch" \in Procs
  BY DEF Procs
<1>1. UNCHANGED <<lock, swarmVars, marker>>
  BY DEF WatchLoop, RunDrain, FirstProbe, AttemptTick, AttemptResult, AttemptCancelled, Poll,
         Count, Missing, Ready, Poweroff
<1>2. ASSUME NEW label, Goto("watch", label), label \notin Critical
      PROVE  \A p \in Procs : pc'[p] = pc[p] \/ pc'[p] \notin Critical
  BY <1>2, Moves
<1>3. ASSUME NEW shutdown \in BOOLEAN, LeaveRun(shutdown)
      PROVE  \E label : Goto("watch", label) /\ label \notin Critical
  BY <1>3 DEF LeaveRun, Critical
<1>4. ASSUME NotReady
      PROVE  \E label : Goto("watch", label) /\ label \notin Critical
  <2>1. CASE LeaveRun(~TestMode)
    BY <1>3, <2>1, FlagAssumption
  <2>2. CASE Goto("watch", IF run.drained THEN "poll" ELSE "first_probe")
    BY <2>2 DEF Critical
  <2> QED
    BY <1>4, <2>1, <2>2 DEF NotReady
<1>5. CASE WatchLoop
  <2>1. \/ Goto("watch", "first_probe") \/ Goto("watch", "urgent_lock")
        \/ Goto("watch", "poweroff") \/ Goto("watch", "recover_lock")
    BY <1>5 DEF WatchLoop
  <2> QED
    BY <1>1, <1>2, <2>1 DEF Critical
<1>6. CASE FirstProbe
  <2>1. CASE pc' = [pc EXCEPT !["watch"] = "attempting", !["attempt"] = "lock"]
    BY <1>1, <2>1 DEF Critical, TypeOK, Procs
  <2> QED
    BY <1>1, <1>2, <1>3, <1>6, <2>1 DEF FirstProbe
<1>7. CASE AttemptTick
  BY <1>1, <1>2, <1>7 DEF AttemptTick, Critical
<1>8. CASE AttemptResult \/ AttemptCancelled
  BY <1>1, <1>8 DEF AttemptResult, AttemptCancelled, Critical, TypeOK, Procs
<1>9. CASE Poll
  BY <1>1, <1>2, <1>3, <1>9 DEF Poll, Critical
<1>10. CASE Count \/ Missing
  BY <1>1, <1>2, <1>4, <1>10 DEF Count, Missing, Critical
<1>11. CASE Ready
  BY <1>1, <1>2, <1>3, <1>11, FlagAssumption DEF Ready
<1>12. CASE Poweroff
  BY <1>1, <1>12 DEF Poweroff
<1> QED
  BY <1>5, <1>6, <1>7, <1>8, <1>9, <1>10, <1>11, <1>12 DEF RunDrain

(* The commands a killed set of processes P may leave behind: a drain only  *)
(* from a process of P that is submitting one, and never both kinds at once. *)
LEMMA CutOffLost ==
    ASSUME TypeOK, LockHeld, NEW P \in SUBSET Procs, CutOff(P)
    PROVE  /\ avail' = avail
           /\ "drain" \in inflight' /\ "drain" \notin inflight =>
                 \E p \in P : pc[p] \in {"urgent_drain", "drain"}
           /\ inflight' = inflight \/ \E t \in Running(P) : inflight' = inflight \cup {t}
           /\ \A p \in Procs \ P : lock = p => lock' = p
<1>1. PICK lost \in SUBSET Running(P) : inflight' = inflight \cup lost
  BY DEF CutOff
<1>2. ASSUME "active" \in Running(P), "drain" \in Running(P)
      PROVE  FALSE
  <2>1. PICK p \in P : pc[p] = "recover_active"
    BY <1>2 DEF Running
  <2>2. PICK q \in P : pc[q] \in {"urgent_drain", "drain"}
    BY <1>2 DEF Running
  <2> QED
    BY <2>1, <2>2 DEF LockHeld, Critical
<1>3. lost = {} \/ \E t \in Running(P) : lost = {t}
  BY <1>2 DEF Running, Drain!Availability
<1>4. inflight' = inflight \/ \E t \in Running(P) : inflight' = inflight \cup {t}
  BY <1>1, <1>3
<1>5. "drain" \in inflight' /\ "drain" \notin inflight =>
          \E p \in P : pc[p] \in {"urgent_drain", "drain"}
  BY <1>1 DEF Running
<1> QED
  BY <1>4, <1>5 DEF CutOff

LEMMA NodeSafe ==
    ASSUME Safe, Node
    PROVE  LockHeld' /\ Releasing'
<1> USE DEF Safe
<1>1. CASE WatchCrash
  <2>1. /\ pc'["watch"] = "loop" /\ pc'["attempt"] = "idle" /\ pc'["boot"] = pc["boot"]
        /\ CutOff({"watch", "attempt"}) /\ {"watch", "attempt"} \in SUBSET Procs
    BY <1>1 DEF WatchCrash, TypeOK, Procs
  <2>2. LockHeld'
    BY <2>1, CutOffLost DEF LockHeld, Procs, Critical
  <2>3. CASE pc["boot"] = "recover_clear"
    <3>1. \A p \in {"watch", "attempt"} : pc[p] \notin {"urgent_drain", "drain"}
      BY <2>3 DEF LockHeld, Procs, Critical
    <3> QED
      BY <2>1, <2>2, <2>3, <3>1, CutOffLost DEF Releasing, Recoverer
  <2>4. CASE pc["boot"] # "recover_clear"
    BY <2>1, <2>2, <2>4 DEF Releasing, Recoverer
  <2> QED
    BY <2>3, <2>4
<1>2. CASE BootCrash
  <2>1. /\ pc'["watch"] = pc["watch"] /\ pc'["attempt"] = pc["attempt"] /\ pc'["boot"] = "done"
        /\ CutOff({"boot"}) /\ {"boot"} \in SUBSET Procs
    BY <1>2, Moves DEF BootCrash, Procs
  <2>2. LockHeld'
    BY <2>1, CutOffLost DEF LockHeld, Procs, Critical
  <2>3. pc["boot"] \notin {"urgent_drain", "drain"}
    BY DEF TypeOK, BootPC, Recovery
  <2>4. Releasing'
    BY <2>1, <2>3, CutOffLost DEF Releasing, Recoverer
  <2> QED
    BY <2>2, <2>4
<1>3. CASE PowerDown
  BY <1>3 DEF PowerDown, LockHeld, Releasing, Procs, Recoverer, Critical
<1>4. CASE PowerUp
  <2>1. \A p \in Procs : pc'[p] \in {"loop", "idle", "start"}
    BY <1>4 DEF PowerUp, Booted, Procs
  <2> QED
    BY <2>1 DEF LockHeld, Releasing, Procs, Recoverer, Critical
<1> QED
  BY <1>1, <1>2, <1>3, <1>4 DEF Node

LEMMA SwarmSafe ==
    ASSUME Safe, Swarm
    PROVE  LockHeld' /\ Releasing'
<1>1. UNCHANGED <<lock, pc>>
  BY DEF Swarm, Land, Drop, Teardown, Start, daemonVars
<1>2. LockHeld'
  BY <1>1 DEF LockHeld, Safe
<1>3. Releasing'
  <2>1. ASSUME NEW target \in Drain!Availability, Land(target)
        PROVE  Releasing'
    BY <1>1, <2>1 DEF Releasing, Safe, Land, Accepted, Drain!Availability
  <2>2. ASSUME NEW target \in Drain!Availability, Drop(target)
        PROVE  Releasing'
    BY <1>1, <2>2 DEF Releasing, Safe, Drop
  <2>3. ASSUME NEW s \in Services, Teardown(s) \/ Start(s)
        PROVE  Releasing'
    BY <1>1, <2>3 DEF Releasing, Safe, Teardown, Start, swarmVars
  <2> QED
    BY <2>1, <2>2, <2>3 DEF Swarm
<1> QED
  BY <1>2, <1>3

LEMMA InitSafe == Init => Safe
<1> SUFFICES ASSUME Init PROVE Safe
  OBVIOUS
<1>1. \A p \in Procs : pc[p] \in {"loop", "idle", "start"}
  BY DEF Init, Booted, Procs
<1> QED
  BY <1>1, InitType DEF Safe, LockHeld, Releasing, Recoverer, Procs, Critical

LEMMA StepSafe == Safe /\ [Next]_vars => Safe'
<1> SUFFICES ASSUME Safe, [Next]_vars PROVE LockHeld' /\ Releasing'
  BY StepType DEF Safe
<1>1. CASE WatchLoop \/ RunDrain \/ Poweroff
  BY <1>1, DaemonOutside, Outside DEF Safe
<1>2. CASE UrgentShutdown
  BY <1>2, UrgentSafe
<1>3. CASE \E p \in Recoverer : Recover(p)
  BY <1>3, RecoverSafe
<1>4. CASE Attempt
  BY <1>4, AttemptSafe
<1>5. CASE BootStart
  <2>1. Goto("boot", "recover_lock") \/ Goto("boot", "done")
    BY <1>5 DEF BootStart
  <2>2. \A p \in Procs : pc'[p] = pc[p] \/ pc'[p] \notin Critical
    BY <2>1, Moves DEF Safe, Procs, Critical
  <2> QED
    BY <1>5, <2>2, Outside DEF Safe, BootStart
<1>6. CASE UpsChanges
  BY <1>6 DEF UpsChanges, Safe, LockHeld, Releasing, swarmVars
<1>7. CASE Swarm
  BY <1>7, SwarmSafe
<1>8. CASE Node
  BY <1>8, NodeSafe
<1>9. CASE UNCHANGED vars
  BY <1>9 DEF vars, Safe, LockHeld, Releasing
<1> QED
  BY <1>1, <1>2, <1>3, <1>4, <1>5, <1>6, <1>7, <1>8, <1>9 DEF Next, Watch, Boot, Recoverer

(***************************************************************************)
(* At most one of the daemon, its drain attempt and the boot process is in *)
(* a critical section, and it holds the flock (acquireLock in main.go).    *)
(***************************************************************************)
THEOREM LockExcludes == Spec => []Safe
  BY InitSafe, StepSafe, PTL DEF Spec

(* The flag is removed by RecoverClear only. *)
LEMMA ClearedByRecovery ==
    ASSUME Safe, Next, marker /\ ~marker'
    PROVE  \E p \in Recoverer : RecoverClear(p)
<1>1. CASE WatchLoop \/ RunDrain \/ Poweroff
  BY <1>1, DaemonOutside DEF Safe
<1>2. CASE UrgentShutdown
  BY <1>2 DEF UrgentShutdown, UrgentLock, UrgentInspect, UrgentMark, UrgentDrain, WriteFlag
<1>3. ASSUME NEW p \in Recoverer, Recover(p)
      PROVE  RecoverClear(p)
  BY <1>3 DEF Recover, RecoverLock, RecoverProbe, RecoverActive
<1>4. CASE Attempt
  BY <1>4 DEF Attempt, AttemptLock, AttemptMark, AttemptDrain, WriteFlag
<1>5. CASE BootStart \/ UpsChanges \/ Swarm \/ Node
  BY <1>5 DEF BootStart, UpsChanges, Swarm, Land, Drop, Teardown, Start, Node, WatchCrash,
              BootCrash, PowerDown, PowerUp
<1> QED
  BY <1>1, <1>2, <1>3, <1>4, <1>5 DEF Next, Watch, Boot, Recoverer

(***************************************************************************)
(* FlagClearedWhenReleased: the flag is only removed when no drain stands  *)
(* or can land, with failing docker and failing disks included.            *)
(***************************************************************************)
THEOREM ReleaseBeforeClear == Spec => FlagClearedWhenReleased
<1>1. Safe /\ [Next]_vars => [marker /\ ~marker' => avail = "active" /\ "drain" \notin inflight]_vars
  <2> SUFFICES ASSUME Safe, Next, marker, ~marker'
               PROVE  avail = "active" /\ "drain" \notin inflight
    BY DEF vars
  <2>1. PICK p \in Recoverer : RecoverClear(p)
    BY ClearedByRecovery
  <2> QED
    BY <2>1 DEF RecoverClear, Safe, Releasing
<1> QED
  BY <1>1, LockExcludes, PTL DEF Spec, FlagClearedWhenReleased

-----------------------------------------------------------------------------
(* The drain protocol, on a disk that takes every write. *)

FlagBeforeDrain == pc["attempt"] = "drain" \/ pc["watch"] = "urgent_drain" => marker

Marked == Safe /\ FlagBeforeDrain /\ DrainMarked

LEMMA InitMarked == Init => Marked
  BY InitSafe DEF Init, Marked, FlagBeforeDrain, DrainMarked, Drain!DrainMarked, Booted, Procs

(* No step but an attempt's or an urgent drain's enters a drain command. *)
LEMMA StaysOut ==
    ASSUME Safe, FlagBeforeDrain, marker' = marker,
           \A p \in {"watch", "attempt"} : pc'[p] = pc[p] \/ pc'[p] \notin Critical
    PROVE  FlagBeforeDrain'
  BY DEF FlagBeforeDrain, Critical

(* Every step, as the drain protocol sees it. *)
LEMMA StepImplements ==
    ASSUME ~DiskFaults, Marked, Next
    PROVE  /\ FlagBeforeDrain'
           /\ Drain!DrainNext \/ UNCHANGED Drain!drainVars
<1> USE DEF Marked
<1> TypeOK /\ LockHeld /\ "watch" \in Procs /\ "attempt" \in Procs /\ "boot" \in Procs
  BY DEF Safe, Procs
<1>1. ASSUME NEW target \in Drain!Availability, UNCHANGED marker, Drain!Marked(target),
             Accepted(target) \/ Rejected(target)
      PROVE  Drain!DrainNext \/ UNCHANGED Drain!drainVars
  BY <1>1 DEF Accepted, Rejected, Drain!DrainNext, Drain!Update, Drain!Submit, Drain!drainVars
<1>2. ASSUME NEW P \in SUBSET Procs, CutOff(P), UNCHANGED marker
      PROVE  Drain!DrainNext \/ UNCHANGED Drain!drainVars
  <2>1. ASSUME NEW t \in Running(P), inflight' = inflight \cup {t}
        PROVE  Drain!DrainNext
    <3>1. t = "drain" => marker
      BY <2>1 DEF Running, FlagBeforeDrain, TypeOK, WatchPC, AttemptPC, BootPC, Recovery, Urgent,
                  Draining, Procs
    <3> QED
      BY <1>2, <2>1, <3>1, CutOffLost DEF Running, Drain!DrainNext, Drain!Submit, Drain!Marked
  <2> QED
    BY <1>2, <2>1, CutOffLost DEF Drain!drainVars
<1>3. CASE WatchLoop \/ RunDrain \/ Poweroff
  <2>1. UNCHANGED Drain!drainVars
    BY <1>3, DaemonOutside DEF swarmVars, Drain!drainVars
  <2>2. FlagBeforeDrain'
    BY <1>3, DaemonOutside, StaysOut
  <2> QED
    BY <2>1, <2>2
<1>4. CASE UrgentLock \/ UrgentInspect
  <2>1. UNCHANGED Drain!drainVars
    BY <1>4 DEF UrgentLock, UrgentInspect, swarmVars, Drain!drainVars
  <2>2. \/ Goto("watch", "urgent_inspect") \/ Goto("watch", "urgent_mark")
        \/ Goto("watch", "poweroff")
    BY <1>4 DEF UrgentLock, UrgentInspect, UrgentEnds
  <2>3. FlagBeforeDrain'
    BY <2>1, <2>2, Moves DEF FlagBeforeDrain, Drain!drainVars
  <2> QED
    BY <2>1, <2>3
<1>5. CASE UrgentMark
  <2>1. CASE marker' = TRUE
    BY <1>5, <2>1 DEF UrgentMark, swarmVars, Drain!DrainNext, Drain!SetFlag, FlagBeforeDrain
  <2>2. CASE Goto("watch", "poweroff") /\ UNCHANGED marker
    BY <1>5, <2>2, Moves DEF UrgentMark, swarmVars, Drain!drainVars, FlagBeforeDrain
  <2> QED
    BY <1>5, <2>1, <2>2 DEF UrgentMark, WriteFlag, UrgentEnds
<1>6. CASE UrgentDrain
  <2>1. FlagBeforeDrain' /\ marker
    BY <1>6, Moves DEF UrgentDrain, UrgentEnds, FlagBeforeDrain
  <2> QED
    BY <1>1, <1>6, <2>1 DEF UrgentDrain, Drain!Availability, Drain!Marked
<1>7. ASSUME NEW p \in Recoverer, Recover(p)
      PROVE  /\ FlagBeforeDrain'
             /\ Drain!DrainNext \/ UNCHANGED Drain!drainVars
  <2>1. ASSUME NEW success \in BOOLEAN, Recovered(p, success)
        PROVE  \E label : Goto(p, label) /\ label \notin Critical
    BY <2>1, RecoveredOutside
  <2>2. \E label : Goto(p, label) /\ label \notin {"drain", "urgent_drain"}
    <3>1. \/ Goto(p, "recover_probe") \/ Goto(p, "recover_active") \/ Goto(p, "recover_clear")
          \/ Recovered(p, TRUE) \/ Recovered(p, FALSE)
      BY <1>7 DEF Recover, RecoverLock, RecoverProbe, RecoverActive, RecoverClear
    <3>2. CASE Recovered(p, TRUE) \/ Recovered(p, FALSE)
      <4>1. PICK label : Goto(p, label) /\ label \notin Critical
        BY <2>1, <3>2
      <4>2. label \notin {"drain", "urgent_drain"}
        BY <4>1 DEF Critical
      <4> QED
        BY <4>1, <4>2
    <3>3. CASE Goto(p, "recover_probe") \/ Goto(p, "recover_active") \/ Goto(p, "recover_clear")
      <4>1. {"recover_probe", "recover_active", "recover_clear"} \cap {"drain", "urgent_drain"} = {}
        OBVIOUS
      <4> QED
        BY <3>3, <4>1
    <3> QED
      BY <3>1, <3>2, <3>3
  <2>3. p \in Procs
    BY DEF Recoverer, Procs
  <2>4. CASE UNCHANGED marker
    <3>1. FlagBeforeDrain'
      BY <2>2, <2>3, <2>4, Moves DEF FlagBeforeDrain
    <3>2. Drain!Marked("active") /\ "active" \in Drain!Availability
      BY DEF Drain!Marked, Drain!Availability
    <3>3. \/ UNCHANGED <<avail, inflight>>
          \/ Accepted("active") \/ Rejected("active")
      BY <1>7 DEF Recover, RecoverLock, RecoverProbe, RecoverActive, RecoverClear, swarmVars
    <3> QED
      BY <1>1, <2>4, <3>1, <3>2, <3>3 DEF Drain!drainVars
  <2>5. CASE ~UNCHANGED marker
    <3>1. RecoverClear(p)
      BY <1>7, <2>5 DEF Recover, RecoverLock, RecoverProbe, RecoverActive
    <3>2. marker' = FALSE /\ UNCHANGED <<avail, inflight>> /\ avail = "active" /\ "drain" \notin inflight
      BY <2>5, <3>1 DEF RecoverClear, swarmVars, Safe, Releasing
    <3>3. \A q \in Procs \ {p} : pc'[q] \notin Critical
      BY <2>2, <2>3, <3>1, <2>1, Alone DEF RecoverClear, Critical
    <3>4. FlagBeforeDrain'
      BY <2>2, <2>3, <3>3, Moves DEF FlagBeforeDrain, Critical
    <3> QED
      BY <3>2, <3>4 DEF Drain!DrainNext, Drain!ClearFlag
  <2> QED
    BY <2>4, <2>5
<1>8. CASE AttemptLock
  <2>1. Goto("attempt", "mark") \/ Goto("attempt", "failed")
    BY <1>8 DEF AttemptLock
  <2> QED
    BY <1>8, <2>1, Moves DEF AttemptLock, swarmVars, Drain!drainVars, FlagBeforeDrain
<1>9. CASE AttemptMark
  <2>1. CASE marker' = TRUE
    BY <1>9, <2>1 DEF AttemptMark, swarmVars, Drain!DrainNext, Drain!SetFlag, FlagBeforeDrain
  <2>2. CASE Goto("attempt", "failed") /\ UNCHANGED marker
    BY <1>9, <2>2, Moves DEF AttemptMark, swarmVars, Drain!drainVars, FlagBeforeDrain
  <2> QED
    BY <1>9, <2>1, <2>2 DEF AttemptMark, WriteFlag, AttemptEnds
<1>10. CASE AttemptDrain
  <2>1. FlagBeforeDrain' /\ marker
    BY <1>10, Moves DEF AttemptDrain, AttemptEnds, FlagBeforeDrain
  <2> QED
    BY <1>1, <1>10, <2>1 DEF AttemptDrain, Drain!Availability, Drain!Marked
<1>11. CASE BootStart
  <2>1. Goto("boot", "recover_lock") \/ Goto("boot", "done")
    BY <1>11 DEF BootStart
  <2> QED
    BY <1>11, <2>1, Moves DEF BootStart, swarmVars, Drain!drainVars, FlagBeforeDrain
<1>12. CASE UpsChanges
  BY <1>12 DEF UpsChanges, swarmVars, Drain!drainVars, FlagBeforeDrain
<1>13. CASE Swarm
  <2>1. FlagBeforeDrain'
    BY <1>13 DEF Swarm, Land, Drop, Teardown, Start, FlagBeforeDrain
  <2>2. ASSUME NEW target \in Drain!Availability, Land(target) \/ Drop(target)
        PROVE  Drain!DrainNext
    BY <2>2 DEF Land, Drop, Accepted, Drain!DrainNext, Drain!Land, Drain!Drop
  <2>3. ASSUME NEW s \in Services, Teardown(s) \/ Start(s)
        PROVE  UNCHANGED Drain!drainVars
    BY <2>3 DEF Teardown, Start, swarmVars, Drain!drainVars
  <2> QED
    BY <1>13, <2>1, <2>2, <2>3 DEF Swarm
<1>14. CASE Node
  <2>1. CASE WatchCrash
    <3>1. FlagBeforeDrain'
      BY <2>1 DEF WatchCrash, FlagBeforeDrain, TypeOK, Procs
    <3> QED
      BY <1>2, <2>1, <3>1 DEF WatchCrash, Procs
  <2>2. CASE BootCrash
    <3>1. FlagBeforeDrain'
      BY <2>2, Moves DEF BootCrash, FlagBeforeDrain
    <3> QED
      BY <1>2, <2>2, <3>1 DEF BootCrash, Procs
  <2>3. CASE PowerDown
    <3>1. FlagBeforeDrain'
      BY <2>3 DEF PowerDown, FlagBeforeDrain
    <3> QED
      BY <1>2, <2>3, <3>1 DEF PowerDown
  <2>4. CASE PowerUp
    BY <2>4 DEF PowerUp, Booted, FlagBeforeDrain, swarmVars, Drain!drainVars
  <2> QED
    BY <1>14, <2>1, <2>2, <2>3, <2>4 DEF Node
<1> QED
  BY <1>3, <1>4, <1>5, <1>6, <1>7, <1>8, <1>9, <1>10, <1>11, <1>12, <1>13, <1>14
     DEF Next, Watch, UrgentShutdown, Attempt, Boot, Recoverer

(* DrainMarked is the drain protocol's own invariant. *)
LEMMA ProtocolMarked ==
    ASSUME DrainMarked, Drain!DrainNext \/ UNCHANGED Drain!drainVars
    PROVE  DrainMarked'
  BY DEF DrainMarked, Drain!DrainMarked, Drain!DrainNext, Drain!SetFlag, Drain!Update, Drain!Submit,
         Drain!Land, Drain!Drop, Drain!ClearFlag, Drain!Marked, Drain!Availability, Drain!drainVars

LEMMA StepMarked == ~DiskFaults /\ Marked /\ [Next]_vars => Marked'
<1> SUFFICES ASSUME ~DiskFaults, Marked, [Next]_vars PROVE Marked'
  OBVIOUS
<1>1. CASE Next
  BY <1>1, StepSafe, StepImplements, ProtocolMarked DEF Marked
<1>2. CASE UNCHANGED vars
  BY <1>2, StepSafe DEF vars, Marked, FlagBeforeDrain, DrainMarked, Drain!DrainMarked
<1> QED
  BY <1>1, <1>2

(***************************************************************************)
(* DrainMarked: as long as the disk takes the flag, a node that is drained *)
(* or that a lost command may still drain has it, through every crash,     *)
(* cancellation and loss of power.                                         *)
(***************************************************************************)
THEOREM DrainAlwaysMarked == ASSUME ~DiskFaults PROVE Spec => []DrainMarked
<1>1. Marked /\ [Next]_vars => Marked'
  BY StepMarked
<1>2. Marked => DrainMarked
  BY DEF Marked
<1> QED
  BY <1>1, <1>2, InitMarked, PTL DEF Spec

(***************************************************************************)
(* ImplementsNodeDrain: the daemon, its attempt and the boot process       *)
(* together implement the drain protocol of NodeDrain.                     *)
(***************************************************************************)
THEOREM WatcherImplementsDrain == ASSUME ~DiskFaults PROVE Spec => ImplementsNodeDrain
<1>1. Init => Drain!DrainInit
  BY DEF Init, Drain!DrainInit
<1>2. Marked /\ [Next]_vars => [Drain!DrainNext]_(Drain!drainVars)
  BY StepImplements DEF vars, Drain!drainVars
<1>3. Marked /\ [Next]_vars => Marked'
  BY StepMarked
<1> QED
  BY <1>1, <1>2, <1>3, InitMarked, PTL DEF Spec, ImplementsNodeDrain, Drain!DrainSpec

-----------------------------------------------------------------------------
(* The machine's drained latch against the daemon's progress. *)

LatchClosed ==
    /\ pc["watch"] \in {"loop"} \cup Recovery => ~m.drained
    /\ pc["watch"] = "cancelling" => run.stop # "none" /\ (run.stop = "undrain" => ~m.drained)

Latched == TypeOK /\ LatchClosed

LEMMA InitLatched == Init => Latched
  BY InitType DEF Init, Latched, LatchClosed, Booted, Procs, NewMachine

(* A step that leaves the daemon, its machine and its run where they are. *)
LEMMA DaemonStays ==
    ASSUME LatchClosed, pc'["watch"] = pc["watch"], UNCHANGED <<m, run>>
    PROVE  LatchClosed'
  BY DEF LatchClosed

LEMMA WatchLatched ==
    ASSUME ~TestMode, Latched, Watch
    PROVE  LatchClosed'
<1> USE DEF Latched
<1> "watch" \in Procs
  BY DEF Procs
<1>1. ASSUME NEW label, Goto("watch", label), label \notin Recovery \cup {"loop", "cancelling"}
      PROVE  LatchClosed'
  BY <1>1, Moves DEF LatchClosed
<1>2. ASSUME NEW d \in Decisions, Stops(d), m' = d.m, LeaveRun(d.action = "shutdown")
      PROVE  LatchClosed'
  <2>1. CASE d.action = "shutdown"
    BY <1>1, <1>2, <2>1 DEF LeaveRun, Recovery
  <2>2. CASE d.action = "undrain"
    <3>1. Goto("watch", "recover_lock") /\ ~m'.drained
      BY <1>2, <2>2, DecisionsEffect DEF LeaveRun
    <3> QED
      BY <3>1, Moves DEF LatchClosed
  <2> QED
    BY <1>2, <2>1, <2>2 DEF Stops
<1>3. ASSUME NotReady
      PROVE  LatchClosed'
  <2>1. CASE LeaveRun(~TestMode)
    BY <1>1, <2>1 DEF LeaveRun, Recovery
  <2>2. CASE Goto("watch", IF run.drained THEN "poll" ELSE "first_probe")
    BY <1>1, <2>2 DEF Recovery
  <2> QED
    BY <1>3, <2>1, <2>2 DEF NotReady
<1>4. CASE WatchLoop
  <2>1. PICK d \in Decisions :
            /\ m' = d.m
            /\ Goto("watch", CASE d.action = "drain"    -> "first_probe"
                               [] d.action = "shutdown" -> IF ShutdownDrain(d) THEN "urgent_lock"
                                                                               ELSE "poweroff"
                               [] OTHER                 -> "recover_lock")
    BY <1>4 DEF WatchLoop
  <2>2. CASE d.action \in {"drain", "shutdown"}
    <3>1. \/ Goto("watch", "first_probe") \/ Goto("watch", "urgent_lock")
          \/ Goto("watch", "poweroff")
      BY <2>1, <2>2
    <3> QED
      BY <1>1, <3>1 DEF Recovery
  <2>3. CASE d.action \notin {"drain", "shutdown"}
    <3>1. ~m.drained
      BY <1>4 DEF WatchLoop, LatchClosed
    <3>2. ~m'.drained
      BY <2>1, <2>3, <3>1, DecisionsEffect
    <3>3. Goto("watch", "recover_lock")
      BY <2>1, <2>3
    <3> QED
      BY <3>2, <3>3, Moves DEF LatchClosed
  <2> QED
    BY <2>2, <2>3
<1>5. CASE FirstProbe
  <2>1. CASE pc' = [pc EXCEPT !["watch"] = "attempting", !["attempt"] = "lock"]
    BY <2>1 DEF LatchClosed, TypeOK, Recovery
  <2> QED
    BY <1>2, <1>5, <2>1 DEF FirstProbe
<1>6. CASE AttemptTick
  <2>1. PICK d \in Decisions :
            /\ m' = d.m
            /\ \/ Stops(d) /\ Goto("watch", "cancelling") /\ run' = [run EXCEPT !.stop = d.action]
               \/ ~Stops(d) /\ UNCHANGED <<pc, run>>
    BY <1>6 DEF AttemptTick
  <2>2. CASE Stops(d) /\ Goto("watch", "cancelling") /\ run' = [run EXCEPT !.stop = d.action]
    <3>1. run'.stop = d.action /\ d.action \in {"undrain", "shutdown"}
      BY <2>2 DEF Stops, TypeOK, Run
    <3>2. d.action = "undrain" => ~m'.drained
      BY <2>1, DecisionsEffect
    <3>3. pc'["watch"] = "cancelling"
      BY <2>2, Moves
    <3> QED
      BY <3>1, <3>2, <3>3 DEF LatchClosed, Recovery
  <2>3. CASE UNCHANGED <<pc, run>>
    BY <1>6, <2>3 DEF AttemptTick, LatchClosed, Recovery
  <2> QED
    BY <2>1, <2>2, <2>3
<1>7. CASE AttemptResult
  BY <1>7 DEF AttemptResult, LatchClosed, TypeOK, Recovery
<1>8. CASE AttemptCancelled
  <2>1. pc'["watch"] = IF run.stop = "shutdown" THEN "poweroff" ELSE "recover_lock"
    BY <1>8 DEF AttemptCancelled, TypeOK
  <2>2. run.stop \in {"undrain", "shutdown"} /\ (run.stop = "undrain" => ~m'.drained)
    BY <1>8 DEF AttemptCancelled, LatchClosed, TypeOK, Run
  <2> QED
    BY <2>1, <2>2 DEF LatchClosed, Recovery
<1>9. CASE Poll
  <2>1. CASE Goto("watch", "count")
    BY <1>1, <2>1 DEF Recovery
  <2> QED
    BY <1>2, <1>9, <2>1 DEF Poll
<1>10. CASE Count \/ Missing \/ Ready
  <2>1. CASE Goto("watch", "missing") \/ Goto("watch", "ready")
    BY <1>1, <2>1 DEF Recovery
  <2>2. CASE LeaveRun(~TestMode)
    BY <1>1, <2>2 DEF LeaveRun, Recovery
  <2> QED
    BY <1>3, <1>10, <2>1, <2>2 DEF Count, Missing, Ready
<1>11. CASE UrgentShutdown
  <2>1. \/ Goto("watch", "poweroff") \/ Goto("watch", "urgent_inspect")
        \/ Goto("watch", "urgent_mark") \/ Goto("watch", "urgent_drain")
    BY <1>11 DEF UrgentShutdown, UrgentLock, UrgentInspect, UrgentMark, UrgentDrain, UrgentEnds
  <2> QED
    BY <1>1, <2>1 DEF Recovery
<1>12. CASE Poweroff
  BY <1>12, DaemonStays DEF Poweroff, daemonVars
<1>13. CASE Recover("watch")
  <2>1. UNCHANGED <<m, run>> /\ pc["watch"] \in Recovery
    BY <1>13 DEF Recover, RecoverLock, RecoverProbe, RecoverActive, RecoverClear, Recovery
  <2>2. ~m'.drained
    BY <2>1 DEF LatchClosed
  <2>3. \E label \in Recovery \cup {"loop"} : Goto("watch", label)
    BY <1>13 DEF Recover, RecoverLock, RecoverProbe, RecoverActive, RecoverClear, Recovered, Recovery
  <2>4. pc'["watch"] \in Recovery \cup {"loop"}
    BY <2>3, Moves
  <2> QED
    BY <2>2, <2>4 DEF LatchClosed, Recovery
<1> QED
  BY <1>4, <1>5, <1>6, <1>7, <1>8, <1>9, <1>10, <1>11, <1>12, <1>13 DEF Watch, RunDrain

LEMMA StepLatched == ~TestMode /\ Latched /\ [Next]_vars => Latched'
<1> SUFFICES ASSUME ~TestMode, Latched, [Next]_vars PROVE LatchClosed'
  BY StepType DEF Latched
<1> TypeOK /\ LatchClosed
  BY DEF Latched
<1>1. CASE Watch
  BY <1>1, WatchLatched
<1>2. CASE Attempt
  <2>1. pc'["watch"] = pc["watch"] /\ m' = m
    BY <1>2, Moves DEF Attempt, AttemptLock, AttemptMark, AttemptDrain, AttemptEnds, daemonVars, Procs
  <2>2. run' = run \/ run' = Snapshot
    BY <1>2 DEF Attempt, AttemptLock, AttemptMark, AttemptDrain, daemonVars
  <2>3. run'.stop = run.stop
    BY <2>2 DEF Snapshot, TypeOK, Run
  <2> QED
    BY <2>1, <2>3 DEF LatchClosed
<1>3. CASE Boot
  <2>1. pc'["watch"] = pc["watch"]
    BY <1>3, Moves DEF Boot, BootStart, Recover, RecoverLock, RecoverProbe, RecoverActive,
                       RecoverClear, Recovered, Procs
  <2>2. UNCHANGED <<m, run>>
    BY <1>3 DEF Boot, BootStart, Recover, RecoverLock, RecoverProbe, RecoverActive, RecoverClear,
                daemonVars
  <2> QED
    BY <2>1, <2>2, DaemonStays
<1>4. CASE UpsChanges
  BY <1>4, DaemonStays DEF UpsChanges, daemonVars
<1>5. CASE Swarm
  BY <1>5, DaemonStays DEF Swarm, Land, Drop, Teardown, Start, daemonVars
<1>6. CASE Node
  <2>1. CASE BootCrash
    BY <2>1, Moves, DaemonStays DEF BootCrash, daemonVars, Procs
  <2>2. CASE WatchCrash \/ PowerDown \/ PowerUp
    <3>1. ~m'.drained
      BY <2>2 DEF WatchCrash, PowerDown, PowerUp, Forget, NewMachine
    <3>2. pc'["watch"] \in {"loop", "down"}
      BY <2>2 DEF WatchCrash, PowerDown, PowerUp, TypeOK, Booted, Procs
    <3> QED
      BY <3>1, <3>2 DEF LatchClosed
  <2> QED
    BY <1>6, <2>1, <2>2 DEF Node
<1>7. CASE UNCHANGED vars
  BY <1>7, DaemonStays DEF vars
<1> QED
  BY <1>1, <1>2, <1>3, <1>4, <1>5, <1>6, <1>7 DEF Next

(***************************************************************************)
(* LatchMatchesRun: outside a rehearsal the daemon is never in its loop    *)
(* with the machine still holding a drain open.                            *)
(***************************************************************************)
THEOREM LatchAlwaysMatches == ASSUME ~TestMode PROVE Spec => []LatchMatchesRun
<1>1. Latched /\ [Next]_vars => Latched'
  BY StepLatched
<1>2. Latched => LatchMatchesRun
  BY DEF Latched, LatchClosed, LatchMatchesRun
<1> QED
  BY <1>1, <1>2, InitLatched, PTL DEF Spec

-----------------------------------------------------------------------------
(* A survivor: none of the steps that lead to a drain is ever taken. *)

LEMMA SurvivorDecides ==
    ASSUME TypeOK, Role = "survivor", ~m.drained, NEW d \in Decisions
    PROVE  ~d.m.drained /\ d.action \in {"none", "shutdown"} /\ ~ShutdownDrain(d)
<1>1. PICK t \in IF Fed.ok THEN {0} ELSE {0, SilentSecs} : d = OnProbe(m, Fed, t)
  BY DEF Decisions
<1>2. m \in Machine /\ Fed \in AnyProbe /\ t \in Int
  BY <1>1, FedType, PositiveKnobs DEF TypeOK
<1>3. ~OnProbe(m, Fed, t).m.drained /\ OnProbe(m, Fed, t).action \in {"none", "shutdown"}
  <2>1. CASE m.poweredDown
    BY <1>2, <2>1, DeadArm
  <2>2. CASE ~m.poweredDown /\ IsLB(Fed)
    BY <1>2, <2>2, LowBatteryArm
  <2>3. CASE ~m.poweredDown /\ IsOB(Fed)
    BY <1>2, <2>3, OnBatteryArm DEF OpensDrain
  <2>4. CASE ~m.poweredDown /\ IsMains(Fed)
    BY <1>2, <2>4, OnMainsArm DEF ClosesDrain
  <2>5. CASE ~m.poweredDown /\ ~Fed.ok /\ SilentTooLong(m, t)
    BY <1>2, <2>5, WatchdogArm
  <2>6. CASE ~m.poweredDown /\ ~Fed.ok /\ ~SilentTooLong(m, t)
    BY <1>2, <2>6, QuietArm
  <2> QED
    BY <1>2, <2>1, <2>2, <2>3, <2>4, <2>5, <2>6, ProbeCases
<1> QED
  BY <1>1, <1>3 DEF ShutdownDrain

Apart == /\ TypeOK
         /\ ~m.drained
         /\ SurvivorStaysInSwarm
         /\ pc["watch"] \in {"loop", "recover_lock", "poweroff", "down"}
         /\ pc["attempt"] = "idle"
         /\ pc["boot"] \in {"start", "done", "down"}

LEMMA InitApart == Init => Apart
  BY InitType DEF Init, Apart, SurvivorStaysInSwarm, Booted, Procs, NewMachine

(* With no flag a recovery ends at its first step. *)
LEMMA RecoverApart ==
    ASSUME Apart, Recover("watch")
    PROVE  /\ pc'["watch"] \in {"loop", "recover_lock"}
           /\ \A q \in Procs \ {"watch"} : pc'[q] = pc[q]
           /\ UNCHANGED <<avail, inflight, marker, m>>
<1>1. RecoverLock("watch")
  BY DEF Recover, RecoverProbe, RecoverActive, RecoverClear, Apart
<1>2. \E label \in {"loop", "recover_lock"} : Goto("watch", label)
  BY <1>1 DEF RecoverLock, Recovered, Apart, SurvivorStaysInSwarm
<1> QED
  BY <1>1, <1>2, Moves DEF RecoverLock, swarmVars, Apart, Procs

LEMMA StepApart == Role = "survivor" /\ Apart /\ [Next]_vars => Apart'
<1> SUFFICES ASSUME Role = "survivor", Apart, [Next]_vars PROVE Apart'
  OBVIOUS
<1>1. TypeOK /\ TypeOK'
  BY StepType DEF Apart
<1>2. CASE Watch
  <2>1. CASE WatchLoop
    <3>1. PICK d \in Decisions :
              /\ m' = d.m
              /\ Goto("watch", CASE d.action = "drain"    -> "first_probe"
                                 [] d.action = "shutdown" -> IF ShutdownDrain(d) THEN "urgent_lock"
                                                                                 ELSE "poweroff"
                                 [] OTHER                 -> "recover_lock")
      BY <2>1 DEF WatchLoop
    <3>2. ~d.m.drained /\ d.action \in {"none", "shutdown"} /\ ~ShutdownDrain(d)
      BY SurvivorDecides DEF Apart
    <3>3. Goto("watch", "poweroff") \/ Goto("watch", "recover_lock")
      BY <3>1, <3>2
    <3>4. /\ pc'["watch"] \in {"poweroff", "recover_lock"}
          /\ pc'["attempt"] = pc["attempt"] /\ pc'["boot"] = pc["boot"]
      BY <1>1, <3>3, Moves DEF Procs
    <3> QED
      BY <1>1, <2>1, <3>1, <3>2, <3>4 DEF WatchLoop, Apart, SurvivorStaysInSwarm, swarmVars
  <2>2. CASE Poweroff
    BY <1>1, <2>2 DEF Poweroff, Apart, SurvivorStaysInSwarm, swarmVars, daemonVars
  <2>3. CASE Recover("watch")
    BY <1>1, <2>3, RecoverApart DEF Apart, SurvivorStaysInSwarm, Procs
  <2>4. ~RunDrain /\ ~UrgentShutdown
    BY DEF Apart, RunDrain, FirstProbe, AttemptTick, AttemptResult, AttemptCancelled, Poll, Count,
           Missing, Ready, UrgentShutdown, UrgentLock, UrgentInspect, UrgentMark, UrgentDrain
  <2> QED
    BY <1>2, <2>1, <2>2, <2>3, <2>4 DEF Watch
<1>3. ~Attempt
  BY DEF Attempt, AttemptLock, AttemptMark, AttemptDrain, Apart
<1>4. CASE Boot
  <2>1. BootStart
    BY <1>4 DEF Boot, Recover, RecoverLock, RecoverProbe, RecoverActive, RecoverClear, Apart
  <2>2. Goto("boot", "done")
    BY <2>1 DEF BootStart, Apart, SurvivorStaysInSwarm
  <2>3. /\ pc'["boot"] = "done"
        /\ pc'["attempt"] = pc["attempt"] /\ pc'["watch"] = pc["watch"]
    BY <1>1, <2>2, Moves DEF Procs
  <2> QED
    BY <1>1, <2>1, <2>3 DEF BootStart, Apart, SurvivorStaysInSwarm, swarmVars, daemonVars
<1>5. CASE UpsChanges
  BY <1>1, <1>5 DEF UpsChanges, Apart, SurvivorStaysInSwarm, swarmVars, daemonVars
<1>6. CASE Swarm
  BY <1>1, <1>6 DEF Swarm, Land, Drop, Teardown, Start, Apart, SurvivorStaysInSwarm, swarmVars,
                    daemonVars
<1>7. CASE Node
  <2>1. ASSUME NEW P \in SUBSET Procs, CutOff(P)
        PROVE  avail' = avail /\ inflight' = {}
    <3>1. Running(P) = {}
      BY <2>1 DEF Running, Apart, Procs
    <3> QED
      BY <2>1, <3>1 DEF CutOff, Apart, SurvivorStaysInSwarm
  <2>2. CASE WatchCrash
    <3>1. {"watch", "attempt"} \in SUBSET Procs
      BY DEF Procs
    <3>2. SurvivorStaysInSwarm'
      BY <2>1, <2>2, <3>1 DEF WatchCrash, Apart, SurvivorStaysInSwarm
    <3>3. pc'["watch"] = "loop" /\ pc'["attempt"] = "idle" /\ pc'["boot"] = pc["boot"]
      BY <1>1, <2>2 DEF WatchCrash, TypeOK, Procs
    <3> QED
      BY <1>1, <2>2, <3>2, <3>3 DEF WatchCrash, Forget, NewMachine, Apart
  <2>3. CASE BootCrash
    <3>1. {"boot"} \in SUBSET Procs
      BY DEF Procs
    <3>2. SurvivorStaysInSwarm'
      BY <2>1, <2>3, <3>1 DEF BootCrash, Apart, SurvivorStaysInSwarm
    <3>3. /\ pc'["boot"] = "done"
          /\ pc'["attempt"] = pc["attempt"] /\ pc'["watch"] = pc["watch"]
      BY <1>1, <2>3, Moves DEF BootCrash, Procs
    <3> QED
      BY <1>1, <2>3, <3>2, <3>3 DEF BootCrash, daemonVars, Apart
  <2>4. CASE PowerDown
    <3>1. SurvivorStaysInSwarm'
      BY <2>1, <2>4 DEF PowerDown, Apart, SurvivorStaysInSwarm
    <3>2. pc'["watch"] = "down" /\ pc'["attempt"] = "idle" /\ pc'["boot"] = "down"
      BY <2>4 DEF PowerDown, Procs
    <3> QED
      BY <1>1, <2>4, <3>1, <3>2 DEF PowerDown, Forget, NewMachine, Apart
  <2>5. CASE PowerUp
    BY <1>1, <2>5 DEF PowerUp, Booted, Procs, Forget, NewMachine, Apart, SurvivorStaysInSwarm,
                      swarmVars
  <2> QED
    BY <1>7, <2>2, <2>3, <2>4, <2>5 DEF Node
<1>8. CASE UNCHANGED vars
  BY <1>1, <1>8 DEF vars, Apart, SurvivorStaysInSwarm
<1> QED
  BY <1>2, <1>3, <1>4, <1>5, <1>6, <1>7, <1>8 DEF Next

(***************************************************************************)
(* SurvivorStaysInSwarm: a survivor is never drained nor marked, on any    *)
(* status sequence and under every fault (role in machine.go:127 and       *)
(* main.go:430).                                                          *)
(***************************************************************************)
THEOREM SurvivorNeverLeaves == ASSUME Role = "survivor" PROVE Spec => []SurvivorStaysInSwarm
<1>1. Apart /\ [Next]_vars => Apart'
  BY StepApart
<1>2. Apart => SurvivorStaysInSwarm
  BY DEF Apart
<1> QED
  BY <1>1, <1>2, InitApart, PTL DEF Spec
=============================================================================
