----------------------------- MODULE UpsWatcher -----------------------------
(***************************************************************************)
(* ups-watcher on one node (src/cmd/ups-watcher/main.go): the watch daemon *)
(* ("watch"), the goroutine it starts for a drain attempt ("attempt"), and *)
(* the boot-time "undrain" process ("boot"), with what they share: the     *)
(* flag file, the flock on <flag dir>/lock, the node's availability in the *)
(* swarm and the machine's power.                                          *)
(*                                                                         *)
(* Time is abstracted.  Sleeps, tickers and timeouts are steps that may be *)
(* taken at any moment; for the machine's watchdog an answered probe is at *)
(* second 0 and a failed one at 0 or at SilentSecs, the window passed or   *)
(* not.                                                                    *)
(***************************************************************************)
EXTENDS UpsMachine, FiniteSets

CONSTANTS
    Services,      \* the swarm services that may run on this node
    TestMode,      \* UPS_TEST_OB=1
    Crashes,       \* the processes may crash
    PowerLoss,     \* the node may lose power at any time
    Reboots,       \* bound: a node that went off may come up again
    DockerFaults,  \* docker commands may fail or be cut off
    DiskFaults     \* the flag directory may refuse a write or a removal

ASSUME FlagAssumption ==
    /\ TestMode \in BOOLEAN /\ Crashes \in BOOLEAN /\ PowerLoss \in BOOLEAN /\ Reboots \in BOOLEAN
    /\ DockerFaults \in BOOLEAN /\ DiskFaults \in BOOLEAN

VARIABLES
    reply,     \* what a NUT probe gets at this moment
    power,     \* the node: "on", "stopping" (poweroff accepted) or "off"
    avail, inflight, marker,   \* as in NodeDrain
    place,     \* where each service runs, or "transit"
    lock,      \* the process that holds the flock, or "none"
    pc,        \* the point each process has reached
    m,         \* the daemon's Machine
    run,       \* the locals of runDrain
    aborting   \* the daemon is in runDrain's own recoverDrain, before the loop's

upsVars    == <<reply, power>>
swarmVars  == <<avail, inflight>>
daemonVars == <<m, run, aborting>>
vars == <<reply, power, avail, inflight, marker, place, lock, pc, m, run, aborting>>

Drain == INSTANCE NodeDrain WITH avail <- avail, inflight <- inflight, marker <- marker

Recovery == {"recover_lock", "recover_probe", "recover_active", "recover_clear"}
Urgent   == {"urgent_lock", "urgent_inspect", "urgent_mark", "urgent_drain"}
Draining == {"first_probe", "attempting", "cancelling", "poll", "count", "missing", "ready"}

WatchPC   == {"loop", "poweroff", "down"} \cup Recovery \cup Urgent \cup Draining
AttemptPC == {"idle", "lock", "mark", "drain", "ok", "failed"}
BootPC    == {"start", "done", "down"} \cup Recovery

Procs     == {"watch", "attempt", "boot"}
Recoverer == {"watch", "boot"}

(* stop: the decision that cancelled the attempt's context. *)
Run == [ drained     : BOOLEAN,
         snapshotted : BOOLEAN,
         services    : SUBSET Services,
         stop        : {"none", "undrain", "shutdown"} ]

NewRun == [drained |-> FALSE, snapshotted |-> FALSE, services |-> {}, stop |-> "none"]

Cancelled == run.stop # "none"

TypeOK ==
    /\ reply \in Probe
    /\ power \in {"on", "stopping", "off"}
    /\ avail \in Drain!Availability
    /\ inflight \subseteq Drain!Availability
    /\ marker \in BOOLEAN
    /\ place \in [Services -> {"here", "transit", "survivor"}]
    /\ lock \in Procs \cup {"none"}
    /\ pc \in [Procs -> WatchPC \cup AttemptPC \cup BootPC]
    /\ pc["watch"] \in WatchPC /\ pc["attempt"] \in AttemptPC /\ pc["boot"] \in BootPC
    /\ m \in Machine
    /\ run \in Run
    /\ aborting \in BOOLEAN

Booted == [p \in Procs |-> CASE p = "watch"   -> "loop"
                             [] p = "attempt" -> "idle"
                             [] p = "boot"    -> "start"]

Init ==
    /\ reply \in Probe
    /\ power = "on"
    /\ avail = "active" /\ inflight = {} /\ marker = FALSE
    /\ place \in [Services -> {"here", "survivor"}]
    /\ lock = "none"
    /\ pc = Booted
    /\ m = NewMachine
    /\ run = NewRun
    /\ aborting = FALSE

-----------------------------------------------------------------------------
(* Shared pieces. *)

Goto(p, label) == pc' = [pc EXCEPT ![p] = label]

SafeForUndrain(p) == p.ok /\ "OL" \in p.status /\ p.status \cap {"OB", "LB"} = {}

(* probe and feed: the machine's decision on what the daemon reads now. *)
Fed == IF TestMode /\ reply.ok THEN Reply({"OB"}) ELSE reply
Decisions == {OnProbe(m, Fed, t) : t \in IF Fed.ok THEN {0} ELSE {0, SilentSecs}}

Local == {s \in Services : place[s] = "here"}

(* The flock is polled until it is free; a failure to take it is a timeout  *)
(* behind another holder, or a flag directory that cannot be opened.        *)
Acquire(p) == lock = "none" /\ lock' = p
LockFails  == lock # "none" \/ DiskFaults

(* os.WriteFile(flagFile()): a failure is logged and passed over. *)
WriteFlag == marker' = TRUE \/ (DiskFaults /\ UNCHANGED marker)

(* docker node update --availability target.  A command that fails had no  *)
(* effect, or was cut off and may land later.                              *)
Accepted(target) == avail' = target /\ inflight' = {}
Rejected(target) == avail' = avail /\ inflight' \in {inflight, inflight \cup {target}}

-----------------------------------------------------------------------------
(* recoverDrain, by the daemon's loop and by the boot process. *)

(* Plausible bug in Recovered: the boot process falls into the daemon's loop. *)
RecoveredToLoop(p, success) ==
    /\ Goto(p, IF p = "boot" /\ success THEN "done" ELSE IF aborting THEN "recover_lock" ELSE "loop")
    /\ aborting' = (aborting /\ p # "watch")

(* The boot process repeats until it succeeds; the daemon ignores the result. *)
Recovered(p, success) ==
    /\ Goto(p, CASE p = "boot"  -> IF success THEN "done" ELSE "recover_lock"
                 [] p = "watch" -> IF aborting THEN "recover_lock" ELSE "loop")
    /\ aborting' = (aborting /\ p # "watch")

RecoverLock(p) ==
    /\ pc[p] = "recover_lock"
    /\ \/ marker /\ Acquire(p) /\ Goto(p, "recover_probe") /\ UNCHANGED aborting
       \/ ~marker /\ lock = "none" /\ UNCHANGED lock /\ Recovered(p, TRUE)
       \/ LockFails /\ UNCHANGED lock /\ Recovered(p, FALSE)
    /\ UNCHANGED <<upsVars, swarmVars, marker, place, m, run>>

(* realProbe: the rehearsal's synthetic status is not used here. *)
RecoverProbe(p) ==
    /\ pc[p] = "recover_probe"
    /\ \/ SafeForUndrain(reply) /\ Goto(p, "recover_active") /\ UNCHANGED <<lock, aborting>>
       \/ ~SafeForUndrain(reply) /\ lock' = "none" /\ Recovered(p, FALSE)
    /\ UNCHANGED <<upsVars, swarmVars, marker, place, m, run>>

(* Plausible bug in RecoverActive: docker's failure is logged and passed over. *)
RecoverActiveRegardless(p) ==
    /\ pc[p] = "recover_active"
    /\ Accepted("active") \/ (DockerFaults /\ Rejected("active"))
    /\ Goto(p, "recover_clear")
    /\ UNCHANGED <<upsVars, marker, place, lock, m, run, aborting>>

RecoverActive(p) ==
    /\ pc[p] = "recover_active"
    /\ \/ Accepted("active") /\ Goto(p, "recover_clear") /\ UNCHANGED <<lock, aborting>>
       \/ DockerFaults /\ Rejected("active") /\ lock' = "none" /\ Recovered(p, FALSE)
    /\ UNCHANGED <<upsVars, marker, place, m, run>>

RecoverClear(p) ==
    /\ pc[p] = "recover_clear"
    /\ \/ marker' = FALSE /\ Recovered(p, TRUE)
       \/ DiskFaults /\ UNCHANGED marker /\ Recovered(p, FALSE)
    /\ lock' = "none"
    /\ UNCHANGED <<upsVars, swarmVars, place, m, run>>

Recover(p) == RecoverLock(p) \/ RecoverProbe(p) \/ RecoverActive(p) \/ RecoverClear(p)

(* runUndrain: the flag is first looked at without the lock. *)
BootStart ==
    /\ pc["boot"] = "start"
    /\ Goto("boot", IF marker THEN "recover_lock" ELSE "done")
    /\ UNCHANGED <<upsVars, swarmVars, marker, place, lock, daemonVars>>

Boot == BootStart \/ Recover("boot")

-----------------------------------------------------------------------------
(* runWatch. *)

(* Plausible bug in WatchLoop: recovery is tried on the undrain order only. *)
WatchLoopRecoversOnce ==
    /\ pc["watch"] = "loop"
    /\ \E d \in Decisions :
          /\ m' = d.m
          /\ Goto("watch", CASE d.action = "drain"    -> "first_probe"
                             [] d.action = "shutdown" -> IF ShutdownDrain(d) THEN "urgent_lock"
                                                                             ELSE "poweroff"
                             [] d.action = "undrain"  -> "recover_lock"
                             [] OTHER                 -> "loop")
    /\ UNCHANGED <<upsVars, swarmVars, marker, place, lock, run, aborting>>

WatchLoop ==
    /\ pc["watch"] = "loop"
    /\ \E d \in Decisions :
          /\ m' = d.m
          /\ Goto("watch", CASE d.action = "drain"    -> "first_probe"
                             [] d.action = "shutdown" -> IF ShutdownDrain(d) THEN "urgent_lock"
                                                                             ELSE "poweroff"
                             [] OTHER                 -> "recover_lock")
    /\ UNCHANGED <<upsVars, swarmVars, marker, place, lock, run, aborting>>

(* poweroff and waitForPoweroff: the request is repeated until the node stops. *)
Poweroff ==
    /\ pc["watch"] = "poweroff" /\ power = "on"
    /\ power' = "stopping"
    /\ UNCHANGED <<reply, swarmVars, marker, place, lock, pc, daemonVars>>

(* runDrain returns: to a poweroff, or through its own recoverDrain to the loop. *)
LeaveRun(shutdown) ==
    /\ Goto("watch", IF shutdown THEN "poweroff" ELSE "recover_lock")
    /\ aborting' = ~shutdown
    /\ run' = NewRun

Stops(d) == d.action \in {"undrain", "shutdown"}

(* monitoredDrain: one more probe, then the attempt with probes beside it. *)
FirstProbe ==
    /\ pc["watch"] = "first_probe"
    /\ \E d \in Decisions :
          /\ m' = d.m
          /\ \/ Stops(d) /\ LeaveRun(d.action = "shutdown")
             \/ /\ ~Stops(d)
                /\ pc' = [pc EXCEPT !["watch"] = "attempting", !["attempt"] = "lock"]
                /\ UNCHANGED <<run, aborting>>
    /\ UNCHANGED <<upsVars, swarmVars, marker, place, lock>>

AttemptTick ==
    /\ pc["watch"] = "attempting"
    /\ \E d \in Decisions :
          /\ m' = d.m
          /\ \/ Stops(d) /\ Goto("watch", "cancelling") /\ run' = [run EXCEPT !.stop = d.action]
             \/ ~Stops(d) /\ UNCHANGED <<pc, run>>
    /\ UNCHANGED <<upsVars, swarmVars, marker, place, lock, aborting>>

AttemptResult ==
    /\ pc["watch"] = "attempting" /\ pc["attempt"] \in {"ok", "failed"}
    /\ pc' = [pc EXCEPT !["watch"] = "poll", !["attempt"] = "idle"]
    /\ run' = [run EXCEPT !.drained = pc["attempt"] = "ok"]
    /\ UNCHANGED <<upsVars, swarmVars, marker, place, lock, m, aborting>>

(* The result of a cancelled attempt is awaited and thrown away. *)
AttemptCancelled ==
    /\ pc["watch"] = "cancelling" /\ pc["attempt"] \in {"ok", "failed"}
    /\ pc' = [pc EXCEPT !["watch"] = IF run.stop = "shutdown" THEN "poweroff" ELSE "recover_lock",
                        !["attempt"] = "idle"]
    /\ aborting' = (run.stop = "undrain")
    /\ run' = NewRun
    /\ UNCHANGED <<upsVars, swarmVars, marker, place, lock, m>>

Poll ==
    /\ pc["watch"] = "poll"
    /\ \E d \in Decisions :
          /\ m' = d.m
          /\ \/ Stops(d) /\ LeaveRun(d.action = "shutdown")
             \/ ~Stops(d) /\ Goto("watch", "count") /\ UNCHANGED <<run, aborting>>
    /\ UNCHANGED <<upsVars, swarmVars, marker, place, lock>>

(* Plausible bug in NotReady: the deadline ends the run without a poweroff. *)
NotReadyGivesUp ==
    \/ LeaveRun(FALSE)
    \/ Goto("watch", IF run.drained THEN "poll" ELSE "first_probe") /\ UNCHANGED <<run, aborting>>

(* The end of runDrain's loop body: the deadline has passed, or not yet. *)
NotReady ==
    \/ LeaveRun(~TestMode)
    \/ Goto("watch", IF run.drained THEN "poll" ELSE "first_probe") /\ UNCHANGED <<run, aborting>>

Count ==
    /\ pc["watch"] = "count"
    /\ \/ run.drained /\ Local = {} /\ Goto("watch", "missing") /\ UNCHANGED <<run, aborting>>
       \/ (~run.drained \/ Local # {} \/ DockerFaults) /\ NotReady
    /\ UNCHANGED <<upsVars, swarmVars, marker, place, lock, m>>

(* survivorMissing: a query that fails reports everything missing. *)
AllRehomed == \A s \in run.services : place[s] = "survivor"

Missing ==
    /\ pc["watch"] = "missing"
    /\ \/ AllRehomed /\ Goto("watch", "ready") /\ UNCHANGED <<run, aborting>>
       \/ (~AllRehomed \/ (DockerFaults /\ run.services # {})) /\ NotReady
    /\ UNCHANGED <<upsVars, swarmVars, marker, place, lock, m>>

Ready ==
    /\ pc["watch"] = "ready"
    /\ LeaveRun(~TestMode)
    /\ UNCHANGED <<upsVars, swarmVars, marker, place, lock, m>>

RunDrain == FirstProbe \/ AttemptTick \/ AttemptResult \/ AttemptCancelled
              \/ Poll \/ Count \/ Missing \/ Ready

-----------------------------------------------------------------------------
(* drainAttempt, a goroutine whose context the daemon may cancel. *)

AttemptEnds(result) == Goto("attempt", result) /\ lock' = "none"

(* Plausible bug in AttemptLock: the attempt trusts the daemon to be alone. *)
AttemptUnlocked ==
    /\ pc["attempt"] = "lock"
    /\ Goto("attempt", IF Cancelled THEN "failed" ELSE "mark")
    /\ UNCHANGED <<upsVars, swarmVars, marker, place, lock, daemonVars>>

AttemptLock ==
    /\ pc["attempt"] = "lock"
    /\ \/ ~Cancelled /\ Acquire("attempt") /\ Goto("attempt", "mark")
       \/ (Cancelled \/ LockFails) /\ Goto("attempt", "failed") /\ UNCHANGED lock
    /\ UNCHANGED <<upsVars, swarmVars, marker, place, daemonVars>>

(* Plausible bug in Snapshot: every attempt lists the services anew. *)
SnapshotAgain == [run EXCEPT !.snapshotted = TRUE, !.services = Local]

(* The first attempt of a run lists the local services; retries keep the list. *)
Snapshot ==
    IF run.snapshotted THEN run ELSE [run EXCEPT !.snapshotted = TRUE, !.services = Local]

AttemptMark ==
    /\ pc["attempt"] = "mark"
    /\ \/ ~Cancelled /\ run' = Snapshot /\ WriteFlag /\ Goto("attempt", "drain") /\ UNCHANGED lock
       \/ /\ Cancelled \/ (DockerFaults /\ ~run.snapshotted)
          /\ AttemptEnds("failed")
          /\ UNCHANGED <<marker, run>>
    /\ UNCHANGED <<upsVars, swarmVars, place, m, aborting>>

(* Cancelling the context kills the docker command. *)
AttemptDrain ==
    /\ pc["attempt"] = "drain"
    /\ \/ Accepted("drain") /\ AttemptEnds("ok")
       \/ (DockerFaults \/ Cancelled) /\ Rejected("drain") /\ AttemptEnds("failed")
    /\ UNCHANGED <<upsVars, marker, place, daemonVars>>

Attempt == AttemptLock \/ AttemptMark \/ AttemptDrain

-----------------------------------------------------------------------------
(* prepareUrgentDrain, before the poweroff of an urgent shutdown. *)

UrgentEnds == Goto("watch", "poweroff") /\ lock' = "none"

(* Plausible bug in UrgentLock: a lock that is taken ends the shutdown, not only its drain. *)
UrgentLockGivesUp ==
    /\ pc["watch"] = "urgent_lock"
    /\ \/ Acquire("watch") /\ Goto("watch", IF marker THEN "urgent_inspect" ELSE "urgent_mark")
       \/ LockFails /\ Goto("watch", "recover_lock") /\ UNCHANGED lock
    /\ UNCHANGED <<upsVars, swarmVars, marker, place, daemonVars>>

UrgentLock ==
    /\ pc["watch"] = "urgent_lock"
    /\ \/ Acquire("watch") /\ Goto("watch", IF marker THEN "urgent_inspect" ELSE "urgent_mark")
       \/ LockFails /\ Goto("watch", "poweroff") /\ UNCHANGED lock
    /\ UNCHANGED <<upsVars, swarmVars, marker, place, daemonVars>>

UrgentInspect ==
    /\ pc["watch"] = "urgent_inspect"
    /\ \/ avail = "drain" /\ UrgentEnds
       \/ (avail # "drain" \/ DockerFaults) /\ Goto("watch", "urgent_mark") /\ UNCHANGED lock
    /\ UNCHANGED <<upsVars, swarmVars, marker, place, daemonVars>>

(* The 15 seconds may have gone by when the flag would be written. *)
UrgentMark ==
    /\ pc["watch"] = "urgent_mark"
    /\ \/ WriteFlag /\ Goto("watch", "urgent_drain") /\ UNCHANGED lock
       \/ DockerFaults /\ UrgentEnds /\ UNCHANGED marker
    /\ UNCHANGED <<upsVars, swarmVars, place, daemonVars>>

UrgentDrain ==
    /\ pc["watch"] = "urgent_drain"
    /\ Accepted("drain") \/ (DockerFaults /\ Rejected("drain"))
    /\ UrgentEnds
    /\ UNCHANGED <<upsVars, marker, place, daemonVars>>

UrgentShutdown == UrgentLock \/ UrgentInspect \/ UrgentMark \/ UrgentDrain

Watch == WatchLoop \/ RunDrain \/ UrgentShutdown \/ Poweroff \/ Recover("watch")

-----------------------------------------------------------------------------
(* The surroundings: the UPS, the swarm, the node. *)

UpsChanges ==
    /\ reply' \in Probe
    /\ UNCHANGED <<power, swarmVars, marker, place, lock, pc, daemonVars>>

(* An update in flight lands, which makes the others stale, or is dropped. *)
Land(target) ==
    /\ target \in inflight
    /\ Accepted(target)
    /\ UNCHANGED <<upsVars, marker, place, lock, pc, daemonVars>>

Drop(target) ==
    /\ target \in inflight
    /\ inflight' = inflight \ {target}
    /\ UNCHANGED <<upsVars, avail, marker, place, lock, pc, daemonVars>>

(* Swarm stops the tasks of a draining node, and starts them on the survivor *)
(* or again on this node when it is active.                                  *)
Teardown(s) ==
    /\ avail = "drain" /\ place[s] = "here"
    /\ place' = [place EXCEPT ![s] = "transit"]
    /\ UNCHANGED <<upsVars, swarmVars, marker, lock, pc, daemonVars>>

Start(s) ==
    /\ place[s] = "transit"
    /\ \/ place' = [place EXCEPT ![s] = "survivor"]
       \/ avail = "active" /\ power = "on" /\ place' = [place EXCEPT ![s] = "here"]
    /\ UNCHANGED <<upsVars, swarmVars, marker, lock, pc, daemonVars>>

(* A process dies with its docker command, whose update may still land. *)
Running(P) == {t \in Drain!Availability :
                  \/ t = "active" /\ \E p \in P : pc[p] = "recover_active"
                  \/ t = "drain" /\ \E p \in P : pc[p] \in {"urgent_drain", "drain"}}
CutOff(P) ==
    /\ \E lost \in SUBSET Running(P) : inflight' = inflight \cup lost
    /\ lock' = IF lock \in P THEN "none" ELSE lock
    /\ UNCHANGED avail

(* What the daemon holds in memory only. *)
Forget == m' = NewMachine /\ run' = NewRun /\ aborting' = FALSE

(* Restart=always starts the daemon afresh; the goroutine is part of it. *)
WatchCrash ==
    /\ Crashes /\ power = "on"
    /\ CutOff({"watch", "attempt"})
    /\ pc' = [pc EXCEPT !["watch"] = "loop", !["attempt"] = "idle"]
    /\ Forget
    /\ UNCHANGED <<upsVars, marker, place>>

(* The boot unit is a oneshot: it is not restarted. *)
BootCrash ==
    /\ Crashes /\ power = "on" /\ pc["boot"] # "done"
    /\ CutOff({"boot"})
    /\ Goto("boot", "done")
    /\ UNCHANGED <<upsVars, marker, place, daemonVars>>

PowerDown ==
    /\ power = "stopping" \/ (power = "on" /\ PowerLoss)
    /\ power' = "off"
    /\ CutOff(Procs)
    /\ pc' = [p \in Procs |-> IF p = "attempt" THEN "idle" ELSE "down"]
    /\ place' = [s \in Services |-> IF place[s] = "here" THEN "transit" ELSE place[s]]
    /\ Forget
    /\ UNCHANGED <<reply, marker>>

PowerUp ==
    /\ power = "off" /\ Reboots
    /\ power' = "on"
    /\ pc' = Booted
    /\ Forget
    /\ UNCHANGED <<reply, swarmVars, marker, place, lock>>

Swarm == \/ \E target \in Drain!Availability : Land(target) \/ Drop(target)
         \/ \E s \in Services : Teardown(s) \/ Start(s)

Node == WatchCrash \/ BootCrash \/ PowerDown \/ PowerUp

Next == Watch \/ Attempt \/ Boot \/ UpsChanges \/ Swarm \/ Node

Spec == Init /\ [][Next]_vars

-----------------------------------------------------------------------------
(* Properties. *)

(***************************************************************************)
(* See NodeDrain.  It holds as long as the flag can be written.            *)
(***************************************************************************)
DrainMarked == Drain!DrainMarked

(***************************************************************************)
(* Every step of the three processes, of crashes and of power loss is a    *)
(* step of the drain protocol of NodeDrain, or leaves it alone.            *)
(***************************************************************************)
ImplementsNodeDrain == Drain!DrainSpec

(***************************************************************************)
(* Whenever the daemon is back in runWatch's loop, its machine holds no    *)
(* open drain: the next outage drains again, and no undrain order comes    *)
(* for a run that is over (runDrain returns false on an undrain only).     *)
(***************************************************************************)
LatchMatchesRun == pc["watch"] = "loop" /\ ~TestMode => ~m.drained

(***************************************************************************)
(* When runDrain finds the survivor holding all work and logs DRAIN_READY, *)
(* no service is between nodes: the gap the package comment of drain.go    *)
(* (lines 11 to 19) says the gate is there to exclude.                     *)
(***************************************************************************)
ReadyMeansRehomed ==
    [][pc'["watch"] = "ready" /\ pc["watch"] # "ready"
          => \A s \in Services : place[s] # "transit"]_vars

(***************************************************************************)
(* The flag is removed only from a node that is active and that no lost    *)
(* drain command can drain any more, with failing disks too: undrainNow    *)
(* runs behind the lock, after docker's answer.                            *)
(***************************************************************************)
FlagClearedWhenReleased ==
    [][marker /\ ~marker' => avail = "active" /\ "drain" \notin inflight]_vars

(***************************************************************************)
(* What runDrain's comment says (main.go:227), "mains coming back aborts   *)
(* the drain": a run that has drained the node and polls for its services  *)
(* has not had the node released behind its back.                          *)
(***************************************************************************)
DrainedRunStaysDrained ==
    run.drained /\ pc["watch"] \in {"poll", "count", "missing", "ready"} => avail = "drain"

(***************************************************************************)
(* A survivor never takes itself out of the swarm, on any status sequence, *)
(* in a shutdown, or through the recovery its loop runs all the same.      *)
(***************************************************************************)
SurvivorStaysInSwarm == avail = "active" /\ inflight = {} /\ ~marker

-----------------------------------------------------------------------------
(* Liveness.  Each process takes its steps; a finished attempt is noticed,  *)
(* a deadline passes, a release tried over and over is accepted, a poweroff *)
(* completes and the node comes up again.  No fairness for the UPS, for     *)
(* crashes and power loss, for the services or for a command in flight.     *)

Fairness ==
    /\ WF_vars(Watch)
    /\ WF_vars(Attempt)
    /\ WF_vars(Boot)
    /\ WF_vars(AttemptResult)
    /\ SF_vars((Count \/ Missing) /\ pc'["watch"] \notin Draining)
    /\ WF_vars(PowerDown /\ power = "stopping")
    /\ WF_vars(PowerUp)
    /\ \A p \in Recoverer : SF_vars(RecoverActive(p) /\ pc'[p] = "recover_clear")

FairSpec == Spec /\ Fairness

Released == avail = "active" /\ ~marker

(***************************************************************************)
(* When mains stay back and the node stays up without further crashes, the *)
(* node is in the end released and its flag gone for good, whatever was    *)
(* under way: a drain attempt, an abort, a boot, a command in flight       *)
(* (recoverDrain in runWatch's loop and in runUndrain's).                  *)
(***************************************************************************)
MainsRelease ==
    (<>[](SafeForUndrain(reply) /\ power = "on") /\ <>[][~WatchCrash]_vars) => <>[]Released

(***************************************************************************)
(* A daemon that keeps reading a low battery powers the node off, also     *)
(* when it was draining, aborting or waiting for a lock.                   *)
(***************************************************************************)
LowBatteryPowersOff ==
    (<>[](reply.ok /\ "LB" \in reply.status) /\ <>[][~WatchCrash]_vars) => []<>(power # "on")
=============================================================================
