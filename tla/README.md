# Verification of home-os

TLA+ specifications, TLC runs and TLAPS proofs for the programs of the home-os
repository: what happens to a cluster and its nodes when the mains fail and come
back, and two control loops that repair and publish network state. Paths are those of
the repository, without its `src/` prefix in this project's metadata.

`PROJECT.json` lists the components, the runs, the definitions with the source
lines they model, the hazards and the theorems.

## 1. The system

Three nodes (cl01, cl02, cl03) form a Docker Swarm; a TrueNAS box (the NAS)
holds storage and runs a few services. One UPS feeds everything and is read over
the network with the NUT protocol.

| Component | Source | State it keeps | Operations |
|---|---|---|---|
| UPS decision machine | `internal/ups/machine.go`, `contract.go` | `obCount`, `lastSeen`, `drained`, `poweredDown`, `wasOB` | `NewMachine`, `OnProbe` |
| ups-watcher daemon | `cmd/ups-watcher/main.go` (`runWatch`, `runDrain`, `monitoredDrain`, `drainAttempt`, `recoverDrain`, `shutdownNow`, `poweroff`) | the machine, the locals of `runDrain`, the flag file, the flock, docker's view of the node | poll, drain attempt in a goroutine, abort, recovery, urgent drain, poweroff |
| boot release | `runUndrain` in the same file | the flag file, the flock | one loop until the node is released |
| drain-convergence predicates | `internal/ups/drain.go` | none | `MissingServices` and name matching |
| NUT client | `internal/ups/nut.go` | none, a connection per probe | connect, log in, query a status, close |
| watcher configuration | `internal/ups/config.go` | none | parse the environment |
| event logger | `internal/ups/log.go` | a mutex, the open file; the file and one older generation | open and rotate, append, reopen after a failed write |
| wake-on-LAN service | `cmd/wol-on-boot/main.go`, `internal/wol/wol.go` | the machine, open remediation windows | boot burst, monitor loop, one goroutine per return of mains |
| overlay-doctor | `stacks/overlay-doctor/reconcile.sh` | per cycle: endpoints, forwarding rows, plan; a heartbeat file | gather, plan, apply, recheck |
| DNS record pipeline | `stacks/dns/generator.py`, `entrypoint.sh` | published file; runtime copy, `last_hash`, startup attempt | poll and publish; start, apply, reload |
| ignition and reboot windows | `ignition/` | templates | render |
| helper scripts | `stacks/*.sh`, `stacks/deploy_local.py` | none | drive the docker command line |
| stacks and CI | `stacks/*/docker-compose.yml`, `.github/` | configuration of third-party software | |

How they interact. The daemon, its drain goroutine and the boot process share
one flag file, one flock and one swarm node; they reach the swarm through docker
commands that can fail, time out, or land after their client is gone. The NAS
runs the same decision machine as a detector of mains coming back, and wakes the
nodes. Both read the UPS through the NUT client. The peers meet in the swarm:
the work one drains lands on the survivor or on another peer, and their poweroffs
together take the raft quorum that every docker command needs. overlay-doctor reads all nodes one after another while the engines go on
changing what it reads. The DNS generator and the script on each node share one
file on the NAS, with no lock.

What is hard, and what would be correct:

- *Power.* Three processes that crash, lose power or lose docker's answer at any
  step must never leave a node drained with nothing to remember it by; a node
  whose mains stay must be released; a node whose battery is low must power off.
  The decision machine must order exactly the drains, releases and shutdowns the
  sequence of probes calls for.
- *The swarm in an outage.* Two peers that drain at the same time must not power
  off while work is on its way to where nobody waits for it, nor take the quorum
  before the work is on the survivor; nodes that come back in any order must find
  their way out again.
- *Probes.* A late answer must not be taken for a new one; a slow server must not
  hold a probe for ever. The log must tell events in their order and must never
  stop the daemon.
- *Wake-up.* Every return of mains is followed by a window of bursts, with a
  bounded number of goroutines.
- *Overlay.* A repair planned from a picture that is already old must not break
  a path that works; the heartbeat must mean something; the loop must get there.
- *DNS.* A running server never loses its home record; the published hosts are
  served in the end whatever was half done.

## 2. Modules

| Module | Models |
|---|---|
| `UpsMachine` | the decision machine as operators: a record, one operator per arm of `OnProbe`'s switch |
| `UpsMachineSpec` | that machine fed by any probe sequence; what its decisions mean, read off the log of probes alone |
| `NodeDrain` | abstract: the drain protocol of one node, over availability, updates in flight and the flag |
| `UpsWatcher` | the three processes on one node with crashes, power loss, docker and disk faults; implements `NodeDrain` |
| `DrainPredicates` | `MissingServices` and the longest-prefix matching of `drain.go`, over names as sequences of pieces |
| `DrainCluster` | one outage seen by the whole swarm: peers, survivor, scheduler, quorum; uses `DrainPredicates`; each peer implements `NodeDrain` |
| `WolOnBoot` | the wake-on-LAN service with any probes, on top of `UpsMachine` |
| `NutClient` | the NUT client: one probe after the other, exchange by exchange |
| `NasService` | the wake-on-LAN service as it runs: `WolOnBoot` with its probes from `NutClient` |
| `EventLog` | the event log: goroutines, mutex, file, rotation, a volume that fails |
| `OverlayDoctor` | one doctor, all nodes, the docker engines as environment |
| `DnsPipeline` | the generator, the script and unbound on one node |
| `MC*` | constants of the runs |
| `UpsMachineLemmas`, `UpsMachineProof`, `UpsWatcherProof`, `DrainClusterProof`, `NasServiceProof` (of `WolOnBoot` too), `EventLogProof`, `OverlayDoctorProof`, `DnsPipelineProof` | lemmas and theorems |

`UpsMachineSpec`, `UpsWatcher` and `WolOnBoot` extend `UpsMachine`, so the three
programs that use the machine share one translation of it. `UpsWatcher`
implements `NodeDrain`, and so does each peer of `DrainCluster`; `NasService` puts `WolOnBoot` and `NutClient` together
and implements a monitor that samples the UPS.

### UpsMachine and UpsMachineSpec

A status is the set of the words the code looks for (`OL`, `OB`, `LB`); a probe
is a reply with a status or a silence. `OnProbe` has the order of the source:
powered-down latch, low battery, on battery, any other reply, silence.
`obCount` saturates one above `ConfirmOB`, as it is only compared for equality.
`UpsMachineSpec` has one action for a probe, `Feed`, and one for a restart of the
unit. Its properties say `<=>`: a drain is ordered *exactly* when the
on-battery replies since mains reach `ConfirmOB`, a release exactly at the first
mains reply after it, a shutdown exactly at the first low battery or after a
full silent window.

### UpsWatcher

`pc` holds a label for each of "watch", "attempt" and "boot"; every label is a
place where another process may act. One action stands for the code between two
such places: `RecoverLock`, `RecoverProbe`, `RecoverActive`, `RecoverClear` for
`recoverDrain` (used by the daemon and by the boot process); `WatchLoop`;
`FirstProbe`, `AttemptTick`, `AttemptResult`, `AttemptCancelled` for
`monitoredDrain`; `Poll`, `Count`, `Missing`, `Ready` for the rest of
`runDrain`; `AttemptLock`, `AttemptMark`, `AttemptDrain` for `drainAttempt`;
`UrgentLock` to `UrgentDrain` for `prepareUrgentDrain`; `Poweroff`.

A docker command that fails had no effect or may land later (`inflight`). An
update that lands makes the others stale, because swarm updates carry the
version of the node they were made from. Sleeps, tickers and timeouts are steps
that may be taken at any time. For the watchdog an answered probe is at second 0
and a failed one at 0 or at `SilentSecs`, which is all the machine can tell
apart. Writes of the flag file are durable when they succeed (the code does not
fsync; see the hazards). A rehearsal (`UPS_TEST_OB`) replaces an answered status
by `OB`, but recovery asks the real UPS, as `realProbe` does.

### NodeDrain

What the watcher promises, with the processes, locks and probes left out: the
flag is set before a drain is submitted and removed only when the node is active
and no drain can land any more. It is the promise of one node, seen from two sides:
`UpsWatcher` keeps it with three processes and updates in flight, each peer of
`DrainCluster` (`Node(p)`, with nothing in flight) among other nodes, a lost quorum
and a scheduler.

### DrainPredicates and DrainCluster

A name is a sequence of pieces, of which `"."` is one; a task's name is its
service's, a dot, and the rest. That is enough to tell the dotted prefix of the
code from a plain one, and the longest owner from another.

`DrainCluster` has one daemon per peer, with the steps of `runDrain` that other
nodes can see: `Confirm`, `Snapshot` (the snapshot and the flag), `Drain`, `Count`,
`Missing`, and the ways out of the loop, `Stop` and `NotReady`. `Urgent` is
`shutdownNow` up to the flag and `UrgentDrain` its one attempt; `Recover` is
`recoverDrain` with the update of `undrainNow`, and `Release` removes the flag. A
daemon may crash between the two steps of either. What `UpsWatcher` tells
apart within a node is one step here: the lock, a command that lands later, the
boot process. `place` is where each service runs, or `"transit"` from the teardown
of its task to the `Running` state of the next; the scheduler may start it on any
node that takes tasks, another peer too. Nothing in the swarm moves, and no docker
command succeeds, without a quorum. A run that is not told what the UPS says goes
on: probes may fail.

`disturbed` is a history variable. It is set when a run is aborted, meets a low
battery, its deadline or a crash, and when a node comes back; it is cleared once
everything is back in place. The safety properties speak of undisturbed outages
because outside of them they are false: that is what `watcher_flicker` shows, and
the deadline and the low battery power off on purpose.

### WolOnBoot, NutClient and NasService

A step of `WolOnBoot` is one turn of the monitor loop. A window is known by its
age; it bursts at multiples of `GapSteps`. `outage`, `owed` and `quiet` are history
variables. Every start of the service sends a burst (`BootBurst`), a restart in the
middle of an outage too.

`NutClient` has a queue of commands and one of answers, which together are the
connection: `Send` sets a deadline, `Serve` answers, at any time, an `ERR` line, a
`VAR` line with the status the UPS has at that moment, or another line; `Trickle`
is a part of a line. `Return` ends the probe with its result and closes the
connection. `Breaks` is any failure: no connection, a connection that breaks, a
deadline. The login accepts whatever is no `ERR` line, as `sendRead` does. Time
goes in ticks that stop at a deadline until it is met, so that bounds are in terms
of the timeouts and not of the scheduler.

`NasService` puts the exchanges of a probe between two rounds of the monitor,
through which the UPS goes on changing; a round takes what the probe returned. A
restart gives up the probe under way.

### EventLog

`Log` takes the mutex (`Lock`), writes to the file (`Write`), reopens it if that
failed (`StatFile`, `Rename`, `Open`, `WriteAgain`), and prints (`PrintLine`); between
any two of them other goroutines and processes act and the volume may break or
mend. `open` is shared by `newLogger` and `Log`; `AfterOpen` says what follows it in
each. A line is its number in the order of the calls, a file the sequence of its
lines, a handle names the file it writes to and follows it through renames. On a broken
volume `StatFile` may fail as `MkdirAll` does, which ends `open`, or as `Stat` does,
which the code passes over: the file is then opened without being rotated. `Earlier`
is the number of lines that the file holds when the node boots. A file
that was closed by a failed write and could not be reopened stays closed until the
process ends, as in the code. A write puts its whole line or nothing.

### OverlayDoctor

`home` says where an endpoint lives, `fdb` and `master` hold the tunnel and
bridge rows of each node, `read`, `truth` and `plan` what the cycle knows. The
worker's actions follow `cycle`: one for each ssh command that reads or changes
a node. The engines move endpoints between any two of them, and bring the rows of
the endpoint that moved up to date or leave them as they were (moby#52661);
sandboxes appear with the first endpoint of a node and go, at once or later,
with the last. Endpoints are unique in the engines' own state; a MAC seen on two
nodes arises from reading the nodes at different times. A cycle that cannot
gather a node ends at once in the model, though the code still asks the others:
nothing they say is used. The code applies plan lines in the order of their
MACs; the model takes one fixed order. A dry run has an empty plan.

### DnsPipeline

Records are sets of host names, a hash stands for what it was taken of, and
`Absent` is the missing file and the empty hash. `hash`, `size`, `cmp`, `copy`,
`check` and `reload` are separate steps of `apply_generated`, so that the file may
be replaced between any two. `sha256sum` that fails gives the empty hash, since
the pipe has the status of `cut`. `unbound` loads its copy some time after it was
started. `trouble` allows fetches, writes, hashes, copies and reloads to fail and
processes to end, until it ends.

*Pacing.* The file may be replaced at any moment and any number of times, by the
generator or by hand. The history variable `pace` says whether the script had dealt
with a change before the next one came; `"rushed"` is a container that has had two
at a time, and a new container starts afresh. The type invariant and
`ReloadsKeepHome` hold at any pace. `RememberedIsServed` and `Converges` are stated
for containers that are not rushed. That is what the generator does, which sleeps
60 s between polls where the script sleeps 5 s; nothing in the code makes a hand
edit wait. Without it both are false, in four ways: the file changes between
hash and size test and back before the next poll; a reload that fails while
unbound is still loading the newer copy, followed by a change back to what the
runtime copy holds; a change and its reversal within one application; a hand
edit copied while unbound starts (the health check catches this one). So what these
two say does not cover the hash that is remembered when the file changes under a
call (`entrypoint.sh:30`). Left out is a stat of the shared file that fails between
hash and size test, which the code takes for an empty file.

## 3. Runs

Passing runs:

| Run | Configuration | Shows |
|---|---|---|
| `machine` | a peer, 6 probes, gaps 1 and 2 s, ConfirmOB 2, window 3 s | `DrainsOnConfirm`, `UndrainsCloseDrains`, `ShutdownsJustified`, `OutagesReported` |
| `watcher_live` | a peer, crashes, power loss, docker faults, contradictory statuses | `DrainMarked`, `ImplementsNodeDrain`, `MainsRelease`, `LowBatteryPowersOff` |
| `watcher_disk` | the same with a service and a disk that refuses writes | `TypeOK`, `LatchMatchesRun`, `FlagClearedWhenReleased` |
| `cluster` | 2 peers and the survivor, 2 services of which one's name begins the other's, docker faults, crashes | `SomebodyWaits`, `QuorumOutlivesMoves`, `NodesDrain`, `WorkReturns` |
| `overlay` | 3 nodes, 2 endpoints, 3 moves, ssh failing anywhere | `NeverWorsens`, `BeatVouches`, `UnclaimedLeftAlone`, `Converges` |
| `dns` | 5 names, 3 router sets, empty and partial hand edits at any time, 2 start attempts | `ReloadsKeepHome`; for one change at a time, `RememberedIsServed` and `Converges` |
| `nas` | 3 statuses, credentials, connect timeout 1 tick and status timeout 2, 3 bursts of 2 steps | `RegularBursts`, `WindowsBounded`, `ProbeBounded`, `MonitorSamples` |
| `log` | one watcher, 2 goroutines, 4 lines, rotation past 1 line, a volume that fails | `FileInOrder`, `HolderRuns`, `LogReturns` |

One run of each specification also checks its type invariant, `TypeOK` or
`NasTypeOK`.

Bounds and why they are enough.

- `machine`: with ConfirmOB 2, six probes hold two outages with a failed probe
  or a repeated status in each; a window of 3 s with gaps of 1 and 2 is reached
  exactly, exceeded and missed.
- `watcher_*`: the only bounds are the number of services (liveness with none,
  for services do not guard the flag or the release) and ConfirmOB. Nothing is
  counted, so the state space is complete: any number of outages, crashes and
  boots.
- `cluster`: the swarm of the repository, complete for two services: one may be
  home, one in transit, both on the other peer. Outages are not counted.
- `overlay`: one move of an endpoint is a stop and a start, so three moves let an
  endpoint leave a node and appear on another while a third change happens
  elsewhere; three nodes give a node that is neither the old nor the new home.
- `dns`: a contraction needs five published names, so there are five; the router
  sets are these, two of them, which is an implausible contraction one way and a
  plausible growth the other, and a response without the home record, which is also
  what a hand may write. Changes of the file are not counted.
- `nas`: a window of six steps holds a return of mains that comes while the one
  before is still attended. Two ticks let an answer come before, at and after a
  deadline; an answer that is one exchange late has the whole next probe to be
  taken for its answer. Credentials are set, which is the longer of the two ways.
- `log`: four lines with a rotation past one let both generations fill and one be
  given up, while a second goroutine waits for the mutex.

Runs that end in a violation: each is something a comment of the code says and
the code does not do.

| Run | Violated | What the trace shows |
|---|---|---|
| `watcher_flicker` | `ReadyMeansRehomed` | mains back for one probe and gone again: the second drain's snapshot misses the services still between nodes, and the node powers off |
| `watcher_stale` | `DrainedRunStaysDrained` | the boot process releases the node during a run, which goes on to power it off |
| `wol_deaf` | `EveryReturnBursts` | on battery, then silence for 900 s, then mains: the machine has latched and no burst is sent; a restart would send one, and counts as one |
| `log_shared` | `RotationKeepsHistory` | daemon and boot process start on the same full log: both read its size, both rename, and the second rename throws the generation just saved away |

Other observations, without a run. `machine.go:45` speaks of consecutive
on-battery replies, but failed probes in between do not reset the count. A flag
file that cannot be written is logged and the drain goes on (`main.go:329`), so
`DrainMarked` is stated for disks that take writes. The pipe at
`entrypoint.sh:30` cannot fail as its `|| return 0` expects. The watchdog powers a
node off in a rehearsal too: only the converged and the deadline exits look at the
suppression (`main.go:219` against `164` to `166`). A running task `a.b.1.x` is
credited to service `a` when `a.b` is not in the snapshot, as swarm allows dots in
names (`drain.go:37` to `40`); `NamesAssumption` excludes such names, which the
stacks do not use. With three or more peers the quorum may go while a service is
in transit to a peer that is still up: `QuorumOutlivesMoves` needs that there are
at most two, and the theorem says so. A low battery at the probe with which
`monitoredDrain` opens makes `runDrain` power off at once (`main.go:219` and `281`),
with no drain attempted, though `machine.go:35` says that a peer first drains;
`UpsWatcher` has this step, and `LowBatteryPowersOff` holds with it. After a reopening that failed, the file stays closed for good, although
the volume may come back (`log.go:83`). A write that fails halfway leaves a
fragment before the line that is written again. A reply of
`VAR ups ups.status "` alone passes both tests of `parseVarReply` with one quote
and makes its slice bounds cross (`nut.go:91` to `94`). `config.go:15` gives a
default port that the code does not add. `Burst` returns at the first MAC or
socket that fails, though its comment says best effort per MAC (`wol.go:29`).

## 4. Fairness

- `UpsWatcher`: weak fairness of each process, that is, the kernel schedules it;
  of noticing a finished attempt (a Go `select` does not starve a ready
  channel); of a poweroff that was accepted and of the power coming back.
  Strong fairness of a run's deadline (it is wall-clock) and of the docker update
  that releases the node, which fails any number of times but not for ever.
  None for the UPS, crashes, power loss, services or updates in flight; the
  liveness properties assume mains (or a low battery) that stay and crashes of
  the daemon that stop.
- `OverlayDoctor`: weak fairness of the worker. `Converges` assumes that the
  endpoints rest and that ssh failures stop; repairs a node refuses are not
  excluded.
- `DnsPipeline`: weak fairness of the generator, the script, unbound's start and
  a restart that is due. `Converges` assumes trouble that ends, a container that is
  not rushed (see Pacing) and routers that settle on a plausible set: the contraction guard blocks an implausible one for
  good, by design (`generator.py:102`).
- `DrainCluster`: weak fairness of each daemon, of poweroffs that were accepted,
  of nodes coming back with mains (`wol-on-boot` wakes them, or a hand) and of the
  scheduler starting work; strong fairness of a run hearing from the UPS (probes
  may fail any number of times, not for ever) and of a release, which docker may
  refuse any number of times while there is a quorum. `WorkReturns` assumes that
  mains stay.
- `EventLog`: weak fairness of a goroutine outside the mutex's queue, strong
  fairness of the mutex, which Go hands to a waiter that has waited long. None for
  the volume.
- `WolOnBoot`, `NasService` and `UpsMachineSpec`: none.

## 5. Proofs

All theorems hold for every role, every knob (zero and negative ones select the
defaults), every status set, every set of services and every timeout; those that
need more say so below.

`UpsMachineProof`. The properties speak of the log; the machine only keeps a
summary of it. The inductive invariant `Remembers` says what each field stands
for: `poweredDown` for a shutdown in the log, `lastSeen` for the last reply,
`drained` for a drain order with no mains since. It proves
`ShutdownsAlwaysJustified` and `UndrainsAlwaysCloseDrains`. For the count it is
strengthened to `Counts`, which ties `obCount` to the cardinality of the
on-battery run; hence `DrainsAlwaysOnConfirm` and `OutagesAlwaysReported`.

`UpsWatcherProof`.

- `TypeCorrect`, under every combination of faults.
- `LockExcludes`: `Safe` = types, at most one process in a critical section and
  that one holding the lock, and a process about to remove the flag has an
  active node with no drain in flight. It is inductive because a cut-off
  update is possible only from inside the critical section.
- `ReleaseBeforeClear` (`FlagClearedWhenReleased`) follows from `Safe`.
- `DrainAlwaysMarked` and `WatcherImplementsDrain`, assuming `~DiskFaults`:
  `Marked` adds that a process at its drain command has written the flag.
  Each of the watcher's steps is a step of `NodeDrain` or leaves it alone.
  Without the assumption both are false, since the code drains on when the
  write fails.
- `LatchAlwaysMatches`, assuming `~TestMode`: `LatchClosed` covers the recovery
  labels and a cancelled attempt, the two ways back to the loop. In a
  rehearsal the deadline returns to the loop with the latch set, by design.
- `SurvivorNeverLeaves`: for the survivor's role, `Apart` says which labels it
  can reach at all; it is never drained nor marked under any fault.

`OverlayDoctorProof`. `TypeCorrect` needs that the repair that is due is one of
the plan, i.e. that some repair has nothing before it (`DuePlanned`: the least
index of the list that a repair names). `PlansStayTrue` is the inductive
invariant: what was read of an endpoint that has not moved since the cycle began
is true (`Known`), and so is every repair planned for it (`Sound`), since
`MakePlan` plans from `Known`, an engine's step makes its endpoint one that
moved, and the worker only removes repairs. `RepairsNeverWorsen` and
`UnclaimedAlwaysLeftAlone` look at the two steps that change rows: a row written
for an endpoint that stayed is the row the node should have.

`HeartbeatsAlwaysVouch` (`BeatVouches`) adds to `Informed` what the
cycle has of the nodes it read, `Vouched`: until the plan is made, the rows read of
a node whose sandbox is the same are the rows it has, for endpoints that stayed
(`AsRead`), and each node asked has told of its endpoints (`Gathered`); from then
on a row that is wrong has its repair in the plan (`Repairing`), since a repair is
removed only when it was applied, and any failure ends the cycle. An empty plan
is then a network that is right.

`DrainClusterProof`. `OwnerOf` says which services' names begin a task's: its own,
its own followed by `.1`, and dotted beginnings of its own, which are shorter. Hence
`LongestIsOwner`, for any list of names, and `UndottedNames`: names without dots meet
`NamesAssumption`. `IInv` has a part for any outage, `Basics`: a drained peer, or
one whose command is under way, has its flag; a node that is not down is up; the
locals of a run are empty outside of it. And one for undisturbed outages, `Plain`:
a peer about to be off is drained and empty, so that nothing starts there any more;
a peer that may be drained has its snapshot; and each service is held (`Held`),
which is `SomebodyWaits`. The step that matters is a poweroff: what it had in
its list runs on the survivor (`ConvergedHolds`, from `NamesAssumption`), and the
survivor stays up. `QuorumAlwaysOutlivesMoves` assumes at most two peers: a lost
quorum then means that both are off, so nobody waits, so all work is on the
survivor. `PeersFollowDrain`: from `Marks`, a part of `Basics`, each step of the
swarm is, for each peer, a step of `NodeDrain` or none: what a peer's attempts,
crashes and urgent shutdowns submit is submitted with the flag, and what `Release`
removes belongs to an active node.

`DnsPipelineProof`. `ReloadsAlwaysKeepHome` from `Tested`: a copy that is at its
reload was checked to hold the home record, whatever the shared file has become
since. `RememberedAlwaysServed` (`RememberedIsServed`) needs to know what a call has
in its hands at each of its steps, as the file may be replaced between any two, and
unbound may load the copy while it is still being tested: a file that was dealt with
is the one whose hash the script has (`Paced`); a good file that is
remembered, or was dealt with, is the copy, so that a call that goes on to
copy has a new file (`Copied`); a healthy server holds the copy, the one put aside,
or the file (`Holding`). These three are lost when two changes come at a time, which
stays so until a new container (`RushStays`). It is the safety half of `Converges`,
and like it is said of containers that are not rushed.

`NasServiceProof`, of the monitor alone. `WindowsAlwaysBounded` from `Spaced`: no two windows have
adjacent ages, because the machine reports a return only after an outage that
took a step of its own; the cardinality follows. `BurstsAlwaysRegular` from
`Attended`: while a return is owed a window, that window is open, and the time
since the last burst is at most its age modulo the gap.

Of the service. `ClientInv` says that everything in the connection is of the
probe under way: no `VAR` line carries a status from before it began, and between
probes the connection is empty. Hence `ServiceSamples`: with all its exchanges the
service implements the monitor that hears nothing or samples the UPS. That monitor
is a monitor of `WolOnBoot`, whose theorems therefore hold of the service
(`ServiceBurstsRegular`, `ServiceWindowsBounded`, `ServiceTypeCorrect`).
`ProbesAlwaysBounded` from `Pace`, which bounds the time spent up to each exchange.

`EventLogProof`, for any number of processes and goroutines. `MutexNeverOrphaned`:
the mutex of a process is held by at most one goroutine, and only inside a call
(`Mutex`, `HolderRuns`), which is the safety half of `LogReturns`.
`FileAlwaysInOrder` (`FileInOrder`) is about two files and a stdout that share no
variable; `LineInv` ties them together: every line in them has been given out
(`Counted`); the line a goroutine has yet to write is in no file (`Fresh`); lines
of one process stand in both in the same order (`Ordered`); a line that is written
and about to be printed comes after all that was printed (`Due`); and a process
that still writes the older generation has nothing in the newer (`Behind`). A
rotation moves the whole file and drops the older one, which keeps all five.

Only model-checked: liveness (`MainsRelease`, `LowBatteryPowersOff`, `WorkReturns`,
`LogReturns`, both `Converges`), which the prover does not reach; and what the runs
that end in a violation show. Every invariant and action property of a passing run
is a theorem. `LongestWins`, evaluated over a set of dotted names in `MCDrainCluster`,
is an instance of `LongestIsOwner`; a task is always that of slot 1 (`TaskName`), and
how docker's lines are cut into names is not modelled.

## 6. Not modelled

The packets of a burst, host names in router rules, rendering of records, the text
processing of the doctor and the wording of log lines are data. Cutting the
environment or docker's output into lines is left out: its results are constants
or sets. The helper scripts drive the docker command line in a straight line; the
stacks and CI configure third-party software. The reboot windows of
`ignition/nodes/*.env` are times handed to locksmithd: no code of the repository
runs between an update and a reboot, so there is nothing here to translate.

Left out of a modelled component: in `DrainCluster`, updates that land after their
command was given up, and the lock (both are in `UpsWatcher`); in `EventLog`, writes
that put part of a line; in `DnsPipeline`, a stat of the shared file that fails.

## 7. Order of the work

The decision machine and the watcher of one node came first, then the two control
loops and the wake-up service, each checked and proved on its own; then the parts
put together: the swarm in an outage (`DrainPredicates`, `DrainCluster`), the service
with its client (`NutClient`, `NasService`), and the log all of them share
(`EventLog`). What would come next is a run for each of the
four ways in which `Converges` fails in a rushed container, and updates in
flight in `DrainCluster`.
