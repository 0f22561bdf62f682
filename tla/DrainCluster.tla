---------------------------- MODULE DrainCluster ----------------------------
(***************************************************************************)
(* One outage seen by the whole swarm: peers that drain themselves and     *)
(* power off once the survivor holds their work (runDrain), the survivor   *)
(* that stays up to low battery, the raft quorum that every docker command *)
(* and every rescheduling needs, and the nodes that come back and release  *)
(* themselves.                                                             *)
(*                                                                         *)
(* A node's processes, its lock and updates that land after their command  *)
(* was given up are UpsWatcher's subject: here a command has its effect    *)
(* or not when it ends, whatever it reports, and the boot process is one   *)
(* with the daemon's loop, which releases the node in the same way.        *)
(***************************************************************************)
EXTENDS DrainPredicates, FiniteSets

CONSTANTS
    Peers, Survivor,   \* the managers of the swarm
    Services,          \* names of services, as in DrainPredicates
    Faults             \* docker commands may fail, daemons may crash

Nodes == Peers \cup {Survivor}

ASSUME NodesAssumption == Survivor \notin Peers /\ IsFiniteSet(Peers) /\ "transit" \notin Nodes
ASSUME FaultsAssumption == Faults \in BOOLEAN

(* No service's name, with its dot, begins the name of another's task. *)
ASSUME NamesAssumption == \A s, t \in Services : Owns(s, TaskName(t)) <=> s = t

VARIABLES
    ups,         \* "mains", "battery" or "low"
    up,          \* the nodes that are up
    pc,          \* the point each node's daemon has reached
    flag,        \* the peers whose flag file exists
    avail,       \* each peer's availability
    place,       \* the node each service runs on, or "transit"
    run,         \* the locals of each peer's runDrain
    disturbed    \* history: this outage is not a plain one, see Settle

vars == <<ups, up, pc, flag, avail, place, run, disturbed>>

InRun == {"attempt", "drain", "poll", "missing"}
Labels == {"loop", "urgent", "release", "poweroff", "down"} \cup InRun

Run == [drained : BOOLEAN, snapshotted : BOOLEAN, services : SUBSET Services]
NewRun == [drained |-> FALSE, snapshotted |-> FALSE, services |-> {}]

TypeOK ==
    /\ ups \in {"mains", "battery", "low"}
    /\ up \subseteq Nodes
    /\ pc \in [Nodes -> Labels]
    /\ flag \subseteq Peers
    /\ avail \in [Peers -> {"active", "drain"}]
    /\ place \in [Services -> Nodes \cup {"transit"}]
    /\ run \in [Peers -> Run]
    /\ disturbed \in BOOLEAN

Init ==
    /\ ups = "mains"
    /\ up = Nodes
    /\ pc = [n \in Nodes |-> "loop"]
    /\ flag = {}
    /\ avail = [p \in Peers |-> "active"]
    /\ place \in [Services -> Nodes]
    /\ run = [p \in Peers |-> NewRun]
    /\ disturbed = FALSE

-----------------------------------------------------------------------------
(* The swarm. *)

Quorum == 2 * Cardinality(up) > Cardinality(Nodes)

Local(n) == {s \in Services : place[s] = n}

Open == {n \in up : n = Survivor \/ avail[n] = "active"}

(* What the survivor's rows say: a service on its way is being prepared there. *)
Rows == {[name |-> TaskName(s), running |-> s \in Local(Survivor)] :
            s \in Local(Survivor) \cup Local("transit")}

(* A docker command may fail, with its effect or without. *)
Fails == Faults \/ ~Quorum
Update(p, target) == Quorum /\ avail' = [avail EXCEPT ![p] = target]
MayUpdate(p, target) == UNCHANGED avail \/ Update(p, target)

-----------------------------------------------------------------------------
(* A peer's daemon: runWatch and runDrain.  A probe may fail, so nothing    *)
(* makes a run notice what the UPS says.                                    *)

Goto(p, label) == pc' = [pc EXCEPT ![p] = label]

Leave(p, label) ==
    /\ Goto(p, label)
    /\ run' = [run EXCEPT ![p] = NewRun]

Confirm(p) ==
    /\ pc[p] = "loop" /\ ups = "battery"
    /\ Leave(p, "attempt")
    /\ UNCHANGED <<ups, up, flag, avail, place, disturbed>>

(* A probe that ends the run; the command of an attempt under way is killed. *)
Stop(p) ==
    /\ pc[p] \in {"attempt", "drain", "poll"} /\ ups # "battery"
    /\ Leave(p, IF ups = "low" THEN "poweroff" ELSE "loop")
    /\ IF pc[p] = "drain" THEN MayUpdate(p, "drain") ELSE UNCHANGED avail
    /\ disturbed' = TRUE
    /\ UNCHANGED <<ups, up, flag, place>>

(* Plausible bug in SnapshotOf: every attempt lists the services anew. *)
SnapshotOfAnew(p) == [run[p] EXCEPT !.snapshotted = TRUE, !.services = Local(p)]

(* The first attempt of a run lists the local services; retries keep the list. *)
SnapshotOf(p) ==
    IF run[p].snapshotted THEN run[p]
    ELSE [run[p] EXCEPT !.snapshotted = TRUE, !.services = Local(p)]

(* Plausible bug in Marked: the flag file is written once the node is drained. *)
MarkedLater(p) == flag

Marked(p) == flag \cup {p}

(* drainAttempt up to its command: the snapshot, then the flag file. *)
Snapshot(p) ==
    /\ pc[p] = "attempt"
    /\ \/ /\ run' = [run EXCEPT ![p] = SnapshotOf(p)]
          /\ flag' = Marked(p)
          /\ Goto(p, "drain")
       \/ Faults /\ ~run[p].snapshotted /\ UNCHANGED <<run, flag>> /\ Goto(p, "poll")
    /\ UNCHANGED <<ups, up, avail, place, disturbed>>

Drain(p) ==
    /\ pc[p] = "drain"
    /\ \/ Update(p, "drain") /\ run' = [run EXCEPT ![p].drained = TRUE]
       \/ Fails /\ MayUpdate(p, "drain") /\ UNCHANGED run
    /\ Goto(p, "poll")
    /\ UNCHANGED <<ups, up, flag, place, disturbed>>

(* The end of the loop's body: the deadline has passed, or not yet. *)
NotReady(p) ==
    \/ Leave(p, "poweroff") /\ disturbed' = TRUE
    \/ Goto(p, IF run[p].drained THEN "poll" ELSE "attempt") /\ UNCHANGED <<run, disturbed>>

Count(p) ==
    /\ pc[p] = "poll"
    /\ \/ run[p].drained /\ Local(p) = {} /\ Goto(p, "missing") /\ UNCHANGED <<run, disturbed>>
       \/ (~run[p].drained \/ Local(p) # {} \/ Faults) /\ NotReady(p)
    /\ UNCHANGED <<ups, up, flag, avail, place>>

(* survivorMissing: an empty list asks nobody, a failed query confirms nothing. *)
Converged(p) == Quorum /\ MissingServices(run[p].services, Rows) = {}

Missing(p) ==
    /\ pc[p] = "missing"
    /\ \/ (run[p].services = {} \/ Converged(p)) /\ Leave(p, "poweroff") /\ UNCHANGED disturbed
       \/ run[p].services # {} /\ (Fails \/ ~Converged(p)) /\ NotReady(p)
    /\ UNCHANGED <<ups, up, flag, avail, place>>

(* Plausible bug in Urgent: the survivor drains itself too. *)
UrgentAll(n) ==
    /\ pc[n] = "loop" /\ ups = "low"
    /\ Goto(n, "urgent") /\ flag' = Marked(n)
    /\ disturbed' = TRUE
    /\ UNCHANGED <<ups, up, avail, place, run>>

(* shutdownNow, on a low battery outside a run: a peer marks itself and drains. *)
Urgent(n) ==
    /\ pc[n] = "loop" /\ ups = "low"
    /\ \/ n \in Peers /\ Goto(n, "urgent") /\ flag' = Marked(n)
       \/ n = Survivor /\ Goto(n, "poweroff") /\ UNCHANGED flag
    /\ disturbed' = TRUE
    /\ UNCHANGED <<ups, up, avail, place, run>>

(* Its one attempt, whatever comes of it. *)
UrgentDrain(p) ==
    /\ pc[p] = "urgent"
    /\ Goto(p, "poweroff")
    /\ MayUpdate(p, "drain")
    /\ UNCHANGED <<ups, up, flag, place, run, disturbed>>

(* recoverDrain and undrainNow: an update that is accepted lets the flag go. *)
Recover(p) ==
    /\ pc[p] = "loop" /\ ups = "mains" /\ p \in flag
    /\ \/ Update(p, "active") /\ Goto(p, "release")
       \/ Fails /\ MayUpdate(p, "active") /\ UNCHANGED pc
    /\ UNCHANGED <<ups, up, flag, place, run, disturbed>>

Release(p) ==
    /\ pc[p] = "release"
    /\ Goto(p, "loop")
    /\ flag' = flag \ {p}
    /\ UNCHANGED <<ups, up, avail, place, run, disturbed>>

(* The daemon is restarted and forgets its run. *)
Crash(p) ==
    /\ Faults /\ pc[p] \in InRun \cup {"urgent", "release"}
    /\ Leave(p, "loop")
    /\ IF pc[p] \in {"drain", "urgent"} THEN MayUpdate(p, "drain") ELSE UNCHANGED avail
    /\ disturbed' = TRUE
    /\ UNCHANGED <<ups, up, flag, place>>

Daemon(p) ==
    \/ Confirm(p) \/ Stop(p) \/ Snapshot(p) \/ Drain(p) \/ Count(p) \/ Missing(p)
    \/ UrgentDrain(p) \/ Release(p)

-----------------------------------------------------------------------------
(* The surroundings: the UPS, the nodes' power, the scheduler. *)

UpsChanges ==
    /\ ups' \in {"mains", "battery", "low"} \ {ups}
    /\ ups = "mains" => ups' # "low"
    /\ UNCHANGED <<up, pc, flag, avail, place, run, disturbed>>

PowerDown(n) ==
    /\ pc[n] = "poweroff"
    /\ up' = up \ {n}
    /\ Goto(n, "down")
    /\ place' = [s \in Services |-> IF place[s] = n THEN "transit" ELSE place[s]]
    /\ UNCHANGED <<ups, flag, avail, run, disturbed>>

(* wol-on-boot, or a hand, powers the node on. *)
PowerUp(n) ==
    /\ pc[n] = "down" /\ ups = "mains"
    /\ up' = up \cup {n}
    /\ Goto(n, "loop")
    /\ disturbed' = TRUE
    /\ UNCHANGED <<ups, flag, avail, place, run>>

Teardown(p, s) ==
    /\ place[s] = p /\ avail[p] = "drain" /\ Quorum
    /\ place' = [place EXCEPT ![s] = "transit"]
    /\ UNCHANGED <<ups, up, pc, flag, avail, run, disturbed>>

Start(s) ==
    /\ place[s] = "transit" /\ Quorum
    /\ \E n \in Open : place' = [place EXCEPT ![s] = n]
    /\ UNCHANGED <<ups, up, pc, flag, avail, run, disturbed>>

(* History: once everything is back in place, the next outage is a new one. *)
Settle ==
    /\ disturbed /\ ups = "mains" /\ up = Nodes /\ \A n \in Nodes : pc[n] = "loop"
    /\ flag = {} /\ Local("transit") = {}
    /\ disturbed' = FALSE
    /\ UNCHANGED <<ups, up, pc, flag, avail, place, run>>

Next ==
    \/ \E p \in Peers : Daemon(p) \/ Recover(p) \/ Crash(p)
    \/ \E n \in Nodes : Urgent(n) \/ PowerDown(n) \/ PowerUp(n)
    \/ \E p \in Peers, s \in Services : Teardown(p, s)
    \/ \E s \in Services : Start(s)
    \/ UpsChanges \/ Settle

Spec == Init /\ [][Next]_vars

-----------------------------------------------------------------------------
(* Properties. *)

(***************************************************************************)
(* Each peer, whatever the others, the scheduler and the power do, keeps   *)
(* to the drain protocol that UpsWatcher implements within one node: the   *)
(* flag goes before the drain and stays until the release (drainAttempt,   *)
(* prepareUrgentDrain, undrainNow).                                        *)
(***************************************************************************)
Node(p) == INSTANCE NodeDrain WITH avail <- avail[p], inflight <- {}, marker <- p \in flag

NodesDrain ==
    /\ \A p \in Peers : Node(p)!DrainInit
    /\ [][\A p \in Peers : [Node(p)!DrainNext]_(Node(p)!drainVars)]_vars

(***************************************************************************)
(* In an outage in which no run is aborted, cut short by a low battery, a  *)
(* deadline or a crash, no service is left without anyone to wait for it:  *)
(* it runs on the survivor, or a peer that is still up has it in its       *)
(* snapshot or will have (drain.go:11 to 19; runDrain).                    *)
(***************************************************************************)
Waits(p, s) ==
    /\ p \in up
    /\ \/ s \in run[p].services
       \/ place[s] = p /\ ~run[p].snapshotted

SomebodyWaits ==
    ~disturbed => \A s \in Services : place[s] = Survivor \/ \E p \in Peers : Waits(p, s)

(***************************************************************************)
(* In such an outage the poweroffs of two overlapping drains take the raft *)
(* quorum only when all work is on the survivor (drain.go:14 to 16:        *)
(* "Powering off in that gap removes raft quorum mid-reschedule and        *)
(* strands the workload").                                                 *)
(***************************************************************************)
QuorumOutlivesMoves ==
    ~disturbed /\ ~Quorum => \A s \in Services : place[s] = Survivor

-----------------------------------------------------------------------------
(* Liveness.  A run that goes on hears of mains in the end; nodes that were *)
(* told to power off do, and come back with mains; the scheduler schedules; *)
(* a release tried over and over is accepted once there is a quorum.        *)

Accepted(p) == Recover(p) /\ pc'[p] = "release"

Fairness ==
    /\ \A p \in Peers : WF_vars(Daemon(p)) /\ SF_vars(Stop(p)) /\ SF_vars(Accepted(p))
    /\ \A n \in Nodes : WF_vars(PowerDown(n)) /\ WF_vars(PowerUp(n))
    /\ \A s \in Services : WF_vars(Start(s))

FairSpec == Spec /\ Fairness

(***************************************************************************)
(* When mains stay, every node comes back, the swarm finds its quorum      *)
(* again, all peers are released and all work runs, whatever the outage    *)
(* left behind: nodes that wait for a quorum that waits for nodes do not   *)
(* block each other (recoverDrain, undrainNow, runWatch).                  *)
(***************************************************************************)
WorkReturns ==
    <>[](ups = "mains") =>
        <>[](up = Nodes /\ Local("transit") = {} /\ \A p \in Peers : avail[p] = "active")
=============================================================================
