---------------------------- MODULE OverlayDoctor ----------------------------
(***************************************************************************)
(* overlay-doctor (src/stacks/overlay-doctor/reconcile.sh): one worker     *)
(* that reads every node's endpoints and VXLAN forwarding rows over ssh,   *)
(* plans repairs from what it read and applies them row by row, while the  *)
(* docker engines go on moving endpoints and leaving stale rows behind.    *)
(*                                                                         *)
(* An endpoint is known by its MAC and lives on one node at most.  A row   *)
(* of a node is the tunnel destination it holds for a MAC, or None.        *)
(***************************************************************************)
EXTENDS Naturals, Sequences, FiniteSets

CONSTANTS
    NodeList,       \* DOCTOR_NODES, in order
    Macs,           \* endpoint MACs
    None,           \* no node
    MinEndpoints,   \* DOCTOR_MIN_ENDPOINTS
    DryRun,         \* DOCTOR_DRY_RUN=1
    MaxMoves        \* bound: endpoints that appear or go

Nodes == {NodeList[i] : i \in DOMAIN NodeList}

ASSUME NodeListAssumption ==
    /\ NodeList \in Seq(Nodes) /\ NodeList # <<>>
    /\ \A i, j \in DOMAIN NodeList : NodeList[i] = NodeList[j] => i = j
ASSUME NoneAssumption == None \notin Nodes
ASSUME KnobAssumption == MinEndpoints \in Nat /\ DryRun \in BOOLEAN /\ MaxMoves \in Nat

VARIABLES
    home,      \* the node each endpoint lives on, or None
    sandbox,   \* the nodes whose network sandbox exists
    fdb,       \* each node's tunnel rows
    master,    \* <<node, mac>>: the node's bridge sends mac to vxlan0
    moves,     \* endpoints that appeared or went so far
    pc, at,    \* where the worker is, and the index of the node it reads
    truth,     \* <<mac, node>> pairs read in this cycle
    read,      \* the rows and master rows read in this cycle
    named,     \* nodes of which this cycle read the sandbox's name
    stale,     \* those of them whose sandbox has gone since
    plan,      \* the repairs still to apply
    moved      \* history: endpoints that appeared or went since the cycle began

engineVars == <<home, sandbox, fdb, master, moves>>
cycleVars  == <<at, truth, read, named, stale, plan>>
vars == <<home, sandbox, fdb, master, moves, pc, at, truth, read, named, stale, plan,
          moved>>

Rows == [Macs -> Nodes \cup {None}]

Repair == [node : Nodes, action : {"del", "replace", "del-master"}, mac : Macs,
           dst : Nodes \cup {None}]

TypeOK ==
    /\ home \in Rows
    /\ sandbox \subseteq Nodes
    /\ fdb \in [Nodes -> Rows]
    /\ master \subseteq Nodes \X Macs
    /\ moves \in 0 .. MaxMoves
    /\ pc \in {"sleep", "endpoints", "fdb", "plan", "apply", "recheck"}
    /\ at \in DOMAIN NodeList
    /\ truth \subseteq Macs \X Nodes
    /\ read \in [fdb : [Nodes -> Rows], master : SUBSET (Nodes \X Macs)]
    /\ named \subseteq Nodes /\ stale \subseteq named
    /\ plan \subseteq Repair
    /\ moved \subseteq Macs

Hosting == {home[e] : e \in Macs} \ {None}

NoRows == [e \in Macs |-> None]

(* What a node's row for endpoint e should be: none on the node it lives on. *)
Want(n, e) == IF home[e] = n THEN None ELSE home[e]

Init ==
    /\ home \in Rows
    /\ sandbox = Hosting
    /\ fdb = [n \in Nodes |-> IF n \in sandbox THEN [e \in Macs |-> Want(n, e)] ELSE NoRows]
    /\ master = {}
    /\ moves = 0
    /\ pc = "sleep"
    /\ at = 1 /\ truth = {} /\ named = {} /\ stale = {} /\ plan = {}
    /\ read = [fdb |-> [n \in Nodes |-> NoRows], master |-> {}]
    /\ moved = {}

-----------------------------------------------------------------------------
(* The worker: cycle. *)

(* The end of a cycle, clean or not; the cycle's files mean nothing any more. *)
Sleep ==
    /\ pc' = "sleep"
    /\ at' = 1 /\ truth' = {}
    /\ named' = {} /\ stale' = {} /\ plan' = {}
    /\ read' = [fdb |-> [n \in Nodes |-> NoRows], master |-> {}]

Begin ==
    /\ pc = "sleep"
    /\ pc' = "endpoints"
    /\ moved' = {}
    /\ UNCHANGED <<engineVars, cycleVars>>

(* Plausible bug in NextNode: one index too far. *)
NextNodeRunsOn ==
    IF at <= Len(NodeList) THEN at' = at + 1 /\ pc' = "endpoints"
                           ELSE at' = 1 /\ pc' = "plan"

NextNode ==
    IF at < Len(NodeList) THEN at' = at + 1 /\ pc' = "endpoints"
                          ELSE at' = 1 /\ pc' = "plan"

Claims(n) == \E e \in Macs : <<e, n>> \in truth

(* gather_node: docker network inspect, and then the sandbox's rows. *)
ReadEndpoints ==
    /\ pc = "endpoints"
    /\ truth' = truth \cup {<<e, NodeList[at]>> : e \in {x \in Macs : home[x] = NodeList[at]}}
    /\ pc' = "fdb"
    /\ UNCHANGED <<engineVars, at, read, named, stale, plan, moved>>

ReadFdb ==
    /\ pc = "fdb" /\ (NodeList[at] \in sandbox \/ ~Claims(NodeList[at]))
    /\ IF NodeList[at] \in sandbox
       THEN LET n == NodeList[at]
            IN  /\ read' = [fdb    |-> [read.fdb EXCEPT ![n] = fdb[n]],
                             master |-> read.master \cup {row \in master : row[1] = n}]
                /\ named' = named \cup {n}
       ELSE UNCHANGED <<read, named>>
    /\ NextNode
    /\ UNCHANGED <<engineVars, truth, stale, plan, moved>>

(* A node that cannot be gathered makes this a skipped cycle; what the others *)
(* are still asked is used for nothing and left out.  A node with endpoints   *)
(* and no sandbox is such a node.                                             *)
GatherFails ==
    /\ pc \in {"endpoints", "fdb"}
    /\ Sleep
    /\ UNCHANGED <<engineVars, moved>>

NoSandbox ==
    /\ pc = "fdb" /\ NodeList[at] \notin sandbox /\ Claims(NodeList[at])
    /\ Sleep
    /\ UNCHANGED <<engineVars, moved>>

(* truth.final: a MAC seen on two nodes is left out. *)
Final == {t \in truth : \A u \in truth : u[1] = t[1] => u = t}

(* Plausible bug in PlanBody: rows of endpoints nobody claims are cleaned up. *)
PlanBodyTidies(n) ==
    {[node |-> n, action |-> "del", mac |-> e, dst |-> read.fdb[n][e]] :
        e \in {x \in Macs : read.fdb[n][x] # None /\ \A t \in Final : t = <<x, n>> \/ t[1] # x}}
    \cup {[node |-> n, action |-> "replace", mac |-> t[1], dst |-> t[2]] :
        t \in {u \in Final : u[2] # n /\ read.fdb[n][u[1]] # u[2]}}

(* Plausible bug in PlanBody: the node an endpoint lives on gets a tunnel row too. *)
PlanBodyLocalToo(n) ==
    {[node |-> n, action |-> "replace", mac |-> t[1], dst |-> t[2]] :
        t \in {u \in Final : read.fdb[n][u[1]] # u[2]}}

PlanBody(n) ==
    {[node |-> n, action |-> "del", mac |-> t[1], dst |-> read.fdb[n][t[1]]] :
        t \in {u \in Final : u[2] = n /\ read.fdb[n][u[1]] # None}}
    \cup {[node |-> n, action |-> "replace", mac |-> t[1], dst |-> t[2]] :
        t \in {u \in Final : u[2] # n /\ read.fdb[n][u[1]] # u[2]}}

(* Plausible bug in MasterPlan: remote endpoints lose their master rows too. *)
MasterPlanAnywhere(n) ==
    {[node |-> n, action |-> "del-master", mac |-> t[1], dst |-> None] :
        t \in {u \in Final : <<n, u[1]>> \in read.master}}

MasterPlan(n) ==
    {[node |-> n, action |-> "del-master", mac |-> t[1], dst |-> None] :
        t \in {u \in Final : u[2] = n /\ <<n, u[1]>> \in read.master}}

(* A dry run logs its plan and goes on as if it had applied it. *)
MakePlan ==
    /\ pc = "plan"
    /\ IF Cardinality(Final) < MinEndpoints
       THEN Sleep
       ELSE /\ pc' = "apply"
            /\ plan' = IF DryRun THEN {} ELSE UNION {PlanBody(n) \cup MasterPlan(n) : n \in named}
            /\ UNCHANGED <<at, truth, read, named, stale>>
    /\ UNCHANGED <<engineVars, moved>>

(* Node after node; a node's master rows come last. *)
Before(q, r) ==
    \/ \E i, j \in DOMAIN NodeList : i < j /\ NodeList[i] = q.node /\ NodeList[j] = r.node
    \/ q.node = r.node /\ q.action # "del-master" /\ r.action = "del-master"

(* Rows of one kind go in the order of their MACs, which is any fixed order. *)
Due == CHOOSE r \in plan : \A q \in plan : ~Before(q, r)

(* bridge fdb del names the destination and fails when that row is gone. *)
Applies(r) ==
    /\ r.node \notin stale
    /\ r.action = "del" => fdb[r.node][r.mac] = r.dst

ApplyRow ==
    /\ pc = "apply" /\ plan # {} /\ Due.action # "del-master" /\ Applies(Due)
    /\ fdb' = [fdb EXCEPT ![Due.node][Due.mac] = IF Due.action = "del" THEN None ELSE Due.dst]
    /\ plan' = plan \ {Due}
    /\ UNCHANGED <<home, sandbox, master, moves, pc, at, truth, read, named, stale, moved>>

(* repair_master looks at the endpoints again before it deletes the row. *)
Recheck ==
    /\ pc = "apply" /\ plan # {} /\ Due.action = "del-master"
    /\ home[Due.mac] = Due.node
    /\ pc' = "recheck"
    /\ UNCHANGED <<engineVars, cycleVars, moved>>

DelMaster ==
    /\ pc = "recheck"
    /\ Due.node \notin stale /\ <<Due.node, Due.mac>> \in master
    /\ master' = master \ {<<Due.node, Due.mac>>}
    /\ plan' = plan \ {Due}
    /\ pc' = "apply"
    /\ UNCHANGED <<home, sandbox, fdb, moves, at, truth, read, named, stale, moved>>

(* A repair whose node has changed meanwhile is refused; the cycle ends. *)
Refused ==
    /\ \/ pc = "apply" /\ plan # {} /\ Due.action # "del-master" /\ ~Applies(Due)
       \/ pc = "apply" /\ plan # {} /\ Due.action = "del-master" /\ home[Due.mac] # Due.node
       \/ pc = "recheck" /\ (Due.node \in stale \/ <<Due.node, Due.mac>> \notin master)
    /\ Sleep
    /\ UNCHANGED <<engineVars, moved>>

(* The cycle ends well and writes its heartbeat. *)
Beat ==
    /\ pc = "apply" /\ plan = {}
    /\ Sleep
    /\ UNCHANGED <<engineVars, moved>>

Doctor == Begin \/ ReadEndpoints \/ ReadFdb \/ NoSandbox \/ MakePlan \/ ApplyRow \/ Recheck \/ DelMaster
            \/ Refused \/ Beat

(* Plausible bug in RepairFails: the cycle goes on with the next repair. *)
RepairFailsOn ==
    /\ pc = "recheck" \/ (pc = "apply" /\ plan # {})
    /\ pc' = "apply"
    /\ plan' = plan \ {Due}
    /\ UNCHANGED <<engineVars, at, truth, read, named, stale, moved>>

(* ssh, docker or sudo fails on a node: a repair that fails ends the cycle. *)
RepairFails ==
    /\ pc = "recheck" \/ (pc = "apply" /\ plan # {})
    /\ Sleep
    /\ UNCHANGED <<engineVars, moved>>

SshFails == GatherFails \/ RepairFails

-----------------------------------------------------------------------------
(* The engines.  A row of the endpoint that moved is brought up to date or  *)
(* stays as it was (moby#52661); rows of other endpoints are left alone.    *)

Moves(e) ==
    /\ moves < MaxMoves
    /\ moves' = moves + 1
    /\ moved' = moved \cup {e}
    /\ UNCHANGED <<pc, at, truth, read, named, plan>>

(* Updated: the nodes whose engine brings its row for e up to date. *)
Update(e, updated) ==
    [n \in Nodes |-> IF n \in updated THEN [fdb[n] EXCEPT ![e] = IF home'[e] = n THEN None ELSE home'[e]]
                                       ELSE fdb[n]]

(* An endpoint starts on n; the bridge of n may go on sending it to vxlan0. *)
(* A node's first endpoint makes the sandbox, with the rows of the others.  *)
Attach(n, e) ==
    /\ home[e] = None
    /\ home' = [home EXCEPT ![e] = n]
    /\ sandbox' = sandbox \cup {n}
    /\ \E updated \in SUBSET sandbox :
          fdb' = IF n \in sandbox THEN Update(e, updated)
                 ELSE [Update(e, updated) EXCEPT ![n] = [x \in Macs |-> IF x = e THEN None ELSE home[x]]]
    /\ \/ master' = master \cup {<<n, e>>}
       \/ master' = master \ {<<n, e>>}
    /\ UNCHANGED stale
    /\ Moves(e)

(* An endpoint stops.  The sandbox of a node left without endpoints goes, or *)
(* stays a while; a later one has a new name.                                *)
Detach(e) ==
    /\ home[e] # None
    /\ home' = [home EXCEPT ![e] = None]
    /\ \E updated \in SUBSET sandbox, gone \in SUBSET ({home[e]} \ {home'[x] : x \in Macs}) :
          /\ sandbox' = sandbox \ gone
          /\ stale' = stale \cup (gone \cap named)
          /\ fdb' = [n \in Nodes |-> IF n \in gone THEN NoRows ELSE Update(e, updated)[n]]
          /\ master' = {row \in master : row[1] \notin gone}
    /\ Moves(e)

Engine == \E e \in Macs : Detach(e) \/ \E n \in Nodes : Attach(n, e)

Next == Doctor \/ SshFails \/ Engine

Spec == Init /\ [][Next]_vars

-----------------------------------------------------------------------------
(* Properties. *)

(* Node n reaches endpoint e: its tunnel row is right and, on the node the *)
(* endpoint lives on, the bridge does not send it away.                    *)
Right(n, e) ==
    home[e] # None => fdb[n][e] = Want(n, e) /\ (home[e] = n => <<n, e>> \notin master)

(***************************************************************************)
(* A repair makes a node lose an endpoint only if that endpoint appeared   *)
(* or went since the cycle began: what other endpoints do, what fails and  *)
(* where a cycle breaks off cannot break a working path (cycle, which      *)
(* plans from one look at each node and applies much later).               *)
(***************************************************************************)
NeverWorsens ==
    [][home' = home => \A n \in Nodes, e \in Macs \ moved : Right(n, e) => Right(n, e)']_vars

(***************************************************************************)
(* A heartbeat vouches for the network: after a cycle that wrote it, each  *)
(* node the cycle read, and whose sandbox is still the same, reaches every *)
(* endpoint that stayed put during the cycle (cycle: any gather or repair  *)
(* that fails ends it before the heartbeat).                               *)
(***************************************************************************)
BeatVouches ==
    [][Beat /\ ~DryRun => \A n \in named \ stale, e \in Macs \ moved : Right(n, e)]_vars

(***************************************************************************)
(* Rows of a MAC no node has claimed since the cycle began are left alone  *)
(* (README.md:69: "Tunnel entries for MACs that no live endpoint claims    *)
(* are counted ... and left alone").                                       *)
(***************************************************************************)
UnclaimedLeftAlone ==
    [][home' = home => \A n \in Nodes, e \in Macs :
          home[e] = None /\ e \notin moved =>
              fdb'[n][e] = fdb[n][e] /\ (<<n, e>> \in master <=> <<n, e>> \in master')]_vars

-----------------------------------------------------------------------------
(* Liveness.  The worker runs on; the engines and ssh owe it nothing. *)

FairSpec == Spec /\ WF_vars(Doctor)

(***************************************************************************)
(* Once endpoints stop moving, enough of them are there and ssh works, all *)
(* nodes come to reach all endpoints and stay so, and the heartbeat goes   *)
(* on: a stale row, a repair refused and a cycle broken off are all made   *)
(* good by later cycles (the outer loop of reconcile.sh).  A step of       *)
(* SshFails that a node's own refusal may also take is not held against    *)
(* ssh.                                                                    *)
(***************************************************************************)
Converges ==
    /\ <>[][home' = home /\ (SshFails => Refused \/ NoSandbox)]_vars
    /\ <>[](Cardinality({e \in Macs : home[e] # None}) >= MinEndpoints)
    => /\ <>[](\A n \in sandbox, e \in Macs : Right(n, e))
       /\ []<><<Beat>>_vars
=============================================================================
