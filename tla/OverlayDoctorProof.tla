------------------------- MODULE OverlayDoctorProof -------------------------
(***************************************************************************)
(* Proofs about OverlayDoctor for every list of nodes, set of endpoints,   *)
(* minimum and number of moves, dry run or not.                            *)
(***************************************************************************)
EXTENDS OverlayDoctor, TLAPS, WellFoundedInduction, SequenceTheorems

LEMMA ListFacts ==
    /\ DOMAIN NodeList = 1 .. Len(NodeList) /\ Len(NodeList) \in Nat \ {0}
    /\ \A i \in DOMAIN NodeList : NodeList[i] \in Nodes
  BY NodeListAssumption DEF Nodes

LEMMA NoRowsType == NoRows \in Rows
  BY DEF NoRows, Rows

-----------------------------------------------------------------------------
(* The repair that is due is one of the plan: some repair has nothing       *)
(* before it.                                                               *)

LEMMA Least == ASSUME NEW S \in SUBSET Nat, S # {} PROVE \E x \in S : \A y \in S : x <= y
<1> DEFINE R == OpToRel(<, Nat)
<1>1. \A x, y \in Nat : y < x => <<y, x>> \in R
  BY DEF OpToRel
<1>2. IsWellFoundedOn(R, Nat)
  BY NatLessThanWellFounded
<1> HIDE DEF R
<1>3. PICK x \in S : \A y \in S : ~(<<y, x>> \in R)
  BY <1>2, WFMin
<1>4. \A y \in S : ~(y < x)
  BY <1>1, <1>3
<1> QED
  BY <1>4

LEMMA DuePlanned == ASSUME plan \subseteq Repair, plan # {} PROVE Due \in plan
<1> DEFINE At(r) == {i \in DOMAIN NodeList : NodeList[i] = r.node}
           S == UNION {At(r) : r \in plan}
<1>1. \A r \in plan : r.node \in Nodes
  BY DEF Repair
<1>2. \A r \in plan : \E i \in DOMAIN NodeList : NodeList[i] = r.node
  BY <1>1 DEF Nodes
<1>3. S \in SUBSET Nat /\ S # {}
  BY <1>2, ListFacts
<1>4. PICK i \in S : \A j \in S : i <= j
  BY <1>3, Least
<1> DEFINE First == {r \in plan : r.node = NodeList[i]}
<1>5. First # {} /\ i \in DOMAIN NodeList
  BY <1>4
<1>6. \A q \in plan, r \in First :
          Before(q, r) => q.node = r.node /\ q.action # "del-master" /\ r.action = "del-master"
  <2> SUFFICES ASSUME NEW q \in plan, NEW r \in First,
                      NEW j \in DOMAIN NodeList, NEW k \in DOMAIN NodeList,
                      j < k, NodeList[j] = q.node, NodeList[k] = r.node
               PROVE  FALSE
    BY DEF Before
  <2>1. j \in S
    OBVIOUS
  <2>2. k = i
    BY <1>5, NodeListAssumption
  <2> QED
    BY <1>3, <1>4, <2>1, <2>2
<1>7. \E r \in plan : \A q \in plan : ~Before(q, r)
  <2>1. CASE \E r \in First : r.action # "del-master"
    BY <1>6, <2>1
  <2>2. CASE \A r \in First : r.action = "del-master"
    <3>1. \A q \in plan, r \in First : ~Before(q, r)
      <4> SUFFICES ASSUME NEW q \in plan, NEW r \in First, Before(q, r) PROVE FALSE
        OBVIOUS
      <4>1. q \in First
        BY <1>6
      <4> QED
        BY <1>6, <2>2, <4>1
    <3> QED
      BY <1>5, <3>1
  <2> QED
    BY <2>1, <2>2
<1> QED
  BY <1>7 DEF Due

-----------------------------------------------------------------------------
(* Type correctness. *)

LEMMA SleepType ==
    ASSUME TypeOK, Sleep, UNCHANGED engineVars, moved' \in SUBSET Macs
    PROVE  TypeOK'
<1>1. read' \in [fdb : [Nodes -> Rows], master : SUBSET (Nodes \X Macs)]
  BY NoRowsType DEF Sleep
<1>2. at' \in DOMAIN NodeList
  BY ListFacts DEF Sleep
<1> QED
  BY <1>1, <1>2 DEF Sleep, TypeOK, engineVars

LEMMA NextNodeType ==
    ASSUME TypeOK, NextNode
    PROVE  at' \in DOMAIN NodeList /\ pc' \in {"endpoints", "plan"}
  BY ListFacts DEF TypeOK, NextNode

LEMMA FinalType == ASSUME TypeOK PROVE Final \subseteq Macs \X Nodes
  BY DEF TypeOK, Final

LEMMA PlanType ==
    ASSUME TypeOK, NEW n \in Nodes
    PROVE  PlanBody(n) \cup MasterPlan(n) \subseteq Repair
<1>1. \A e \in Macs : read.fdb[n][e] \in Nodes \cup {None}
  BY DEF TypeOK, Rows
<1>2. \A t \in Final : t[1] \in Macs /\ t[2] \in Nodes
  BY FinalType
<1>3. PlanBody(n) \subseteq Repair
  BY <1>1, <1>2 DEF PlanBody, Repair
<1>4. MasterPlan(n) \subseteq Repair
  <2> SUFFICES ASSUME NEW r \in MasterPlan(n) PROVE r \in Repair
    OBVIOUS
  <2>1. PICK t \in Final : r = [node |-> n, action |-> "del-master", mac |-> t[1], dst |-> None]
    BY DEF MasterPlan
  <2> QED
    BY <1>2, <2>1 DEF Repair
<1> QED
  BY <1>3, <1>4

LEMMA DoctorType ==
    ASSUME TypeOK, Doctor \/ SshFails
    PROVE  TypeOK'
<1>1. CASE Begin
  BY <1>1 DEF Begin, TypeOK, engineVars, cycleVars
<1>2. CASE ReadEndpoints
  <2>1. NodeList[at] \in Nodes
    BY ListFacts DEF TypeOK
  <2>2. truth' \subseteq Macs \X Nodes
    BY <1>2, <2>1 DEF ReadEndpoints, TypeOK
  <2> QED
    BY <1>2, <2>2 DEF ReadEndpoints, TypeOK, engineVars
<1>3. CASE ReadFdb
  <2> DEFINE n == NodeList[at]
  <2>1. n \in Nodes
    BY ListFacts DEF TypeOK
  <2>2. /\ read' \in [fdb : [Nodes -> Rows], master : SUBSET (Nodes \X Macs)]
        /\ named' \subseteq Nodes /\ stale \subseteq named'
    <3>1. CASE n \in sandbox
      <4>1. read' = [fdb    |-> [read.fdb EXCEPT ![n] = fdb[n]],
                     master |-> read.master \cup {row \in master : row[1] = n}]
        BY <1>3, <3>1 DEF ReadFdb
      <4>2. [read.fdb EXCEPT ![n] = fdb[n]] \in [Nodes -> Rows]
        BY <2>1 DEF TypeOK
      <4>3. read.master \cup {row \in master : row[1] = n} \in SUBSET (Nodes \X Macs)
        BY DEF TypeOK
      <4>4. named' = named \cup {n}
        BY <1>3, <3>1 DEF ReadFdb
      <4> QED
        BY <2>1, <4>1, <4>2, <4>3, <4>4 DEF TypeOK
    <3>2. CASE n \notin sandbox
      BY <1>3, <3>2 DEF ReadFdb, TypeOK
    <3> QED
      BY <3>1, <3>2
  <2>3. at' \in DOMAIN NodeList /\ pc' \in {"endpoints", "plan"}
    BY <1>3, NextNodeType DEF ReadFdb
  <2> QED
    BY <1>3, <2>2, <2>3 DEF ReadFdb, TypeOK, engineVars
<1>4. CASE MakePlan
  <2>1. CASE Sleep
    BY <1>4, <2>1, SleepType DEF MakePlan, TypeOK
  <2>2. CASE ~Sleep
    <3>1. plan' = IF DryRun THEN {} ELSE UNION {PlanBody(n) \cup MasterPlan(n) : n \in named}
      BY <1>4, <2>2 DEF MakePlan
    <3>2. plan' \subseteq Repair
      BY <3>1, PlanType DEF TypeOK
    <3> QED
      BY <1>4, <2>2, <3>2 DEF MakePlan, TypeOK, engineVars
  <2> QED
    BY <2>1, <2>2
<1>5. CASE ApplyRow
  <2>1. Due \in plan /\ Due \in Repair
    BY <1>5, DuePlanned DEF ApplyRow, TypeOK
  <2>2. Due.node \in Nodes /\ Due.mac \in Macs /\ Due.dst \in Nodes \cup {None}
    BY <2>1 DEF Repair
  <2>3. fdb' \in [Nodes -> Rows]
    BY <1>5, <2>2 DEF ApplyRow, TypeOK, Rows
  <2> QED
    BY <1>5, <2>3 DEF ApplyRow, TypeOK
<1>6. CASE Recheck
  BY <1>6 DEF Recheck, TypeOK, engineVars, cycleVars
<1>7. CASE DelMaster
  BY <1>7 DEF DelMaster, TypeOK
<1>8. CASE NoSandbox \/ Refused \/ Beat \/ SshFails
  BY <1>8, SleepType DEF NoSandbox, Refused, Beat, SshFails, GatherFails, RepairFails, TypeOK
<1> QED
  BY <1>1, <1>2, <1>3, <1>4, <1>5, <1>6, <1>7, <1>8 DEF Doctor

LEMMA UpdateType ==
    ASSUME TypeOK, home' \in Rows, NEW e \in Macs, NEW updated
    PROVE  Update(e, updated) \in [Nodes -> Rows]
<1>1. \A n \in Nodes : fdb[n] \in Rows
  BY DEF TypeOK
<1>2. home'[e] \in Nodes \cup {None}
  BY DEF Rows
<1>3. \A n \in Nodes :
          [fdb[n] EXCEPT ![e] = IF home'[e] = n THEN None ELSE home'[e]] \in Rows
  BY <1>1, <1>2 DEF Rows
<1> QED
  BY <1>1, <1>3 DEF Update

LEMMA AttachType == ASSUME TypeOK, NEW n \in Nodes, NEW e \in Macs, Attach(n, e) PROVE TypeOK'
<1>1. home' \in Rows
  BY DEF Attach, TypeOK, Rows
<1>2. fdb' \in [Nodes -> Rows]
  <2>1. PICK updated :
            fdb' = IF n \in sandbox THEN Update(e, updated)
                   ELSE [Update(e, updated) EXCEPT ![n] = [x \in Macs |-> IF x = e THEN None ELSE home[x]]]
    BY DEF Attach
  <2>2. [x \in Macs |-> IF x = e THEN None ELSE home[x]] \in Rows
    BY DEF TypeOK, Rows
  <2> QED
    BY <1>1, <2>1, <2>2, UpdateType
<1>3. master' \subseteq Nodes \X Macs
  BY DEF Attach, TypeOK
<1>4. moves' \in 0 .. MaxMoves
  BY KnobAssumption DEF Attach, Moves, TypeOK
<1>5. sandbox' \subseteq Nodes /\ moved' \subseteq Macs /\ UNCHANGED <<pc, at, truth, read, named, stale, plan>>
  BY DEF Attach, Moves, TypeOK
<1> QED
  BY <1>1, <1>2, <1>3, <1>4, <1>5 DEF TypeOK

LEMMA DetachType == ASSUME TypeOK, NEW e \in Macs, Detach(e) PROVE TypeOK'
<1>1. home' \in Rows
  BY DEF Detach, TypeOK, Rows
<1>2. PICK updated, gone :
          /\ sandbox' = sandbox \ gone
          /\ stale' = stale \cup (gone \cap named)
          /\ fdb' = [n \in Nodes |-> IF n \in gone THEN NoRows ELSE Update(e, updated)[n]]
          /\ master' = {row \in master : row[1] \notin gone}
  BY DEF Detach
<1>3. fdb' \in [Nodes -> Rows]
  BY <1>1, <1>2, UpdateType, NoRowsType
<1>4. master' \subseteq Nodes \X Macs
  BY <1>2 DEF TypeOK
<1>5. moves' \in 0 .. MaxMoves
  BY KnobAssumption DEF Detach, Moves, TypeOK
<1>6. sandbox' \subseteq Nodes /\ stale' \subseteq named
  BY <1>2 DEF TypeOK
<1>7. moved' \subseteq Macs /\ UNCHANGED <<pc, at, truth, read, named, plan>>
  BY DEF Detach, Moves, TypeOK
<1> QED
  BY <1>1, <1>3, <1>4, <1>5, <1>6, <1>7 DEF TypeOK

LEMMA InitType == Init => TypeOK
<1> SUFFICES ASSUME Init PROVE TypeOK
  OBVIOUS
<1>1. Hosting \subseteq Nodes
  BY DEF Init, Hosting, Rows
<1>2. fdb \in [Nodes -> Rows]
  <2>1. \A n \in Nodes : [e \in Macs |-> Want(n, e)] \in Rows
    BY DEF Init, Want, Rows
  <2> QED
    BY <2>1, NoRowsType DEF Init
<1>3. read \in [fdb : [Nodes -> Rows], master : SUBSET (Nodes \X Macs)]
  BY NoRowsType DEF Init
<1>4. at \in DOMAIN NodeList /\ moves \in 0 .. MaxMoves
  BY ListFacts, KnobAssumption DEF Init
<1> QED
  BY <1>1, <1>2, <1>3, <1>4 DEF Init, TypeOK

LEMMA StepType == TypeOK /\ [Next]_vars => TypeOK'
<1> SUFFICES ASSUME TypeOK, [Next]_vars PROVE TypeOK'
  OBVIOUS
<1>1. CASE Engine
  BY <1>1, AttachType, DetachType DEF Engine
<1>2. CASE UNCHANGED vars
  BY <1>2 DEF vars, TypeOK
<1> QED
  BY <1>1, <1>2, DoctorType DEF Next

(***************************************************************************)
(* TypeOK: what a cycle knows and plans is about nodes of the list and     *)
(* endpoints, and it never reads beyond the list.                          *)
(***************************************************************************)
THEOREM TypeCorrect == Spec => []TypeOK
  BY InitType, StepType, PTL DEF Spec

-----------------------------------------------------------------------------
(* What the cycle knows of an endpoint that has not moved since it began is *)
(* true, and so are the repairs planned from it.                            *)

Stays(e) == e \notin moved

Known == \A t \in truth : Stays(t[1]) => home[t[1]] = t[2]

Sound(r) ==
    /\ r.action = "replace" => home[r.mac] = r.dst /\ r.node # r.dst /\ r.dst # None
    /\ r.action # "replace" => home[r.mac] = r.node

Informed ==
    /\ TypeOK
    /\ pc = "sleep" => truth = {} /\ plan = {}
    /\ pc = "recheck" => plan # {} /\ Due.action = "del-master"
    /\ Known
    /\ \A r \in plan : Stays(r.mac) => Sound(r)

LEMMA SameDue == ASSUME plan' = plan PROVE Due' = Due
  BY DEF Due, Before

LEMMA PlanSound ==
    ASSUME Informed, NEW n \in Nodes, NEW r \in PlanBody(n) \cup MasterPlan(n), Stays(r.mac)
    PROVE  Sound(r)
<1>1. \A t \in Final : t \in truth /\ t[2] # None
  BY NoneAssumption DEF Final, Informed, TypeOK
<1>2. CASE r \in PlanBody(n)
  <2>1. CASE \E t \in Final : t[2] = n /\ r = [node |-> n, action |-> "del", mac |-> t[1], dst |-> read.fdb[n][t[1]]]
    BY <1>1, <2>1 DEF Informed, Known, Sound
  <2>2. CASE \E t \in Final : t[2] # n /\ r = [node |-> n, action |-> "replace", mac |-> t[1], dst |-> t[2]]
    BY <1>1, <2>2 DEF Informed, Known, Sound
  <2> QED
    BY <1>2, <2>1, <2>2 DEF PlanBody
<1>3. CASE r \in MasterPlan(n)
  <2>1. PICK t \in Final : t[2] = n /\ r = [node |-> n, action |-> "del-master", mac |-> t[1], dst |-> None]
    BY <1>3 DEF MasterPlan
  <2> QED
    BY <1>1, <2>1 DEF Informed, Known, Sound
<1> QED
  BY <1>2, <1>3

LEMMA DoctorInformed == ASSUME Informed, TypeOK', Doctor \/ SshFails PROVE Informed'
<1>1. ASSUME Sleep, UNCHANGED home PROVE Informed'
  BY <1>1 DEF Sleep, Informed, Known
<1>2. ASSUME UNCHANGED <<home, truth, moved>>, plan' \subseteq plan, pc' \notin {"sleep", "recheck"} PROVE Informed'
  BY <1>2 DEF Informed, Known, Stays, Sound
<1>3. CASE Begin
  <2>1. truth' = {} /\ plan' = {} /\ pc' \notin {"sleep", "recheck"}
    BY <1>3 DEF Begin, Informed, cycleVars
  <2> QED
    BY <2>1 DEF Informed, Known
<1>4. CASE ReadEndpoints
  <2>1. UNCHANGED <<home, plan, moved>> /\ pc' \notin {"sleep", "recheck"}
    BY <1>4 DEF ReadEndpoints, engineVars
  <2>2. truth' = truth \cup {<<e, NodeList[at]>> : e \in {x \in Macs : home[x] = NodeList[at]}}
    BY <1>4 DEF ReadEndpoints
  <2>3. Known'
    BY <2>1, <2>2 DEF Informed, Known, Stays
  <2> QED
    BY <2>1, <2>3 DEF Informed, Stays, Sound
<1>5. CASE ReadFdb \/ ApplyRow \/ DelMaster
  <2>1. UNCHANGED <<home, truth, moved>> /\ plan' \subseteq plan
    BY <1>5 DEF ReadFdb, ApplyRow, DelMaster, engineVars
  <2>2. pc' \notin {"sleep", "recheck"}
    BY <1>5 DEF ReadFdb, NextNode, ApplyRow, DelMaster
  <2> QED
    BY <1>2, <2>1, <2>2
<1>6. CASE MakePlan
  <2>1. UNCHANGED <<home, moved>>
    BY <1>6 DEF MakePlan, engineVars
  <2>2. CASE Sleep
    BY <1>1, <2>1, <2>2
  <2>3. CASE ~Sleep
    <3>1. /\ plan' = IF DryRun THEN {} ELSE UNION {PlanBody(n) \cup MasterPlan(n) : n \in named}
          /\ pc' = "apply" /\ truth' = truth
      BY <1>6, <2>3 DEF MakePlan
    <3>2. \A r \in plan' : Stays(r.mac) => Sound(r)
      BY <3>1, PlanSound DEF Informed, TypeOK
    <3> QED
      BY <2>1, <3>1, <3>2 DEF Informed, Known, Stays, Sound
  <2> QED
    BY <2>2, <2>3
<1>7. CASE Recheck
  <2>1. UNCHANGED <<home, truth, moved, plan>> /\ pc' = "recheck" /\ plan # {} /\ Due.action = "del-master"
    BY <1>7 DEF Recheck, engineVars, cycleVars
  <2> QED
    BY <2>1, SameDue DEF Informed, Known, Stays, Sound
<1>8. CASE NoSandbox \/ Refused \/ Beat \/ SshFails
  BY <1>1, <1>8 DEF NoSandbox, Refused, Beat, SshFails, GatherFails, RepairFails, engineVars
<1> QED
  BY <1>3, <1>4, <1>5, <1>6, <1>7, <1>8 DEF Doctor

(* An engine moves one endpoint at a time, which then no longer stays. *)
LEMMA EngineMoves ==
    ASSUME TypeOK, Engine
    PROVE  \E e \in Macs : /\ moved' = moved \cup {e}
                           /\ \A x \in Macs \ {e} : home'[x] = home[x]
                           /\ home'[e] # home[e]
                           /\ UNCHANGED <<pc, truth, plan>>
<1>1. CASE \E e \in Macs : Detach(e)
  <2>1. PICK e \in Macs : Detach(e)
    BY <1>1
  <2>2. home' = [home EXCEPT ![e] = None] /\ home[e] # None /\ Moves(e)
    BY <2>1 DEF Detach
  <2> QED
    BY <2>2 DEF TypeOK, Rows, Moves
<1>2. CASE \E e \in Macs : \E n \in Nodes : Attach(n, e)
  <2>1. PICK e \in Macs, n \in Nodes : Attach(n, e)
    BY <1>2
  <2>2. home' = [home EXCEPT ![e] = n] /\ home[e] = None /\ Moves(e)
    BY <2>1 DEF Attach
  <2> QED
    BY <2>2, NoneAssumption DEF TypeOK, Rows, Moves
<1> QED
  BY <1>1, <1>2 DEF Engine

LEMMA StepInformed == Informed /\ [Next]_vars => Informed'
<1> SUFFICES ASSUME Informed, [Next]_vars PROVE Informed'
  OBVIOUS
<1> TypeOK /\ TypeOK'
  BY StepType DEF Informed
<1>1. CASE Engine
  <2>1. PICK e \in Macs : /\ moved' = moved \cup {e}
                          /\ \A x \in Macs \ {e} : home'[x] = home[x]
                          /\ UNCHANGED <<pc, truth, plan>>
    BY <1>1, EngineMoves
  <2>2. Known'
    BY <2>1 DEF Informed, Known, Stays, TypeOK
  <2>3. ASSUME NEW r \in plan', Stays(r.mac)' PROVE Sound(r)'
    <3>1. r \in plan /\ r.mac \in Macs
      BY <2>1, <2>3 DEF TypeOK, Repair
    <3>2. Stays(r.mac) /\ home'[r.mac] = home[r.mac]
      BY <2>1, <2>3, <3>1 DEF Stays
    <3> QED
      BY <3>1, <3>2 DEF Informed, Sound
  <2> QED
    BY <2>1, <2>2, <2>3, SameDue DEF Informed
<1>2. CASE UNCHANGED vars
  BY <1>2, SameDue DEF vars, Informed, Known, Stays, Sound
<1> QED
  BY <1>1, <1>2, DoctorInformed DEF Next

LEMMA InitInformed == Init => Informed
  BY InitType DEF Init, Informed, Known

(***************************************************************************)
(* Informed: what a cycle read of endpoints that stay put is true to its   *)
(* end, and every repair it has left for them is right (cycle, between its *)
(* first docker network inspect and its last bridge command).              *)
(***************************************************************************)
THEOREM PlansStayTrue == Spec => []Informed
  BY InitInformed, StepInformed, PTL DEF Spec

-----------------------------------------------------------------------------
(* What a repair changes. *)

(* The rows only change in two of the worker's steps, each on behalf of the *)
(* repair that is due.                                                      *)
LEMMA WhatChanges ==
    ASSUME Informed, [Next]_vars, home' = home
    PROVE  \/ ApplyRow /\ Due \in plan
           \/ DelMaster /\ Due \in plan /\ Due.action = "del-master"
           \/ UNCHANGED <<fdb, master>>
<1>1. ~Engine
  BY EngineMoves DEF Informed
<1>2. CASE ApplyRow
  BY <1>2, DuePlanned DEF ApplyRow, Informed, TypeOK
<1>3. CASE DelMaster
  BY <1>3, DuePlanned DEF DelMaster, Informed, TypeOK
<1>4. CASE ~ApplyRow /\ ~DelMaster
  BY <1>1, <1>4 DEF Next, Doctor, Begin, ReadEndpoints, ReadFdb, NoSandbox, MakePlan, Recheck,
                    Refused, Beat, SshFails, GatherFails, RepairFails, engineVars, vars
<1> QED
  BY <1>2, <1>3, <1>4

(* A row written for an endpoint that stays is the row the node should have, *)
(* and the endpoint lives somewhere.                                         *)
LEMMA RowWritten ==
    ASSUME Informed, home' = home, ApplyRow, Due \in plan, NEW n \in Nodes, NEW e \in Macs, Stays(e)
    PROVE  \/ fdb'[n][e] = fdb[n][e]
           \/ home[e] # None /\ fdb'[n][e] = Want(n, e)
<1> DEFINE row == IF Due.action = "del" THEN None ELSE Due.dst
<1>1. Due.node \in Nodes /\ Due.mac \in Macs /\ Due.action \in {"del", "replace"}
  BY DEF Informed, TypeOK, Repair, ApplyRow
<1>2. fdb' = [fdb EXCEPT ![Due.node][Due.mac] = row]
  BY DEF ApplyRow
<1>3. fdb \in [Nodes -> [Macs -> Nodes \cup {None}]]
  BY DEF Informed, TypeOK, Rows
<1>4. fdb'[n][e] = IF n = Due.node /\ e = Due.mac THEN row ELSE fdb[n][e]
  BY <1>1, <1>2, <1>3
<1>5. CASE n = Due.node /\ e = Due.mac
  <2>1. Sound(Due)
    BY <1>5 DEF Informed
  <2>2. CASE Due.action = "del"
    BY <1>4, <1>5, <2>1, <2>2, NoneAssumption DEF Sound, Want
  <2>3. CASE Due.action = "replace"
    BY <1>4, <1>5, <2>1, <2>3 DEF Sound, Want
  <2> QED
    BY <1>1, <2>2, <2>3
<1> QED
  BY <1>4, <1>5

(* A master row deleted for an endpoint that stays is of the node it lives on. *)
LEMMA MasterDeleted ==
    ASSUME Informed, DelMaster, Due \in plan, Due.action = "del-master",
           NEW n \in Nodes, NEW e \in Macs, Stays(e)
    PROVE  \/ <<n, e>> \in master' <=> <<n, e>> \in master
           \/ home[e] = n /\ <<n, e>> \notin master'
<1>1. master' = master \ {<<Due.node, Due.mac>>}
  BY DEF DelMaster
<1>2. CASE <<n, e>> = <<Due.node, Due.mac>>
  <2>1. Sound(Due) /\ n = Due.node /\ e = Due.mac
    BY <1>2 DEF Informed
  <2> QED
    BY <1>1, <2>1 DEF Sound
<1> QED
  BY <1>1, <1>2

(***************************************************************************)
(* NeverWorsens: no repair breaks the path to an endpoint that stayed put, *)
(* however the engines, ssh and the other endpoints behave (cycle).        *)
(***************************************************************************)
THEOREM RepairsNeverWorsen == Spec => NeverWorsens
<1> DEFINE A == home' = home => \A n \in Nodes, e \in Macs \ moved : Right(n, e) => Right(n, e)'
<1>1. Informed /\ [Next]_vars => [A]_vars
  <2> SUFFICES ASSUME Informed, [Next]_vars, home' = home,
                      NEW n \in Nodes, NEW e \in Macs \ moved, Right(n, e)
               PROVE  Right(n, e)'
    OBVIOUS
  <2>1. Want(n, e)' = Want(n, e)
    BY DEF Want
  <2>2. CASE ApplyRow /\ Due \in plan
    <3>1. master' = master
      BY <2>2 DEF ApplyRow
    <3> QED
      BY <2>1, <2>2, <3>1, RowWritten DEF Right, Stays
  <2>3. CASE DelMaster /\ Due \in plan
    BY <2>1, <2>3 DEF DelMaster, Right
  <2>4. CASE UNCHANGED <<fdb, master>>
    BY <2>1, <2>4 DEF Right
  <2> QED
    BY <2>2, <2>3, <2>4, WhatChanges
<1> QED
  BY <1>1, InitInformed, StepInformed, PTL DEF Spec, NeverWorsens

(***************************************************************************)
(* UnclaimedLeftAlone: no repair touches the rows of a MAC that nobody has *)
(* claimed since the cycle began (plan_body starts from the endpoints, and *)
(* never from the rows).                                                   *)
(***************************************************************************)
THEOREM UnclaimedAlwaysLeftAlone == Spec => UnclaimedLeftAlone
<1> DEFINE A == home' = home => \A n \in Nodes, e \in Macs :
                  home[e] = None /\ e \notin moved =>
                      fdb'[n][e] = fdb[n][e] /\ (<<n, e>> \in master <=> <<n, e>> \in master')
<1>1. Informed /\ [Next]_vars => [A]_vars
  <2> SUFFICES ASSUME Informed, [Next]_vars, home' = home,
                      NEW n \in Nodes, NEW e \in Macs, home[e] = None, Stays(e)
               PROVE  fdb'[n][e] = fdb[n][e] /\ (<<n, e>> \in master <=> <<n, e>> \in master')
    BY DEF Stays
  <2>1. CASE ApplyRow /\ Due \in plan
    <3>1. master' = master
      BY <2>1 DEF ApplyRow
    <3> QED
      BY <2>1, <3>1, RowWritten
  <2>2. CASE DelMaster /\ Due \in plan /\ Due.action = "del-master"
    <3>1. fdb' = fdb
      BY <2>2 DEF DelMaster
    <3> QED
      BY <2>2, <3>1, MasterDeleted, NoneAssumption
  <2>3. CASE UNCHANGED <<fdb, master>>
    BY <2>3
  <2> QED
    BY <2>1, <2>2, <2>3, WhatChanges
<1> QED
  BY <1>1, InitInformed, StepInformed, PTL DEF Spec, UnclaimedLeftAlone

-----------------------------------------------------------------------------
(* What a heartbeat vouches for: the rows read of a node are the rows it    *)
(* has, and a row that is wrong has its repair in the plan.                 *)

Fresh == named \ stale

(* Every endpoint that lives on n and stays has been told of. *)
Told(n) == \A e \in Macs : Stays(e) /\ home[e] = n => <<e, n>> \in truth

Asked(i) == i < at \/ (i = at /\ pc = "fdb")

Gathering == pc \in {"endpoints", "fdb"}

Gathered ==
    /\ Gathering => \A i \in DOMAIN NodeList : Asked(i) => Told(NodeList[i])
    /\ pc = "plan" => \A n \in Nodes : Told(n)

Named ==
    /\ Fresh \subseteq sandbox
    /\ \A row \in read.master : row[1] \in named
    /\ pc = "sleep" => named = {} /\ at = 1
    /\ Gathering => \A i \in DOMAIN NodeList : NodeList[i] \in named => i < at

SameRows(n, e) ==
    /\ read.fdb[n][e] = fdb[n][e]
    /\ <<n, e>> \in read.master <=> <<n, e>> \in master

AsRead ==
    Gathering \/ pc = "plan" => \A n \in Fresh, e \in Macs : Stays(e) => SameRows(n, e)

RowPlanned(n, e) == \E r \in plan : r.node = n /\ r.mac = e /\ r.action # "del-master"
MasterPlanned(n, e) == \E r \in plan : r.node = n /\ r.mac = e /\ r.action = "del-master"

Covered(n, e) ==
    /\ home[e] # None /\ fdb[n][e] # Want(n, e) => RowPlanned(n, e)
    /\ home[e] = n /\ <<n, e>> \in master => MasterPlanned(n, e)

Repairing ==
    pc \in {"apply", "recheck"} /\ ~DryRun => \A n \in Fresh, e \in Macs : Stays(e) => Covered(n, e)

Vouched == Informed /\ Gathered /\ Named /\ AsRead /\ Repairing

LEMMA InitVouched == Init => Vouched
BY InitInformed DEF Init, Vouched, Gathered, Gathering, Named, Fresh, AsRead, Repairing

LEMMA SleepVouched == ASSUME Sleep, Informed' PROVE Vouched'
BY DEF Sleep, Vouched, Gathered, Gathering, Named, Fresh, AsRead, Repairing

(* An engine leaves the rows of endpoints that stay alone on a fresh node. *)
LEMMA EngineKeeps ==
    ASSUME TypeOK, Fresh \subseteq sandbox, Engine
    PROVE  /\ UNCHANGED <<pc, at, truth, read, named, plan>>
           /\ moved \subseteq moved'
           /\ Fresh' \subseteq Fresh /\ Fresh' \subseteq sandbox'
           /\ \A x \in Macs \ moved' : home'[x] = home[x]
           /\ \A n \in Fresh', x \in Macs \ moved' :
                 fdb'[n][x] = fdb[n][x] /\ (<<n, x>> \in master' <=> <<n, x>> \in master)
<1>0. fdb \in [Nodes -> [Macs -> Nodes \cup {None}]] /\ home \in [Macs -> Nodes \cup {None}] /\ Fresh \subseteq Nodes
  BY DEF TypeOK, Rows, Fresh
<1>1. ASSUME NEW e \in Macs, NEW updated, NEW n \in Nodes, NEW x \in Macs \ {e}
      PROVE  Update(e, updated)[n][x] = fdb[n][x]
  BY <1>0 DEF Update
<1>2. ASSUME NEW e \in Macs, Detach(e)
      PROVE  /\ \A x \in Macs \ {e} : home'[x] = home[x]
             /\ Fresh' \subseteq Fresh /\ Fresh' \subseteq sandbox'
             /\ \A n \in Fresh', x \in Macs \ {e} :
                   fdb'[n][x] = fdb[n][x] /\ (<<n, x>> \in master' <=> <<n, x>> \in master)
  <2>1. PICK updated, gone :
            /\ sandbox' = sandbox \ gone
            /\ stale' = stale \cup (gone \cap named)
            /\ fdb' = [n \in Nodes |-> IF n \in gone THEN NoRows ELSE Update(e, updated)[n]]
            /\ master' = {row \in master : row[1] \notin gone}
    BY <1>2 DEF Detach
  <2>2. named' = named /\ home' = [home EXCEPT ![e] = None] BY <1>2 DEF Detach, Moves
  <2>3. Fresh' = Fresh \ gone BY <2>1, <2>2 DEF Fresh
  <2>4. ASSUME NEW n \in Fresh', NEW x \in Macs \ {e}
        PROVE  fdb'[n][x] = fdb[n][x] /\ (<<n, x>> \in master' <=> <<n, x>> \in master)
    <3>1. n \in Nodes /\ n \notin gone BY <1>0, <2>3, <2>4
    <3>2. fdb'[n] = Update(e, updated)[n] BY <2>1, <3>1
    <3>3. <<n, x>> \in master' <=> <<n, x>> \in master BY <2>1, <3>1
    <3> QED BY <1>1, <2>4, <3>1, <3>2, <3>3
  <2> QED BY <1>0, <2>1, <2>2, <2>3, <2>4
<1>3. ASSUME NEW e \in Macs, NEW m \in Nodes, Attach(m, e)
      PROVE  /\ \A x \in Macs \ {e} : home'[x] = home[x]
             /\ Fresh' \subseteq Fresh /\ Fresh' \subseteq sandbox'
             /\ \A n \in Fresh', x \in Macs \ {e} :
                   fdb'[n][x] = fdb[n][x] /\ (<<n, x>> \in master' <=> <<n, x>> \in master)
  <2>1. /\ home' = [home EXCEPT ![e] = m] /\ sandbox' = sandbox \cup {m}
        /\ named' = named /\ stale' = stale
        /\ master' = master \cup {<<m, e>>} \/ master' = master \ {<<m, e>>}
    BY <1>3 DEF Attach, Moves
  <2>2. PICK updated :
            fdb' = IF m \in sandbox THEN Update(e, updated)
                   ELSE [Update(e, updated) EXCEPT ![m] = [x \in Macs |-> IF x = e THEN None ELSE home[x]]]
    BY <1>3 DEF Attach
  <2>3. Fresh' = Fresh BY <2>1 DEF Fresh
  <2>4. ASSUME NEW n \in Fresh', NEW x \in Macs \ {e}
        PROVE  fdb'[n][x] = fdb[n][x] /\ (<<n, x>> \in master' <=> <<n, x>> \in master)
    <3>1. n \in Nodes /\ n \in sandbox BY <1>0, <2>3, <2>4
    <3>2. fdb'[n] = Update(e, updated)[n] BY <2>2, <3>1 DEF Update
    <3>3. <<n, x>> \in master' <=> <<n, x>> \in master BY <2>1
    <3> QED BY <1>1, <2>4, <3>1, <3>2, <3>3
  <2> QED BY <1>0, <2>1, <2>3, <2>4
<1>4. PICK e \in Macs : Detach(e) \/ \E m \in Nodes : Attach(m, e) BY DEF Engine
<1>5. UNCHANGED <<pc, at, truth, read, named, plan>> /\ moved' = moved \cup {e}
  BY <1>4 DEF Detach, Attach, Moves
<1> QED BY <1>2, <1>3, <1>4, <1>5

LEMMA EngineVouched == ASSUME Vouched, Informed', Engine PROVE Vouched'
<1>0. TypeOK /\ Fresh \subseteq sandbox BY DEF Vouched, Informed, Named
<1>1. /\ UNCHANGED <<pc, at, truth, read, named, plan>>
      /\ Fresh' \subseteq Fresh /\ Fresh' \subseteq sandbox'
  BY <1>0, EngineKeeps
<1>2. \A e \in Macs : Stays(e)' => Stays(e) /\ home'[e] = home[e]
  BY <1>0, EngineKeeps DEF Stays
<1>3. \A n \in Fresh', e \in Macs : Stays(e)' =>
         fdb'[n][e] = fdb[n][e] /\ (<<n, e>> \in master' <=> <<n, e>> \in master)
  BY <1>0, EngineKeeps DEF Stays
<1>4. Gathered'
  BY <1>1, <1>2 DEF Vouched, Gathered, Gathering, Asked, Told
<1>5. Named'
  BY <1>1 DEF Vouched, Named, Gathering
<1>6. AsRead'
  BY <1>1, <1>2, <1>3 DEF Vouched, AsRead, Gathering, SameRows
<1>7. Repairing'
  <2> SUFFICES ASSUME (pc \in {"apply", "recheck"})', ~DryRun, NEW n \in Fresh', NEW e \in Macs, Stays(e)'
               PROVE  Covered(n, e)'
    BY DEF Repairing
  <2>1. Covered(n, e) BY <1>1, <1>2 DEF Vouched, Repairing
  <2>2. home'[e] = home[e] /\ fdb'[n][e] = fdb[n][e] /\ (<<n, e>> \in master' <=> <<n, e>> \in master)
    BY <1>2, <1>3
  <2> QED BY <1>1, <2>1, <2>2 DEF Covered, Want, RowPlanned, MasterPlanned
<1> QED BY <1>4, <1>5, <1>6, <1>7 DEF Vouched

(* What a node tells of its endpoints is in truth from then on. *)
LEMMA ReadEndpointsVouched == ASSUME Vouched, Informed', ReadEndpoints PROVE Vouched'
<1>1. /\ pc = "endpoints" /\ pc' = "fdb" /\ truth \subseteq truth'
      /\ truth' = truth \cup {<<e, NodeList[at]>> : e \in {x \in Macs : home[x] = NodeList[at]}}
      /\ UNCHANGED <<home, sandbox, fdb, master, at, read, named, stale, plan, moved>>
  BY DEF ReadEndpoints, engineVars
<1>2. at \in Nat BY ListFacts DEF Vouched, Informed, TypeOK
<1>3. ASSUME NEW i \in DOMAIN NodeList, Asked(i)' PROVE Told(NodeList[i])'
  <2>1. CASE i = at BY <1>1, <2>1 DEF Told, Stays
  <2>2. CASE i < at
    <3>1. Told(NodeList[i]) BY <1>1, <2>2 DEF Vouched, Gathered, Gathering, Asked
    <3> QED BY <1>1, <3>1 DEF Told, Stays
  <2> QED BY <1>1, <1>3, <2>1, <2>2 DEF Asked
<1>4. Gathered' BY <1>1, <1>3 DEF Gathered
<1>5. Named' /\ AsRead'
  BY <1>1 DEF Vouched, Named, AsRead, Gathering, Fresh, Stays, SameRows
<1> QED BY <1>1, <1>4, <1>5 DEF Vouched, Repairing

LEMMA ReadFdbVouched == ASSUME Vouched, Informed', ReadFdb PROVE Vouched'
<1> DEFINE n == NodeList[at]
<1>0. TypeOK BY DEF Vouched, Informed
<1>1. /\ pc = "fdb" /\ NextNode
      /\ UNCHANGED <<home, sandbox, fdb, master, truth, stale, plan, moved>>
  BY DEF ReadFdb, engineVars
<1>2. /\ at \in DOMAIN NodeList /\ at \in Nat /\ Len(NodeList) \in Nat
      /\ DOMAIN NodeList = 1 .. Len(NodeList) /\ n \in Nodes
  BY <1>0, ListFacts DEF TypeOK
<1>3. \A i \in DOMAIN NodeList : i <= at => Told(NodeList[i])
  BY <1>1, <1>2 DEF Vouched, Gathered, Gathering, Asked
<1>4. \A m \in Nodes : Told(m)' <=> Told(m) BY <1>1 DEF Told, Stays
<1>5. n \notin named BY <1>1, <1>2 DEF Vouched, Named, Gathering
<1>6. ASSUME at < Len(NodeList)
      PROVE  /\ Gathered' /\ pc' = "endpoints"
             /\ \A i \in DOMAIN NodeList : NodeList[i] \in named' => i < at'
  <2>1. at' = at + 1 /\ pc' = "endpoints" BY <1>1, <1>6 DEF NextNode
  <2>2. \A i \in DOMAIN NodeList : i < at' => i <= at BY <1>2, <2>1
  <2>3. Gathered'
    BY <1>2, <1>3, <1>4, <2>1, <2>2, ListFacts DEF Gathered, Gathering, Asked
  <2>4. \A i \in DOMAIN NodeList : i <= at => i < at' BY <1>2, <2>1
  <2>5. \A i \in DOMAIN NodeList : NodeList[i] \in named' => i < at'
    <3> SUFFICES ASSUME NEW i \in DOMAIN NodeList, NodeList[i] \in named' PROVE i < at'
      OBVIOUS
    <3>1. CASE NodeList[i] \in named
      BY <1>1, <1>2, <2>1, <3>1 DEF Vouched, Named, Gathering
    <3>2. CASE NodeList[i] \notin named
      <4>1. NodeList[i] = n BY <3>2 DEF ReadFdb
      <4>2. i = at BY <1>2, <4>1, NodeListAssumption
      <4> QED BY <1>2, <2>1, <4>2
    <3> QED BY <3>1, <3>2
  <2> QED BY <2>1, <2>3, <2>5
<1>7. ASSUME ~(at < Len(NodeList)) PROVE Gathered' /\ pc' = "plan"
  <2>1. at' = 1 /\ pc' = "plan" /\ at = Len(NodeList) BY <1>1, <1>2, <1>7 DEF NextNode
  <2>2. \A m \in Nodes : \E i \in DOMAIN NodeList : NodeList[i] = m /\ i <= at
    BY <1>2, <2>1 DEF Nodes
  <2>3. Gathered' BY <1>3, <1>4, <2>1, <2>2 DEF Gathered, Gathering
  <2> QED BY <2>1, <2>3
<1>8. CASE n \in sandbox
  <2>1. /\ read' = [fdb    |-> [read.fdb EXCEPT ![n] = fdb[n]],
                    master |-> read.master \cup {row \in master : row[1] = n}]
        /\ named' = named \cup {n}
    BY <1>8 DEF ReadFdb
  <2>2. /\ read'.fdb = [read.fdb EXCEPT ![n] = fdb[n]]
        /\ read'.master = read.master \cup {row \in master : row[1] = n}
    BY <2>1
  <2>3. Fresh' \subseteq Fresh \cup {n} /\ Fresh' \subseteq sandbox'
    BY <1>1, <1>8, <2>1 DEF Fresh, Vouched, Named
  <2>4. \A row \in read'.master : row[1] \in named'
    BY <2>1, <2>2 DEF Vouched, Named
  <2>5. ASSUME NEW m \in Fresh', NEW e \in Macs, Stays(e)' PROVE SameRows(m, e)'
    <3>1. read.fdb \in [Nodes -> Rows] /\ m \in Nodes
      BY <1>0, <1>2, <2>3, <2>5 DEF TypeOK, Fresh
    <3>2. CASE m = n
      <4>1. read'.fdb[m][e] = fdb[m][e] BY <2>2, <3>1, <3>2
      <4>2. <<m, e>> \notin read.master BY <1>5, <3>2 DEF Vouched, Named
      <4>3. <<m, e>> \in read'.master <=> <<m, e>> \in master BY <2>2, <3>2, <4>2
      <4> QED BY <1>1, <4>1, <4>3 DEF SameRows
    <3>3. CASE m # n
      <4>1. SameRows(m, e)
        BY <1>1, <2>3, <2>5, <3>3 DEF Vouched, AsRead, Gathering, Stays
      <4>2. read'.fdb[m] = read.fdb[m] BY <2>2, <3>1, <3>3
      <4>3. <<m, e>> \in read'.master <=> <<m, e>> \in read.master BY <2>2, <3>3
      <4> QED BY <1>1, <4>1, <4>2, <4>3 DEF SameRows
    <3> QED BY <3>2, <3>3
  <2>6. AsRead' BY <2>5 DEF AsRead
  <2>7. Named' BY <1>6, <1>7, <2>3, <2>4 DEF Named, Gathering
  <2> QED BY <1>6, <1>7, <2>6, <2>7 DEF Vouched, Repairing
<1>9. CASE n \notin sandbox
  <2>1. UNCHANGED <<read, named>> BY <1>9 DEF ReadFdb
  <2>2. Fresh' = Fresh BY <1>1, <2>1 DEF Fresh
  <2>3. AsRead'
    BY <1>1, <2>1, <2>2 DEF Vouched, AsRead, Gathering, Stays, SameRows
  <2>4. Named' BY <1>1, <1>6, <1>7, <2>1, <2>2 DEF Vouched, Named, Gathering
  <2> QED BY <1>6, <1>7, <2>3, <2>4 DEF Vouched, Repairing
<1> QED BY <1>8, <1>9

(* A plan made of what was read and is still so repairs every row that is wrong. *)
LEMMA PlanCovers ==
    ASSUME Vouched, pc = "plan", NEW n \in Fresh, NEW e \in Macs, Stays(e),
           plan' = UNION {PlanBody(m) \cup MasterPlan(m) : m \in named}
    PROVE  /\ home[e] # None /\ fdb[n][e] # Want(n, e) =>
                  \E r \in plan' : r.node = n /\ r.mac = e /\ r.action # "del-master"
           /\ home[e] = n /\ <<n, e>> \in master =>
                  \E r \in plan' : r.node = n /\ r.mac = e /\ r.action = "del-master"
<1>0. home[e] \in Nodes \cup {None} /\ n \in named /\ n \in Nodes
  BY DEF Vouched, Informed, TypeOK, Rows, Fresh
<1>1. PlanBody(n) \subseteq plan' /\ MasterPlan(n) \subseteq plan' BY <1>0
<1>2. SameRows(n, e) BY DEF Vouched, AsRead
<1>3. ASSUME home[e] # None PROVE <<e, home[e]>> \in Final
  <2>1. <<e, home[e]>> \in truth BY <1>0, <1>3 DEF Vouched, Gathered, Told
  <2>2. ASSUME NEW u \in truth, u[1] = e PROVE u = <<e, home[e]>>
    <3>1. home[u[1]] = u[2] BY <2>2 DEF Vouched, Informed, Known
    <3>2. u \in Macs \X Nodes BY DEF Vouched, Informed, TypeOK
    <3> QED BY <2>2, <3>1, <3>2
  <2> QED BY <2>1, <2>2 DEF Final
<1>4. ASSUME home[e] # None, fdb[n][e] # Want(n, e)
      PROVE  \E r \in PlanBody(n) : r.node = n /\ r.mac = e /\ r.action # "del-master"
  <2> DEFINE t == <<e, home[e]>>
  <2>1. t \in Final /\ t[1] = e /\ t[2] = home[e] BY <1>3, <1>4
  <2>2. CASE home[e] = n
    <3>1. read.fdb[n][e] # None BY <1>2, <1>4, <2>2 DEF SameRows, Want
    <3> DEFINE r == [node |-> n, action |-> "del", mac |-> t[1], dst |-> read.fdb[n][t[1]]]
    <3>2. r \in PlanBody(n) BY <2>1, <2>2, <3>1 DEF PlanBody
    <3>3. r.node = n /\ r.mac = e /\ r.action # "del-master" BY <2>1
    <3> QED BY <3>2, <3>3
  <2>3. CASE home[e] # n
    <3>1. read.fdb[n][e] # home[e] BY <1>2, <1>4, <2>3 DEF SameRows, Want
    <3> DEFINE r == [node |-> n, action |-> "replace", mac |-> t[1], dst |-> t[2]]
    <3>2. r \in PlanBody(n) BY <2>1, <2>3, <3>1 DEF PlanBody
    <3>3. r.node = n /\ r.mac = e /\ r.action # "del-master" BY <2>1
    <3> QED BY <3>2, <3>3
  <2> QED BY <2>2, <2>3
<1>5. ASSUME home[e] = n, <<n, e>> \in master
      PROVE  \E r \in MasterPlan(n) : r.node = n /\ r.mac = e /\ r.action = "del-master"
  <2> DEFINE t == <<e, n>>
             r == [node |-> n, action |-> "del-master", mac |-> t[1], dst |-> None]
  <2>1. t \in Final /\ t[1] = e /\ t[2] = n BY <1>0, <1>3, <1>5, NoneAssumption
  <2>2. <<n, e>> \in read.master BY <1>2, <1>5 DEF SameRows
  <2>3. r \in MasterPlan(n) BY <2>1, <2>2 DEF MasterPlan
  <2>4. r.node = n /\ r.mac = e /\ r.action = "del-master" BY <2>1
  <2> QED BY <2>3, <2>4
<1> QED BY <1>1, <1>4, <1>5

LEMMA MakePlanVouched == ASSUME Vouched, Informed', MakePlan PROVE Vouched'
<1>1. CASE Sleep BY <1>1, SleepVouched
<1>2. CASE ~Sleep
  <2>1. /\ pc = "plan" /\ pc' = "apply"
        /\ plan' = IF DryRun THEN {} ELSE UNION {PlanBody(n) \cup MasterPlan(n) : n \in named}
        /\ UNCHANGED <<home, sandbox, fdb, master, moved, at, truth, read, named, stale>>
    BY <1>2 DEF MakePlan, engineVars
  <2>2. Named' BY <2>1 DEF Vouched, Named, Fresh, Gathering
  <2>3. Repairing'
    <3> SUFFICES ASSUME ~DryRun, NEW n \in Fresh, NEW e \in Macs, Stays(e)
                 PROVE  Covered(n, e)'
      BY <2>1 DEF Repairing, Fresh, Stays
    <3>1. plan' = UNION {PlanBody(m) \cup MasterPlan(m) : m \in named} BY <2>1
    <3> QED BY <2>1, <3>1, PlanCovers DEF Covered, RowPlanned, MasterPlanned, Want
  <2> QED BY <2>1, <2>2, <2>3 DEF Vouched, Gathered, Gathering, AsRead
<1> QED BY <1>1, <1>2

LEMMA ApplyRowVouched == ASSUME Vouched, Informed', ApplyRow PROVE Vouched'
<1>0. Informed /\ TypeOK BY DEF Vouched, Informed
<1>1. /\ pc = "apply" /\ plan' = plan \ {Due} /\ Due.action # "del-master" /\ Due \in plan
      /\ fdb' = [fdb EXCEPT ![Due.node][Due.mac] = IF Due.action = "del" THEN None ELSE Due.dst]
      /\ UNCHANGED <<home, sandbox, master, pc, at, truth, read, named, stale, moved>>
  BY <1>0, DuePlanned DEF ApplyRow, TypeOK
<1>2. Fresh' = Fresh BY <1>1 DEF Fresh
<1>3. ASSUME ~DryRun, NEW n \in Fresh, NEW e \in Macs, Stays(e) PROVE Covered(n, e)'
  <2>0. n \in Nodes BY <1>0 DEF TypeOK, Fresh
  <2>1. Covered(n, e) BY <1>1, <1>3 DEF Vouched, Repairing
  <2>2. Want(n, e)' = Want(n, e) BY <1>1 DEF Want
  <2>3. MasterPlanned(n, e) => MasterPlanned(n, e)' BY <1>1 DEF MasterPlanned
  <2>4. CASE Due.node = n /\ Due.mac = e
    <3>1. Sound(Due) BY <1>0, <1>1, <1>3, <2>4 DEF Informed
    <3>2. Due.action \in {"del", "replace"} BY <1>0, <1>1 DEF TypeOK, Repair
    <3>3. fdb'[n][e] = IF Due.action = "del" THEN None ELSE Due.dst
      BY <1>0, <1>1, <2>0, <2>4 DEF TypeOK, Rows
    <3>4. fdb'[n][e] = Want(n, e) BY <2>4, <3>1, <3>2, <3>3 DEF Sound, Want
    <3> QED BY <1>1, <2>1, <2>2, <2>3, <3>4 DEF Covered
  <2>5. CASE ~(Due.node = n /\ Due.mac = e)
    <3>1. fdb'[n][e] = fdb[n][e]
      <4>1. Due.node \in Nodes /\ Due.mac \in Macs BY <1>0, <1>1 DEF TypeOK, Repair
      <4> QED BY <1>0, <1>1, <2>0, <2>5, <4>1 DEF TypeOK, Rows
    <3>2. RowPlanned(n, e) => RowPlanned(n, e)' BY <1>1, <2>5 DEF RowPlanned
    <3> QED BY <1>1, <2>1, <2>2, <2>3, <3>1, <3>2 DEF Covered
  <2> QED BY <2>4, <2>5
<1>4. Repairing' BY <1>1, <1>2, <1>3 DEF Repairing, Stays
<1> QED
  BY <1>1, <1>2, <1>4 DEF Vouched, Gathered, Gathering, Named, AsRead

LEMMA DelMasterVouched == ASSUME Vouched, Informed', DelMaster PROVE Vouched'
<1>0. Informed /\ TypeOK BY DEF Vouched, Informed
<1>1. /\ pc = "recheck" /\ pc' = "apply" /\ plan' = plan \ {Due} /\ Due.action = "del-master"
      /\ master' = master \ {<<Due.node, Due.mac>>}
      /\ UNCHANGED <<home, sandbox, fdb, at, truth, read, named, stale, moved>>
  BY <1>0 DEF DelMaster, Informed
<1>2. Fresh' = Fresh BY <1>1 DEF Fresh
<1>3. ASSUME ~DryRun, NEW n \in Fresh, NEW e \in Macs, Stays(e) PROVE Covered(n, e)'
  <2>1. Covered(n, e) BY <1>1, <1>3 DEF Vouched, Repairing
  <2>2. Want(n, e)' = Want(n, e) BY <1>1 DEF Want
  <2>3. RowPlanned(n, e) => RowPlanned(n, e)' BY <1>1 DEF RowPlanned
  <2>4. ASSUME <<n, e>> \in master', MasterPlanned(n, e) PROVE MasterPlanned(n, e)'
    BY <1>1, <2>4 DEF MasterPlanned
  <2> QED BY <1>1, <2>1, <2>2, <2>3, <2>4 DEF Covered
<1>4. Repairing' BY <1>1, <1>2, <1>3 DEF Repairing, Stays
<1> QED
  BY <1>1, <1>2, <1>4 DEF Vouched, Gathered, Gathering, Named, AsRead

LEMMA VouchedStep == Vouched /\ [Next]_vars => Vouched'
<1> SUFFICES ASSUME Vouched, [Next]_vars PROVE Vouched'
  OBVIOUS
<1>0. Informed' BY StepInformed DEF Vouched
<1>1. CASE Begin
  <2>1. /\ pc = "sleep" /\ pc' = "endpoints"
        /\ UNCHANGED <<sandbox, at, truth, read, named, stale, plan>>
    BY <1>1 DEF Begin, engineVars, cycleVars
  <2>2. named' = {} /\ at' = 1 BY <2>1 DEF Vouched, Named
  <2>3. Gathered'
    BY <2>1, <2>2, ListFacts DEF Gathered, Gathering, Asked
  <2>4. Fresh' = {} BY <2>2 DEF Fresh
  <2>5. Named' BY <2>1, <2>2, <2>4 DEF Vouched, Named, Gathering
  <2> QED BY <1>0, <2>1, <2>3, <2>4, <2>5 DEF Vouched, AsRead, Repairing
<1>2. CASE Recheck
  <2>1. /\ pc = "apply" /\ pc' = "recheck"
        /\ UNCHANGED <<home, sandbox, fdb, master, at, truth, read, named, stale, plan, moved>>
    BY <1>2 DEF Recheck, engineVars, cycleVars
  <2> QED
    BY <1>0, <2>1 DEF Vouched, Gathered, Gathering, Named, AsRead, Repairing, Fresh, Stays,
                      Covered, Want, RowPlanned, MasterPlanned
<1>3. CASE NoSandbox \/ Refused \/ Beat \/ SshFails
  BY <1>0, <1>3, SleepVouched DEF NoSandbox, Refused, Beat, SshFails, GatherFails, RepairFails
<1>4. CASE UNCHANGED vars
  <2>1. UNCHANGED <<home, sandbox, fdb, master, pc, at, truth, read, named, stale, plan, moved>>
    BY <1>4 DEF vars
  <2>2. Gathered' BY <2>1 DEF Vouched, Gathered, Gathering, Told, Asked, Stays
  <2>3. Named' /\ Fresh' = Fresh BY <2>1 DEF Vouched, Named, Gathering, Fresh
  <2>4. AsRead' BY <2>1, <2>3 DEF Vouched, AsRead, Gathering, Stays, SameRows
  <2>5. Repairing'
    BY <2>1, <2>3 DEF Vouched, Repairing, Stays, Covered, Want, RowPlanned, MasterPlanned
  <2> QED BY <1>0, <2>2, <2>3, <2>4, <2>5 DEF Vouched
<1> QED
  BY <1>0, <1>1, <1>2, <1>3, <1>4, EngineVouched, ReadEndpointsVouched, ReadFdbVouched, MakePlanVouched,
     ApplyRowVouched, DelMasterVouched DEF Next, Doctor

(***************************************************************************)
(* BeatVouches: after a cycle that wrote its heartbeat, each node it read  *)
(* reaches every endpoint that stayed put, for any list of nodes, however  *)
(* the engines and ssh behave (cycle, which ends early on any failure).    *)
(***************************************************************************)
THEOREM HeartbeatsAlwaysVouch == Spec => BeatVouches
<1> DEFINE A == Beat /\ ~DryRun => \A n \in named \ stale, e \in Macs \ moved : Right(n, e)
<1>1. Vouched => A
  <2> SUFFICES ASSUME Vouched, Beat, ~DryRun, NEW n \in Fresh, NEW e \in Macs, Stays(e)
               PROVE  Right(n, e)
    BY DEF Fresh, Stays
  <2>1. Covered(n, e) /\ plan = {} BY DEF Beat, Vouched, Repairing
  <2> QED BY <2>1 DEF Covered, RowPlanned, MasterPlanned, Right
<1>2. Vouched /\ [Next]_vars => [A]_vars BY <1>1
<1> QED BY <1>2, InitVouched, VouchedStep, PTL DEF Spec, BeatVouches
=============================================================================
